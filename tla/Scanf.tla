-------------------------------- MODULE Scanf --------------------------------
(***************************************************************************)
(* Formatted input (lib/vsscanf.c): what a format reads from a string, and *)
(* that it reads back what Printf prints.                                  *)
(*                                                                         *)
(* Numbers are stored in a word; the modifier h, which stores a char, and  *)
(* hh, which stores a short, are not asked for.                            *)
(***************************************************************************)
EXTENDS Printf

CONSTANTS
    Ascii,      \* the characters that occur, in the order of their codes
    ScanCases   \* what is read: [fmt, str, meant], a set of characters or none

VARIABLES scanCase, scanRes

scanVars == <<printVars, scanCase, scanRes>>

IsSpace(c) == c = " "
PastSpaces(str, q) == PastAll(str, q, {" "})

-----------------------------------------------------------------------------
(* build_set at the bracket p: the characters it names; a - names the ones
   between its neighbours, unless it stands first or last.                  *)
Between(a, b) ==
    LET i == CHOOSE k \in DOMAIN Ascii : Ascii[k] = a
        j == CHOOSE k \in DOMAIN Ascii : Ascii[k] = b
    IN {Ascii[k] : k \in i..j}

NamedAt(fmt, i) ==
    IF fmt[i] # "-" THEN {fmt[i]}
    ELSE IF fmt[i - 1] = "[" \/ FmtAt(fmt, i + 1) = "]" THEN {"-"}
    ELSE Between(fmt[i - 1], fmt[i + 1])

BuildSet(fmt, p) ==
    LET neg == FmtAt(fmt, p + 1) = "^"
        s == IF ~neg THEN p + 1 ELSE IF FmtAt(fmt, p + 2) = "]" THEN p + 3 ELSE p + 2
        ends == {i \in s..Len(fmt) : fmt[i] = "]"}
        end == Min(ends)
        named == UNION {NamedAt(fmt, i) : i \in s..(end - 1)}
    IN IF ends = {} THEN [ok |-> FALSE]
       ELSE [ok |-> TRUE, end |-> end, set |-> IF neg THEN Range(Ascii) \ named ELSE named]

(* valid_sint.                                                              *)
IsDigitOf(c, base) ==
    \E v \in 0..(base - 1) : c = Digits[v + 1] \/ c = CapitalDigits[v + 1]
ValidSint(c, base, sign) == IsDigitOf(c, base) \/ (base = 10 /\ sign /\ c \in {"-", "+"})

(* Faulty variant: the 0x in front of a number ends it.                     *)
SkipsXNever(c, s) == FALSE

SkipsX(c, s) == s.base = 16 /\ ~s.xskip /\ c \in {"x", "X"}

(* get_int: a - and an x may stand anywhere among the digits.               *)
RECURSIVE GetInt(_, _, _)
GetInt(str, q, s) ==
    LET c == FmtAt(str, q)
        spent == IF s.w THEN [s EXCEPT !.width = @ - 1] ELSE s
    IN IF c = "-" /\ s.sign /\ ~s.neg /\ s.base = 10 THEN GetInt(str, q + 1, [spent EXCEPT !.neg = TRUE])
       ELSE IF SkipsX(c, s) THEN GetInt(str, q + 1, [s EXCEPT !.xskip = TRUE, !.n = 0])
       ELSE IF c = NUL \/ (s.w /\ s.width = 0) \/ ~IsDigitOf(c, s.base)
            THEN [n |-> IF s.neg THEN -s.n ELSE s.n, end |-> q]
       ELSE GetInt(str, q + 1, [spent EXCEPT !.n = @ * s.base + DigitValue(c)])

(* get_str: where what a set takes, of up to width characters, ends.        *)
GetStrEnd(str, q, set, width) ==
    LET end == PastAll(str, q, set) IN IF width > 0 THEN Min({end, q + width}) ELSE end

-----------------------------------------------------------------------------
(* The parts of a directive behind the % at p - 1.                          *)
ScanDirective(fmt, p) ==
    LET f == PastAll(fmt, p, {"*", "m"})
        w == IF FmtAt(fmt, f) \in DecimalDigits \ {"0"} THEN PastAll(fmt, f, DecimalDigits) ELSE f
        l == PastAll(fmt, w, {"h", "l", "L"})
    IN [skip |-> \E i \in p..(f - 1) : fmt[i] = "*", width |-> GetAtoi(SubSeq(fmt, f, w - 1), 1),
        conv |-> FmtAt(fmt, l), at |-> l]

Stored(n) == Signed(n % WordSize)

(* What one directive reads at q: did it match, where the string and the format
   go on, what is stored, and is it counted?                                *)
NoMatch == [ok |-> FALSE]
Match(q, next, val, counted) == [ok |-> TRUE, q |-> q, next |-> next, val |-> val, counted |-> counted]

ScanInt(d, str, q) ==
    LET s == PastSpaces(str, q)
        sign == d.conv \in {"d", "i"}
        base == BaseOf(d.conv)
        r == GetInt(str, s, [n |-> 0, neg |-> FALSE, xskip |-> FALSE, w |-> d.width > 0,
                             width |-> d.width, base |-> base, sign |-> sign])
    IN IF ValidSint(FmtAt(str, s), base, sign) THEN Match(r.end, d.at + 1, <<Stored(r.n)>>, TRUE) ELSE NoMatch

ScanText(d, str, q, set, next, counted) ==
    LET end == GetStrEnd(str, q, set, d.width) IN Match(end, next, SubSeq(str, q, end - 1), counted)

ScanOne(fmt, d, str, q) ==
    LET b == BuildSet(fmt, d.at)
    IN CASE d.conv \in IntConversions \ {"p"} -> ScanInt(d, str, q)
         [] d.conv = "c" -> Match(q + 1, d.at + 1, <<str[q]>>, TRUE)
         [] d.conv = "s" -> ScanText(d, str, q, Range(Ascii) \ {" "}, d.at + 1, TRUE)
         [] d.conv = "[" -> IF b.ok THEN ScanText(d, str, q, b.set, b.end + 1, FALSE) ELSE NoMatch
         [] d.conv = "%" -> IF str[q] = "%" THEN Match(q + 1, d.at + 1, <<>>, FALSE) ELSE NoMatch
         [] OTHER -> NoMatch

(* A character of the format: a space stands for any number of them.  Behind a
   character that does not match nothing is read.                           *)
LiteralEnd(c, str, q) ==
    IF IsSpace(c) THEN PastSpaces(str, q) ELSE IF c = str[q] THEN q + 1 ELSE Len(str) + 1

RECURSIVE ScanFrom(_, _, _, _, _)
ScanFrom(fmt, p, str, q, acc) ==
    IF p > Len(fmt) \/ q > Len(str) THEN acc
    ELSE IF fmt[p] # "%" THEN ScanFrom(fmt, p + 1, str, LiteralEnd(fmt[p], str, q), acc)
    ELSE LET d == ScanDirective(fmt, p + 1)
             m == ScanOne(fmt, d, str, q)
         IN IF ~m.ok THEN acc
            ELSE ScanFrom(fmt, m.next, str, m.q,
                          IF d.skip \/ d.conv = "%" THEN acc
                          ELSE [n |-> IF m.counted THEN acc.n + 1 ELSE acc.n, vals |-> Append(acc.vals, m.val)])

Vsscanf(str, fmt) == ScanFrom(fmt, 1, str, 1, [n |-> 0, vals |-> <<>>])

-----------------------------------------------------------------------------
NoScan == [n |-> -1, vals |-> <<>>]
ScanInit == scanCase \in ScanCases /\ scanRes = NoScan

Plain(spec) == [spec EXCEPT !.flags = {}, !.width = 0, !.star = FALSE]
PlainFmt(parts) == FmtOf([i \in DOMAIN parts |-> [parts[i] EXCEPT !.spec = Plain(@)]])

(* What was printed is read with the same conversions.                      *)
SscanfPrinted ==
    /\ printRes # NoPrint /\ scanRes = NoScan
    /\ Len(printRes.buf) > printRes.ret
    /\ scanRes' = Vsscanf(SubSeq(printRes.buf, 1, printRes.ret), PlainFmt(printCase.parts))
    /\ UNCHANGED <<printVars, scanCase>>

SscanfCase ==
    /\ printRes = NoPrint /\ scanRes = NoScan
    /\ scanRes' = Vsscanf(scanCase.str, scanCase.fmt)
    /\ UNCHANGED <<printVars, scanCase>>

ScanNext ==
    \/ Snprintf /\ scanRes = NoScan /\ UNCHANGED <<scanCase, scanRes>>
    \/ SscanfPrinted \/ SscanfCase

-----------------------------------------------------------------------------
(* Numbers that were printed are read back, whatever their base, sign and
   padding (but for the flag +, at whose sign get_int stops).               *)
ReadsBack ==
    LET parts == printCase.parts IN
    /\ printRes # NoPrint /\ scanRes # NoScan
    /\ \A i \in DOMAIN parts : parts[i].spec.conv \in IntConversions /\ "+" \notin parts[i].spec.flags
    => scanRes = [n |-> Len(parts), vals |-> [i \in DOMAIN parts |-> <<Stored(parts[i].arg)>>]]

(* %s and %[ take the longest beginning that their set and width allow.  The
   "number of matched input items" counts what %s stores, but not what %[ does,
   behind which n is not increased.                                         *)
TakesSet ==
    printRes = NoPrint /\ scanRes # NoScan /\ scanCase.meant # {} =>
        /\ Len(scanRes.vals) = 1
        /\ scanRes.n = IF "[" \in Range(scanCase.fmt) THEN 0 ELSE 1
        /\ LET val == scanRes.vals[1]
               n == Len(val)
           IN /\ val = SubSeq(scanCase.str, 1, n)
              /\ Range(val) \subseteq scanCase.meant
              /\ n = scanCase.width \/ n = Len(scanCase.str) \/ scanCase.str[n + 1] \notin scanCase.meant

(* "%d,%d" counts and stores the numbers that are there: the second only behind
   a comma that follows the first at once.                                  *)
FieldsCounted ==
    printRes = NoPrint /\ scanRes # NoScan /\ scanCase.meant = {} =>
        LET str == scanCase.str
            a == PastSpaces(str, 1)
            b == PastAll(str, a, DecimalDigits)
            c == PastSpaces(str, b + 1)
            d == PastAll(str, c, DecimalDigits)
            first == b > a
            second == first /\ FmtAt(str, b) = "," /\ d > c
        IN scanRes = [n |-> IF second THEN 2 ELSE IF first THEN 1 ELSE 0,
                      vals |-> (IF first THEN <<<<Stored(GetAtoi(str, a))>>>> ELSE <<>>)
                               \o (IF second THEN <<<<Stored(GetAtoi(str, c))>>>> ELSE <<>>)]

(* sscanf reads back what snprintf printed, takes what its sets name, and counts
   what it stored, but for what %[ stored.                                  *)
ScanfSafety ==
    /\ ReadsBack
    /\ TakesSet
    /\ FieldsCounted
=============================================================================
