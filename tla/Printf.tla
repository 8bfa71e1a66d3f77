------------------------------- MODULE Printf -------------------------------
(***************************************************************************)
(* Formatted output (lib/vsnprintf.c): what a format and its arguments put *)
(* into a buffer of a given size.                                          *)
(*                                                                         *)
(* A format is a sequence of characters.  The arguments are the words of   *)
(* the stack behind it, WordSize values each (2^32 in the program); a word *)
(* that is a string's address is the string.                               *)
(***************************************************************************)
EXTENDS Naturals, Integers, Sequences, FiniteSets, SequencesExt, FiniteSetsExt

CONSTANTS
    WordSize,
    PrintCases  \* what is formatted: [parts, size], parts of [lit, spec, arg]

ASSUME PrintfAssumption == WordSize \in Nat /\ WordSize > 16 /\ WordSize % 2 = 0

VARIABLES printCase, printRes

printVars == <<printCase, printRes>>

NUL == "NUL"
Digits == <<"0", "1", "2", "3", "4", "5", "6", "7", "8", "9", "a", "b", "c", "d", "e", "f">>
CapitalDigits == SubSeq(Digits, 1, 10) \o <<"A", "B", "C", "D", "E", "F">>
DecimalDigits == {Digits[i] : i \in 1..10}
DigitValue(c) ==
    CHOOSE v \in 0..15 : Digits[v + 1] = c \/ CapitalDigits[v + 1] = c

FmtAt(fmt, p) == IF p > Len(fmt) THEN NUL ELSE fmt[p]
PastAll(fmt, p, set) == Min({q \in p..(Len(fmt) + 1) : q > Len(fmt) \/ fmt[q] \notin set})

(* get_atoi.                                                                *)
GetAtoi(fmt, p) ==
    FoldLeft(LAMBDA n, c : n * 10 + DigitValue(c), 0, SubSeq(fmt, p, PastAll(fmt, p, DecimalDigits) - 1))

-----------------------------------------------------------------------------
Times(n, c) == [i \in 1..n |-> c]
Pads(width, len) == IF width > len THEN width - len ELSE 0

(* fmt_chr and fmt_str.                                                     *)
FmtStr(s, width, flags) ==
    LET pad == Times(Pads(width, Len(s)), " ") IN IF "-" \in flags THEN s \o pad ELSE pad \o s

RECURSIVE DigitsOf(_, _, _)
DigitsOf(n, base, digits) ==
    IF n < base THEN <<digits[n + 1]>>
    ELSE Append(DigitsOf(n \div base, base, digits), digits[(n % base) + 1])

SignOf(num, flags) ==
    IF "signed" \in flags /\ num < 0 THEN <<"-">>
    ELSE IF "+" \in flags THEN <<"+">>
    ELSE IF " " \in flags THEN <<" ">> ELSE <<>>

PrefixOf(base, flags) ==
    IF "#" \notin flags THEN <<>>
    ELSE IF base = 8 THEN <<"0">>
    ELSE IF base = 16 THEN <<"0", IF "small" \in flags THEN "x" ELSE "X">> ELSE <<>>

(* Zeros go between the sign and the digits, and are not put on the right.  *)
Padded(altb, digits, npad, flags) ==
    IF "-" \in flags THEN altb \o digits \o Times(npad, " ")
    ELSE IF "0" \in flags THEN altb \o Times(npad, "0") \o digits
    ELSE Times(npad, " ") \o altb \o digits

IntPads(width, altb, digits) == Pads(width, Len(altb) + Len(digits))

(* fmt_int: num is a 64 bit number, of which one word is printed.           *)
FmtInt(num, base, width, flags) ==
    LET n == IF "signed" \in flags /\ num < 0 THEN (-num) % WordSize ELSE num % WordSize
        digits == DigitsOf(n, base, IF "small" \in flags THEN Digits ELSE CapitalDigits)
        altb == SignOf(num, flags) \o PrefixOf(base, flags)
    IN Padded(altb, digits, IntPads(width, altb, digits), flags)

-----------------------------------------------------------------------------
Signed(word) == IF word >= WordSize \div 2 THEN word - WordSize ELSE word
LongLong(args) == args[1] + WordSize * Signed(args[2])

(* The length modifiers; %h is taken for L_CHAR, whose bits make va_arg fetch a
   long long.                                                               *)
LengthOf(mods) ==
    FoldLeft(LAMBDA l, c : CASE c = "h" -> IF l = "char" THEN "short" ELSE "char"
                             [] c = "l" -> IF l = "long" THEN "llong" ELSE "long"
                             [] OTHER -> "double",
             "int", mods)

IntConversions == {"d", "i", "o", "b", "u", "x", "X", "p"}

(* The number an integer conversion takes from the arguments, and how many words
   it takes.                                                                *)
Wide(len) == len \in {"llong", "double", "char"}
NumberOf(conv, len, args) ==
    IF conv = "p" THEN args[1]
    ELSE IF Wide(len) THEN LongLong(args)
    ELSE IF len = "long" \/ conv \in {"d", "i"} THEN Signed(args[1])
    ELSE args[1]

BaseOf(conv) ==
    CASE conv \in {"x", "X", "p"} -> 16 [] conv = "o" -> 8 [] conv = "b" -> 2 [] OTHER -> 10

(* The parts of the directive behind a % at p - 1: flags, a width, given or an argument,
   a precision, which is skipped, and length modifiers.  (A second width, which
   would replace the first, is not written.)  A precision that is a star takes its
   argument, but the star is not skipped: it becomes the conversion.        *)
Directive(fmt, p, args) ==
    LET f == PastAll(fmt, p, {"#", "0", "-", " ", "+", "'", "I"})
        star == FmtAt(fmt, f) = "*"
        arg == IF star THEN Signed(args[1]) ELSE 0
        w == IF star THEN f + 1 ELSE PastAll(fmt, f, DecimalDigits)
        dot == FmtAt(fmt, w) = "."
        d == IF dot THEN PastAll(fmt, w + 1, DecimalDigits) ELSE w
        taken == (IF star THEN 1 ELSE 0) + (IF dot /\ FmtAt(fmt, w + 1) = "*" THEN 1 ELSE 0)
        l == PastAll(fmt, d, {"h", "l", "L"})
    IN [flags |-> {fmt[i] : i \in p..(f - 1)} \cup (IF arg < 0 THEN {"-"} ELSE {}),
        width |-> IF ~star THEN GetAtoi(fmt, f) ELSE IF arg < 0 THEN -arg ELSE arg,
        args |-> SubSeq(args, taken + 1, Len(args)),
        len |-> LengthOf(SubSeq(fmt, d, l - 1)),
        conv |-> FmtAt(fmt, l),
        end |-> l]

(* What a conversion prints.                                                *)
Converted(d) ==
    LET flags == d.flags \cup (IF d.conv \in {"d", "i"} THEN {"signed"} ELSE {})
                         \cup (IF d.conv \in {"x", "p"} THEN {"small"} ELSE {})
                         \cup (IF d.conv = "p" THEN {"#"} ELSE {})
    IN CASE d.conv \in IntConversions ->
                FmtInt(NumberOf(d.conv, d.len, d.args), BaseOf(d.conv), d.width, flags)
         [] d.conv \in {"s", "c"} -> FmtStr(d.args[1], d.width, flags)
         [] d.conv = "%" -> <<"%">>
         [] OTHER -> <<"%", d.conv>>

(* Faulty variant: a long takes two words.                                  *)
WordsTakenLong(d) ==
    IF d.conv \in IntConversions THEN IF d.len # "int" THEN 2 ELSE 1
    ELSE IF d.conv \in {"s", "c"} THEN 1 ELSE 0

WordsTaken(d) ==
    IF d.conv \in IntConversions THEN IF d.conv # "p" /\ Wide(d.len) THEN 2 ELSE 1
    ELSE IF d.conv \in {"s", "c"} THEN 1 ELSE 0

(* The characters vsnprintf puts, the NUL at the end too.  A format that ends
   inside a directive has none; a NUL that is printed with %c ends the format. *)
RECURSIVE FormatFrom(_, _, _), FormatDirective(_, _)
FormatFrom(fmt, p, args) ==
    IF FmtAt(fmt, p) = "%" THEN FormatDirective(fmt, Directive(fmt, p + 1, args))
    ELSE IF p > Len(fmt) THEN <<NUL>>
    ELSE <<fmt[p]>> \o FormatFrom(fmt, p + 1, args)

FormatDirective(fmt, d) ==
    IF d.conv = NUL THEN <<>>
    ELSE IF d.conv = "c" /\ d.args[1] = <<NUL>> THEN Converted(d)
    ELSE Converted(d) \o FormatFrom(fmt, d.end + 1, SubSeq(d.args, WordsTaken(d) + 1, Len(d.args)))

(* bputc: what of it is stored.                                             *)
Bputc(chars, size) == [i \in 1..Min({Len(chars), size}) |-> chars[i]]

(* The end of what was stored.                                              *)
Terminated(buf, n, size) ==
    IF n < size THEN [buf EXCEPT ![n + 1] = NUL]
    ELSE IF size > 0 THEN [buf EXCEPT ![size] = NUL] ELSE buf

Emitted(size, chars) ==
    LET n == Len(chars) - 1 IN [ret |-> n, buf |-> Terminated(Bputc(chars, size), n, size)]

Vsnprintf(size, fmt, args) == Emitted(size, FormatFrom(fmt, 1, args))

-----------------------------------------------------------------------------
(* A call is made of parts: text, one directive and its argument.  A directive
   with a star takes its width, perhaps negative, from the arguments.  Behind
   the arguments are other words of the stack.                              *)
SpecFmt(spec) ==
    <<"%">> \o SetToSeq(spec.flags)
    \o (IF spec.star THEN <<"*">> ELSE IF spec.width = 0 THEN <<>> ELSE <<Digits[spec.width + 1]>>)
    \o spec.mods \o <<spec.conv>>
FmtOf(parts) == FlattenSeq([i \in DOMAIN parts |-> parts[i].lit \o SpecFmt(parts[i].spec)])
ArgsOf(parts) ==
    FlattenSeq([i \in DOMAIN parts |->
        (IF parts[i].spec.star THEN <<parts[i].spec.width % WordSize>> ELSE <<>>) \o <<parts[i].arg>>])
    \o <<0, 0>>

NoPrint == [ret |-> 0, buf |-> <<>>]
PrintInit == printCase \in PrintCases /\ printRes = NoPrint

Snprintf ==
    /\ printRes = NoPrint
    /\ printRes' = Vsnprintf(printCase.size, FmtOf(printCase.parts), ArgsOf(printCase.parts))
    /\ UNCHANGED printCase

PrintNext == Snprintf

-----------------------------------------------------------------------------
(* The text a call prints, however small the buffer was.                    *)
Text(r) == SubSeq(r.buf, 1, r.ret)
TextOf(parts) == Text(Vsnprintf(Len(printRes.buf) + printRes.ret + 2, FmtOf(parts), ArgsOf(parts)))

(* What the flags mean by their comments: "put 0x infront 16, 0 on octals, b on
   binary", "place a space before positive number" and "show +/- on signed
   numbers, default only for -".                                            *)
SignMeant(spec, num) ==
    CASE num < 0 -> <<"-">>
      [] num >= 0 /\ "+" \in spec.flags /\ spec.conv = "d" -> <<"+">>
      [] num >= 0 /\ "+" \notin spec.flags /\ " " \in spec.flags -> <<" ">>
      [] OTHER -> <<>>
PrefixMeant(spec) ==
    CASE spec.conv = "x" -> <<"0", "x">> [] spec.conv = "X" -> <<"0", "X">>
      [] spec.conv = "o" -> <<"0">> [] spec.conv = "b" -> <<"b">> [] OTHER -> <<>>

(* Where the program does not do so: a plus is also put before the numbers of the
   unsigned conversions, and nothing before binary ones.                    *)
PlusOnUnsigned(spec) == "+" \in spec.flags /\ spec.conv # "d"
BareBinary(spec) == spec.conv = "b"

Lead(spec, num) ==
    (IF PlusOnUnsigned(spec) THEN <<"+">> ELSE SignMeant(spec, num))
    \o (IF "#" \notin spec.flags \/ BareBinary(spec) THEN <<>> ELSE PrefixMeant(spec))

(* A text is right for an integer directive: as many digits as the number needs,
   of its value, behind the sign and the prefix, and padding to the width only
   where the flags want it.                                                 *)
IntRight(spec, num, text) ==
    LET base == CASE spec.conv \in {"x", "X"} -> 16 [] spec.conv = "o" -> 8
                  [] spec.conv = "b" -> 2 [] OTHER -> 10
        m == IF num < 0 THEN -num ELSE num
        nd == Min({k \in 1..6 : base ^ k > m})
        lead == Lead(spec, num)
        n == Max({spec.width, -spec.width, Len(lead) + nd})
        left == "-" \in spec.flags \/ spec.width < 0
        zeros == "0" \in spec.flags /\ ~left
        leadAt == IF left \/ zeros THEN 0 ELSE n - nd - Len(lead)
        digitsAt == IF left THEN Len(lead) ELSE n - nd
    IN /\ Len(text) = n
       /\ FoldLeft(LAMBDA v, c : v * base + DigitValue(c), 0, SubSeq(text, digitsAt + 1, digitsAt + nd)) = m
       /\ SubSeq(text, leadAt + 1, leadAt + Len(lead)) = lead
       /\ \A i \in 1..n : i \in (leadAt + 1)..(leadAt + Len(lead)) \/ i \in (digitsAt + 1)..(digitsAt + nd)
                          \/ text[i] = (IF zeros THEN "0" ELSE " ")

(* Every integer directive prints its argument as its flags, width and base say,
   but for the plus of unsigned and the prefix of binary numbers (fmt_int; not
   with the modifier h, which takes two words).                             *)
IntsPrintedRight ==
    printRes # NoPrint =>
        \A i \in DOMAIN printCase.parts :
            LET p == printCase.parts[i]
                num == IF p.spec.conv = "d" THEN Signed(p.arg) ELSE p.arg
            IN p.spec.conv \in {"d", "u", "x", "X", "o", "b"} =>
                   IntRight(p.spec, num, TextOf(<<[p EXCEPT !.lit = <<>>]>>))

(* The parts of a format do not disturb each other: a call prints what calls for
   its parts print, one after the other, each with its own argument.        *)
PartsIndependent ==
    printRes # NoPrint =>
        TextOf(printCase.parts) =
            FlattenSeq([i \in DOMAIN printCase.parts |-> TextOf(<<printCase.parts[i]>>)])

Keeps(r, size, text) ==
    LET kept == Min({size - 1, Len(text)})
    IN /\ r.ret = Len(text)
       /\ Len(r.buf) <= size
       /\ size > 0 => SubSeq(r.buf, 1, kept + 1) = SubSeq(text, 1, kept) \o <<NUL>>

(* The buffer gets no more than its size, the beginning of the text and its end
   mark; the length that is returned is that of the whole text.             *)
BufferRespected == printRes # NoPrint => Keeps(printRes, printCase.size, TextOf(printCase.parts))

(* snprintf prints every directive as its flags say, but for %+u and %#b and their
   like, whatever stands before it, and stays in its buffer.                *)
PrintfSafety ==
    /\ IntsPrintedRight
    /\ PartsIndependent
    /\ BufferRespected
=============================================================================
