----------------------------- MODULE MCPrograms -----------------------------
(***************************************************************************)
(* What programs are made of, side by side: the ends of a pipe, the        *)
(* streams of the C library, its printf and scanf, lists and bitmaps, the  *)
(* shell, and the debugger of the kernel.  A behaviour is one of one of    *)
(* them.  The ends of a pipe come twice: three tasks that read, write and  *)
(* inherit, and, since a dup is not counted in the pipe, two tasks that    *)
(* also dup the reading end (the other one is like it) and only close.     *)
(***************************************************************************)
EXTENDS Pipe, Stdio, Shell, Scanf, Lists, Kdbg, TLC

VARIABLE part

programVars == <<part, vars, stdVars, shVars, scanVars, listVars, kdbgVars>>

-----------------------------------------------------------------------------
(* Lines of the shell: some that mean something, and every short line of words,
   blanks and symbols in which no symbol follows another.                   *)
SpacedSymbols(line) ==
    LET t == SelectSeq(line, LAMBDA c : c # Space)
    IN \A k \in 1..(Len(t) - 1) : t[k] \notin Symbols \/ t[k + 1] \notin Symbols

MCOddLines ==
    LET lines == UNION {[1..n -> {"x", Space, "|", ";", ">", "<"}] : n \in 1..4}
    IN {Append(line, Eol) : line \in {l \in lines : SpacedSymbols(l)}}

Run(name) == [CmdNew EXCEPT !.argv = <<<<name>>>>]
From(c, f) == [c EXCEPT !.infile = f]
To(c, f) == [c EXCEPT !.outfile = f]
OnTo(c, f) == [c EXCEPT !.outfile = f, !.append = TRUE]
Into(c) == [c EXCEPT !.pipe = TRUE]
With(c, word) == [c EXCEPT !.argv = Append(@, <<word>>)]

MCShellLines == {
    <<Into(Run("gen")), Run("cat")>>,
    <<Into(Run("gen")), Into(Run("cat")), Run("cat")>>,
    <<Into(Run("gen")), Into(Run("cat")), OnTo(Run("cat"), "f")>>,
    <<To(Run("gen"), "f"), From(Run("cat"), "f")>>,
    <<Into(From(Run("cat"), "f")), OnTo(Run("cat"), "g")>>,
    <<With(Run("cd"), "d"), Into(With(Run("gen"), "x")), Run("cat")>>,
    <<Run("bad"), To(Run("gen"), "f"), Run("gen")>>,
    <<Into(Run("gen")), Run("bad")>>,
    <<Into(Run("gen")), Into(Run("cat")), Run("cd")>>,
    <<Into(Run("cat")), From(Run("cat"), "f")>>,
    <<Into(Run("bad")), Into(Run("gen")), From(Run("cat"), "f")>>}

(* Directives of printf with every flag, and several in a row.              *)
Dir(flags, width, mods, conv) ==
    [flags |-> flags, width |-> width, star |-> width < 0 \/ width = 4, mods |-> mods, conv |-> conv]
Segment(lit, spec, val) == [lit |-> lit, spec |-> spec, arg |-> val]

MCPrintCases ==
    {[parts |-> <<Segment(<<>>, Dir(fl, w, m, c), v)>>, size |-> s] :
        fl \in SUBSET {"#", "0", "-", " ", "+"}, w \in {-4, 0, 1, 4, 5}, m \in {<<>>, <<"l">>},
        c \in {"d", "u", "x", "X", "o", "b"}, v \in {0, 9, 16, 31}, s \in {3, 8}}
    \cup {[parts |-> <<Segment(<<"a">>, Dir({}, w, <<>>, "d"), v), Segment(<<",">>, Dir(fl, w, <<>>, "s"), t),
                       Segment(<<>>, Dir({}, 0, <<>>, "x"), u)>>, size |-> s] :
        fl \in SUBSET {"-"}, w \in {0, 3}, v \in {0, 15, 31}, t \in {<<>>, <<"x", "y">>}, u \in {0, 31}, s \in 0..9}
    \cup {[parts |-> <<Segment(<<>>, Dir({}, 0, m, "d"), v), Segment(<<" ">>, Dir({}, w, <<>>, "u"), u),
                       Segment(<<",">>, Dir({}, 0, <<>>, "x"), v)>>, size |-> s] :
        m \in {<<>>, <<"l">>}, w \in {0, 4}, v \in {0, 15, 31}, u \in {9, 31}, s \in {5, 12}}

MCAscii == <<" ", "%", ",", "-", "0", "1", "2", "9", "X", "a", "b", "c", "d", "x">>
Strings(n, chars) == UNION {[1..k -> chars] : k \in 1..n}
SetCase(fmt, width, meant, str) == [fmt |-> fmt, width |-> width, meant |-> meant, str |-> str]

MCScanCases ==
    LET all == Range(MCAscii)
        text == Strings(3, {"a", "b", "d", "-", ",", " "})
    IN {SetCase(<<"%", "s">>, 0, all \ {" "}, str) : str \in text}
       \cup {SetCase(<<"%", "2", "s">>, 2, all \ {" "}, str) : str \in text}
       \cup {SetCase(<<"%", "[", "a", "-", "c", "]">>, 0, {"a", "b", "c"}, str) : str \in text}
       \cup {SetCase(<<"%", "2", "[", "-", "a", "]">>, 2, {"-", "a"}, str) : str \in text}
       \cup {SetCase(<<"%", "[", "^", ",", "]">>, 0, all \ {","}, str) : str \in text}
       \cup {SetCase(<<"%", "[", "^", "a", "-", "b", "-", "]">>, 0, all \ {"a", "b", "-"}, str) : str \in text}
       \cup {SetCase(<<"%", "d", ",", "%", "d">>, 0, {}, str) : str \in Strings(5, {"1", "9", ",", " "})}

MCFileData == <<1, 0, 255, 2>>
MCTaskQueue == <<1, 2>>

-----------------------------------------------------------------------------
(* A part that is not looked at stays in one initial state.                 *)
OnePrint == CHOOSE c \in MCPrintCases : TRUE
OneScan == CHOOSE c \in MCScanCases : TRUE

ProgramsInit ==
    /\ StdioInit /\ ShellInit /\ ListsInit /\ KdbgInit /\ Init
    /\ part # "stdio" => stdBusy = 1
    /\ part # "print" => printCase = OnePrint /\ printRes = NoPrint
    /\ part # "scan" => scanCase = OneScan /\ scanRes = NoScan

(* The parts.  scanf also reads what printf printed.                        *)
PartInit ==
    \/ part = "print" /\ PrintInit /\ ProgramsInit
    \/ part = "scan" /\ ScanInit /\ ProgramsInit
    \/ part \in {"ends", "dups", "stdio", "shell", "lists", "kdbg"} /\ ProgramsInit

OnlyCloses ==
    /\ \A d \in open : d[2] = "w" => d[3] = 1
    /\ \A t \in Tasks : pc[t] \notin Reading \cup Writing
    /\ \E t \in Tasks : pc[t] = "none"

PartNext ==
    /\ UNCHANGED part
    /\ \/ part = "ends" /\ Next /\ UNCHANGED <<dupped, stdVars, shVars, scanVars, listVars, kdbgVars>>
       \/ part = "dups" /\ Next /\ OnlyCloses' /\ UNCHANGED <<stdVars, shVars, scanVars, listVars, kdbgVars>>
       \/ part = "stdio" /\ StdioNext /\ UNCHANGED <<vars, shVars, scanVars, listVars, kdbgVars>>
       \/ part = "shell" /\ ShellNext /\ UNCHANGED <<vars, stdVars, scanVars, listVars, kdbgVars>>
       \/ part \in {"print", "scan"} /\ ScanNext /\ UNCHANGED <<vars, stdVars, shVars, listVars, kdbgVars>>
       \/ part = "lists" /\ ListsNext /\ UNCHANGED <<vars, stdVars, shVars, scanVars, kdbgVars>>
       \/ part = "kdbg" /\ KdbgNext /\ UNCHANGED <<vars, stdVars, shVars, scanVars, listVars>>

ProgramsSpec == PartInit /\ [][PartNext]_programVars

(* Of the ring only how much is in it matters here, not where.              *)
EndsView == <<Used, counts, lock, reaping, pc, rw>>

ProgramsView ==
    <<part, CASE part \in {"ends", "dups"} -> EndsView [] part = "stdio" -> stdVars [] part = "shell" -> shVars
              [] part \in {"print", "scan"} -> scanVars [] part = "lists" -> listVars [] part = "kdbg" -> kdbgVars>>

(* The tasks other than the creator of the pipe are interchangeable.        *)
Symmetry == Permutations(Tasks \ {Creator})
=============================================================================
