-------------------------------- MODULE Shell --------------------------------
(***************************************************************************)
(* The shell (bin/cosh.c): a line is cut into tokens and commands, which   *)
(* are started with their redirections and pipes and waited for, while the *)
(* programs run.                                                           *)
(*                                                                         *)
(* A line is a sequence of characters; a word counts as one.  Lines end in *)
(* a newline, as the terminal delivers them, and are shorter than a token  *)
(* may be; a quote that is not closed, behind which get_token reads on past*)
(* the end of the line, is not typed.  Programs are of three kinds: "gen"  *)
(* writes GenBytes bytes, "cat" copies its input to its output, "cd" is    *)
(* the builtin; another name cannot be executed.                           *)
(***************************************************************************)
EXTENDS Naturals, Integers, Sequences, FiniteSets, SequencesExt, FiniteSetsExt

CONSTANTS
    MAX_ARGV,
    ShellLines,     \* what is typed: sequences of commands
    OddLines,       \* lines that are only parsed, in which no symbol follows another
    GenBytes, PipeBytes,
    MaxLost         \* bound: with more descriptors lost no line is read

ASSUME ShellAssumption ==
    MAX_ARGV \in Nat \ {0} /\ GenBytes \in Nat /\ PipeBytes \in Nat \ {0} /\ MaxLost \in Nat

VARIABLES
    shPc,       \* "prompt", "cmd", "forked", "wait", "clean" or "odd"
    shMeant,    \* the commands that were typed
    shRet,      \* what parse returned
    shCmds,     \* the list of cmd_t
    shAt,       \* the command exec_commands is at
    shPipe,     \* its fd[2]
    shFds,      \* the shell's descriptors
    shLost,     \* those whose number the shell has forgotten
    shKids,     \* the child of each command
    shQueue,    \* bytes in the pipe behind each command
    shFg        \* the foreground process: 0 is the shell

shVars == <<shPc, shMeant, shRet, shCmds, shAt, shPipe, shFds, shLost, shKids, shQueue, shFg>>

NoFd == -1
NoName == "-"
Space == " "
Eol == "\n"
Quote == "\""
Symbols == {"<", ">", "|", ";", Quote}

(* cmd_new.                                                                 *)
CmdNew == [argv |-> <<>>, outfile |-> NoName, infile |-> NoName, append |-> FALSE, pipe |-> FALSE,
           fdin |-> NoFd, fdout |-> NoFd]

-----------------------------------------------------------------------------
(* The characters of a line; behind the last one is the NUL.                *)
CharAt(line, p) == IF p > Len(line) THEN "NUL" ELSE line[p]
FirstAt(line, p, chars, in) == Min({q \in p..(Len(line) + 1) : q > Len(line) \/ (line[q] \in chars) = in})

(* get_token: a token that ends the line is not returned.                   *)
GetToken(line, p) ==
    LET s == FirstAt(line, p, {Space, Eol}, FALSE)
        c == CharAt(line, s)
        close == FirstAt(line, s + 1, {Quote}, TRUE)
        end == CASE c = Quote -> close + 1
                 [] c = ">" -> IF CharAt(line, s + 1) = ">" THEN s + 2 ELSE s + 1
                 [] c \in Symbols \ {">", Quote} -> s + 1
                 [] OTHER -> FirstAt(line, s, {Space, Eol} \cup Symbols, TRUE)
        tok == IF c = Quote THEN SubSeq(line, s + 1, close - 1) ELSE SubSeq(line, s, end - 1)
    IN [ok |-> c # "NUL" /\ CharAt(line, end) # "NUL", tok |-> tok, end |-> end]

Failure(cmds) == [ret |-> -1, cmds |-> cmds]
SetLast(cmds, c) == [cmds EXCEPT ![Len(cmds)] = c]

(* Faulty variant: nothing is asked of what follows a pipe.                 *)
PipeFollowedAny(line, p) == TRUE

(* A pipe is followed by another token.                                     *)
PipeFollowed(line, p) == GetToken(line, p).ok

Appends(tok) == Len(tok) > 1 /\ tok[2] = ">"

(* parse, from a position on and with the commands that were found before.  *)
RECURSIVE ParseFrom(_, _, _)
ParseFrom(line, p, cmds) ==
    LET t == GetToken(line, p)
        f == GetToken(line, t.end)
        sym == IF t.tok # <<>> THEN t.tok[1] ELSE Space
        cmd == IF cmds = <<>> THEN CmdNew ELSE Last(cmds)
    IN IF ~t.ok THEN [ret |-> 0, cmds |-> cmds]
       ELSE IF sym \notin Symbols THEN
            IF Len(cmd.argv) + 1 >= MAX_ARGV THEN Failure(cmds)
            ELSE LET c == [cmd EXCEPT !.argv = Append(@, t.tok)]
                 IN ParseFrom(line, t.end, IF cmds = <<>> THEN <<c>> ELSE SetLast(cmds, c))
       ELSE IF cmds = <<>> THEN Failure(cmds)
       ELSE IF sym \in {"<", ">"} THEN
            IF ~f.ok THEN Failure(cmds)
            ELSE ParseFrom(line, f.end, SetLast(cmds,
                     IF sym = "<" THEN [cmd EXCEPT !.infile = f.tok[1]]
                     ELSE [cmd EXCEPT !.outfile = f.tok[1], !.append = @ \/ Appends(t.tok)]))
       ELSE IF sym = "|" /\ ~PipeFollowed(line, t.end) THEN Failure(cmds)
       ELSE ParseFrom(line, t.end,
                      Append(SetLast(cmds, [cmd EXCEPT !.pipe = @ \/ sym = "|"]), CmdNew))

Parse(line) == ParseFrom(line, 1, <<>>)

(* What is typed for a list of commands, with or without spaces around the
   symbols.                                                                 *)
Typed(cmds, tight) ==
    LET gap == IF tight THEN <<>> ELSE <<Space>>
        Cmd(c) == FlattenSeq([i \in 1..Len(c.argv) |-> IF i = 1 THEN c.argv[i] ELSE <<Space>> \o c.argv[i]])
                  \o (IF c.infile = NoName THEN <<>> ELSE gap \o <<"<">> \o gap \o <<c.infile>>)
                  \o (IF c.outfile = NoName THEN <<>>
                      ELSE gap \o (IF c.append THEN <<">", ">">> ELSE <<">">>) \o gap \o <<c.outfile>>)
    IN FlattenSeq([i \in 1..Len(cmds) |->
           Cmd(cmds[i]) \o (IF i = Len(cmds) THEN <<Eol>>
                            ELSE gap \o (IF cmds[i].pipe THEN <<"|">> ELSE <<";">>) \o gap)])

-----------------------------------------------------------------------------
(* Descriptors refer to the terminal, a file, or an end of the pipe behind the
   k-th command.                                                            *)
Object(kind, k) == [kind |-> kind, pipe |-> k]
Terminal == Object("tty", 0)
LowestFree(fds) == Min({n \in 0..(Cardinality(DOMAIN fds)) : n \notin DOMAIN fds})
OpenedFd(fds, object) == [n \in DOMAIN fds \cup {LowestFree(fds)} |-> IF n \in DOMAIN fds THEN fds[n] ELSE object]
ClosedFd(fds, n) == [m \in DOMAIN fds \ {n} |-> fds[m]]
DupTo(fds, n, from) == OpenedFd(ClosedFd(fds, n), fds[from])

NoFds == [n \in {} |-> Terminal]
NoKid == [st |-> "none", fds |-> NoFds, pipe |-> <<NoFd, NoFd>>, left |-> 0, held |-> FALSE]

ShellInit ==
    /\ shPc = "prompt" /\ shMeant = <<>> /\ shRet = 0 /\ shCmds = <<>> /\ shAt = 0
    /\ shPipe = <<NoFd, NoFd>>
    /\ shFds = [n \in 0..2 |-> Terminal] /\ shLost = {}
    /\ shKids = <<>> /\ shQueue = <<>> /\ shFg = 0

(* main: a line is read and parsed.                                         *)
ReadLine(cmds, tight) ==
    LET parsed == Parse(Typed(cmds, tight)) IN
    /\ shPc = "prompt" /\ Cardinality(shLost) <= MaxLost
    /\ shMeant' = cmds /\ shRet' = parsed.ret /\ shCmds' = parsed.cmds
    /\ shPc' = IF parsed.ret < 0 THEN "clean" ELSE "cmd"
    /\ shAt' = 1
    /\ shKids' = [i \in 1..Len(parsed.cmds) |-> NoKid]
    /\ shQueue' = [i \in 1..Len(parsed.cmds) |-> 0]
    /\ UNCHANGED <<shPipe, shFds, shLost, shFg>>

ReadOdd(line) ==
    LET parsed == Parse(line) IN
    /\ shPc = "prompt" /\ shMeant = <<>>
    /\ shPc' = "odd" /\ shRet' = parsed.ret /\ shCmds' = parsed.cmds
    /\ UNCHANGED <<shMeant, shAt, shPipe, shFds, shLost, shKids, shQueue, shFg>>

(* The descriptors opened for a command: the pipe's two, or the output file,
   then the input file; open() may fail.                                    *)
WithPipe(s, i) ==
    LET r == LowestFree(s.fds)
        fds == OpenedFd(s.fds, Object("read", i))
    IN [fds |-> OpenedFd(fds, Object("write", i)), pipe |-> <<r, LowestFree(fds)>>,
        cmd |-> [s.cmd EXCEPT !.fdout = LowestFree(fds)]]

WithOut(s, ok) ==
    IF ok THEN [s EXCEPT !.fds = OpenedFd(@, Object("file", 0)), !.cmd.fdout = LowestFree(s.fds)]
    ELSE [s EXCEPT !.cmd.fdout = NoFd]
WithIn(s, ok) ==
    IF ok THEN [s EXCEPT !.fds = OpenedFd(@, Object("file", 0)), !.cmd.fdin = LowestFree(s.fds)]
    ELSE [s EXCEPT !.cmd.fdin = NoFd]

Prepared(i, outOk, inOk) ==
    LET c == shCmds[i]
        s == [fds |-> shFds, pipe |-> shPipe, cmd |-> c]
        t == IF c.pipe THEN WithPipe(s, i) ELSE IF c.outfile # NoName THEN WithOut(s, outOk) ELSE s
    IN IF c.infile # NoName THEN WithIn(t, inOk) ELSE t

(* The reading end of the pipe before a command that also has an input file: its
   number is overwritten, and nobody closes it.                             *)
Forgotten(c) == IF c.infile = NoName THEN {} ELSE {c.fdin} \ {NoFd}

IsCd(c) == c.argv[1] = <<"cd">>

(* exec_commands: the builtin, or descriptors and a child for the next command. *)
ExecCd ==
    /\ shPc = "cmd" /\ shAt <= Len(shCmds) /\ IsCd(shCmds[shAt])
    /\ shAt' = shAt + 1
    /\ UNCHANGED <<shPc, shMeant, shRet, shCmds, shPipe, shFds, shLost, shKids, shQueue, shFg>>

ExecFork(outOk, inOk) ==
    /\ shPc = "cmd" /\ shAt <= Len(shCmds) /\ ~IsCd(shCmds[shAt])
    /\ LET s == Prepared(shAt, outOk, inOk) IN
       /\ shFds' = s.fds /\ shPipe' = s.pipe
       /\ shLost' = shLost \cup Forgotten(shCmds[shAt])
       /\ shCmds' = [shCmds EXCEPT ![shAt] = s.cmd]
       /\ shKids' = [shKids EXCEPT ![shAt] =
              [NoKid EXCEPT !.st = "forked", !.fds = s.fds, !.pipe = s.pipe,
                            !.left = IF s.cmd.argv[1] = <<"gen">> THEN GenBytes ELSE 0]]
    /\ shPc' = "forked"
    /\ UNCHANGED <<shMeant, shRet, shAt, shQueue, shFg>>

(* Faulty variant: the shell keeps its writing end of the pipe.             *)
ParentClosesNone(fds, pipe) == fds

ParentCloses(fds, pipe) == ClosedFd(fds, pipe[2])

(* The shell after fork: the reading end is the next command's input.       *)
ExecParent ==
    /\ shPc = "forked"
    /\ IF shCmds[shAt].pipe
       THEN /\ shCmds' = [shCmds EXCEPT ![shAt + 1].fdin = shPipe[1]]
            /\ shFds' = ParentCloses(shFds, shPipe)
       ELSE UNCHANGED <<shCmds, shFds>>
    /\ shPc' = "cmd" /\ shAt' = shAt + 1
    /\ UNCHANGED <<shMeant, shRet, shPipe, shLost, shKids, shQueue, shFg>>

-----------------------------------------------------------------------------
Name(i) == shCmds[i].argv[1][1]
Gone == [NoKid EXCEPT !.st = "zombie"]
SetKid(i, kid) == shKids' = [shKids EXCEPT ![i] = kid]
ShellSame == UNCHANGED <<shPc, shMeant, shRet, shCmds, shAt, shPipe, shFds, shLost>>

(* close(n), dup(fd).                                                       *)
Connected(fds, n, fd) == IF fd > 0 THEN DupTo(fds, n, fd) ELSE fds

(* The child up to execvp.  One whose output is the terminal becomes the
   foreground process.                                                      *)
ChildSetup(i) ==
    LET c == shCmds[i]
        fds == IF c.pipe THEN ClosedFd(shKids[i].fds, shKids[i].pipe[1]) ELSE shKids[i].fds
    IN /\ shKids[i].st = "forked"
       /\ SetKid(i, [shKids[i] EXCEPT !.st = "runs", !.fds = Connected(Connected(fds, 1, c.fdout), 0, c.fdin)])
       /\ shFg' = IF c.fdout > 0 THEN shFg ELSE i
       /\ ShellSame /\ UNCHANGED shQueue

(* The programs and the pipes between them.                                 *)
AllFds == {shFds} \cup {shKids[i].fds : i \in DOMAIN shKids}
HasEnd(kind, k) == \E fds \in AllFds : \E n \in DOMAIN fds : fds[n] = Object(kind, k)

OutOf(i) == shKids[i].fds[1]
InOf(i) == shKids[i].fds[0]
Pending(i) == shKids[i].left > 0 \/ shKids[i].held
CanWrite(i) ==
    /\ shKids[i].st = "runs" /\ Pending(i)
    /\ OutOf(i).kind = "write" => HasEnd("read", OutOf(i).pipe) /\ shQueue[OutOf(i).pipe] < PipeBytes
CanRead(i) ==
    /\ shKids[i].st = "runs" /\ Name(i) = "cat" /\ ~Pending(i)
    /\ InOf(i).kind = "read" /\ shQueue[InOf(i).pipe] > 0
AtEof(i) == InOf(i).kind = "read" => shQueue[InOf(i).pipe] = 0 /\ ~HasEnd("write", InOf(i).pipe)
CanExit(i) ==
    /\ shKids[i].st = "runs"
    /\ \/ Name(i) \notin {"gen", "cat"}
       \/ Pending(i) /\ OutOf(i).kind = "write" /\ ~HasEnd("read", OutOf(i).pipe)
       \/ Name(i) = "gen" /\ ~Pending(i)
       \/ Name(i) = "cat" /\ ~Pending(i) /\ AtEof(i)

KidWrites(i) ==
    /\ CanWrite(i)
    /\ SetKid(i, IF shKids[i].held THEN [shKids[i] EXCEPT !.held = FALSE] ELSE [shKids[i] EXCEPT !.left = @ - 1])
    /\ shQueue' = IF OutOf(i).kind = "write" THEN [shQueue EXCEPT ![OutOf(i).pipe] = @ + 1] ELSE shQueue
    /\ ShellSame /\ UNCHANGED shFg

KidReads(i) ==
    /\ CanRead(i)
    /\ SetKid(i, [shKids[i] EXCEPT !.held = TRUE])
    /\ shQueue' = [shQueue EXCEPT ![InOf(i).pipe] = @ - 1]
    /\ ShellSame /\ UNCHANGED shFg

KidExits(i) == CanExit(i) /\ SetKid(i, Gone) /\ ShellSame /\ UNCHANGED <<shQueue, shFg>>

-----------------------------------------------------------------------------
(* exec_commands, behind the loop: wait() until there is no child.          *)
ExecDone ==
    /\ shPc = "cmd" /\ shAt > Len(shCmds)
    /\ shPc' = "wait"
    /\ UNCHANGED <<shMeant, shRet, shCmds, shAt, shPipe, shFds, shLost, shKids, shQueue, shFg>>

WaitReaps(i) ==
    /\ shPc = "wait" /\ shKids[i].st = "zombie"
    /\ SetKid(i, [NoKid EXCEPT !.st = "reaped"])
    /\ ShellSame /\ UNCHANGED <<shQueue, shFg>>

Unreaped == {i \in DOMAIN shKids : shKids[i].st \in {"forked", "runs", "zombie"}}

NoChildLeft == Unreaped = {}

WaitEnds ==
    /\ shPc = "wait" /\ NoChildLeft
    /\ shPc' = "clean" /\ shFg' = 0
    /\ UNCHANGED <<shMeant, shRet, shCmds, shAt, shPipe, shFds, shLost, shKids, shQueue>>

CmdFds(cmds) == {cmds[i].fdin : i \in DOMAIN cmds} \cup {cmds[i].fdout : i \in DOMAIN cmds}

(* clean_cmd.  A pipe's writing end was closed before: its number is closed
   again, whatever it stands for by then.  (The ends left are of pipe 0: none of
   the next line's.)                                                        *)
CleanCmd ==
    /\ shPc = "clean"
    /\ shFds' = [n \in DOMAIN shFds \ CmdFds(shCmds) |-> [shFds[n] EXCEPT !.pipe = 0]]
    /\ shLost' = shLost \ CmdFds(shCmds)
    /\ shPc' = "prompt" /\ shMeant' = <<>> /\ shRet' = 0 /\ shCmds' = <<>> /\ shAt' = 0
    /\ shPipe' = <<NoFd, NoFd>>
    /\ shKids' = [i \in Unreaped |-> shKids[i]]
    /\ shQueue' = <<>> /\ UNCHANGED shFg

ShellNext ==
    \/ \E cmds \in ShellLines, tight \in BOOLEAN : ReadLine(cmds, tight)
    \/ \E line \in OddLines : ReadOdd(line)
    \/ ExecCd \/ ExecParent \/ ExecDone \/ WaitEnds \/ CleanCmd
    \/ \E outOk, inOk \in BOOLEAN : ExecFork(outOk, inOk)
    \/ \E i \in DOMAIN shKids : \/ ChildSetup(i) \/ KidWrites(i) \/ KidReads(i) \/ KidExits(i)
                                 \/ WaitReaps(i)

-----------------------------------------------------------------------------
(* parse finds the commands that were typed, with their arguments, redirections
   and pipes, with and without spaces around the symbols.                   *)
ParsedAsMeant ==
    shMeant # <<>> =>
        shRet = 0 /\ [i \in DOMAIN shCmds |-> [shCmds[i] EXCEPT !.fdin = NoFd, !.fdout = NoFd]] = shMeant

(* What parse accepts exec_commands can run: where no symbol follows another
   every command has a name, but for an empty one behind the last ";" of a line,
   and no argument list is longer than its array.                           *)
AcceptedRuns ==
    shRet = 0 =>
        \A i \in DOMAIN shCmds :
            /\ Len(shCmds[i].argv) < MAX_ARGV
            /\ i < Len(shCmds) => shCmds[i].argv # <<>>
            /\ shCmds[i].pipe => i < Len(shCmds) /\ shCmds[i + 1].argv # <<>>

(* Once it runs, a program reads from and writes to what its command says,
   whatever numbers the descriptors got: its files (the terminal, if one could
   not be opened) and the pipes to its neighbours.                          *)
ConnectedRight ==
    \A i \in DOMAIN shMeant :
        shKids[i].st = "runs" =>
            LET c == shMeant[i]
                piped == i > 1 /\ shMeant[i - 1].pipe /\ ~IsCd(shMeant[i - 1])
            IN /\ InOf(i) \in IF c.infile # NoName THEN {Object("file", 0), Terminal}
                              ELSE IF piped THEN {Object("read", i - 1)} ELSE {Terminal}
               /\ OutOf(i) \in IF c.pipe THEN {Object("write", i)}
                               ELSE IF c.outfile # NoName THEN {Object("file", 0), Terminal}
                               ELSE {Terminal}

(* A pipe that no program reads any more, though the shell has its reading end.  *)
Abandoned(k) ==
    HasEnd("read", k) /\ \A i \in Unreaped : shKids[i].st = "runs" => InOf(i) # Object("read", k)

(* A program that waits for input or for room in a pipe gets it, or the end of
   the file: while the shell waits, some program can go on or is to be reaped,
   because nobody but the writer keeps a writing end.  That is not so of reading
   ends, which the shell keeps until it has waited for all: a program waits for
   ever for room in a pipe whose reader has left, failed, or reads a file.  *)
WaitEndsOnce ==
    shPc = "wait" /\ Unreaped # {} =>
        \E i \in Unreaped : \/ shKids[i].st \in {"forked", "zombie"}
                            \/ CanWrite(i) \/ CanRead(i) \/ CanExit(i)
                            \/ Pending(i) /\ OutOf(i).kind = "write" /\ Abandoned(OutOf(i).pipe)

(* Back at the prompt the shell has the descriptors it started with, no child is
   left and the terminal is its own, but for one descriptor ("i do not close a
   fd[0] when it should be"): the reading end of a pipe into a command that also
   has an input file.                                                       *)
PromptClean ==
    shPc = "prompt" =>
        /\ 0..2 \subseteq DOMAIN shFds /\ DOMAIN shFds \subseteq 0..2 \cup shLost
        /\ shFg = 0 /\ DOMAIN shKids = {}

(* A line becomes the commands it spells, and what is accepted can be executed:
   each command has a name, but for an empty one behind the last ";" of a line
   and for what a line means in which a symbol follows another.             *)
ShellParses ==
    /\ ParsedAsMeant
    /\ AcceptedRuns

(* However the commands of a line run, each has the ends that the line gives it and
   the line ends, but for a writer into a pipe whose reader is gone; and at the next
   prompt none is left and every descriptor is closed, but for the reading end of a
   pipe into a command with an input file.                                  *)
ShellConnects ==
    /\ ConnectedRight
    /\ WaitEndsOnce
    /\ PromptClean
=============================================================================
