------------------------------- MODULE Paths -------------------------------
(***************************************************************************)
(* Paths (canonize.c, bname.c): from what a program gives, and the current *)
(* directory, to the path that fs_namei walks, and its split into a        *)
(* directory and a name.  A path is a sequence of characters; positions    *)
(* count from 0 as in the code, and NUL ends what is kept.                 *)
(***************************************************************************)
EXTENDS Naturals, Sequences, SequencesExt, FiniteSetsExt

CONSTANTS
    Cwds,       \* current directories
    PathArgs    \* what programs give: sequences of characters

SLASH == "/"
PERIOD == "."
NUL == ""

ASSUME PathsAssumption ==
    /\ \A c \in Cwds : c # <<>> /\ c[1] = SLASH
    /\ \A p \in PathArgs : NUL \notin Range(p)

VARIABLES
    pathCwd, pathArg,   \* arguments of canonize_path
    pathOk,             \* the assertions of clean_path held
    pathRes,            \* what it returned
    pathSplit           \* the result of bname: directory and name

pathVars == <<pathCwd, pathArg, pathOk, pathRes, pathSplit>>

NoSplit == <<<<>>, <<>>>>

PathsInit ==
    /\ pathCwd \in Cwds /\ pathArg \in PathArgs
    /\ pathOk = TRUE /\ pathRes = <<>> /\ pathSplit = NoSplit

-----------------------------------------------------------------------------
(* clean_path, in place: i reads and j writes.  A step is one turn of the loop. *)

(* The first place from i on that holds no slash.                           *)
AfterSlashes(p, len, i) == Min({k \in i..len : k = len \/ p[k] # SLASH})

IsDot(p, len, k) == k < len /\ p[k] = PERIOD /\ (k + 1 = len \/ p[k + 1] = SLASH)
IsDotDot(p, len, k) ==
    k + 1 < len /\ p[k] = PERIOD /\ p[k + 1] = PERIOD /\ (k + 2 = len \/ p[k + 2] = SLASH)

(* Faulty variant: one character is dropped instead of a name.              *)
BackOne(p, j) == IF j > 1 THEN j - 1 ELSE j

(* Back over the last name that was written.                                *)
Back(p, j) ==
    LET j1 == IF j > 1 /\ p[j] = SLASH THEN j - 1 ELSE j
    IN IF j1 <= 1 THEN j1 ELSE Max({m \in 1..j1 : m = 1 \/ p[m - 1] = SLASH})

Copy(d, k) ==
    [d EXCEPT !.p[d.j] = d.p[k], !.j = d.j + 1, !.i = k + 1, !.ok = @ /\ d.j <= k]

CleanStep(d, len) ==
    IF d.i >= len \/ d.j >= len THEN d
    ELSE IF d.p[d.i] # SLASH THEN Copy(d, d.i)
    ELSE LET k == AfterSlashes(d.p, len, d.i) IN
         IF IsDot(d.p, len, k) THEN [d EXCEPT !.i = k + 1]
         ELSE IF IsDotDot(d.p, len, k)
         THEN LET j == Back(d.p, d.j)
                  atEnd == k + 3 = len /\ j > 1 /\ d.p[j - 1] = SLASH
              IN [d EXCEPT !.i = k + 3, !.j = IF atEnd THEN j - 1 ELSE j]
         ELSE LET e == IF k < len \/ d.j = 0
                       THEN [d EXCEPT !.p[d.j] = SLASH, !.j = @ + 1, !.ok = @ /\ d.j <= k]
                       ELSE d
              IN IF e.j = len THEN [e EXCEPT !.i = len] ELSE Copy(e, k)

(* The end of the string behind the loop.                                   *)
CleanEnd(d, len) ==
    LET j == IF d.j = 0 THEN 1 ELSE d.j
        end == IF j > 1 /\ d.p[j - 1] = SLASH THEN j - 1 ELSE j
        stop == Min({k \in 0..end : k = end \/ d.p[k] = NUL})
    IN [path |-> [k \in 1..stop |-> d.p[k - 1]], ok |-> d.ok /\ end <= len]

CleanPath(path) ==
    LET len == Len(path)
        turn[n \in 0..len] ==
            IF n = 0 THEN [i |-> 0, j |-> 0, ok |-> TRUE,
                           p |-> [k \in 0..len |-> IF k = len THEN NUL ELSE path[k + 1]]]
            ELSE CleanStep(turn[n - 1], len)
    IN CleanEnd(turn[len], len)

(* canonize_path.                                                           *)
FullPath(cwd, path) == IF path # <<>> /\ path[1] = SLASH THEN path ELSE cwd \o <<SLASH>> \o path

CanonizePath ==
    /\ pathRes = <<>>
    /\ LET c == CleanPath(FullPath(pathCwd, pathArg)) IN pathRes' = c.path /\ pathOk' = c.ok
    /\ UNCHANGED <<pathCwd, pathArg, pathSplit>>

(* bname: behind the last slash.                                            *)
SplitAt(path) == Max({0} \cup {k \in 1..Len(path) : path[k] = SLASH})

Bname ==
    /\ pathRes # <<>> /\ pathSplit = NoSplit
    /\ LET pos == SplitAt(pathRes)
           dir == SubSeq(pathRes, 1, pos)
       IN pathSplit' = <<IF pos > 1 /\ dir[pos] = SLASH THEN Front(dir) ELSE dir,
                         SubSeq(pathRes, pos + 1, Len(pathRes))>>
    /\ UNCHANGED <<pathCwd, pathArg, pathOk, pathRes>>

PathsNext == CanonizePath \/ Bname

PathsSpec == PathsInit /\ [][PathsNext]_pathVars

-----------------------------------------------------------------------------
(* The names between the slashes, as fs_namei takes them.                   *)
PathNames(path) ==
    LET f[n \in 0..Len(path)] ==
            IF n = 0 THEN <<<<>>>>
            ELSE IF path[n] = SLASH THEN Append(f[n - 1], <<>>)
            ELSE [f[n - 1] EXCEPT ![Len(f[n - 1])] = Append(@, path[n])]
    IN f[Len(path)]
WalkNames(path) == SelectSeq(PathNames(path), LAMBDA name : name # <<>>)

(* What the names mean: one after the other, "." stays, ".." goes up.       *)
Meaning(path) ==
    FoldLeft(LAMBDA at, name : IF name \in {<<>>, <<PERIOD>>} THEN at
                               ELSE IF name = <<PERIOD, PERIOD>>
                               THEN (IF at = <<>> THEN at ELSE Front(at))
                               ELSE Append(at, name),
             <<>>, PathNames(path))

(* Where clean_path goes wrong: behind "..", the slash is passed over with it,
   so that an empty name, "." or ".." there is not seen; and with nothing
   written yet, the slash at the start is lost.                             *)
PathMisread(path) ==
    LET names == PathNames(path)
        special == {<<>>, <<PERIOD>>, <<PERIOD, PERIOD>>}
    IN \E n \in 2..(Len(names) - 1) :
           /\ names[n] = <<PERIOD, PERIOD>>
           /\ \/ names[n + 1] \in special /\ (n + 1 < Len(names) \/ names[n + 1] # <<>>)
              \/ \A m \in 1..(n - 1) : names[m] \in special

(* A cleaned path begins with a slash, names what the given path means, and has
   no "." or ".." left, except where the path is misread.                   *)
PathMeaningKept ==
    pathRes # <<>> =>
        LET given == FullPath(pathCwd, pathArg) IN
        \/ PathMisread(given)
        \/ /\ pathRes[1] = SLASH
           /\ WalkNames(pathRes) = Meaning(given)
           /\ Len(pathRes) = 1 \/ pathRes[Len(pathRes)] # SLASH

(* The assertions of clean_path hold for every path: it never writes past what
   it has read, nor behind the end of the string.                           *)
PathInPlace == pathOk

(* The two parts of bname name together what the path names.                *)
PathSplitRight ==
    pathSplit # NoSplit /\ ~PathMisread(FullPath(pathCwd, pathArg)) =>
        /\ SLASH \notin Range(pathSplit[2])
        /\ pathSplit[1][1] = SLASH
        /\ WalkNames(pathSplit[1] \o <<SLASH>> \o pathSplit[2]) = WalkNames(pathRes)
        /\ pathSplit[2] = <<>> => pathRes = <<SLASH>>

(* canonize_path keeps what a path means, in the buffer it is given, and the split
   into directory and name loses nothing. *)
PathsSafety ==
    /\ PathMeaningKept
    /\ PathInPlace
    /\ PathSplitRight
=============================================================================
