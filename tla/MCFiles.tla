------------------------------ MODULE MCFiles ------------------------------
(***************************************************************************)
(* Names and descriptors, with two sizes of the node cache, offsets, and   *)
(* paths, side by side: a behaviour is one of one of them.                 *)
(***************************************************************************)
EXTENDS Files, FileOffsets, Paths

VARIABLE filesPart

(* The same with a node cache that fills.                                   *)
Scarce == INSTANCE Files WITH MAX_CACHED_NODES <- 2

mcFilesVars == <<filesPart, fileVars, offsVars, pathVars>>

(* A part that is not looked at stays in one initial state.                 *)
IdleFiles == FilesInit /\ fileMode = CHOOSE m \in Modes : TRUE
IdlePaths ==
    /\ pathCwd = (CHOOSE c \in Cwds : TRUE) /\ pathArg = <<>>
    /\ pathOk = TRUE /\ pathRes = <<>> /\ pathSplit = NoSplit

MCFilesInit ==
    \/ filesPart \in {"names", "scarce"} /\ FilesInit /\ OffsetsInit /\ IdlePaths
    \/ filesPart = "offsets" /\ OffsetsInit /\ IdleFiles /\ IdlePaths
    \/ filesPart = "paths" /\ PathsInit /\ IdleFiles /\ OffsetsInit

MCFilesNext ==
    /\ UNCHANGED filesPart
    /\ \/ filesPart = "names" /\ FilesNext /\ UNCHANGED <<offsVars, pathVars>>
       \/ filesPart = "scarce" /\ Scarce!FilesNext /\ UNCHANGED <<offsVars, pathVars>>
       \/ filesPart = "offsets" /\ OffsetsNext /\ UNCHANGED <<fileVars, pathVars>>
       \/ filesPart = "paths" /\ PathsNext /\ UNCHANGED <<fileVars, offsVars>>

MCFilesSpec == MCFilesInit /\ [][MCFilesNext]_mcFilesVars

(* Which number an open file or a descriptor has does not matter, only what is
   open, and how often.                                                     *)
OpenBag == {<<r, Cardinality({f \in FileIds : openFiles[f] = r})>> : r \in Range(openFiles)}
MCFilesView ==
    <<filesPart, CASE filesPart \in {"names", "scarce"} -> <<cofs, Len(fdTable), OpenBag, fileMode>>
                   [] filesPart = "offsets" -> offsVars [] filesPart = "paths" -> pathVars>>

MCFilePaths == {<<>>, <<"a">>, <<"b">>, <<"a", "b">>}
MCFileCwds == {<<>>, <<"a">>}

(* Every path of up to six characters.                                      *)
MCCwds == {<<SLASH>>, <<SLASH, "a">>, <<SLASH, "b", SLASH, "a">>}
MCPathArgs == UNION {[1..n -> {SLASH, PERIOD, "a"}] : n \in 0..6}

MCCounts == {0, 1, 3, 4, 5, 8, Word - 1, Word - 4}
=============================================================================
