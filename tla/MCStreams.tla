----------------------------- MODULE MCStreams -----------------------------
(***************************************************************************)
(* Pipes, and terminals with their keyboard and screen, side by side: a    *)
(* behaviour is one of one of them.                                        *)
(***************************************************************************)
EXTENDS Pipe, Tty, Crt, Kbd

VARIABLE streamPart

streamVars == <<streamPart, vars, ttyVars, crtVars, kbdVars>>

(* A part that is not looked at stays in one initial state.                 *)
StreamsInit ==
    /\ streamPart \in {"pipe", "tty", "crt", "kbd"}
    /\ Init /\ TtyInit /\ CrtInit /\ KbdInit
    /\ streamPart # "pipe" => buffer[0] = CHOOSE b \in Bytes : TRUE
    /\ streamPart # "crt" => crt.x = 0 /\ crt.y = 0

StreamsNext ==
    /\ UNCHANGED streamPart
    /\ \/ streamPart = "pipe" /\ Next /\ UNCHANGED <<ttyVars, crtVars, kbdVars>>
       \/ streamPart = "tty" /\ TtyNext /\ UNCHANGED <<vars, crtVars, kbdVars>>
       \/ streamPart = "crt" /\ CrtNext /\ UNCHANGED <<vars, ttyVars, kbdVars>>
       \/ streamPart = "kbd" /\ KbdNext /\ UNCHANGED <<vars, ttyVars, crtVars>>

(* Of the ring only its characters and where they begin matter, and nothing of
   what is not followed.                                                    *)
TtyView ==
    IF ttyPast \cap {"raced", "overrun"} # {} THEN <<ttyPast>>
    ELSE <<ttyOpen, ttyCanon, ttyLine, ttyMeant, InRing, ttyCin.tail % TTY_IN_BUF_SIZE, ttyHandlers,
           ttyRunning, ttyReader, ttyExpect, ttyPast>>
CrtView == IF crt.halt \/ ansiStale THEN <<>> ELSE crtVars
StreamsView ==
    <<streamPart, CASE streamPart = "pipe" -> vars [] streamPart = "tty" -> TtyView
                    [] streamPart = "crt" -> CrtView [] streamPart = "kbd" -> kbdVars>>

StreamsSpec == StreamsInit /\ [][StreamsNext]_streamVars
=============================================================================
