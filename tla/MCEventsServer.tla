--------------------------- MODULE MCEventsServer ---------------------------
(***************************************************************************)
(* Instances of EventsServer for TLC: one client that goes through long     *)
(* sequences of commands, beside one that comes and goes.                   *)
(***************************************************************************)
EXTENDS EventsServer

CONSTANTS busy, other

CommandsOf == [c \in Clients |-> IF c = busy THEN 3 ELSE 1]
=============================================================================
