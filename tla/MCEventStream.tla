---------------------------- MODULE MCEventStream ----------------------------
(* An instance of EventStream: the raw events of a chain of the reception   *)
(* and of a chain of the concept persona.                                   *)
EXTENDS EventStream, TLC

CONSTANTS a, b

MCScript == <<"concept", "rt_started">>

\* The first tab reconnects once.
MCConnects == [c \in Clients |-> IF c = a THEN 2 ELSE 1]

=============================================================================
