---------------------------- MODULE MCPersonaQueue ----------------------------
(* Two chains of one persona: three RTs of the first interleaved with two of  *)
(* the second, leases that live two ticks, a clock that outlives two leases.  *)
EXTENDS PersonaQueue, TLC

CONSTANTS c1, c2

MCChains == {c1, c2}
MCChainOf == [r \in Rts |-> IF r \in {2, 4} THEN c2 ELSE c1]
=============================================================================
