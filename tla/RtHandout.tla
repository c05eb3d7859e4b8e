------------------------------ MODULE RtHandout ------------------------------
(***************************************************************************)
(* What a persona queue promises its callers, whatever the list, the clock *)
(* and the lease ledger look like: an RT pushed is handed to at most one   *)
(* caller, never again after that, and comes back at most once.            *)
(***************************************************************************)
CONSTANT Rts

VARIABLE holder

Init == holder = [r \in Rts |-> "new"]

Move(r, from, to) ==
    /\ holder[r] = from
    /\ holder' = [holder EXCEPT ![r] = to]

Next ==
    \E r \in Rts :
       \/ Move(r, "new", "queued")
       \/ Move(r, "queued", "out")
       \/ Move(r, "out", "back")

Spec == Init /\ [][Next]_holder
=============================================================================
