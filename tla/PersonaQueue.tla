---------------------------- MODULE PersonaQueue ----------------------------
(***************************************************************************)
(* The persona RT queue of the content manager (400.CM/src/queue_store.py):*)
(* a FIFO `pending` list shared by all chains of one (session, persona),   *)
(* and a ledger of leases, one per RT handed out, each with an expiry.     *)
(*                                                                         *)
(* Every operation of the source holds lock_for(queue key) over its        *)
(* read-modify-write, so each is one action here.  The callers are the DRO *)
(* coroutines; `holder` is what they believe: an RT is "out" while some    *)
(* coroutine has popped it and not yet released it.  An RT identifier is a *)
(* fresh uuid4, so each is pushed once.                                    *)
(*                                                                         *)
(* A pop that finds nothing returns before the write (the swept ledger is  *)
(* not stored): it changes nothing and is a stuttering step.               *)
(***************************************************************************)
EXTENDS QueueOps, FiniteSets

CONSTANTS
    Rts,        \* RT identifiers
    Chains,     \* chain identifiers
    ChainOf,    \* ChainOf[r]: the chain an RT belongs to
    Ttl,        \* lease_ttl_s of a pop
    MaxClock    \* bound: the clock stops here

ASSUME QueueAssumption ==
    /\ ChainOf \in [Rts -> Chains]
    /\ Ttl \in Nat \ {0}
    /\ MaxClock \in Nat

VARIABLES
    pending,    \* Seq(Rts): waiting entries, oldest first
    expires,    \* [Rts -> Nat]: expiry of the lease of an RT, NoLease if none
    clock,      \* wall clock of the content manager
    holder      \* [Rts -> {"new", "queued", "out", "back"}]: the callers' view

vars == <<pending, expires, clock, holder>>

NoLease == 0

TypeOK ==
    /\ pending \in Seq(Rts)
    /\ expires \in [Rts -> Nat]
    /\ clock \in Nat
    /\ holder \in [Rts -> {"new", "queued", "out", "back"}]

Init ==
    /\ pending = <<>>
    /\ expires = [r \in Rts |-> NoLease]
    /\ clock = 0
    /\ holder = [r \in Rts |-> "new"]

\* What a caller may ask of a pop: one chain, or no chain at all.
Scopes == {{r \in Rts : ChainOf[r] = c} : c \in Chains} \cup {Rts}

Leased == {r \in Rts : expires[r] # NoLease}

\* _sweep_expired: an expiry that is not in the future is dropped.
Swept == [r \in Rts |-> IF expires[r] <= clock THEN NoLease ELSE expires[r]]

Push(r) ==
    /\ holder[r] = "new"
    /\ pending' = Append(pending, r)
    /\ expires' = Swept
    /\ holder' = [holder EXCEPT ![r] = "queued"]
    /\ UNCHANGED clock

\* Mutant: the entry handed out stays in the list.
HandOutKeeping(i) ==
    /\ UNCHANGED pending
    /\ expires' = [Swept EXCEPT ![pending[i]] = clock + Ttl]
    /\ holder' = [holder EXCEPT ![pending[i]] = "out"]

HandOut(i) ==
    /\ pending' = RemoveAt(pending, i)
    /\ expires' = [Swept EXCEPT ![pending[i]] = clock + Ttl]
    /\ holder' = [holder EXCEPT ![pending[i]] = "out"]

Pop(scope) ==
    /\ \E i \in 1..Len(pending) : IsFirst(i, pending, scope) /\ HandOut(i)
    /\ UNCHANGED clock

\* Mutants: the record leaves the ledger for good; one release clears the ledger.
FreedForGood(r) == [x \in Rts \ {r} |-> Swept[x]]
FreedAll(r) == [x \in Rts |-> NoLease]

Freed(r) == [Swept EXCEPT ![r] = NoLease]

\* A caller releases the lease of its own RT; releasing one that is not (or no
\* longer) leased is harmless, and is what a step whose RT was executed without
\* having been popped does.
Release(r) ==
    /\ holder[r] # "new"
    /\ expires' = Freed(r)
    /\ holder' = [holder EXCEPT ![r] = IF @ = "out" THEN "back" ELSE @]
    /\ UNCHANGED <<pending, clock>>

Tick ==
    /\ clock < MaxClock
    /\ clock' = clock + 1
    /\ UNCHANGED <<pending, expires, holder>>

Next ==
    \/ \E r \in Rts : Push(r) \/ Release(r)
    \/ \E scope \in Scopes : Pop(scope)
    \/ Tick

Spec == Init /\ [][Next]_vars

-----------------------------------------------------------------------------

Waiting == {pending[i] : i \in 1..Len(pending)}

\* An RT waits in the list exactly while no caller has been handed it, and only
\* once: no entry is lost by a pop of another chain, none is handed out twice.
WaitingOnce ==
    /\ \A r \in Rts : r \in Waiting <=> holder[r] = "queued"
    /\ \A i, j \in 1..Len(pending) : pending[i] = pending[j] => i = j

\* The ledger never charges an RT that is still waiting or was never pushed, nor
\* one its caller has given back.
LeaseHasHolder == \A r \in Leased : holder[r] = "out"

\* A caller's lease is removed before its expiry by nobody but that caller:
\* releases and sweeps made for other RTs preserve it.
LiveLeaseKept ==
    [][\A r \in Rts :
          holder[r] = "out" /\ holder'[r] = "out" /\ expires[r] > clock
             => expires'[r] = expires[r]]_vars

\* Chain order: an RT never leaves the list before an older RT of its chain.
ChainFifo ==
    [][\A i, j \in 1..Len(pending) :
          /\ i < j
          /\ ChainOf[pending[i]] = ChainOf[pending[j]]
          /\ holder'[pending[j]] # "queued"
          => holder'[pending[i]] # "queued"]_vars

-----------------------------------------------------------------------------
\* What the queue promises, without the list and the clock.
Handout == INSTANCE RtHandout

\* The queue implements the hand-out ledger.
Implements == Handout!Spec
=============================================================================
