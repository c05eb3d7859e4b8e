----------------------------- MODULE ChainLedger -----------------------------
(***************************************************************************)
(* What the DRO promises about the chains of one (session, persona),       *)
(* without the queue, the RTs, the admission lock and the tasks: a chain is *)
(* admitted once, while no other chain of its pipeline waits; only the     *)
(* chain in hand changes status; and one chain is in hand at a time.       *)
(***************************************************************************)
CONSTANTS Chains, Pipelines, PipelineOf

VARIABLES
    status,     \* [Chains -> {"none", "pending", "active", "done", "failed"}]
    inHand      \* the chain being driven, as a set of at most one

vars == <<status, inHand>>

Init ==
    /\ status = [c \in Chains |-> "none"]
    /\ inHand = {}

Create(c) ==
    /\ status[c] = "none"
    /\ \A d \in Chains : PipelineOf[d] = PipelineOf[c] => status[d] # "pending"
    /\ status' = [status EXCEPT ![c] = "pending"]
    /\ UNCHANGED inHand

Take(c) ==
    /\ inHand = {} /\ status[c] # "none"
    /\ inHand' = {c}
    /\ UNCHANGED status

Progress(c, s) ==
    /\ c \in inHand
    /\ status' = [status EXCEPT ![c] = s]
    /\ UNCHANGED inHand

\* The chain is put down: drained, or dropped by a worker that ended.
Drop ==
    /\ inHand' = {}
    /\ UNCHANGED status

Next ==
    \/ \E c \in Chains :
          \/ Create(c) \/ Take(c)
          \/ \E s \in {"active", "done", "failed"} : Progress(c, s)
    \/ Drop

Spec == Init /\ [][Next]_vars
=============================================================================
