----------------------------- MODULE MessageSend -----------------------------
(***************************************************************************)
(* message.send of one work: the Nexus handlers of received frames, the    *)
(* idempotency records and the conversation in the content manager, and    *)
(* the admission of the root chains in the DRO, where the spawn of Nexus   *)
(* may time out and still be executed later.                               *)
(*                                                                         *)
(* A frame is handled in its socket's task; frames of two sockets, or of a *)
(* socket and its reconnection, interleave at every call.  A message is    *)
(* named by its correlation_id; a turn's id is its position (from 1).      *)
(***************************************************************************)
EXTENDS Naturals, Sequences, FiniteSets

CONSTANTS
    Messages,       \* correlation identifiers
    Sends,          \* Sends[f]: what frame f may carry: pairs of a message and its text
    Frames,         \* message.send frames received, each once
    Roots,          \* root chains of a message, spawned in turn (1, in FULL mode 2)
    MaxFaults,      \* bound: failing calls and crashes of Nexus
    None

ASSUME MessageAssumption ==
    /\ Roots \in Nat \ {0} /\ MaxFaults \in Nat
    /\ \A f \in Frames : \A send \in Sends[f] : send[1] \in Messages

RootIds == 1..Roots

VARIABLES
    idem,       \* idem[m]: the idempotency record of message m
    conv,       \* the turns of the conversation
    chain,      \* chain[m][p]: root chain p of message m
    h,          \* h[f]: the handler of frame f
    late,       \* spawns Nexus gave up on that the DRO may still execute
    acks,       \* message.received answers sent
    faults

vars == <<idem, conv, chain, h, late, acks, faults>>

NoRecord == [state |-> "none", content |-> None, fresh |-> FALSE, id |-> 0]
NoChain == [status |-> "none", read |-> 0]
IdleHandler == [pc |-> "idle", msg |-> None, content |-> None, id |-> 0, root |-> 1]

HandlerPcs == {"claim", "write", "spawn", "put", "release"}

Init ==
    /\ idem = [m \in Messages |-> NoRecord]
    /\ conv = <<>>
    /\ chain = [m \in Messages |-> [p \in RootIds |-> NoChain]]
    /\ h = [f \in Frames |-> IdleHandler]
    /\ late = {} /\ acks = {}
    /\ faults = 0

-----------------------------------------------------------------------------
(* What one call does in the content manager and in the DRO. *)

\* claim_idempotency finds no record, or a claim older than its 30 s.
Claimable(m) ==
    idem[m].state = "none" \/ (idem[m].state = "claimed" /\ ~idem[m].fresh)

TakeClaim(m, c) ==
    idem' = [idem EXCEPT ![m] = [NoRecord EXCEPT !.state = "claimed", !.content = c,
                                                 !.fresh = TRUE]]

\* Mutant: the correlation id of the turns is not looked at.
NoTurns(m) == {}

\* The turns recorded for message m.
TurnsOf(m) == {i \in 1..Len(conv) : conv[i].msg = m}

\* append_conversation: a message is appended unless it is already there; the
\* answer names its position.
AppendTurn(m, c) ==
    conv' = IF TurnsOf(m) # {} THEN conv ELSE Append(conv, [msg |-> m, content |-> c])

PositionAfter(m) == CHOOSE i \in 1..Len(conv') : conv'[i].msg = m

\* Mutant: a chain that has started is taken for a waiting one.
StartedToo(p) == {m \in Messages : chain[m][p].status \in {"pending", "active"}}

Waiting(p) == {m \in Messages : chain[m][p].status = "pending"}

\* run_chain: the spawn is dropped if the chain exists, or absorbed if another one of
\* the pipeline waits, and creates the chain otherwise.
Admission(m, p) ==
    \/ /\ chain[m][p].status # "none" \/ Waiting(p) # {}
       /\ UNCHANGED chain
    \/ /\ chain[m][p].status = "none" /\ Waiting(p) = {}
       /\ chain' = [chain EXCEPT ![m][p].status = "pending"]

-----------------------------------------------------------------------------
(* _handle_message_send, one call after the other. *)

Receive(f) ==
    /\ h[f].pc = "idle"
    /\ \E send \in Sends[f] :
          h' = [h EXCEPT ![f].pc = "claim", ![f].msg = send[1], ![f].content = send[2]]
    /\ UNCHANGED <<idem, conv, chain, late, acks, faults>>

Goto(f, pc) == h' = [h EXCEPT ![f].pc = pc]

Ack(f, id) ==
    acks' = acks \cup {[msg |-> h[f].msg, content |-> h[f].content, id |-> id]}

\* A done record is answered again; another content is a conflict; a claim of the
\* same content, by a handler that runs or that died, is processed again.
Claim(f) ==
    LET m == h[f].msg
        c == h[f].content
    IN  /\ h[f].pc = "claim"
        /\ \/ /\ Claimable(m)
              /\ TakeClaim(m, c) /\ Goto(f, "write")
              /\ UNCHANGED acks
           \/ /\ ~Claimable(m) /\ idem[m].content # c
              /\ Goto(f, "ended")
              /\ UNCHANGED <<idem, acks>>
           \/ /\ ~Claimable(m) /\ idem[m].content = c
              /\ IF idem[m].state = "done"
                 THEN Goto(f, "ended") /\ Ack(f, idem[m].id)
                 ELSE Goto(f, "write") /\ UNCHANGED acks
              /\ UNCHANGED idem
        /\ UNCHANGED <<conv, chain, late, faults>>

\* write_user_turn.
Write(f) ==
    /\ h[f].pc = "write"
    /\ AppendTurn(h[f].msg, h[f].content)
    /\ h' = [h EXCEPT ![f].pc = "spawn", ![f].id = PositionAfter(h[f].msg)]
    /\ UNCHANGED <<idem, chain, late, acks, faults>>

\* Mutant: the loop over the root chains stops one too early.
OneRootLess(r) == r + 1 < Roots

HasNextRoot(r) == r < Roots

\* spawn_root_chains, one control_spawn per root chain.
SpawnRoot(f) ==
    /\ h[f].pc = "spawn"
    /\ Admission(h[f].msg, h[f].root)
    /\ h' = IF HasNextRoot(h[f].root) THEN [h EXCEPT ![f].root = @ + 1]
            ELSE [h EXCEPT ![f].pc = "put"]
    /\ UNCHANGED <<idem, conv, late, acks, faults>>

\* put_idempotency, then the answer.
Put(f) ==
    /\ h[f].pc = "put"
    /\ idem' = [idem EXCEPT ![h[f].msg] = [NoRecord EXCEPT !.state = "done",
                                 !.content = h[f].content, !.id = h[f].id]]
    /\ Ack(f, h[f].id)
    /\ Goto(f, "ended")
    /\ UNCHANGED <<conv, chain, late, faults>>

\* delete_idempotency after a failure, whoever holds the claim by now.
Release(f) ==
    /\ h[f].pc = "release"
    /\ idem' = [idem EXCEPT ![h[f].msg] = NoRecord]
    /\ Goto(f, "ended")
    /\ UNCHANGED <<conv, chain, late, acks, faults>>

Handle(f) == Claim(f) \/ Write(f) \/ SpawnRoot(f) \/ Put(f) \/ Release(f)

-----------------------------------------------------------------------------
(* Failures.  A failing call was executed or not; Nexus cannot tell. *)

Fault ==
    /\ faults < MaxFaults
    /\ faults' = faults + 1

ClaimFails(f) ==
    /\ Fault /\ h[f].pc = "claim"
    /\ \/ UNCHANGED idem
       \/ Claimable(h[f].msg) /\ TakeClaim(h[f].msg, h[f].content)
    /\ Goto(f, "ended")
    /\ UNCHANGED <<conv, chain, late, acks>>

WriteFails(f) ==
    /\ Fault /\ h[f].pc = "write"
    /\ UNCHANGED conv \/ AppendTurn(h[f].msg, h[f].content)
    /\ Goto(f, "release")
    /\ UNCHANGED <<idem, chain, late, acks>>

\* Before a spawn, or its answer is an error or does not come in 10 s.
SpawnFails(f) ==
    /\ Fault /\ h[f].pc = "spawn"
    /\ late' = late \/ late' = late \cup {<<h[f].msg, h[f].root>>}
    /\ Goto(f, "release")
    /\ UNCHANGED <<idem, conv, chain, acks>>

\* The message is answered all the same; the claim stays.
PutFails(f) ==
    /\ Fault /\ h[f].pc = "put"
    /\ Ack(f, h[f].id)
    /\ Goto(f, "ended")
    /\ UNCHANGED <<idem, conv, chain, late>>

ReleaseFails(f) ==
    /\ Fault /\ h[f].pc = "release"
    /\ Goto(f, "ended")
    /\ UNCHANGED <<idem, conv, chain, late, acks>>

CallFails(f) ==
    ClaimFails(f) \/ WriteFails(f) \/ SpawnFails(f) \/ PutFails(f) \/ ReleaseFails(f)

\* Nexus dies with the frames it was handling; their claims stay behind.
NexusCrash ==
    /\ Fault
    /\ h' = [f \in Frames |-> IF h[f].pc \in HandlerPcs
                              THEN [h[f] EXCEPT !.pc = "ended"] ELSE h[f]]
    /\ UNCHANGED <<idem, conv, chain, late, acks>>

\* A claim grows older than 30 s: its handler died, or is slow.
ClaimExpires(m) ==
    /\ idem[m].state = "claimed" /\ idem[m].fresh
    /\ idem' = [idem EXCEPT ![m].fresh = FALSE]
    /\ UNCHANGED <<conv, chain, h, late, acks, faults>>

-----------------------------------------------------------------------------
(* The DRO. *)

LateSpawn(s) ==
    /\ late' = late \ {s}
    /\ Admission(s[1], s[2])
    /\ UNCHANGED <<idem, conv, h, acks, faults>>

\* The worker of the pipeline's persona takes a waiting chain; its steps read the
\* conversation from then on.
StartChain(m, p) ==
    /\ chain[m][p].status = "pending"
    /\ \A n \in Messages : chain[n][p].status # "active"
    /\ chain' = [chain EXCEPT ![m][p] = [status |-> "active", read |-> Len(conv)]]
    /\ UNCHANGED <<idem, conv, h, late, acks, faults>>

EndChain(m, p) ==
    /\ chain[m][p].status = "active"
    /\ chain' = [chain EXCEPT ![m][p].status = "over"]
    /\ UNCHANGED <<idem, conv, h, late, acks, faults>>

Drive(m, p) == StartChain(m, p) \/ EndChain(m, p)

-----------------------------------------------------------------------------
Next ==
    \/ \E f \in Frames : Receive(f) \/ Handle(f) \/ CallFails(f)
    \/ NexusCrash
    \/ \E m \in Messages : ClaimExpires(m)
    \/ \E s \in late : LateSpawn(s)
    \/ \E m \in Messages, p \in RootIds : Drive(m, p)

Spec == Init /\ [][Next]_vars

\* Every call of a handler is answered, and the DRO drives the chains that wait (what
\* ChainEngine shows of a DRO none of whose calls fail);
\* nothing makes a client send, a call fail or a late spawn be executed.
Fairness ==
    /\ \A f \in Frames : WF_vars(Handle(f))
    /\ \A p \in RootIds : WF_vars(\E m \in Messages : Drive(m, p))

FairSpec == Spec /\ Fairness

-----------------------------------------------------------------------------
(* Safety. *)

\* Where the turns of a message are, and the messages that were accepted.
TurnPositions(m) == {i \in DOMAIN conv : conv[i].msg = m}
Settled == {m \in Messages : idem[m].state = "done" \/ \E a \in acks : a.msg = m}

\* A message that was accepted is in the conversation once, at the position every
\* answer names, however often it was processed.
AcceptedIsRecorded ==
    /\ \A m \in Settled : Cardinality(TurnPositions(m)) = 1
    /\ \A a \in acks : a.id \in TurnPositions(a.msg)

\* No message is accepted and forgotten: for each root chain, one that waits or one
\* that started after the turn was written covers it.  Spawns that were dropped,
\* absorbed, repeated or executed late make no difference.
AcceptedIsCovered ==
    \A m \in Settled, p \in RootIds : \E n \in Messages :
       \/ chain[n][p].status = "pending"
       \/ /\ chain[n][p].status \in {"active", "over"}
          /\ \E i \in TurnPositions(m) : i <= chain[n][p].read

(* Liveness. *)

\* An accepted message is eventually read by a chain of each root pipeline that
\* runs to its end.
AcceptedIsRead ==
    \A m \in Messages, p \in RootIds :
       m \in Settled ~> \E n \in Messages, i \in TurnPositions(m) :
                           chain[n][p].status = "over" /\ i <= chain[n][p].read

=============================================================================
