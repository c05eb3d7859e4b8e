----------------------------- MODULE NexusProofs -----------------------------
(***************************************************************************)
(* Invariance proofs about Nexus.  MessageSend: any number of messages,    *)
(* frames, root chains, failing calls and crashes.  RefreshFamily: any     *)
(* number of requests and losses, timely or not.                           *)
(***************************************************************************)
EXTENDS MessageSend, RefreshFamily, FiniteSetTheorems, TLAPS

-----------------------------------------------------------------------------
(* MessageSend. *)

Texts == {send[2] : send \in UNION {Sends[f] : f \in Frames}}
Turn == [msg : Messages, content : Texts]

Record == [state : {"none", "claimed", "done"}, content : Texts \cup {None},
           fresh : BOOLEAN, id : Nat]
Chain == [status : {"none", "pending", "active", "over"}, read : Nat]
Handler == [pc : HandlerPcs \cup {"idle", "ended"}, msg : Messages \cup {None},
            content : Texts \cup {None}, id : Nat, root : RootIds]

\* A handler that runs has a message in hand; before the spawns its first root is next.
HandlerSound(f) ==
    /\ h[f].pc \in HandlerPcs => h[f].msg \in Messages /\ h[f].content \in Texts
    /\ h[f].pc \in {"idle", "claim", "write"} => h[f].root = 1

\* Every record is well formed.
WellFormed ==
    /\ idem \in [Messages -> Record]
    /\ conv \in Seq(Turn)
    /\ chain \in [Messages -> [RootIds -> Chain]]
    /\ h \in [Frames -> Handler]
    /\ \A f \in Frames : HandlerSound(f)
    /\ late \subseteq Messages \X RootIds
    /\ acks \subseteq [msg : Messages, content : Texts, id : Nat]
    /\ faults \in Nat

\* A message has at most one turn.
TurnsUnique == \A i, j \in DOMAIN conv : conv[i].msg = conv[j].msg => i = j

\* What a handler, a record or an answer names as the position of a turn is one.
PositionsTrue ==
    /\ \A f \in Frames : h[f].pc \in {"spawn", "put"} => h[f].id \in TurnPositions(h[f].msg)
    /\ \A m \in Messages : idem[m].state = "done" => idem[m].id \in TurnPositions(m)
    /\ \A a \in acks : a.id \in TurnPositions(a.msg)

\* A chain exists, or may come to exist, only for a message that has its turn; one that
\* has started read it.
ChainsFollowTurns ==
    /\ \A m \in Messages, p \in RootIds :
         /\ chain[m][p].status # "none" => TurnPositions(m) # {}
         /\ chain[m][p].status \in {"active", "over"} =>
               \A i \in TurnPositions(m) : i <= chain[m][p].read
    /\ \A s \in late : TurnPositions(s[1]) # {}

Reads(n, p, m) ==
    \/ chain[n][p].status = "pending"
    \/ /\ chain[n][p].status \in {"active", "over"}
       /\ \E i \in TurnPositions(m) : i <= chain[n][p].read

\* Some chain of root pipeline p reads, or will read, the turn of message m.
Covered(m, p) == \E n \in Messages : Reads(n, p, m)

\* The root chains a handler has spawned so far, and all those of a settled message, are
\* covered.
SpawnedIsCovered ==
    /\ \A f \in Frames :
         /\ h[f].pc = "spawn" => \A p \in 1..h[f].root - 1 : Covered(h[f].msg, p)
         /\ h[f].pc = "put" => \A p \in RootIds : Covered(h[f].msg, p)
    /\ \A m \in Settled, p \in RootIds : Covered(m, p)

IInv == WellFormed /\ TurnsUnique /\ PositionsTrue /\ ChainsFollowTurns /\ SpawnedIsCovered

-----------------------------------------------------------------------------
(* What every step keeps. *)

\* The conversation only grows.
ConvGrows == \A i \in DOMAIN conv : i \in DOMAIN conv' /\ conv'[i] = conv[i]

\* A chain is created, started with all that is written, or ended.
ChainMoves(m, p) ==
    \/ chain'[m][p] = chain[m][p]
    \/ chain[m][p].status = "none" /\ chain'[m][p].status = "pending"
    \/ /\ chain[m][p].status = "pending"
       /\ chain'[m][p] = [status |-> "active", read |-> Len(conv)] /\ conv' = conv
    \/ /\ chain[m][p].status = "active"
       /\ chain'[m][p].status = "over" /\ chain'[m][p].read = chain[m][p].read

HandlerTrue(f) ==
    /\ h[f].pc \in {"spawn", "put"} => h[f].id \in TurnPositions(h[f].msg)
    /\ h[f].pc = "spawn" => \A p \in 1..h[f].root - 1 : Covered(h[f].msg, p)
    /\ h[f].pc = "put" => \A p \in RootIds : Covered(h[f].msg, p)

\* m was accepted with the position i.
AcceptedAt(m, i) == i \in TurnPositions(m) /\ \A p \in RootIds : Covered(m, p)

LEMMA PositionsKept ==
    ASSUME ConvGrows, NEW m
    PROVE  TurnPositions(m) \subseteq TurnPositions(m)'
BY DEF ConvGrows, TurnPositions

LEMMA CoverageKept ==
    ASSUME WellFormed, ConvGrows, NEW m \in Messages, NEW p \in RootIds,
           \A n \in Messages : ChainMoves(n, p),
           TurnPositions(m) # {}, Covered(m, p)
    PROVE  Covered(m, p)'
<1>1. PICK n \in Messages : Reads(n, p, m)
  BY DEF Covered
<1>2. TurnPositions(m) \subseteq TurnPositions(m)'
  BY PositionsKept
<1>3. \A i \in TurnPositions(m) : i <= Len(conv)
  BY DEF TurnPositions, WellFormed
<1>4. ChainMoves(n, p)
  OBVIOUS
<1>5. Reads(n, p, m)'
  BY <1>1, <1>2, <1>3, <1>4 DEF Reads, ChainMoves
<1> QED
  BY <1>5 DEF Covered

\* A step keeps the invariant if the turns and the chains evolve as they should, and what
\* it says anew of a handler, a record or an answer is true.
LEMMA StepKeeps ==
    ASSUME IInv, WellFormed', TurnsUnique', ConvGrows,
           \A m \in Messages, p \in RootIds :
              /\ ChainMoves(m, p)
              /\ chain'[m][p].status # "none" => chain[m][p].status # "none" \/ TurnPositions(m) # {},
           \A s \in late' : s \in late \/ TurnPositions(s[1]) # {},
           \A f \in Frames : h'[f].pc \in {"spawn", "put"} => h'[f] = h[f] \/ HandlerTrue(f)',
           \A m \in Messages : idem'[m].state = "done" =>
              idem'[m] = idem[m] \/ AcceptedAt(m, idem[m].id)',
           \A a \in acks' : a \in acks \/ AcceptedAt(a.msg, a.id)'
    PROVE  IInv'
<1>1. \A m \in Messages : TurnPositions(m) \subseteq TurnPositions(m)'
  BY PositionsKept
<1>2. \A m \in Messages : TurnPositions(m) # {} => TurnPositions(m)' = TurnPositions(m)
  BY <1>1 DEF TurnsUnique, TurnPositions
<1>3. \A m \in Messages, p \in RootIds :
         TurnPositions(m) # {} /\ Covered(m, p) => Covered(m, p)'
  BY CoverageKept DEF IInv
<1>4. \A f \in Frames : HandlerTrue(f)'
  <2> SUFFICES ASSUME NEW f \in Frames, h'[f].pc \in {"spawn", "put"} PROVE HandlerTrue(f)'
    BY DEF HandlerTrue
  <2>1. CASE h'[f] = h[f]
    <3>1. h[f].msg \in Messages /\ h[f].id \in TurnPositions(h[f].msg) /\ h[f].root \in RootIds
      BY <2>1 DEF IInv, WellFormed, HandlerSound, PositionsTrue, HandlerPcs, Handler
    <3>2. 1..h[f].root - 1 \subseteq RootIds
      BY <3>1, MessageAssumption DEF RootIds
    <3> QED
      BY <1>1, <1>3, <2>1, <3>1, <3>2 DEF HandlerTrue, IInv, SpawnedIsCovered
  <2> QED
    BY <2>1
<1>5. \A m \in Messages : idem'[m].state = "done" => AcceptedAt(m, idem[m].id)'
  BY <1>1, <1>3 DEF AcceptedAt, IInv, PositionsTrue, SpawnedIsCovered, Settled
<1>6. \A a \in acks' : AcceptedAt(a.msg, a.id)'
  <2> SUFFICES ASSUME NEW a \in acks', a \in acks PROVE AcceptedAt(a.msg, a.id)'
    OBVIOUS
  <2>1. a.msg \in Settled
    BY DEF IInv, WellFormed, Settled
  <2> QED
    BY <1>1, <1>3, <2>1 DEF AcceptedAt, IInv, PositionsTrue, SpawnedIsCovered, Settled
<1>7. PositionsTrue'
  BY <1>4, <1>5, <1>6 DEF PositionsTrue, HandlerTrue, AcceptedAt
<1>8. SpawnedIsCovered'
  BY <1>4, <1>5, <1>6 DEF SpawnedIsCovered, HandlerTrue, AcceptedAt, Settled
<1>9. ChainsFollowTurns'
  <2>1. ASSUME NEW m \in Messages, NEW p \in RootIds
        PROVE  /\ chain'[m][p].status # "none" => TurnPositions(m)' # {}
               /\ chain'[m][p].status \in {"active", "over"} =>
                     \A i \in TurnPositions(m)' : i <= chain'[m][p].read
    <3>1. chain'[m][p].status # "none" => TurnPositions(m) # {} /\ TurnPositions(m)' = TurnPositions(m)
      BY <1>2 DEF IInv, ChainsFollowTurns
    <3>2. \A i \in TurnPositions(m) : i <= Len(conv)
      BY DEF TurnPositions, IInv, WellFormed
    <3>3. ChainMoves(m, p)
      OBVIOUS
    <3> QED
      BY <3>1, <3>2, <3>3 DEF IInv, ChainsFollowTurns, ChainMoves
  <2>2. \A s \in late' : s[1] \in Messages /\ TurnPositions(s[1]) # {}
    BY DEF IInv, WellFormed, ChainsFollowTurns
  <2> QED
    BY <1>1, <2>1, <2>2 DEF ChainsFollowTurns
<1> QED
  BY <1>7, <1>8, <1>9 DEF IInv

\* A step that leaves conversation and chains alone.
LEMMA QuietKeeps ==
    ASSUME IInv, WellFormed', UNCHANGED <<conv, chain>>,
           \A s \in late' : s \in late \/ TurnPositions(s[1]) # {},
           \A f \in Frames : h'[f].pc \in {"spawn", "put"} => h'[f] = h[f],
           \A m \in Messages : idem'[m].state = "done" =>
              idem'[m] = idem[m] \/ AcceptedAt(m, idem[m].id)',
           \A a \in acks' : a \in acks \/ AcceptedAt(a.msg, a.id)'
    PROVE  IInv'
<1>1. TurnsUnique' /\ ConvGrows
  BY DEF IInv, TurnsUnique, ConvGrows
<1>2. \A m \in Messages, p \in RootIds : ChainMoves(m, p) /\ chain'[m][p] = chain[m][p]
  BY DEF ChainMoves
<1> QED
  BY <1>1, <1>2, StepKeeps

\* What was accepted in this state still is when conversation and chains do not change.
LEMMA AcceptedKept ==
    ASSUME UNCHANGED <<conv, chain>>, NEW m, NEW i, AcceptedAt(m, i)
    PROVE  /\ i \in TurnPositions(m)'
           /\ \A p \in RootIds : Covered(m, p)'
BY DEF AcceptedAt, TurnPositions, Covered, Reads

\* A handler that goes on with its next call, or ends.
LEMMA GotoTyped ==
    ASSUME WellFormed, NEW f \in Frames, h[f].pc \in HandlerPcs,
           NEW pc \in {"write", "put", "release", "ended"}, pc = "write" => h[f].pc = "claim",
           Goto(f, pc)
    PROVE  /\ h' \in [Frames -> Handler] /\ \A g \in Frames : HandlerSound(g)'
           /\ \A g \in Frames \ {f} : h'[g] = h[g]
           /\ h'[f] = [h[f] EXCEPT !.pc = pc] /\ h'[f].pc = pc
BY DEF WellFormed, Goto, Handler, HandlerPcs, HandlerSound

LEMMA ReceiveKeeps == ASSUME IInv, NEW f \in Frames, Receive(f) PROVE IInv'
<1>1. PICK send \in Sends[f] :
         h' = [h EXCEPT ![f].pc = "claim", ![f].msg = send[1], ![f].content = send[2]]
  BY DEF Receive
<1>2. send[1] \in Messages /\ send[2] \in Texts
  BY MessageAssumption DEF Texts
<1>3. /\ h' \in [Frames -> Handler]
      /\ \A g \in Frames \ {f} : h'[g] = h[g]
      /\ h'[f].msg = send[1] /\ h'[f].content = send[2]
      /\ h'[f].pc = "claim" /\ h'[f].root = h[f].root
  BY <1>1, <1>2 DEF IInv, WellFormed, Handler, HandlerPcs
<1>4. \A g \in Frames : HandlerSound(g)'
  <2>1. h[f].root = 1
    BY DEF Receive, IInv, WellFormed, HandlerSound
  <2>2. \A g \in Frames \ {f} : HandlerSound(g)'
    BY <1>3 DEF HandlerSound, IInv, WellFormed
  <2> QED
    BY <1>2, <1>3, <2>1, <2>2 DEF HandlerSound
<1>5. WellFormed'
  BY <1>3, <1>4 DEF Receive, IInv, WellFormed
<1>6. \A g \in Frames : h'[g].pc \in {"spawn", "put"} => h'[g] = h[g]
  BY <1>3
<1> QED
  BY <1>5, <1>6, QuietKeeps DEF Receive

\* A claim is no acceptance.
LEMMA TakeClaimTyped ==
    ASSUME WellFormed, NEW m \in Messages, NEW c \in Texts, TakeClaim(m, c)
    PROVE  /\ idem' \in [Messages -> Record]
           /\ \A n \in Messages : idem'[n].state = "done" => idem'[n] = idem[n]
BY DEF WellFormed, TakeClaim, NoRecord, Record

LEMMA ClaimKeeps == ASSUME IInv, NEW f \in Frames, Claim(f) PROVE IInv'
<1>1. PICK m \in Messages, c \in Texts : m = h[f].msg /\ c = h[f].content
  BY DEF Claim, IInv, WellFormed, HandlerSound, HandlerPcs
<1>2. UNCHANGED <<conv, chain, late, faults>> /\ h[f].pc = "claim"
  BY DEF Claim
<1>3. PICK pc \in {"write", "ended"} : Goto(f, pc)
  BY DEF Claim
<1>4. /\ h' \in [Frames -> Handler] /\ \A g \in Frames : HandlerSound(g)'
      /\ \A g \in Frames : h'[g].pc \in {"spawn", "put"} => h'[g] = h[g]
  BY <1>2, <1>3, GotoTyped DEF IInv, HandlerPcs
<1>5. /\ idem' \in [Messages -> Record]
      /\ \A n \in Messages : idem'[n].state = "done" => idem'[n] = idem[n]
  BY <1>1, TakeClaimTyped DEF Claim, IInv, WellFormed
<1>6. acks' = acks \/ (Ack(f, idem[m].id) /\ idem[m].state = "done")
  BY <1>1 DEF Claim
<1>7. idem[m].state = "done" => AcceptedAt(m, idem[m].id)
  BY DEF AcceptedAt, IInv, PositionsTrue, SpawnedIsCovered, Settled
<1>8. \A a \in acks' : /\ a \in acks \/ AcceptedAt(a.msg, a.id)'
                       /\ a \in [msg : Messages, content : Texts, id : Nat]
  <2>1. idem[m].id \in Nat
    BY DEF IInv, WellFormed, Record
  <2> SUFFICES ASSUME NEW a \in acks', a \notin acks
               PROVE  AcceptedAt(a.msg, a.id)' /\ a \in [msg : Messages, content : Texts, id : Nat]
    BY DEF IInv, WellFormed
  <2>2. a = [msg |-> m, content |-> c, id |-> idem[m].id] /\ idem[m].state = "done"
    BY <1>1, <1>6 DEF Ack
  <2> QED
    BY <1>2, <1>7, <2>1, <2>2, AcceptedKept DEF AcceptedAt
<1>9. WellFormed'
  BY <1>2, <1>4, <1>5, <1>8 DEF IInv, WellFormed
<1> QED
  BY <1>2, <1>4, <1>5, <1>8, <1>9, QuietKeeps

\* The message is in the conversation, once, at the position the answer names.
LEMMA AppendTurnEffect ==
    ASSUME WellFormed, TurnsUnique, NEW m \in Messages, NEW c \in Texts, AppendTurn(m, c)
    PROVE  /\ conv' \in Seq(Turn)
           /\ TurnsUnique' /\ ConvGrows
           /\ PositionAfter(m) \in TurnPositions(m)' /\ PositionAfter(m) \in Nat
<1>1. CASE TurnsOf(m) # {}
  <2>1. conv' = conv
    BY <1>1 DEF AppendTurn
  <2>2. \E i \in 1..Len(conv') : conv'[i].msg = m
    BY <1>1, <2>1 DEF TurnsOf
  <2> QED
    BY <2>1, <2>2 DEF WellFormed, TurnsUnique, ConvGrows, PositionAfter, TurnPositions
<1>2. CASE TurnsOf(m) = {}
  <2> DEFINE turn == [msg |-> m, content |-> c]
  <2>1. conv' = Append(conv, turn) /\ conv \in Seq(Turn) /\ turn \in Turn
    BY <1>2 DEF AppendTurn, WellFormed, Turn
  <2>2. /\ conv' \in Seq(Turn) /\ Len(conv') = Len(conv) + 1 /\ Len(conv) \in Nat
        /\ \A i \in 1..Len(conv) : conv'[i] = conv[i]
        /\ conv'[Len(conv) + 1].msg = m
    BY <2>1
  <2>3. \E i \in 1..Len(conv') : conv'[i].msg = m
    BY <2>2
  <2>4. PositionAfter(m) \in TurnPositions(m)' /\ PositionAfter(m) \in Nat
    <3>1. PositionAfter(m) \in 1..Len(conv') /\ conv'[PositionAfter(m)].msg = m
      BY <2>3 DEF PositionAfter
    <3>2. DOMAIN conv' = 1..Len(conv')
      BY <2>2
    <3> QED
      BY <3>1, <3>2 DEF TurnPositions
  <2>5. ConvGrows
    BY <2>2 DEF ConvGrows, WellFormed
  <2>6. \A i \in 1..Len(conv) : conv[i].msg # m
    BY <1>2 DEF TurnsOf
  <2>7. TurnsUnique'
    BY <2>2, <2>6 DEF TurnsUnique, WellFormed
  <2> QED
    BY <2>2, <2>4, <2>5, <2>7
<1> QED
  BY <1>1, <1>2

LEMMA WriteKeeps == ASSUME IInv, NEW f \in Frames, Write(f) \/ WriteFails(f) PROVE IInv'
<1>1. PICK m \in Messages, c \in Texts : m = h[f].msg /\ c = h[f].content
  BY DEF Write, WriteFails, IInv, WellFormed, HandlerSound, HandlerPcs
<1>2. UNCHANGED <<idem, chain, late, acks>> /\ faults' \in Nat /\ h[f].pc = "write"
  BY DEF Write, WriteFails, Fault, IInv, WellFormed
<1>3. conv' = conv \/ AppendTurn(m, c)
  BY <1>1 DEF Write, WriteFails
<1>4. conv' \in Seq(Turn) /\ TurnsUnique' /\ ConvGrows
  BY <1>3, AppendTurnEffect DEF IInv, WellFormed, TurnsUnique, ConvGrows
<1>5. ASSUME NEW p \in RootIds, NEW n \in Messages PROVE ChainMoves(n, p)
  BY <1>2 DEF ChainMoves
<1>6. ASSUME h' \in [Frames -> Handler], \A g \in Frames : HandlerSound(g)',
             \A g \in Frames \ {f} : h'[g] = h[g],
             h'[f].pc \in {"spawn", "put"} => HandlerTrue(f)'
      PROVE  IInv'
  <2>1. WellFormed'
    BY <1>2, <1>4, <1>6 DEF IInv, WellFormed
  <2>2. \A g \in Frames : h'[g].pc \in {"spawn", "put"} => h'[g] = h[g] \/ HandlerTrue(g)'
    BY <1>6
  <2> QED
    BY <1>2, <1>4, <1>5, <2>1, <2>2, StepKeeps
<1>7. CASE WriteFails(f)
  <2>1. Goto(f, "release")
    BY <1>7 DEF WriteFails
  <2> QED
    BY <1>2, <1>6, <2>1, GotoTyped DEF IInv, HandlerPcs
<1>8. CASE Write(f)
  <2>1. PositionAfter(m) \in TurnPositions(m)' /\ PositionAfter(m) \in Nat
    BY <1>1, <1>8, AppendTurnEffect DEF Write, IInv
  <2>2. h' = [h EXCEPT ![f].pc = "spawn", ![f].id = PositionAfter(m)]
    BY <1>1, <1>8 DEF Write
  <2>3. /\ h' \in [Frames -> Handler] /\ \A g \in Frames \ {f} : h'[g] = h[g]
        /\ h'[f].msg = m /\ h'[f].content = c /\ h'[f].root = h[f].root
        /\ h'[f].pc = "spawn" /\ h'[f].id = PositionAfter(m)
    BY <1>1, <2>1, <2>2 DEF IInv, WellFormed, Handler, HandlerPcs
  <2>4. h[f].root = 1
    BY <1>2 DEF IInv, WellFormed, HandlerSound
  <2>5. HandlerTrue(f)'
    BY <2>1, <2>3, <2>4 DEF HandlerTrue, TurnPositions
  <2>6. \A g \in Frames : HandlerSound(g)'
    BY <2>3 DEF HandlerSound, IInv, WellFormed
  <2> QED
    BY <1>6, <2>3, <2>5, <2>6
<1> QED
  BY <1>7, <1>8

-----------------------------------------------------------------------------
(* Spawns, and the chains. *)

\* Whether a spawn is dropped, absorbed or creates the chain, the message is covered.
LEMMA AdmissionCovers ==
    ASSUME IInv, NEW m \in Messages, NEW p \in RootIds, TurnPositions(m) # {},
           Admission(m, p), conv' = conv
    PROVE  /\ chain' \in [Messages -> [RootIds -> Chain]]
           /\ \A n \in Messages, q \in RootIds :
                /\ ChainMoves(n, q)
                /\ chain'[n][q].status # "none" =>
                      chain[n][q].status # "none" \/ TurnPositions(n) # {}
           /\ Covered(m, p)'
<1>1. CASE UNCHANGED chain
  <2>1. chain[m][p].status # "none" \/ Waiting(p) # {}
    BY <1>1 DEF Admission, IInv, WellFormed, Chain
  <2>2. CASE chain[m][p].status = "none"
    <3>1. PICK n \in Messages : chain[n][p].status = "pending"
      BY <2>1, <2>2 DEF Waiting
    <3> QED
      BY <1>1, <3>1 DEF Covered, Reads, ChainMoves, IInv, WellFormed
  <2>3. CASE chain[m][p].status # "none"
    <3>1. chain[m][p].status \in {"pending", "active", "over"}
      BY <2>3 DEF IInv, WellFormed, Chain
    <3>2. Reads(m, p, m)'
      BY <1>1, <3>1 DEF Reads, IInv, ChainsFollowTurns, TurnPositions
    <3> QED
      BY <1>1, <3>2 DEF Covered, ChainMoves, IInv, WellFormed
  <2> QED
    BY <2>2, <2>3
<1>2. CASE chain[m][p].status = "none" /\ chain' = [chain EXCEPT ![m][p].status = "pending"]
  <2>1. chain \in [Messages -> [RootIds -> Chain]]
    BY DEF IInv, WellFormed
  <2>2. chain' \in [Messages -> [RootIds -> Chain]]
    BY <1>2, <2>1 DEF Chain
  <2>3. /\ chain'[m][p].status = "pending"
        /\ \A n \in Messages, q \in RootIds : n # m \/ q # p => chain'[n][q] = chain[n][q]
    BY <1>2, <2>1 DEF Chain
  <2>4. Covered(m, p)'
    BY <2>3 DEF Covered, Reads
  <2>5. \A n \in Messages, q \in RootIds : ChainMoves(n, q)
    BY <1>2, <2>3 DEF ChainMoves
  <2> QED
    BY <2>2, <2>3, <2>4, <2>5
<1> QED
  BY <1>1, <1>2 DEF Admission

LEMMA SpawnRootKeeps == ASSUME IInv, NEW f \in Frames, SpawnRoot(f) PROVE IInv'
<1>1. PICK m \in Messages, p \in RootIds : m = h[f].msg /\ p = h[f].root
  BY DEF SpawnRoot, IInv, WellFormed, HandlerSound, HandlerPcs, Handler
<1>2. UNCHANGED <<idem, conv, late, acks, faults>> /\ h[f].pc = "spawn" /\ Admission(m, p)
  BY <1>1 DEF SpawnRoot
<1>3. h[f].id \in TurnPositions(m) /\ \A q \in 1..p - 1 : Covered(m, q)
  BY <1>1, <1>2 DEF IInv, PositionsTrue, SpawnedIsCovered
<1>4. /\ chain' \in [Messages -> [RootIds -> Chain]]
      /\ \A n \in Messages, q \in RootIds :
           /\ ChainMoves(n, q)
           /\ chain'[n][q].status # "none" =>
                 chain[n][q].status # "none" \/ TurnPositions(n) # {}
      /\ Covered(m, p)'
  BY <1>2, <1>3, AdmissionCovers
<1>5. TurnsUnique' /\ ConvGrows
  BY <1>2 DEF IInv, TurnsUnique, ConvGrows
<1>6. \A q \in 1..p : Covered(m, q)'
  <2>1. 1..p - 1 \subseteq RootIds /\ 1..p \subseteq (1..p - 1) \cup {p}
    BY MessageAssumption DEF RootIds
  <2>2. \A q \in 1..p - 1 : Covered(m, q)'
    BY <1>3, <1>4, <1>5, <2>1, CoverageKept DEF IInv
  <2> QED
    BY <1>4, <2>1, <2>2
<1>7. /\ h' \in [Frames -> Handler] /\ \A g \in Frames \ {f} : h'[g] = h[g]
      /\ h'[f].msg = m /\ h'[f].content = h[f].content /\ h'[f].id = h[f].id
      /\ \/ h'[f].pc = "spawn" /\ h'[f].root = p + 1
         \/ h'[f].pc = "put" /\ ~(p < Roots)
  <2>1. CASE p < Roots
    <3>1. h' = [h EXCEPT ![f].root = @ + 1] /\ p + 1 \in RootIds
      BY <1>1, <2>1, MessageAssumption DEF SpawnRoot, HasNextRoot, RootIds
    <3> QED
      BY <1>1, <1>2, <3>1 DEF IInv, WellFormed, Handler
  <2>2. CASE ~(p < Roots)
    <3>1. h' = [h EXCEPT ![f].pc = "put"]
      BY <1>1, <2>2 DEF SpawnRoot, HasNextRoot
    <3> QED
      BY <1>1, <2>2, <3>1 DEF IInv, WellFormed, Handler, HandlerPcs
  <2> QED
    BY <2>1, <2>2
<1>8. \A g \in Frames : HandlerSound(g)'
  BY <1>1, <1>2, <1>7 DEF HandlerSound, IInv, WellFormed, HandlerPcs
<1>9. HandlerTrue(f)'
  <2>1. h'[f].id \in TurnPositions(m)'
    BY <1>2, <1>3, <1>7 DEF TurnPositions
  <2>2. p \in Nat /\ Roots \in Nat /\ p <= Roots
    BY MessageAssumption DEF RootIds
  <2>3. h'[f].pc = "put" => \A q \in RootIds : Covered(m, q)'
    BY <1>6, <1>7, <2>2 DEF RootIds
  <2>4. h'[f].pc = "spawn" => \A q \in 1..h'[f].root - 1 : Covered(m, q)'
    BY <1>6, <1>7, <2>2
  <2> QED
    BY <1>7, <2>1, <2>3, <2>4 DEF HandlerTrue, TurnPositions, Covered, Reads
<1>10. WellFormed'
  BY <1>2, <1>4, <1>7, <1>8 DEF IInv, WellFormed
<1>11. \A g \in Frames : h'[g].pc \in {"spawn", "put"} => h'[g] = h[g] \/ HandlerTrue(g)'
  BY <1>7, <1>9
<1> QED
  BY <1>2, <1>4, <1>5, <1>10, <1>11, StepKeeps

LEMMA LateSpawnKeeps == ASSUME IInv, NEW s \in late, LateSpawn(s) PROVE IInv'
<1>1. s[1] \in Messages /\ s[2] \in RootIds /\ TurnPositions(s[1]) # {}
  BY DEF IInv, WellFormed, ChainsFollowTurns
<1>2. UNCHANGED <<idem, conv, h, acks, faults>> /\ late' \subseteq late /\ Admission(s[1], s[2])
  BY DEF LateSpawn
<1>3. /\ chain' \in [Messages -> [RootIds -> Chain]]
      /\ \A n \in Messages, q \in RootIds :
           /\ ChainMoves(n, q)
           /\ chain'[n][q].status # "none" =>
                 chain[n][q].status # "none" \/ TurnPositions(n) # {}
  BY <1>1, <1>2, AdmissionCovers
<1>4. TurnsUnique' /\ ConvGrows
  BY <1>2 DEF IInv, TurnsUnique, ConvGrows
<1>5. WellFormed'
  BY <1>2, <1>3 DEF IInv, WellFormed, HandlerSound
<1> QED
  BY <1>2, <1>3, <1>4, <1>5, StepKeeps

LEMMA DriveKeeps ==
    ASSUME IInv, NEW m \in Messages, NEW p \in RootIds, Drive(m, p) PROVE IInv'
<1>1. UNCHANGED <<idem, conv, h, late, acks, faults>>
  BY DEF Drive, StartChain, EndChain
<1>2. chain \in [Messages -> [RootIds -> Chain]] /\ Len(conv) \in Nat
  BY DEF IInv, WellFormed
<1>3. /\ chain' \in [Messages -> [RootIds -> Chain]]
      /\ \A n \in Messages, q \in RootIds : n # m \/ q # p => chain'[n][q] = chain[n][q]
      /\ ChainMoves(m, p) /\ chain[m][p].status # "none"
  <2>1. CASE StartChain(m, p)
    <3>1. [status |-> "active", read |-> Len(conv)] \in Chain
      BY <1>2 DEF Chain
    <3>2. chain' = [chain EXCEPT ![m][p] = [status |-> "active", read |-> Len(conv)]]
      BY <2>1 DEF StartChain
    <3> QED
      BY <1>1, <1>2, <2>1, <3>1, <3>2 DEF StartChain, ChainMoves
  <2>2. CASE EndChain(m, p)
    <3>1. chain' = [chain EXCEPT ![m][p].status = "over"] /\ chain[m][p].status = "active"
      BY <2>2 DEF EndChain
    <3>2. chain' \in [Messages -> [RootIds -> Chain]]
      <4>1. chain[m][p] \in Chain
        BY <1>2
      <4>2. [chain[m][p] EXCEPT !.status = "over"] \in Chain
        BY <4>1 DEF Chain
      <4> QED
        BY <1>2, <3>1, <4>2
    <3>3. /\ chain'[m][p].status = "over" /\ chain'[m][p].read = chain[m][p].read
          /\ \A n \in Messages, q \in RootIds : n # m \/ q # p => chain'[n][q] = chain[n][q]
      BY <1>2, <3>1 DEF Chain
    <3> QED
      BY <3>1, <3>2, <3>3 DEF ChainMoves
  <2> QED
    BY <2>1, <2>2 DEF Drive
<1>4. \A n \in Messages, q \in RootIds :
         /\ ChainMoves(n, q)
         /\ chain'[n][q].status # "none" => chain[n][q].status # "none" \/ TurnPositions(n) # {}
  BY <1>3 DEF ChainMoves
<1>5. TurnsUnique' /\ ConvGrows
  BY <1>1 DEF IInv, TurnsUnique, ConvGrows
<1>6. WellFormed'
  BY <1>1, <1>3 DEF IInv, WellFormed, HandlerSound
<1> QED
  BY <1>1, <1>4, <1>5, <1>6, StepKeeps

-----------------------------------------------------------------------------
(* Records, answers and failures. *)

LEMMA PutKeeps == ASSUME IInv, NEW f \in Frames, Put(f) \/ PutFails(f) PROVE IInv'
<1>1. PICK m \in Messages, c \in Texts, i \in Nat : m = h[f].msg /\ c = h[f].content /\ i = h[f].id
  BY DEF Put, PutFails, IInv, WellFormed, HandlerSound, HandlerPcs, Handler
<1>2. /\ UNCHANGED <<conv, chain, late>> /\ faults' \in Nat
      /\ h[f].pc = "put" /\ Goto(f, "ended") /\ Ack(f, i)
  BY <1>1 DEF Put, PutFails, Fault, IInv, WellFormed
<1>3. AcceptedAt(m, i)
  BY <1>1, <1>2 DEF AcceptedAt, IInv, PositionsTrue, SpawnedIsCovered
<1>4. i \in TurnPositions(m)' /\ \A p \in RootIds : Covered(m, p)'
  BY <1>2, <1>3, AcceptedKept
<1>5. /\ h' \in [Frames -> Handler] /\ \A g \in Frames : HandlerSound(g)'
      /\ \A g \in Frames : h'[g].pc \in {"spawn", "put"} => h'[g] = h[g]
  BY <1>2, GotoTyped DEF IInv, HandlerPcs
<1>6. \A a \in acks' : /\ a \in acks \/ AcceptedAt(a.msg, a.id)'
                       /\ a \in [msg : Messages, content : Texts, id : Nat]
  <2>1. acks' = acks \cup {[msg |-> m, content |-> c, id |-> i]}
    BY <1>1, <1>2 DEF Ack
  <2> QED
    BY <1>4, <2>1 DEF AcceptedAt, IInv, WellFormed
<1>7. /\ idem' \in [Messages -> Record]
      /\ \A n \in Messages : idem'[n].state = "done" =>
            idem'[n] = idem[n] \/ AcceptedAt(n, idem[n].id)'
  <2>1. CASE idem' = idem
    BY <2>1 DEF IInv, WellFormed
  <2>2. CASE Put(f)
    <3> DEFINE done == [NoRecord EXCEPT !.state = "done", !.content = c, !.id = i]
    <3>1. idem' = [idem EXCEPT ![m] = done]
      BY <1>1, <2>2 DEF Put
    <3>2. done \in Record /\ done.id = i
      BY DEF NoRecord, Record
    <3> HIDE DEF done
    <3>3. /\ idem' \in [Messages -> Record] /\ idem'[m].id = i
          /\ \A n \in Messages \ {m} : idem'[n] = idem[n]
      BY <3>1, <3>2 DEF IInv, WellFormed
    <3> QED
      BY <1>4, <3>3 DEF AcceptedAt
  <2> QED
    BY <2>1, <2>2 DEF PutFails
<1>8. WellFormed'
  BY <1>2, <1>5, <1>6, <1>7 DEF IInv, WellFormed
<1> QED
  BY <1>2, <1>5, <1>6, <1>7, <1>8, QuietKeeps

LEMMA ReleaseKeeps == ASSUME IInv, NEW f \in Frames, Release(f) \/ ReleaseFails(f) PROVE IInv'
<1>1. /\ UNCHANGED <<conv, chain, late, acks>> /\ faults' \in Nat
      /\ h[f].pc = "release" /\ Goto(f, "ended") /\ h[f].msg \in Messages
  BY DEF Release, ReleaseFails, Fault, IInv, WellFormed, HandlerSound, HandlerPcs
<1>2. /\ h' \in [Frames -> Handler] /\ \A g \in Frames : HandlerSound(g)'
      /\ \A g \in Frames : h'[g].pc \in {"spawn", "put"} => h'[g] = h[g]
  BY <1>1, GotoTyped DEF IInv, HandlerPcs
<1>3. /\ idem' \in [Messages -> Record]
      /\ \A n \in Messages : idem'[n].state = "done" => idem'[n] = idem[n]
  <2>1. NoRecord \in Record /\ NoRecord.state # "done"
    BY DEF NoRecord, Record
  <2>2. idem' = idem \/ idem' = [idem EXCEPT ![h[f].msg] = NoRecord]
    BY DEF Release, ReleaseFails
  <2> QED
    BY <1>1, <2>1, <2>2 DEF IInv, WellFormed
<1>4. WellFormed'
  BY <1>1, <1>2, <1>3 DEF IInv, WellFormed
<1> QED
  BY <1>1, <1>2, <1>3, <1>4, QuietKeeps

LEMMA ClaimFailsKeeps == ASSUME IInv, NEW f \in Frames, ClaimFails(f) PROVE IInv'
<1>1. /\ UNCHANGED <<conv, chain, late, acks>> /\ faults' \in Nat
      /\ h[f].pc = "claim" /\ Goto(f, "ended") /\ h[f].msg \in Messages /\ h[f].content \in Texts
  BY DEF ClaimFails, Fault, IInv, WellFormed, HandlerSound, HandlerPcs
<1>2. /\ h' \in [Frames -> Handler] /\ \A g \in Frames : HandlerSound(g)'
      /\ \A g \in Frames : h'[g].pc \in {"spawn", "put"} => h'[g] = h[g]
  BY <1>1, GotoTyped DEF IInv, HandlerPcs
<1>3. /\ idem' \in [Messages -> Record]
      /\ \A n \in Messages : idem'[n].state = "done" => idem'[n] = idem[n]
  BY <1>1, TakeClaimTyped DEF ClaimFails, IInv, WellFormed
<1>4. WellFormed'
  BY <1>1, <1>2, <1>3 DEF IInv, WellFormed
<1> QED
  BY <1>1, <1>2, <1>3, <1>4, QuietKeeps

LEMMA SpawnFailsKeeps == ASSUME IInv, NEW f \in Frames, SpawnFails(f) PROVE IInv'
<1>1. /\ UNCHANGED <<idem, conv, chain, acks>> /\ faults' \in Nat
      /\ h[f].pc = "spawn" /\ Goto(f, "release")
      /\ h[f].msg \in Messages /\ h[f].root \in RootIds
  BY DEF SpawnFails, Fault, IInv, WellFormed, HandlerSound, HandlerPcs, Handler
<1>2. /\ h' \in [Frames -> Handler] /\ \A g \in Frames : HandlerSound(g)'
      /\ \A g \in Frames : h'[g].pc \in {"spawn", "put"} => h'[g] = h[g]
  BY <1>1, GotoTyped DEF IInv, HandlerPcs
<1>3. TurnPositions(h[f].msg) # {}
  BY <1>1 DEF IInv, PositionsTrue
<1>4. /\ late' \subseteq Messages \X RootIds
      /\ \A s \in late' : s \in late \/ TurnPositions(s[1]) # {}
  <2>1. late' = late \/ late' = late \cup {<<h[f].msg, h[f].root>>}
    BY DEF SpawnFails
  <2>2. <<h[f].msg, h[f].root>> \in Messages \X RootIds
    BY <1>1
  <2>3. <<h[f].msg, h[f].root>>[1] = h[f].msg
    OBVIOUS
  <2> QED
    BY <1>3, <2>1, <2>2, <2>3 DEF IInv, WellFormed
<1>5. WellFormed'
  BY <1>1, <1>2, <1>4 DEF IInv, WellFormed
<1> QED
  BY <1>1, <1>2, <1>4, <1>5, QuietKeeps

LEMMA CrashKeeps == ASSUME IInv, NexusCrash PROVE IInv'
<1>1. UNCHANGED <<idem, conv, chain, late, acks>> /\ faults' \in Nat
  BY DEF NexusCrash, Fault, IInv, WellFormed
<1>2. /\ h' \in [Frames -> Handler] /\ \A g \in Frames : HandlerSound(g)'
      /\ \A g \in Frames : h'[g].pc \in {"spawn", "put"} => h'[g] = h[g]
  BY DEF NexusCrash, IInv, WellFormed, Handler, HandlerSound, HandlerPcs
<1>3. WellFormed'
  BY <1>1, <1>2 DEF IInv, WellFormed
<1> QED
  BY <1>1, <1>2, <1>3, QuietKeeps

LEMMA ExpiryKeeps == ASSUME IInv, NEW m \in Messages, ClaimExpires(m) PROVE IInv'
<1>1. UNCHANGED <<conv, chain, h, late, acks, faults>>
  BY DEF ClaimExpires
<1>2. /\ idem' \in [Messages -> Record]
      /\ \A n \in Messages : idem'[n].state = "done" => idem'[n] = idem[n]
  BY DEF ClaimExpires, Record, IInv, WellFormed
<1>3. WellFormed'
  BY <1>1, <1>2 DEF IInv, WellFormed, HandlerSound
<1> QED
  BY <1>1, <1>2, <1>3, QuietKeeps

-----------------------------------------------------------------------------
LEMMA InitIInv == Init => IInv
<1> SUFFICES ASSUME Init PROVE IInv
  OBVIOUS
<1>1. 1 \in RootIds
  BY MessageAssumption DEF RootIds
<1>2. WellFormed
  BY <1>1 DEF Init, WellFormed, Record, Chain, Handler, HandlerSound, HandlerPcs, NoRecord,
              NoChain, IdleHandler
<1>3. Settled = {}
  BY DEF Init, Settled, NoRecord
<1> QED
  BY <1>2, <1>3 DEF Init, IInv, TurnsUnique, PositionsTrue, ChainsFollowTurns,
                    SpawnedIsCovered, NoRecord, NoChain, IdleHandler

LEMMA NextIInv == IInv /\ [Next]_vars => IInv'
<1> SUFFICES ASSUME IInv, [Next]_vars PROVE IInv'
  OBVIOUS
<1>1. ASSUME NEW f \in Frames, Handle(f) PROVE IInv'
  BY <1>1, ClaimKeeps, WriteKeeps, SpawnRootKeeps, PutKeeps, ReleaseKeeps DEF Handle
<1>2. ASSUME NEW f \in Frames, CallFails(f) PROVE IInv'
  BY <1>2, ClaimFailsKeeps, WriteKeeps, SpawnFailsKeeps, PutKeeps, ReleaseKeeps DEF CallFails
<1>3. CASE UNCHANGED vars
  <2>1. WellFormed'
    BY <1>3 DEF vars, IInv, WellFormed, HandlerSound
  <2> QED
    BY <1>3, <2>1, QuietKeeps DEF vars
<1> QED
  BY <1>1, <1>2, <1>3, ReceiveKeeps, CrashKeeps, ExpiryKeeps, LateSpawnKeeps, DriveKeeps DEF Next

LEMMA Invariance == Spec => []IInv
BY InitIInv, NextIInv, PTL DEF Spec

\* However often a message is sent, retried or resumed after a crash, and whatever calls
\* fail: if it was accepted, it is in the conversation once, where every answer says
\* (append_conversation, put_idempotency).
THEOREM AcceptedMessagesRecorded == Spec => []AcceptedIsRecorded
<1>1. ASSUME IInv PROVE AcceptedIsRecorded
  <2>1. ASSUME NEW m \in Settled PROVE Cardinality(TurnPositions(m)) = 1
    <3>1. TurnPositions(m) # {}
      BY <1>1 DEF Settled, IInv, PositionsTrue
    <3>2. PICK i : TurnPositions(m) = {i}
      BY <1>1, <3>1 DEF IInv, TurnsUnique, TurnPositions
    <3> QED
      BY <3>2, FS_Singleton
  <2> QED
    BY <1>1, <2>1 DEF AcceptedIsRecorded, IInv, PositionsTrue
<1> QED
  BY <1>1, Invariance, PTL

\* No accepted message is forgotten: for each root pipeline there is a chain that waits,
\* or one that started after the turn was written (run_chain's absorption, the fixed
\* chain ids, the order of write, spawns and record).
THEOREM AcceptedMessagesCovered == Spec => []AcceptedIsCovered
<1>1. IInv => AcceptedIsCovered
  BY DEF IInv, SpawnedIsCovered, AcceptedIsCovered, Covered, Reads
<1> QED
  BY <1>1, Invariance, PTL

-----------------------------------------------------------------------------
(* RefreshFamily. *)

\* A rotated token was the current one before it, and is not any more.
RotatedIsPast == \A r \in Requests : reqs[r].result = "rotated" => reqs[r].jti < current

\* A request has a result when it is answered, and none before it is sent.
RequestsAnswered ==
    \A r \in Requests :
       /\ reqs[r].pc = "answered" => reqs[r].result \in Results
       /\ reqs[r].pc = "idle" => reqs[r].result = "none"

FamilyIInv == TypeOK /\ RotatedOnce /\ RotatedIsPast /\ RequestsAnswered

\* What a request record looks like while its token and answer name existing tokens.
Request == [pc : {"idle", "sent", "answered", "over"}, jti : 0..current,
            result : Results \cup {"none"}, new : 0..current]

LEMMA FamilyInitIInv == FamilyInit => FamilyIInv
<1> SUFFICES ASSUME FamilyInit PROVE FamilyIInv
  OBVIOUS
<1>1. \A r \in Requests : reqs[r].result = "none"
  BY DEF FamilyInit
<1>2. RotatedOnce /\ RotatedIsPast
  BY <1>1 DEF RotatedOnce, RotatedIsPast
<1>3. RequestsAnswered
  BY <1>1 DEF RequestsAnswered, FamilyInit
<1>4. reqs \in [Requests -> Request] /\ jar \in 0..current /\ lost \in 0..MaxLost
  BY RefreshAssumption DEF FamilyInit, Request, Results
<1>5. TypeOK
  BY <1>4 DEF FamilyInit, TypeOK, Request
<1> QED
  BY <1>2, <1>3, <1>5 DEF FamilyIInv

\* A request that only moves on keeps its part of the invariant.
LEMMA MoveIInv ==
    ASSUME FamilyIInv, NEW r \in Requests, NEW pc \in {"sent", "over"}, NEW jti \in 0..current,
           reqs[r].result = "rotated" => jti = reqs[r].jti,
           reqs' = [reqs EXCEPT ![r].pc = pc, ![r].jti = jti],
           jar' \in 0..current, lost' \in 0..MaxLost,
           UNCHANGED <<family, logout>>
    PROVE  FamilyIInv'
<1>1. reqs \in [Requests -> Request] /\ current \in Nat
  BY DEF FamilyIInv, TypeOK, Request
<1>2. \A q \in Requests : reqs'[q] = IF q = r THEN [reqs[r] EXCEPT !.pc = pc, !.jti = jti]
                                              ELSE reqs[q]
  BY <1>1
<1>3. \A q \in Requests : reqs'[q].result = reqs[q].result
  BY <1>1, <1>2 DEF Request
<1>4. \A q \in Requests : reqs[q].result = "rotated" => reqs'[q].jti = reqs[q].jti
  BY <1>1, <1>2 DEF Request
<1>5. \A q \in Requests : reqs'[q].pc \in {"answered", "idle"} => reqs'[q].pc = reqs[q].pc
  BY <1>1, <1>2 DEF Request
<1>6. reqs' \in [Requests -> Request]
  BY <1>1 DEF Request
<1>7. TypeOK'
  <2>1. reqs' \in [Requests -> Request'] /\ jar' \in 0..current' /\ lost' \in 0..MaxLost
    BY <1>6 DEF Request, family
  <2> QED
    BY <2>1 DEF FamilyIInv, TypeOK, family, Request
<1>8. RotatedOnce'
  BY <1>3, <1>4 DEF FamilyIInv, RotatedOnce
<1>9. RotatedIsPast'
  BY <1>3, <1>4 DEF FamilyIInv, RotatedIsPast, family
<1>10. RequestsAnswered'
  BY <1>3, <1>5 DEF FamilyIInv, RequestsAnswered
<1> QED
  BY <1>7, <1>8, <1>9, <1>10 DEF FamilyIInv

LEMMA RotateIInv == ASSUME FamilyIInv, NEW r \in Requests, Rotate(r) PROVE FamilyIInv'
<1> DEFINE jti == reqs[r].jti
<1>1. reqs \in [Requests -> Request] /\ current \in Nat /\ jti \in 0..current
  BY DEF FamilyIInv, TypeOK, Request
<1>2. ASSUME NEW result \in {"concurrent", "rejected"}, Answer(r, result, 0),
             current' = current, prev' = prev, grace' = grace, revoked' \in BOOLEAN,
             UNCHANGED <<jar, logout, lost>>
      PROVE  FamilyIInv'
  <2>1. \A q \in Requests : reqs'[q] = IF q = r THEN [reqs[r] EXCEPT !.pc = "answered",
                                                        !.result = result, !.new = 0]
                                                ELSE reqs[q]
    BY <1>1, <1>2 DEF Answer
  <2>2. \A q \in Requests : reqs'[q].result = "rotated" =>
           reqs[q].result = "rotated" /\ reqs'[q].jti = reqs[q].jti
    BY <1>1, <2>1 DEF Request
  <2>3. RequestsAnswered'
    BY <1>1, <2>1 DEF RequestsAnswered, FamilyIInv, Request, Results
  <2>4. TypeOK'
    <3>1. [reqs[r] EXCEPT !.pc = "answered", !.result = result, !.new = 0] \in Request
      <4>1. reqs[r] \in Request /\ result \in Results \cup {"none"} /\ 0 \in 0..current
        BY <1>1 DEF Results
      <4> QED
        BY <4>1 DEF Request
    <3>2. reqs' \in [Requests -> Request]
      BY <1>1, <1>2, <2>1, <3>1 DEF Answer
    <3>3. Request' = Request
      BY <1>2 DEF Request
    <3> QED
      BY <1>2, <3>2, <3>3 DEF FamilyIInv, TypeOK, Request
  <2>5. RotatedOnce' /\ RotatedIsPast'
    BY <1>2, <2>2 DEF FamilyIInv, RotatedOnce, RotatedIsPast
  <2> QED
    BY <2>3, <2>4, <2>5 DEF FamilyIInv
<1>3. ASSUME IsCurrent(jti), prev' = jti, current' = current + 1, grace' = TRUE,
             Answer(r, "rotated", current + 1), UNCHANGED <<revoked, jar, logout, lost>>
      PROVE  FamilyIInv'
  <2>1. \A q \in Requests : reqs'[q] = IF q = r THEN [reqs[r] EXCEPT !.pc = "answered",
                                                !.result = "rotated", !.new = current + 1]
                                                ELSE reqs[q]
    BY <1>1, <1>3 DEF Answer
  <2>2. reqs'[r].jti = current
    BY <1>1, <1>3, <2>1 DEF Request, IsCurrent
  <2>3. \A q \in Requests \ {r} : reqs'[q] = reqs[q]
    BY <2>1
  <2>4. \A q \in Requests \ {r} : reqs[q].result = "rotated" => reqs[q].jti < current
    BY DEF FamilyIInv, RotatedIsPast
  <2>5. RequestsAnswered'
    BY <1>1, <2>1 DEF RequestsAnswered, FamilyIInv, Request, Results
  <2>6. \A q \in Requests : reqs[q].jti \in 0..current
    BY <1>1 DEF Request
  <2>7. RotatedIsPast'
    BY <1>1, <1>3, <2>2, <2>3, <2>4, <2>6 DEF RotatedIsPast
  <2>8. RotatedOnce'
    <3> SUFFICES ASSUME NEW p \in Requests, NEW q \in Requests,
                        reqs'[p].result = "rotated", reqs'[q].result = "rotated",
                        reqs'[p].jti = reqs'[q].jti, p # q
                 PROVE  FALSE
      BY DEF RotatedOnce
    <3>1. CASE p = r \/ q = r
      BY <3>1, <1>1, <2>2, <2>3, <2>4, <2>6
    <3>2. CASE p # r /\ q # r
      BY <3>2, <2>3 DEF FamilyIInv, RotatedOnce
    <3> QED
      BY <3>1, <3>2
  <2>9. TypeOK'
    <3>1. reqs' \in [Requests -> Request']
      BY <1>1, <1>3 DEF Answer, Request, Results
    <3>2. jar' \in 0..current'
      BY <1>1, <1>3 DEF FamilyIInv, TypeOK
    <3> QED
      BY <1>1, <1>3, <3>1, <3>2 DEF FamilyIInv, TypeOK, Request
  <2> QED
    BY <2>5, <2>7, <2>8, <2>9 DEF FamilyIInv
<1> QED
  BY <1>2, <1>3 DEF Rotate, family, FamilyIInv, TypeOK

LEMMA FamilyNextIInv == FamilyIInv /\ [FamilyNext]_familyVars => FamilyIInv'
<1> SUFFICES ASSUME FamilyIInv, [FamilyNext]_familyVars PROVE FamilyIInv'
  OBVIOUS
<1>0. /\ reqs \in [Requests -> Request] /\ current \in Nat /\ MaxLost \in Nat
      /\ jar \in 0..current /\ lost \in 0..MaxLost
  BY RefreshAssumption DEF FamilyIInv, TypeOK, Request
<1>1. ASSUME NEW r \in Requests, Send(r) PROVE FamilyIInv'
  <2>1. reqs[r].result # "rotated"
    BY <1>1 DEF Send, FamilyIInv, RequestsAnswered
  <2> QED
    BY <1>0, <1>1, <2>1, MoveIInv DEF Send
<1>2. ASSUME NEW r \in Requests, Rotate(r) PROVE FamilyIInv'
  BY <1>2, RotateIInv
<1>3. ASSUME NEW r \in Requests, Deliver(r) \/ Lose(r) PROVE FamilyIInv'
  <2>1. reqs' = [reqs EXCEPT ![r].pc = "over", ![r].jti = reqs[r].jti]
    BY <1>0, <1>3 DEF Deliver, Lose, Request
  <2>2. Deliver(r) => jar' \in 0..current
    BY <1>0 DEF Deliver, CookieAfter, FamilyIInv, RequestsAnswered, Results, Request
  <2>3. reqs[r].jti \in 0..current
    BY <1>0 DEF Request
  <2>4. jar' \in 0..current /\ lost' \in 0..MaxLost /\ UNCHANGED <<family, logout>>
    BY <1>0, <1>3, <2>2 DEF Deliver, Lose
  <2> QED
    BY <2>1, <2>3, <2>4, MoveIInv
<1>4. CASE GraceEnds \/ SendLogout \/ Revoke \/ DeliverLogout
  <2>1. reqs' = reqs /\ current' = current
    BY <1>4 DEF GraceEnds, SendLogout, Revoke, DeliverLogout, family
  <2>2. jar' \in 0..current /\ lost' = lost /\ prev' = prev
    <3>1. CASE DeliverLogout
      BY <1>0, <3>1 DEF DeliverLogout, family
    <3>2. CASE GraceEnds \/ SendLogout \/ Revoke
      BY <1>0, <3>2 DEF GraceEnds, SendLogout, Revoke, family
    <3> QED
      BY <1>4, <3>1, <3>2
  <2>3. grace' \in BOOLEAN /\ revoked' \in BOOLEAN
    BY <1>4 DEF GraceEnds, SendLogout, Revoke, DeliverLogout, family, FamilyIInv, TypeOK
  <2>4. logout' \in {"idle", "sent", "answered", "over"}
    BY <1>4 DEF GraceEnds, SendLogout, Revoke, DeliverLogout, FamilyIInv, TypeOK
  <2>5. TypeOK'
    BY <2>1, <2>2, <2>3, <2>4 DEF FamilyIInv, TypeOK
  <2> QED
    BY <2>1, <2>5 DEF FamilyIInv, RotatedOnce, RotatedIsPast, RequestsAnswered
<1>5. CASE UNCHANGED familyVars
  BY <1>5 DEF familyVars, family, FamilyIInv, TypeOK, RotatedOnce, RotatedIsPast, RequestsAnswered
<1> QED
  BY <1>1, <1>2, <1>3, <1>4, <1>5 DEF FamilyNext

\* A refresh token is rotated for one request only (rotate_refresh_family), for any
\* number of tabs and losses; with it the records are well formed.
THEOREM TokensRotateOnce == FamilySpec => [](TypeOK /\ RotatedOnce)
<1>1. FamilySpec => []FamilyIInv
  BY FamilyInitIInv, FamilyNextIInv, PTL DEF FamilySpec
<1>2. FamilyIInv => TypeOK /\ RotatedOnce
  BY DEF FamilyIInv
<1> QED
  BY <1>1, <1>2, PTL

-----------------------------------------------------------------------------
(* The browser keeps its login. *)

\* Nothing was lost or revoked and nobody logs out.
Undisturbed == ~revoked /\ lost = 0 /\ logout = "idle"

\* Tokens follow each other; a request on its way has one, and an answer names the next.
TokensFollow ==
    /\ prev + 1 = current
    /\ \A r \in Requests :
         /\ reqs[r].pc = "sent" => reqs[r].jti > 0 /\ reqs[r].result = "none"
         /\ reqs[r].result = "rotated" => reqs[r].new = reqs[r].jti + 1

\* The jar holds the current token, or the one before it while the answer with the current
\* one is under way; no request carries a later one.
JarFollows ==
    Undisturbed =>
       /\ jar > 0
       /\ jar = current \/ \E r \in Requests : reqs[r].pc = "answered" /\ reqs[r].result = "rotated"
       /\ \A r \in Requests :
            /\ reqs[r].pc = "sent" => reqs[r].jti <= jar
            /\ reqs[r].pc = "answered" => reqs[r].result # "rejected"
            /\ reqs[r].pc = "answered" /\ reqs[r].result = "rotated" =>
                  reqs[r].new = current /\ jar + 1 = current

\* When the grace is over, every request under way carries the current token.
GraceOutlasts ==
    Timely /\ Undisturbed /\ ~grace =>
       /\ jar = current
       /\ \A r \in Requests : reqs[r].pc = "sent" => reqs[r].jti = current

JarInv == TokensFollow /\ JarFollows /\ GraceOutlasts /\ (Timely => LogoutExplained)

LEMMA InitJarInv == FamilyInit => JarInv
BY DEF FamilyInit, JarInv, TokensFollow, JarFollows, GraceOutlasts, LogoutExplained

\* What delivery or loss leaves of the requests.
LEMMA OverEffect ==
    ASSUME FamilyIInv, NEW r \in Requests, reqs' = [reqs EXCEPT ![r].pc = "over"]
    PROVE  /\ \A q \in Requests : /\ reqs'[q].jti = reqs[q].jti /\ reqs'[q].new = reqs[q].new
                                  /\ reqs'[q].result = reqs[q].result
           /\ \A q \in Requests \ {r} : reqs'[q].pc = reqs[q].pc
           /\ reqs'[r].pc = "over"
BY DEF FamilyIInv, TypeOK

LEMMA SendJarInv == ASSUME JarInv, FamilyIInv, NEW r \in Requests, Send(r) PROVE JarInv'
<1>1. /\ reqs[r].pc = "idle" /\ jar # 0 /\ UNCHANGED <<family, jar, logout, lost>>
      /\ reqs' = [reqs EXCEPT ![r].pc = "sent", ![r].jti = jar]
  BY DEF Send
<1>2. /\ \A q \in Requests \ {r} : reqs'[q] = reqs[q]
      /\ reqs'[r].pc = "sent" /\ reqs'[r].jti = jar /\ reqs'[r].result = "none"
      /\ reqs[r].result = "none" /\ jar \in Nat /\ current \in Nat
  BY <1>1 DEF FamilyIInv, TypeOK, RequestsAnswered
<1>3. TokensFollow'
  <2>1. \A q \in Requests : q = r \/ reqs'[q] = reqs[q]
    BY <1>2
  <2>2. jar > 0 /\ current' = current /\ prev' = prev
    BY <1>1, <1>2 DEF family
  <2> QED
    BY <1>2, <2>1, <2>2 DEF JarInv, TokensFollow
<1>4. JarFollows' /\ GraceOutlasts'
  <2>1. \A q \in Requests : q = r \/ reqs'[q] = reqs[q]
    BY <1>2
  <2>2. current' = current /\ grace' = grace /\ Undisturbed' = Undisturbed
    BY <1>1 DEF family, Undisturbed
  <2>3. JarFollows'
    <3> SUFFICES ASSUME Undisturbed PROVE JarFollows'
      BY <2>2 DEF JarFollows
    <3>1. (\E q \in Requests : reqs[q].pc = "answered" /\ reqs[q].result = "rotated") =>
             \E q \in Requests : reqs'[q].pc = "answered" /\ reqs'[q].result = "rotated"
      BY <1>1, <2>1
    <3>2. \A q \in Requests : reqs'[q].pc = "sent" => reqs'[q].jti <= jar
      BY <1>2, <2>1 DEF JarInv, JarFollows
    <3> QED
      BY <1>1, <1>2, <2>1, <2>2, <3>1, <3>2 DEF JarInv, JarFollows
  <2>4. GraceOutlasts'
    BY <1>1, <1>2, <2>1, <2>2 DEF JarInv, GraceOutlasts
  <2> QED
    BY <2>3, <2>4
<1>5. Timely => LogoutExplained'
  BY <1>1, <1>2 DEF JarInv, LogoutExplained, family
<1> QED
  BY <1>3, <1>4, <1>5 DEF JarInv

LEMMA RotateJarInv == ASSUME JarInv, FamilyIInv, NEW r \in Requests, Rotate(r) PROVE JarInv'
<1>1. /\ reqs[r].pc = "sent" /\ UNCHANGED <<jar, logout, lost>>
      /\ reqs \in [Requests -> Request] /\ current \in Nat /\ jar \in 0..current
      /\ prev + 1 = current /\ reqs[r].jti \in 1..current
  BY DEF Rotate, FamilyIInv, TypeOK, Request, JarInv, TokensFollow
<1>2. ASSUME NEW result \in Results, NEW new, Answer(r, result, new)
      PROVE  /\ \A q \in Requests \ {r} : reqs'[q] = reqs[q]
             /\ reqs'[r].pc = "answered" /\ reqs'[r].result = result
             /\ reqs'[r].jti = reqs[r].jti /\ reqs'[r].new = new
  BY <1>1, <1>2 DEF Answer, Request
<1>3. reqs[r].result = "none"
  BY <1>1 DEF JarInv, TokensFollow
<1>4. CASE IsCurrent(reqs[r].jti) /\ ~revoked
  <2>1. /\ prev' = current /\ current' = current + 1 /\ grace' = TRUE /\ revoked' = revoked
        /\ Answer(r, "rotated", current + 1) /\ reqs[r].jti = current
    BY <1>4 DEF Rotate, IsCurrent
  <2>2. /\ \A q \in Requests \ {r} : reqs'[q] = reqs[q]
        /\ reqs'[r].pc = "answered" /\ reqs'[r].result = "rotated"
        /\ reqs'[r].jti = current /\ reqs'[r].new = current + 1
    BY <1>2, <2>1 DEF Results
  <2>3. TokensFollow'
    BY <1>1, <2>1, <2>2 DEF JarInv, TokensFollow
  <2>4. JarFollows'
    <3> SUFFICES ASSUME Undisturbed' PROVE JarFollows'
      BY DEF JarFollows
    <3>1. Undisturbed
      BY <1>1, <2>1 DEF Undisturbed
    <3>2. jar = current
      BY <1>1, <2>1, <3>1 DEF JarInv, JarFollows
    <3>3. \A q \in Requests \ {r} : ~(reqs[q].pc = "answered" /\ reqs[q].result = "rotated")
      BY <1>1, <3>1, <3>2 DEF JarInv, JarFollows
    <3> QED
      BY <1>1, <2>1, <2>2, <3>1, <3>2, <3>3 DEF JarInv, JarFollows
  <2>5. Timely => LogoutExplained'
    BY <1>1, <1>4, <2>1 DEF LogoutExplained
  <2> QED
    BY <2>1, <2>3, <2>4, <2>5 DEF JarInv, GraceOutlasts
<1>5. CASE revoked
  <2>1. UNCHANGED family /\ Answer(r, "rejected", 0)
    BY <1>5 DEF Rotate
  <2>2. /\ \A q \in Requests \ {r} : reqs'[q] = reqs[q]
        /\ reqs'[r].pc = "answered" /\ reqs'[r].result = "rejected"
    BY <1>2, <2>1 DEF Results
  <2>3. TokensFollow'
    BY <2>1, <2>2 DEF JarInv, TokensFollow, family
  <2>4. ~Undisturbed'
    BY <1>5, <2>1 DEF Undisturbed, family
  <2>5. Timely => LogoutExplained'
    BY <1>1, <1>3, <2>1, <2>2 DEF JarInv, LogoutExplained, family
  <2> QED
    BY <2>3, <2>4, <2>5 DEF JarInv, JarFollows, GraceOutlasts
<1>6. CASE ~IsCurrent(reqs[r].jti) /\ ~revoked /\ InGrace(reqs[r].jti)
  <2>1. UNCHANGED family /\ Answer(r, "concurrent", 0) /\ grace
    BY <1>6 DEF Rotate, InGrace
  <2>2. /\ \A q \in Requests \ {r} : reqs'[q] = reqs[q]
        /\ reqs'[r].pc = "answered" /\ reqs'[r].result = "concurrent"
    BY <1>2, <2>1 DEF Results
  <2>3. TokensFollow'
    BY <2>1, <2>2 DEF JarInv, TokensFollow, family
  <2>4. JarFollows'
    BY <1>1, <1>3, <2>1, <2>2 DEF JarInv, JarFollows, Undisturbed, family
  <2>5. Timely => LogoutExplained'
    BY <1>6, <2>1 DEF LogoutExplained, family
  <2> QED
    BY <2>1, <2>3, <2>4, <2>5 DEF JarInv, GraceOutlasts, family
<1>7. CASE ~IsCurrent(reqs[r].jti) /\ ~revoked /\ ~InGrace(reqs[r].jti)
  <2>1. /\ revoked' = TRUE /\ Answer(r, "rejected", 0) /\ UNCHANGED <<current, prev, grace>>
    BY <1>7 DEF Rotate
  <2>2. /\ \A q \in Requests \ {r} : reqs'[q] = reqs[q]
        /\ reqs'[r].pc = "answered" /\ reqs'[r].result = "rejected"
        /\ reqs'[r].jti = reqs[r].jti
    BY <1>2, <2>1 DEF Results
  <2>3. TokensFollow'
    BY <2>1, <2>2 DEF JarInv, TokensFollow
  <2>4. Timely => LogoutExplained'
    <3> SUFFICES ASSUME Timely, lost' = 0, logout' = "idle"
                 PROVE  reqs[r].jti + 1 < current
      BY <1>1, <2>1, <2>2 DEF LogoutExplained, FamilyIInv, TypeOK
    <3>1. Undisturbed
      BY <1>1, <1>7 DEF Undisturbed
    <3>2. CASE reqs[r].jti = prev
      \* Then the grace is over, and r would carry the current token.
      BY <1>1, <1>7, <3>1, <3>2 DEF InGrace, IsCurrent, JarInv, GraceOutlasts
    <3>3. CASE reqs[r].jti # prev
      BY <1>1, <1>7, <3>3 DEF IsCurrent, FamilyIInv, TypeOK
    <3> QED
      BY <3>2, <3>3
  <2> QED
    BY <2>1, <2>3, <2>4 DEF JarInv, JarFollows, GraceOutlasts, Undisturbed
<1> QED
  BY <1>4, <1>5, <1>6, <1>7 DEF FamilyIInv, TypeOK

LEMMA DeliverJarInv == ASSUME JarInv, FamilyIInv, NEW r \in Requests, Deliver(r) PROVE JarInv'
<1>1. /\ reqs[r].pc = "answered" /\ jar' = CookieAfter(r) /\ UNCHANGED <<family, logout, lost>>
      /\ reqs' = [reqs EXCEPT ![r].pc = "over"]
  BY DEF Deliver
<1>2. /\ \A q \in Requests : /\ reqs'[q].jti = reqs[q].jti /\ reqs'[q].new = reqs[q].new
                             /\ reqs'[q].result = reqs[q].result
      /\ \A q \in Requests \ {r} : reqs'[q].pc = reqs[q].pc
      /\ reqs'[r].pc = "over"
  BY <1>1, OverEffect
<1>3. TokensFollow' /\ (Timely => LogoutExplained')
  BY <1>1, <1>2 DEF JarInv, TokensFollow, LogoutExplained, family
<1>4. ASSUME Undisturbed'
      PROVE  Undisturbed /\ JarFollows' /\ (Timely /\ ~grace' => reqs[r].result # "rotated" /\ jar' = jar)
  <2>1. Undisturbed
    BY <1>1, <1>4 DEF Undisturbed, family
  <2>2. reqs[r].result \in {"rotated", "concurrent"}
    BY <1>1, <2>1 DEF JarInv, JarFollows, FamilyIInv, RequestsAnswered, Results
  <2>3. current \in Nat /\ jar \in 0..current /\ \A q \in Requests : reqs[q].jti \in 0..current
    BY DEF FamilyIInv, TypeOK
  <2>4. CASE reqs[r].result = "rotated"
    <3>1. jar' = current /\ jar + 1 = current /\ reqs[r].new = current
      BY <1>1, <2>1, <2>4 DEF CookieAfter, JarInv, JarFollows
    \* No other answer brings the same token.
    <3>2. \A q \in Requests \ {r} : ~(reqs[q].pc = "answered" /\ reqs[q].result = "rotated")
      BY <2>1, <2>3, <2>4, <3>1 DEF JarInv, JarFollows, TokensFollow, FamilyIInv, RotatedOnce
    <3>3. ~(Timely /\ ~grace')
      BY <1>1, <2>1, <2>3, <3>1 DEF JarInv, GraceOutlasts, family
    <3> QED
      BY <1>1, <1>2, <2>1, <2>3, <3>1, <3>2, <3>3 DEF JarInv, JarFollows, family
  <2>5. CASE reqs[r].result = "concurrent"
    <3>1. jar' = jar
      BY <1>1, <2>5 DEF CookieAfter
    <3> QED
      BY <1>1, <1>2, <2>1, <2>5, <3>1 DEF JarInv, JarFollows, family
  <2> QED
    BY <2>2, <2>4, <2>5
<1>5. GraceOutlasts'
  BY <1>1, <1>2, <1>4 DEF JarInv, GraceOutlasts, family
<1> QED
  BY <1>3, <1>4, <1>5 DEF JarInv, JarFollows

LEMMA LoseJarInv == ASSUME JarInv, FamilyIInv, NEW r \in Requests, Lose(r) PROVE JarInv'
<1>1. /\ UNCHANGED <<family, jar, logout>> /\ lost' > 0
      /\ reqs' = [reqs EXCEPT ![r].pc = "over"]
  BY RefreshAssumption DEF Lose, FamilyIInv, TypeOK
<1>2. /\ \A q \in Requests : /\ reqs'[q].jti = reqs[q].jti /\ reqs'[q].new = reqs[q].new
                             /\ reqs'[q].result = reqs[q].result
      /\ \A q \in Requests \ {r} : reqs'[q].pc = reqs[q].pc
      /\ reqs'[r].pc = "over"
  BY <1>1, OverEffect
<1>3. TokensFollow' /\ LogoutExplained' /\ ~Undisturbed'
  BY <1>1, <1>2 DEF JarInv, TokensFollow, LogoutExplained, Undisturbed, family
<1> QED
  BY <1>3 DEF JarInv, JarFollows, GraceOutlasts

LEMMA GraceEndsJarInv == ASSUME JarInv, FamilyIInv, GraceEnds PROVE JarInv'
<1>1. UNCHANGED <<current, prev, revoked, jar, reqs, logout, lost>> /\ (Timely => UnderWay = {})
  BY DEF GraceEnds
<1>2. TokensFollow' /\ JarFollows' /\ (Timely => LogoutExplained')
  BY <1>1 DEF JarInv, TokensFollow, JarFollows, Undisturbed, LogoutExplained
<1>3. GraceOutlasts'
  BY <1>1 DEF JarInv, JarFollows, GraceOutlasts, Undisturbed, UnderWay
<1> QED
  BY <1>2, <1>3 DEF JarInv

LEMMA LogoutJarInv ==
    ASSUME JarInv, FamilyIInv, SendLogout \/ Revoke \/ DeliverLogout PROVE JarInv'
<1>1. UNCHANGED <<current, prev, reqs>> /\ logout' # "idle"
  BY DEF SendLogout, Revoke, DeliverLogout, family
<1> QED
  BY <1>1 DEF JarInv, TokensFollow, JarFollows, GraceOutlasts, Undisturbed, LogoutExplained

LEMMA JarInvariance == FamilySpec => []JarInv
<1>1. ASSUME JarInv, FamilyIInv, [FamilyNext]_familyVars PROVE JarInv'
  <2>1. CASE UNCHANGED familyVars
    BY <1>1, <2>1 DEF familyVars, family, JarInv, TokensFollow, JarFollows, GraceOutlasts, Undisturbed,
                      LogoutExplained
  <2> QED
    BY <1>1, <2>1, SendJarInv, RotateJarInv, DeliverJarInv, LoseJarInv, GraceEndsJarInv,
       LogoutJarInv DEF FamilyNext
<1>2. FamilySpec => []FamilyIInv
  BY FamilyInitIInv, FamilyNextIInv, PTL DEF FamilySpec
<1> QED
  BY <1>1, <1>2, InitJarInv, PTL DEF FamilySpec

\* Once every request is over, the browser holds the current token, in whatever order the
\* answers came (rotate_refresh_family, _set_auth_cookies), slow or not.
THEOREM LoginIsKept == FamilySpec => []KeepsUsableToken
<1>1. JarInv => KeepsUsableToken
  BY DEF JarInv, JarFollows, Undisturbed, KeepsUsableToken, UnderWay
<1> QED
  BY <1>1, JarInvariance, PTL

\* If no request takes longer than the grace window, a session ends without its user only
\* after a loss or when a request was overtaken twice (rotate_refresh_family, 30 s grace).
THEOREM LogoutsHaveCause == ASSUME Timely PROVE FamilySpec => []LogoutExplained
<1>1. JarInv => LogoutExplained
  BY DEF JarInv
<1> QED
  BY <1>1, JarInvariance, PTL
=============================================================================
