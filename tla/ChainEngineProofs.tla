------------------------- MODULE ChainEngineProofs -------------------------
(***************************************************************************)
(* Invariance and refinement proofs for ChainEngine, for every set of      *)
(* chains, pipelines, requests and workers, every number of steps and any  *)
(* number of crashes and failing calls.                                    *)
(***************************************************************************)
EXTENDS ChainEngine, SequenceFacts

\* A request between admission and answer.
Busy(q) == req[q].pc \in {"exists", "duplicate", "create", "push", "trail"}

\* The lock is held by the busy request, so what a request has looked up is still
\* true when it creates its chain.
AdmissionInv ==
    \A q \in Requests :
       /\ Busy(q) => lock = q /\ req[q].chain \in Chains
       /\ req[q].pc = "duplicate" => status[req[q].chain] = "none"
       /\ req[q].pc = "create" => /\ status[req[q].chain] = "none"
                                 /\ PendingOf(PipelineOf[req[q].chain]) = {}
       /\ req[q].pc \in {"push", "trail"} => status[req[q].chain] # "none"

\* A live worker is the registered one; after a shutdown the registry is empty and
\* no producer can start another.
RegistryInv ==
    /\ phase = "serving" => \A w \in Workers : wk[w].pc # "off" => registry = w
    /\ phase = "stopping" => \A w \in Workers : wk[w].pc \in DrainPcs \cup {"off"}
    /\ phase = "down" => \A w \in Workers : wk[w].pc = "off"
    /\ phase # "serving" => lock = None

Created(c) == c \in Chains /\ status[c] # "none"

\* Whatever a worker holds or may come to hold is a chain that was created.
WorkerHand(w) ==
    /\ wk[w].pc \in DrivePcs => Created(wk[w].chain)
    /\ wk[w].pc = "clear" => wk[w].chain = None \/ Created(wk[w].chain)
    /\ \A c \in wk[w].resume : Created(c)

QueueRefs ==
    /\ \A i \in 1..Len(pending) : pending[i] \in RtIds
    /\ \A r \in RtIds : Created(rts[r].chain)

HandInv == QueueRefs /\ \A w \in Workers : WorkerHand(w)

IInv == TypeOK /\ WaitingAtMostOne /\ SingleDriver /\ AdmissionInv
            /\ RegistryInv /\ HandInv

LEMMA InitIInv == Init => IInv
<1> SUFFICES ASSUME Init PROVE IInv
  OBVIOUS
<1> USE DEF Init
<1>1. TypeOK
  BY EngineAssumption DEF TypeOK, RequestRecord, WorkerRecord, IdleRequest, OffWorker,
     RequestPcs, WorkerPcs, Steps
<1>2. WaitingAtMostOne /\ SingleDriver
  BY DEF WaitingAtMostOne, SingleDriver, OffWorker
<1>3. AdmissionInv /\ RegistryInv
  BY DEF AdmissionInv, RegistryInv, Busy, IdleRequest, OffWorker
<1>4. HandInv
  BY DEF HandInv, WorkerHand, QueueRefs, RtIds, OffWorker, DrivePcs, DrainPcs
<1>5. QED
  BY <1>1, <1>2, <1>3, <1>4 DEF IInv

-----------------------------------------------------------------------------
(* What the content manager's operations do to the RT records and the queue. *)

\* Changing the state of an RT keeps the records and the chains they name.
LEMMA SetRtFacts ==
    ASSUME TypeOK, NEW r \in Nat, NEW s \in {"in_flight", "done", "failed"}, SetRt(r, s)
    PROVE  /\ rts' \in Seq(RtRecord)
           /\ Len(rts') = Len(rts)
           /\ \A i \in 1..Len(rts) : rts'[i].chain = rts[i].chain
<1>1. rts \in Seq(RtRecord) /\ Len(rts) \in Nat /\ DOMAIN rts = 1..Len(rts)
  BY DEF TypeOK
<1>2. ASSUME r \notin 1..Len(rts) PROVE rts' = rts
  BY <1>1, <1>2 DEF SetRt
<1>3. ASSUME r \in 1..Len(rts)
      PROVE  rts[r] \in RtRecord /\ [rts[r] EXCEPT !.state = s] \in RtRecord
  <2>1. rts[r] \in RtRecord
    BY <1>1, <1>3
  <2>2. QED
    BY <2>1 DEF RtRecord
<1>4. ASSUME r \in 1..Len(rts)
      PROVE  rts' = [rts EXCEPT ![r] = [rts[r] EXCEPT !.state = s]]
  BY DEF SetRt
<1> DEFINE rec == [rts[r] EXCEPT !.state = s]
<1>5. ASSUME r \in 1..Len(rts) PROVE rec.chain = rts[r].chain
  BY <1>3, <1>5 DEF RtRecord
<1> HIDE DEF rec
<1>6. CASE r \in 1..Len(rts)
  <2>1. rec \in RtRecord /\ rts' = [rts EXCEPT ![r] = rec]
    BY <1>3, <1>4, <1>6 DEF rec
  <2>2. QED
    BY <1>1, <1>5, <1>6, <2>1
<1>7. QED
  BY <1>1, <1>2, <1>6

LEMMA SetRtRefs ==
    ASSUME TypeOK, QueueRefs, NEW r \in Nat,
           NEW s \in {"in_flight", "done", "failed"},
           SetRt(r, s), UNCHANGED <<status, pending>>
    PROVE  QueueRefs'
BY SetRtFacts DEF QueueRefs, RtIds, Created

\* A pushed RT is the newest record and the last entry.
LEMMA PushFacts ==
    ASSUME TypeOK, QueueRefs, NEW c, Created(c), NEW s \in Steps,
           PushRt(c, s), UNCHANGED status
    PROVE  /\ rts' \in Seq(RtRecord) /\ pending' \in Seq(Nat)
           /\ Len(rts) + 1 \in Nat
           /\ QueueRefs'
<1> DEFINE rec == [chain |-> c, step |-> s, state |-> "pending"]
           n == Len(rts)
           k == Len(pending)
<1>1. /\ rts \in Seq(RtRecord) /\ pending \in Seq(Nat)
      /\ n \in Nat /\ k \in Nat
      /\ rec \in RtRecord /\ rec.chain = c
  BY DEF TypeOK, RtRecord, Created
<1>2. rts' = Append(rts, rec) /\ pending' = Append(pending, n + 1)
  BY DEF PushRt
<1>3. /\ \A i \in 1..k : pending[i] \in 1..n
      /\ \A r \in 1..n : Created(rts[r].chain)
  BY DEF QueueRefs, RtIds
<1> HIDE DEF rec
<1>4. /\ rts' \in Seq(RtRecord) /\ Len(rts') = n + 1
      /\ \A i \in 1..n : rts'[i] = rts[i]
      /\ rts'[n + 1] = rec
  BY <1>1, <1>2
<1>5. /\ pending' \in Seq(Nat) /\ Len(pending') = k + 1
      /\ \A i \in 1..k : pending'[i] = pending[i]
      /\ pending'[k + 1] = n + 1
  BY <1>1, <1>2
<1> HIDE DEF n, k
<1>6. \A i \in 1..(k + 1) : pending'[i] \in 1..(n + 1)
  <2>1. ASSUME NEW i \in 1..(k + 1) PROVE pending'[i] \in 1..(n + 1)
    <3>1. CASE i \in 1..k
      <4>1. pending'[i] = pending[i] /\ pending[i] \in 1..n
        BY <1>3, <1>5, <3>1
      <4>2. n \in Nat
        BY <1>1
      <4>3. QED
        BY <4>1, <4>2
    <3>2. CASE i = k + 1
      BY <1>1, <1>5, <3>2
    <3>3. QED
      BY <1>1, <3>1, <3>2
  <2>2. QED
    BY <2>1
<1>7. \A r \in 1..(n + 1) : Created(rts'[r].chain)
  <2>1. ASSUME NEW r \in 1..(n + 1) PROVE Created(rts'[r].chain)
    <3>1. CASE r \in 1..n
      BY <1>3, <1>4, <3>1
    <3>2. CASE r = n + 1
      BY <1>1, <1>4, <3>2
    <3>3. QED
      BY <1>1, <3>1, <3>2
  <2>2. QED
    BY <2>1
<1>8. QueueRefs'
  BY <1>4, <1>5, <1>6, <1>7 DEF QueueRefs, RtIds, Created
<1>9. QED
  BY <1>1, <1>4, <1>5, <1>8 DEF n

\* A pop only takes an entry out of the list.
LEMMA PopFacts ==
    ASSUME TypeOK, QueueRefs, NEW c, NEW i, PopAt(c, i), UNCHANGED <<status, rts>>
    PROVE  /\ pending' \in Seq(Nat) /\ leases' \in SUBSET Nat
           /\ pending[i] \in Nat
           /\ QueueRefs'
<1>1. pending \in Seq(Nat) /\ Len(pending) \in Nat /\ i \in 1..Len(pending)
  BY DEF TypeOK, PopAt, IsFirst
<1>2. /\ pending' \in Seq(Nat)
      /\ Len(pending') = Len(pending) - 1
      /\ \A j \in 1..(Len(pending) - 1) :
            pending'[j] = IF j < i THEN pending[j] ELSE pending[j + 1]
  BY <1>1, RemoveAtFacts DEF PopAt
<1>3. pending[i] \in Nat
  BY <1>1
<1>4. leases' \in SUBSET Nat
  BY <1>3 DEF PopAt, TypeOK
<1>5. ASSUME NEW j \in 1..Len(pending') PROVE pending'[j] \in 1..Len(rts)
  <2>1. j \in 1..(Len(pending) - 1) /\ j \in 1..Len(pending) /\ j + 1 \in 1..Len(pending)
    BY <1>1, <1>2
  <2>2. QED
    BY <1>2, <2>1 DEF QueueRefs, RtIds
<1>6. QED
  BY <1>2, <1>3, <1>4, <1>5 DEF QueueRefs, RtIds, Created

-----------------------------------------------------------------------------
(* One lemma for all steps of a worker, which leave the producers alone. *)

LEMMA WorkerStepInv ==
    ASSUME IInv, NEW w \in Workers,
           TypeOK', QueueRefs', WorkerHand(w)',
           wk[w].pc # "off" \/ wk'[w].pc = "off",
           \A v \in Workers : v # w => wk'[v] = wk[v],
           \A c \in Chains : \/ status'[c] = status[c]
                             \/ status[c] # "none" /\ status'[c] \in {"active"} \cup Terminal,
           phase = "stopping" => wk'[w].pc \in DrainPcs \cup {"off"},
           UNCHANGED <<producerVars, registry, phase>>
    PROVE  IInv'
<1>1. WaitingAtMostOne'
  BY DEF IInv, WaitingAtMostOne, Terminal
<1>2. SingleDriver'
  BY DEF IInv, SingleDriver
<1>3. AdmissionInv'
  <2> SUFFICES ASSUME NEW q \in Requests
               PROVE  /\ Busy(q)' => lock = q /\ req[q].chain \in Chains
                      /\ req[q].pc = "duplicate" => status'[req[q].chain] = "none"
                      /\ req[q].pc = "create" =>
                            /\ status'[req[q].chain] = "none"
                            /\ PendingOf(PipelineOf[req[q].chain])' = {}
                      /\ req[q].pc \in {"push", "trail"} => status'[req[q].chain] # "none"
    BY DEF AdmissionInv, producerVars
  <2> DEFINE c == req[q].chain
  <2>1. Busy(q)' <=> Busy(q)
    BY DEF Busy, producerVars
  <2>2. Busy(q) => lock = q /\ c \in Chains
    BY DEF IInv, AdmissionInv
  <2>3. req[q].pc = "duplicate" => status'[c] = "none"
    BY <2>2 DEF IInv, AdmissionInv, Busy
  <2>4. ASSUME req[q].pc = "create"
        PROVE  status'[c] = "none" /\ PendingOf(PipelineOf[c])' = {}
    <3>1. status[c] = "none" /\ PendingOf(PipelineOf[c]) = {} /\ c \in Chains
      BY <2>2, <2>4 DEF IInv, AdmissionInv, Busy
    <3>2. \A d \in Chains : PipelineOf[d] = PipelineOf[c] => status'[d] # "pending"
      BY <3>1 DEF PendingOf, Terminal
    <3>3. status'[c] = "none"
      BY <3>1
    <3>4. QED
      BY <3>2, <3>3 DEF PendingOf, producerVars
  <2>5. req[q].pc \in {"push", "trail"} => status'[c] # "none"
    BY <2>2 DEF IInv, AdmissionInv, Busy, Terminal
  <2>6. QED
    BY <2>1, <2>2, <2>3, <2>4, <2>5
<1>4. RegistryInv'
  BY DEF IInv, RegistryInv, producerVars
<1>5. HandInv'
  <2>1. ASSUME NEW v \in Workers, v # w PROVE WorkerHand(v)'
    BY <2>1 DEF IInv, HandInv, WorkerHand, Created, Terminal
  <2>2. QED
    BY <2>1 DEF HandInv
<1>6. QED
  BY <1>1, <1>2, <1>3, <1>4, <1>5 DEF IInv

-----------------------------------------------------------------------------
(* The steps of a worker.  `Moved(w)` collects what all of them share. *)

Moved(w) ==
    /\ \A v \in Workers : v # w => wk'[v] = wk[v]
    /\ wk'[w] \in WorkerRecord
    /\ wk'[w].resume \subseteq wk[w].resume

LEMMA GotoMoved ==
    ASSUME TypeOK, NEW w \in Workers, NEW pc \in WorkerPcs, Goto(w, pc)
    PROVE  /\ Moved(w) /\ wk' \in [Workers -> WorkerRecord]
           /\ wk'[w].pc = pc /\ wk'[w].chain = wk[w].chain
<1> DEFINE rec == [wk[w] EXCEPT !.pc = pc]
<1>1. wk[w] \in WorkerRecord
  BY DEF TypeOK
<1>2. /\ rec \in WorkerRecord /\ rec.pc = pc /\ rec.chain = wk[w].chain
      /\ rec.resume = wk[w].resume
  BY <1>1 DEF WorkerRecord
<1>3. wk' = [wk EXCEPT ![w] = rec]
  BY DEF TypeOK, Goto
<1> HIDE DEF rec
<1>4. QED
  BY <1>2, <1>3 DEF TypeOK, Moved

LEMMA AdvanceMoved ==
    ASSUME TypeOK, NEW w \in Workers, NEW context \in SUBSET Steps, Advance(w, context)
    PROVE  /\ Moved(w) /\ wk' \in [Workers -> WorkerRecord]
           /\ wk'[w].pc \in {"complete", "pop"} /\ wk'[w].chain = wk[w].chain
<1>1. "complete" \in WorkerPcs /\ "pop" \in WorkerPcs
  BY DEF WorkerPcs, DrivePcs
<1> DEFINE Goal == /\ Moved(w) /\ wk' \in [Workers -> WorkerRecord]
                   /\ wk'[w].pc \in {"complete", "pop"} /\ wk'[w].chain = wk[w].chain
<1>3. ASSUME NEW rec \in WorkerRecord, wk' = [wk EXCEPT ![w] = rec],
             rec.pc \in {"complete", "pop"}, rec.chain = wk[w].chain,
             rec.resume = wk[w].resume
      PROVE  Goal
  BY <1>3 DEF TypeOK, Moved
<1>4. wk[w] \in WorkerRecord
  BY DEF TypeOK
<1>5. ASSUME wk' = [wk EXCEPT ![w] = [@ EXCEPT !.context = context, !.pc = "complete"]]
      PROVE  Goal
  <2> DEFINE rec == [wk[w] EXCEPT !.context = context, !.pc = "complete"]
  <2>1. /\ rec \in WorkerRecord /\ rec.pc = "complete"
        /\ rec.chain = wk[w].chain /\ rec.resume = wk[w].resume
    BY <1>1, <1>4 DEF WorkerRecord
  <2>2. wk' = [wk EXCEPT ![w] = rec]
    BY <1>5 DEF TypeOK
  <2> HIDE DEF rec, Goal
  <2>3. QED
    BY <1>3, <2>1, <2>2
<1>6. ASSUME NEW s \in Steps,
             wk' = [wk EXCEPT ![w] = [@ EXCEPT !.context = context, !.pc = "pop",
                                               !.step = s]]
      PROVE  Goal
  <2> DEFINE rec == [wk[w] EXCEPT !.context = context, !.pc = "pop", !.step = s]
  <2>1. /\ rec \in WorkerRecord /\ rec.pc = "pop"
        /\ rec.chain = wk[w].chain /\ rec.resume = wk[w].resume
    BY <1>1, <1>4 DEF WorkerRecord
  <2>2. wk' = [wk EXCEPT ![w] = rec]
    BY <1>6 DEF TypeOK
  <2> HIDE DEF rec, Goal
  <2>3. QED
    BY <1>3, <2>1, <2>2
<1>7. QED
  BY <1>5, <1>6 DEF Advance

\* A step of a live worker that leaves the queue alone.
LEMMA LocalStepInv ==
    ASSUME IInv, NEW w \in Workers, Moved(w), wk' \in [Workers -> WorkerRecord],
           wk[w].pc # "off",
           wk'[w].pc \in DrivePcs => Created(wk'[w].chain),
           wk'[w].pc = "clear" => wk'[w].chain = None \/ Created(wk'[w].chain),
           phase = "stopping" => wk'[w].pc \in DrainPcs \cup {"off"},
           UNCHANGED <<cmVars, nonWorkerVars>>
    PROVE  IInv'
<1> USE DEF cmVars, nonWorkerVars, producerVars, otherVars
<1>1. TypeOK'
  BY DEF IInv, TypeOK
<1>2. QueueRefs'
  BY DEF IInv, HandInv, QueueRefs, RtIds, Created
<1>3. WorkerHand(w)'
  BY DEF IInv, HandInv, WorkerHand, Created, Moved
<1>4. QED
  BY <1>1, <1>2, <1>3, WorkerStepInv DEF Moved

\* What a drive starts with.
LEMMA DrivingFacts ==
    ASSUME TypeOK, NEW w \in Workers, NEW c \in Chains, NEW b \in BOOLEAN,
           wk' = [wk EXCEPT ![w] = Driving(w, c, b)]
    PROVE  /\ Moved(w) /\ wk' \in [Workers -> WorkerRecord]
           /\ wk'[w].pc = "activate" /\ wk'[w].chain = c
<1> DEFINE rec == Driving(w, c, b)
<1>1. 1 \in Steps /\ "activate" \in WorkerPcs
  BY EngineAssumption DEF Steps, WorkerPcs, DrivePcs
<1>2. wk[w].resume \ {c} \in SUBSET Chains
  BY DEF TypeOK, WorkerRecord
<1>3. /\ rec \in WorkerRecord /\ rec.pc = "activate" /\ rec.chain = c
      /\ rec.resume = wk[w].resume \ {c}
  BY <1>1, <1>2 DEF Driving, OffWorker, WorkerRecord
<1> HIDE DEF rec
<1>4. wk' = [wk EXCEPT ![w] = rec]
  BY DEF rec
<1>5. QED
  BY <1>3, <1>4 DEF TypeOK, Moved

LEMMA LoopInv ==
    ASSUME IInv, NEW w \in Workers,
           WorkerLoop(w) \/ IdleTimeout(w)
    PROVE  IInv'
<1> USE DEF WorkerPcs, DrivePcs, DrainPcs
<1>0. TypeOK /\ wk[w] \in WorkerRecord /\ WorkerHand(w) /\ QueueRefs
      /\ (phase = "stopping" => wk[w].pc \in DrainPcs \cup {"off"})
  BY DEF IInv, TypeOK, HandInv, RegistryInv
<1>1. ASSUME TakeResumed(w) PROVE IInv'
  <2> PICK c \in wk[w].resume : wk' = [wk EXCEPT ![w] = Driving(w, c, TRUE)]
    BY <1>1 DEF TakeResumed
  <2>1. Created(c) /\ c \in Chains
    BY <1>0 DEF WorkerHand, Created
  <2>2. Moved(w) /\ wk' \in [Workers -> WorkerRecord] /\ wk'[w].pc = "activate"
        /\ wk'[w].chain = c
    BY <1>0, <2>1, DrivingFacts
  <2>3. QED
    BY <1>0, <1>1, <2>1, <2>2, LocalStepInv DEF TakeResumed
<1>2. ASSUME PollQueue(w) PROVE IInv'
  <2> DEFINE c == IF pending = <<>> THEN None ELSE rts[pending[1]].chain
  <2>1. c = None \/ Created(c)
    BY <1>0 DEF TypeOK, QueueRefs
  <2>2. c \in Chains \cup {None}
    BY <2>1 DEF Created
  <2> HIDE DEF c
  <2>3. wk' = [wk EXCEPT ![w].pc = "clear", ![w].chain = c]
    BY <1>2 DEF PollQueue, c
  <2>4. Moved(w) /\ wk' \in [Workers -> WorkerRecord] /\ wk'[w].pc = "clear"
        /\ wk'[w].chain = c
    BY <1>0, <2>2, <2>3 DEF TypeOK, WorkerRecord, Moved
  <2>5. QED
    BY <1>0, <1>2, <2>1, <2>4, LocalStepInv DEF PollQueue
<1>3. ASSUME ClearAndDrive(w) PROVE IInv'
  <2>1. Created(wk[w].chain) /\ wk[w].chain \in Chains
    BY <1>0, <1>3 DEF WorkerHand, Created, ClearAndDrive
  <2>2. Moved(w) /\ wk' \in [Workers -> WorkerRecord] /\ wk'[w].pc = "activate"
        /\ wk'[w].chain = wk[w].chain
    BY <1>0, <1>3, <2>1, DrivingFacts DEF ClearAndDrive
  <2>3. QED
    BY <1>0, <1>3, <2>1, <2>2, LocalStepInv DEF ClearAndDrive
<1>4. ASSUME ClearAndRecheck(w) PROVE IInv'
  <2>1. Moved(w) /\ wk' \in [Workers -> WorkerRecord] /\ wk'[w].pc = "recheck"
    BY <1>0, <1>4 DEF TypeOK, WorkerRecord, Moved, ClearAndRecheck
  <2>2. QED
    BY <1>0, <1>4, <2>1, LocalStepInv DEF ClearAndRecheck
<1>5. ASSUME Recheck(w) \/ WakeUp(w) \/ IdleTimeout(w) PROVE IInv'
  <2>1. PICK pc \in {"poll", "wait", "teardown"} : Goto(w, pc)
    BY <1>5 DEF Recheck, WakeUp, IdleTimeout
  <2>2. /\ Moved(w) /\ wk' \in [Workers -> WorkerRecord]
        /\ wk'[w].pc \in {"poll", "wait", "teardown"}
    BY <1>0, <2>1, GotoMoved
  <2>3. QED
    BY <1>0, <1>5, <2>2, LocalStepInv DEF Recheck, WakeUp, IdleTimeout
<1>6. ASSUME Teardown(w) PROVE IInv'
  <2>1. CASE CalledMeanwhile(w)
    <3>1. Moved(w) /\ wk' \in [Workers -> WorkerRecord] /\ wk'[w].pc = "poll"
      BY <1>0, <1>6, <2>1, GotoMoved DEF Teardown
    <3>2. QED
      BY <1>0, <1>6, <2>1, <3>1, LocalStepInv DEF Teardown, nonWorkerVars
  <2>2. CASE ~CalledMeanwhile(w)
    <3>1. wk' = [wk EXCEPT ![w] = OffWorker] /\ registry' = None
      BY <1>6, <2>2 DEF Teardown
    <3>2. OffWorker \in WorkerRecord /\ OffWorker.pc = "off"
      BY EngineAssumption DEF OffWorker, WorkerRecord, Steps
    <3>3. /\ \A v \in Workers : v # w => wk'[v] = wk[v]
          /\ wk'[w] = OffWorker
          /\ wk' \in [Workers -> WorkerRecord]
      BY <1>0, <3>1, <3>2 DEF TypeOK
    <3>4. phase = "serving" /\ \A v \in Workers : wk'[v].pc = "off"
      BY <1>0, <1>6, <3>2, <3>3 DEF IInv, RegistryInv, SingleDriver, Teardown, TypeOK
    <3>5. TypeOK'
      BY <1>6, <3>1, <3>3 DEF IInv, TypeOK, Teardown, cmVars, producerVars,
         otherVars
    <3>6. WaitingAtMostOne' /\ SingleDriver' /\ AdmissionInv' /\ RegistryInv'
      BY <1>6, <3>4 DEF IInv, Teardown, cmVars, producerVars, otherVars,
         WaitingAtMostOne, SingleDriver, AdmissionInv, RegistryInv, Busy, PendingOf
    <3>7. QueueRefs' /\ \A v \in Workers : v # w => WorkerHand(v)'
      BY <1>0, <1>6, <3>3 DEF IInv, Teardown, cmVars, HandInv, QueueRefs, WorkerHand,
         RtIds, Created
    <3>8. WorkerHand(w)'
      BY <3>3 DEF WorkerHand, OffWorker
    <3>9. QED
      BY <3>5, <3>6, <3>7, <3>8 DEF IInv, HandInv
  <2>3. QED
    BY <2>1, <2>2
<1>7. QED
  BY <1>1, <1>2, <1>3, <1>4, <1>5, <1>6 DEF WorkerLoop

-----------------------------------------------------------------------------
(* The drive of a chain. *)

\* A step of a drive that keeps its chain in hand.
LEMMA DriveStepInv ==
    ASSUME IInv, NEW w \in Workers, Moved(w), wk' \in [Workers -> WorkerRecord],
           wk[w].pc \in DrivePcs, wk'[w].pc \in DrivePcs, wk'[w].chain = wk[w].chain,
           wk[w].pc \in DrainPcs => wk'[w].pc \in DrainPcs,
           status' \in [Chains -> {"none", "pending", "active"} \cup Terminal],
           \A c \in Chains : \/ status'[c] = status[c]
                             \/ status[c] # "none" /\ status'[c] \in {"active"} \cup Terminal,
           rts' \in Seq(RtRecord), pending' \in Seq(Nat), leases' \in SUBSET Nat,
           stepRt' \in [Chains -> [Steps -> Nat]],
           faults' \in 0..MaxFaults,
           QueueRefs',
           UNCHANGED <<producerVars, registry, phase, strays, crashes>>
    PROVE  IInv'
<1>1. TypeOK'
  BY DEF IInv, TypeOK, producerVars
<1>2. Created(wk[w].chain) /\ \A c \in wk[w].resume : Created(c)
  BY DEF IInv, HandInv, WorkerHand
<1>3. WorkerHand(w)'
  <2>1. \A c : Created(c) => Created(c)'
    BY DEF Created, Terminal
  <2>2. wk'[w].pc # "clear"
    BY DEF DrivePcs
  <2>3. QED
    BY <1>2, <2>1, <2>2 DEF WorkerHand, Created, Moved
<1>4. wk[w].pc # "off" /\ (phase = "stopping" => wk'[w].pc \in DrainPcs \cup {"off"})
  BY DEF IInv, RegistryInv, DrivePcs, DrainPcs
<1>5. QED
  BY <1>1, <1>3, <1>4, WorkerStepInv DEF Moved

\* What a drive has in hand, and its types.
LEMMA InHandFacts ==
    ASSUME IInv, NEW w \in Workers, wk[w].pc \in DrivePcs
    PROVE  /\ TypeOK /\ QueueRefs
           /\ Created(wk[w].chain) /\ wk[w].chain \in Chains
           /\ wk[w].rt \in Nat
           /\ status[wk[w].chain] # "none"
BY DEF IInv, HandInv, WorkerHand, Created, TypeOK, WorkerRecord

\* Steps that leave the RT records and the queue alone.
LEMMA QuietRefs ==
    ASSUME QueueRefs, UNCHANGED <<rts, pending>>,
           \A c \in Chains : status[c] # "none" => status'[c] # "none"
    PROVE  QueueRefs'
BY DEF QueueRefs, RtIds, Created

LEMMA ActivateInv ==
    ASSUME IInv, NEW w \in Workers, Activate(w)
    PROVE  IInv'
<1> DEFINE c == wk[w].chain
<1>0. wk[w].pc \in DrivePcs /\ wk[w].pc = "activate" /\ wk[w].pc \notin DrainPcs
  BY DEF Activate, DrivePcs, DrainPcs
<1>1. TypeOK /\ QueueRefs /\ c \in Chains /\ status[c] # "none"
  BY <1>0, InHandFacts
<1>2. status' = [status EXCEPT ![c] = "active"]
  BY DEF Activate, SetStatus
<1>3. /\ status' \in [Chains -> {"none", "pending", "active"} \cup Terminal]
      /\ \A d \in Chains : \/ status'[d] = status[d]
                           \/ status[d] # "none" /\ status'[d] \in {"active"} \cup Terminal
  BY <1>1, <1>2 DEF TypeOK
<1>4. /\ Moved(w) /\ wk' \in [Workers -> WorkerRecord]
      /\ wk'[w].pc \in DrivePcs /\ wk'[w].chain = c
  <2>1. CASE Goto(w, "rehydrate")
    BY <1>1, <2>1, GotoMoved DEF WorkerPcs, DrivePcs
  <2>2. CASE Advance(w, {})
    <3>1. wk'[w].pc \in {"complete", "pop"}
      BY <1>1, <2>2, AdvanceMoved
    <3>2. QED
      BY <1>1, <2>2, <3>1, AdvanceMoved DEF DrivePcs
  <2>3. QED
    BY <2>1, <2>2 DEF Activate
<1>5. UNCHANGED <<rts, pending, leases, stepRt, nonWorkerVars>>
  BY DEF Activate
<1>6. QueueRefs'
  BY <1>1, <1>3, <1>5, QuietRefs DEF Terminal
<1>7. QED
  BY <1>0, <1>1, <1>3, <1>4, <1>5, <1>6, DriveStepInv
     DEF TypeOK, nonWorkerVars, otherVars

LEMMA RehydrateInv ==
    ASSUME IInv, NEW w \in Workers, Rehydrate(w)
    PROVE  IInv'
<1>0. wk[w].pc \in DrivePcs /\ wk[w].pc = "rehydrate" /\ wk[w].pc \notin DrainPcs
  BY DEF Rehydrate, DrivePcs, DrainPcs
<1>1. TypeOK /\ Created(wk[w].chain)
  BY <1>0, InHandFacts
<1>2. Restored(wk[w].chain) \in SUBSET Steps
  BY DEF Restored
<1>3. /\ Moved(w) /\ wk' \in [Workers -> WorkerRecord]
      /\ wk'[w].pc \in {"complete", "pop"} /\ wk'[w].chain = wk[w].chain
  BY <1>1, <1>2, AdvanceMoved DEF Rehydrate
<1>4. phase # "stopping"
  BY <1>0 DEF IInv, RegistryInv
<1>5. UNCHANGED <<cmVars, nonWorkerVars>> /\ wk[w].pc # "off" /\ wk'[w].pc # "clear"
  BY <1>0, <1>3 DEF Rehydrate
<1>6. QED
  BY <1>1, <1>3, <1>4, <1>5, LocalStepInv

\* Taking an RT in hand.
LEMMA TakeRtMoved ==
    ASSUME TypeOK, NEW w \in Workers, NEW r \in Nat, NEW pc \in WorkerPcs,
           wk' = [wk EXCEPT ![w].pc = pc, ![w].rt = r]
    PROVE  /\ Moved(w) /\ wk' \in [Workers -> WorkerRecord]
           /\ wk'[w].pc = pc /\ wk'[w].chain = wk[w].chain
<1> DEFINE rec == [wk[w] EXCEPT !.pc = pc, !.rt = r]
<1>1. wk[w] \in WorkerRecord
  BY DEF TypeOK
<1>2. /\ rec \in WorkerRecord /\ rec.pc = pc /\ rec.chain = wk[w].chain
      /\ rec.resume = wk[w].resume
  BY <1>1 DEF WorkerRecord
<1>3. wk' = [wk EXCEPT ![w] = rec]
  BY DEF TypeOK
<1> HIDE DEF rec
<1>4. QED
  BY <1>2, <1>3 DEF TypeOK, Moved

LEMMA PopStepRtInv ==
    ASSUME IInv, NEW w \in Workers, PopStepRt(w)
    PROVE  IInv'
<1> USE DEF nonWorkerVars, otherVars
<1> DEFINE c == wk[w].chain
<1>0. wk[w].pc \in DrivePcs /\ wk[w].pc \notin DrainPcs
  BY DEF PopStepRt, DrivePcs, DrainPcs
<1>1. TypeOK /\ QueueRefs
  BY <1>0, InHandFacts
<1>2. UNCHANGED <<status, rts, stepRt, nonWorkerVars>>
  BY DEF PopStepRt
<1>3. \A pc \in {"push", "begin"} : pc \in WorkerPcs /\ pc \in DrivePcs
  BY DEF WorkerPcs, DrivePcs
<1>4. /\ Moved(w) /\ wk' \in [Workers -> WorkerRecord]
      /\ wk'[w].pc \in DrivePcs /\ wk'[w].chain = c
      /\ pending' \in Seq(Nat) /\ leases' \in SUBSET Nat /\ QueueRefs'
  <2>1. CASE Goto(w, "push") /\ UNCHANGED <<pending, leases>>
    <3>1. /\ Moved(w) /\ wk' \in [Workers -> WorkerRecord]
          /\ wk'[w].pc = "push" /\ wk'[w].chain = c
      BY <1>1, <1>3, <2>1, GotoMoved
    <3>2. pending' \in Seq(Nat) /\ leases' \in SUBSET Nat
      BY <1>1, <2>1 DEF TypeOK
    <3>3. QueueRefs'
      BY <1>1, <1>2, <2>1, QuietRefs
    <3>4. QED
      BY <1>3, <3>1, <3>2, <3>3
  <2>2. ASSUME NEW i \in 1..Len(pending), PopAt(c, i),
               wk' = [wk EXCEPT ![w].pc = IF Serves(w, pending[i]) THEN "begin"
                                                                   ELSE "push",
                                ![w].rt = pending[i]]
        PROVE  /\ Moved(w) /\ wk' \in [Workers -> WorkerRecord]
               /\ wk'[w].pc \in DrivePcs /\ wk'[w].chain = c
               /\ pending' \in Seq(Nat) /\ leases' \in SUBSET Nat /\ QueueRefs'
    <3> DEFINE pc == IF Serves(w, pending[i]) THEN "begin" ELSE "push"
    <3>1. /\ pending' \in Seq(Nat) /\ leases' \in SUBSET Nat
          /\ pending[i] \in Nat /\ QueueRefs'
      BY <1>1, <1>2, <2>2, PopFacts
    <3>2. pc \in WorkerPcs /\ pc \in DrivePcs
      BY <1>3
    <3> HIDE DEF pc
    <3>3. wk' = [wk EXCEPT ![w].pc = pc, ![w].rt = pending[i]]
      BY <2>2 DEF pc
    <3>4. /\ Moved(w) /\ wk' \in [Workers -> WorkerRecord]
          /\ wk'[w].pc = pc /\ wk'[w].chain = c
      BY <1>1, <3>1, <3>2, <3>3, TakeRtMoved
    <3>5. QED
      BY <3>1, <3>2, <3>4
  <2>3. QED
    BY <2>1, <2>2 DEF PopStepRt
<1>5. QED
  BY <1>0, <1>1, <1>2, <1>4, DriveStepInv DEF TypeOK

LEMMA StepPushInv ==
    ASSUME IInv, NEW w \in Workers, StepPush(w)
    PROVE  IInv'
<1> USE DEF nonWorkerVars, otherVars
<1>0. wk[w].pc \in DrivePcs /\ wk[w].pc \notin DrainPcs /\ wk[w].pc = "push"
  BY DEF StepPush, DrivePcs, DrainPcs
<1>1. TypeOK /\ QueueRefs /\ Created(wk[w].chain)
  BY <1>0, InHandFacts
<1>2. UNCHANGED <<status, leases, stepRt, nonWorkerVars>>
  BY DEF StepPush
<1>3. "trail" \in WorkerPcs /\ "trail" \in DrivePcs
  BY DEF WorkerPcs, DrivePcs
<1>4. wk[w].step \in Steps
  BY <1>1 DEF TypeOK, WorkerRecord
<1>5. /\ rts' \in Seq(RtRecord) /\ pending' \in Seq(Nat) /\ QueueRefs'
      /\ Len(rts) + 1 \in Nat
  BY <1>1, <1>2, <1>4, PushFacts DEF StepPush
<1>6. /\ Moved(w) /\ wk' \in [Workers -> WorkerRecord]
      /\ wk'[w].pc = "trail" /\ wk'[w].chain = wk[w].chain
  BY <1>1, <1>3, <1>5, TakeRtMoved DEF StepPush
<1>7. QED
  BY <1>0, <1>1, <1>2, <1>3, <1>5, <1>6, DriveStepInv DEF TypeOK

\* Steps of a drive that only go on, leaving the queue's entries and the status of
\* chains as they are.
LEMMA GoOnInv ==
    ASSUME IInv, NEW w \in Workers, NEW pc \in DrivePcs, Goto(w, pc),
           wk[w].pc \in DrivePcs, wk[w].pc \in DrainPcs => pc \in DrainPcs,
           rts' \in Seq(RtRecord), leases' \in SUBSET Nat,
           stepRt' \in [Chains -> [Steps -> Nat]],
           QueueRefs',
           UNCHANGED <<status, pending, producerVars, registry, otherVars>>
    PROVE  IInv'
<1>1. TypeOK /\ pc \in WorkerPcs
  BY DEF IInv, WorkerPcs
<1>2. Moved(w) /\ wk' \in [Workers -> WorkerRecord] /\ wk'[w].pc = pc
      /\ wk'[w].chain = wk[w].chain
  BY <1>1, GotoMoved
<1>3. QED
  BY <1>1, <1>2, DriveStepInv DEF TypeOK, otherVars

LEMMA StepTrailInv ==
    ASSUME IInv, NEW w \in Workers, StepTrail(w)
    PROVE  IInv'
<1> USE DEF nonWorkerVars
<1>0. /\ wk[w].pc \in DrivePcs /\ wk[w].pc \notin DrainPcs
      /\ "repop" \in DrivePcs
  BY DEF StepTrail, DrivePcs, DrainPcs
<1>1. TypeOK /\ QueueRefs /\ wk[w].rt \in Nat
  BY <1>0, InHandFacts
<1>2. stepRt' \in [Chains -> [Steps -> Nat]]
  BY <1>1 DEF TypeOK, StepTrail
<1>3. UNCHANGED <<status, rts, pending, leases, nonWorkerVars>> /\ Goto(w, "repop")
  BY DEF StepTrail
<1>4. QueueRefs'
  BY <1>1, <1>3, QuietRefs
<1>5. QED
  BY <1>0, <1>1, <1>2, <1>3, <1>4, GoOnInv DEF TypeOK

LEMMA RepopStepRtInv ==
    ASSUME IInv, NEW w \in Workers, RepopStepRt(w)
    PROVE  IInv'
<1> USE DEF nonWorkerVars, otherVars
<1>0. /\ wk[w].pc \in DrivePcs /\ wk[w].pc \notin DrainPcs
      /\ "begin" \in DrivePcs /\ "begin" \in WorkerPcs
  BY DEF RepopStepRt, DrivePcs, DrainPcs, WorkerPcs
<1>1. TypeOK /\ QueueRefs
  BY <1>0, InHandFacts
<1>2. UNCHANGED <<status, rts, stepRt, nonWorkerVars>> /\ Goto(w, "begin")
  BY DEF RepopStepRt
<1>3. pending' \in Seq(Nat) /\ leases' \in SUBSET Nat /\ QueueRefs'
  <2>1. CASE UNCHANGED <<pending, leases>>
    <3>1. QueueRefs'
      BY <1>1, <1>2, <2>1, QuietRefs
    <3>2. QED
      BY <1>1, <2>1, <3>1 DEF TypeOK
  <2>2. CASE \E i \in 1..Len(pending) : PopAt(wk[w].chain, i)
    BY <1>1, <1>2, <2>2, PopFacts
  <2>3. QED
    BY <2>1, <2>2 DEF RepopStepRt
<1>4. /\ Moved(w) /\ wk' \in [Workers -> WorkerRecord] /\ wk'[w].pc = "begin"
      /\ wk'[w].chain = wk[w].chain
  BY <1>0, <1>1, <1>2, GotoMoved
<1>5. QED
  BY <1>0, <1>1, <1>2, <1>3, <1>4, DriveStepInv DEF TypeOK

LEMMA DispatchInv ==
    ASSUME IInv, NEW w \in Workers, Dispatch(w)
    PROVE  IInv'
<1>0. /\ wk[w].pc \in DrivePcs /\ wk[w].pc \notin DrainPcs /\ "await" \in DrivePcs
  BY DEF Dispatch, DrivePcs, DrainPcs
<1>1. TypeOK /\ QueueRefs /\ wk[w].chain \in Chains
  BY <1>0, InHandFacts
<1>2. Goto(w, "await") /\ UNCHANGED <<cmVars, producerVars, registry, otherVars>>
  BY DEF Dispatch
<1>4. QueueRefs'
  BY <1>1, <1>2, QuietRefs DEF cmVars
<1>5. QED
  BY <1>0, <1>1, <1>2, <1>4, GoOnInv DEF TypeOK, cmVars

\* The steps that set the state of the RT in hand.
LEMMA MarkInv ==
    ASSUME IInv, NEW w \in Workers, BeginRt(w) \/ RecordRt(w) \/ DrainMark(w)
    PROVE  IInv'
<1> USE DEF nonWorkerVars
<1>0. PICK pc \in DrivePcs, s \in {"in_flight", "done", "failed"} :
         /\ wk[w].pc \in DrivePcs /\ (wk[w].pc \in DrainPcs => pc \in DrainPcs)
         /\ Goto(w, pc) /\ SetRt(wk[w].rt, s)
  BY DEF BeginRt, RecordRt, DrainMark, DrivePcs, DrainPcs
<1>1. TypeOK /\ QueueRefs /\ wk[w].rt \in Nat
  BY <1>0, InHandFacts
<1>2. UNCHANGED <<status, pending, leases, stepRt, nonWorkerVars>>
  BY DEF BeginRt, RecordRt, DrainMark
<1>3. rts' \in Seq(RtRecord) /\ QueueRefs'
  BY <1>0, <1>1, <1>2, SetRtFacts, SetRtRefs
<1>4. QED
  BY <1>0, <1>1, <1>2, <1>3, GoOnInv DEF TypeOK

LEMMA ActorRecordsInv ==
    ASSUME IInv, NEW w \in Workers, ActorRecords(w)
    PROVE  IInv'
<1> USE DEF nonWorkerVars, otherVars
<1>0. wk[w].pc \in DrivePcs /\ wk[w].pc \notin DrainPcs
  BY DEF ActorRecords, DrivePcs, DrainPcs
<1>1. TypeOK /\ QueueRefs /\ wk[w].rt \in Nat
  BY <1>0, InHandFacts
<1>2. SetRt(wk[w].rt, "done") /\ UNCHANGED <<status, pending, leases, stepRt, wk, nonWorkerVars>>
  BY DEF ActorRecords
<1>3. rts' \in Seq(RtRecord) /\ QueueRefs'
  BY <1>1, <1>2, SetRtFacts, SetRtRefs
<1>4. Moved(w) /\ wk' \in [Workers -> WorkerRecord]
  BY <1>1, <1>2 DEF TypeOK, Moved
<1>5. QED
  BY <1>0, <1>1, <1>2, <1>3, <1>4, DriveStepInv DEF TypeOK

LEMMA ActorEndsInv ==
    ASSUME IInv, NEW w \in Workers, ActorAnswers(w) \/ DispatchFails(w)
    PROVE  IInv'
<1> USE DEF nonWorkerVars, cmVars
<1>0. PICK pc \in {"record", "recordFailed"} : Goto(w, pc)
  BY DEF ActorAnswers, DispatchFails
<1>1. wk[w].pc \in DrivePcs /\ wk[w].pc \notin DrainPcs /\ pc \in DrivePcs
  BY DEF ActorAnswers, DispatchFails, DrivePcs, DrainPcs
<1>2. TypeOK /\ QueueRefs
  BY <1>1, InHandFacts
<1>3. UNCHANGED <<cmVars, nonWorkerVars>>
  BY DEF ActorAnswers, DispatchFails
<1>4. QueueRefs'
  BY <1>2, <1>3, QuietRefs
<1>5. QED
  BY <1>0, <1>1, <1>2, <1>3, <1>4, GoOnInv DEF TypeOK

LEMMA ReleaseRtInv ==
    ASSUME IInv, NEW w \in Workers, ReleaseRt(w)
    PROVE  IInv'
<1> USE DEF nonWorkerVars, otherVars
<1>0. wk[w].pc \in DrivePcs /\ wk[w].pc \notin DrainPcs
  BY DEF ReleaseRt, DrivePcs, DrainPcs
<1>1. TypeOK /\ QueueRefs /\ wk[w] \in WorkerRecord
  BY <1>0, InHandFacts DEF TypeOK
<1>2. UNCHANGED <<status, rts, pending, stepRt, nonWorkerVars>>
      /\ leases' = leases \ {wk[w].rt}
  BY DEF ReleaseRt
<1>3. leases' \in SUBSET Nat /\ QueueRefs'
  BY <1>1, <1>2, QuietRefs DEF TypeOK
<1>4. /\ Moved(w) /\ wk' \in [Workers -> WorkerRecord] /\ wk'[w].pc \in DrivePcs
      /\ wk'[w].chain = wk[w].chain
  <2>1. CASE Advance(w, wk[w].context \cup {wk[w].step})
    <3>1. wk[w].context \cup {wk[w].step} \in SUBSET Steps
      BY <1>1 DEF WorkerRecord
    <3>2. wk'[w].pc \in {"complete", "pop"}
      BY <1>1, <2>1, <3>1, AdvanceMoved
    <3>3. QED
      BY <1>1, <2>1, <3>1, <3>2, AdvanceMoved DEF DrivePcs
  <2>2. CASE Goto(w, "abort")
    <3>1. "abort" \in WorkerPcs /\ "abort" \in DrivePcs
      BY DEF WorkerPcs, DrivePcs
    <3>2. QED
      BY <1>1, <2>2, <3>1, GotoMoved
  <2>3. QED
    BY <2>1, <2>2 DEF ReleaseRt
<1>5. QED
  BY <1>0, <1>1, <1>2, <1>3, <1>4, DriveStepInv DEF TypeOK

LEMMA FinishChainInv ==
    ASSUME IInv, NEW w \in Workers, FinishChain(w)
    PROVE  IInv'
<1> USE DEF nonWorkerVars, otherVars
<1> DEFINE c == wk[w].chain
<1>0. /\ wk[w].pc \in DrivePcs /\ wk[w].pc \notin DrainPcs
  BY DEF FinishChain, DrivePcs, DrainPcs
<1>1. TypeOK /\ QueueRefs /\ c \in Chains /\ status[c] # "none"
  BY <1>0, InHandFacts
<1>2. UNCHANGED <<rts, pending, leases, stepRt, nonWorkerVars>>
  BY DEF FinishChain
<1>3. PICK pc \in {"completed", "drain"} : Goto(w, pc)
  BY DEF FinishChain
<1>4. status' = status \/ \E s \in Terminal : status' = [status EXCEPT ![c] = s]
  BY DEF FinishChain, SetStatus, Terminal
<1>5. /\ status' \in [Chains -> {"none", "pending", "active"} \cup Terminal]
      /\ \A d \in Chains : \/ status'[d] = status[d]
                           \/ status[d] # "none" /\ status'[d] \in {"active"} \cup Terminal
  BY <1>1, <1>4 DEF TypeOK
<1>6. QueueRefs'
  BY <1>1, <1>2, <1>5, QuietRefs DEF Terminal
<1>7. pc \in DrivePcs /\ pc \in WorkerPcs
  BY DEF DrivePcs, WorkerPcs
<1>8. /\ Moved(w) /\ wk' \in [Workers -> WorkerRecord] /\ wk'[w].pc = pc
      /\ wk'[w].chain = c
  BY <1>1, <1>3, <1>7, GotoMoved
<1>9. QED
  BY <1>0, <1>1, <1>2, <1>5, <1>6, <1>7, <1>8, DriveStepInv DEF TypeOK

\* A worker that ends.
LEMMA WorkerEndsInv ==
    ASSUME IInv, NEW w \in Workers, wk' = [wk EXCEPT ![w] = OffWorker],
           faults' \in 0..MaxFaults,
           UNCHANGED <<cmVars, producerVars, registry, phase, strays, crashes>>
    PROVE  IInv'
<1> USE DEF cmVars, producerVars
<1>1. OffWorker \in WorkerRecord /\ OffWorker.pc = "off" /\ OffWorker.resume = {}
  BY EngineAssumption DEF OffWorker, WorkerRecord, WorkerPcs, Steps
<1> HIDE DEF OffWorker
<1>2. TypeOK
  BY DEF IInv
<1>3. /\ wk' \in [Workers -> WorkerRecord] /\ wk'[w] = OffWorker
      /\ \A v \in Workers : v # w => wk'[v] = wk[v]
  BY <1>1, <1>2 DEF TypeOK
<1>4. TypeOK'
  BY <1>2, <1>3 DEF TypeOK
<1>5. QueueRefs'
  BY QuietRefs DEF IInv, HandInv
<1>6. WorkerHand(w)'
  BY <1>1, <1>3 DEF WorkerHand, DrivePcs, DrainPcs
<1>7. wk'[w].pc = "off"
  BY <1>1, <1>3
<1>8. QED
  BY <1>3, <1>4, <1>5, <1>6, <1>7, WorkerStepInv

LEMMA DrainPopInv ==
    ASSUME IInv, NEW w \in Workers, DrainPop(w)
    PROVE  IInv'
<1> USE DEF nonWorkerVars, otherVars
<1> DEFINE c == wk[w].chain
<1>0. /\ wk[w].pc \in DrivePcs /\ wk[w].pc \in DrainPcs /\ wk[w].pc # "off"
  BY DEF DrainPop, DrivePcs, DrainPcs
<1>1. TypeOK /\ QueueRefs
  BY <1>0, InHandFacts
<1>2. UNCHANGED <<status, rts, stepRt, nonWorkerVars>>
  BY DEF DrainPop
<1>3. ASSUME phase = "stopping", wk' = [wk EXCEPT ![w] = OffWorker],
             UNCHANGED <<pending, leases>>
      PROVE  IInv'
  BY <1>1, <1>2, <1>3, WorkerEndsInv DEF cmVars, TypeOK
<1>4. ASSUME phase # "stopping", wk' = [wk EXCEPT ![w].pc = "poll", ![w].chain = None],
             UNCHANGED <<pending, leases>>
      PROVE  IInv'
  <2>1. "poll" \in WorkerPcs /\ "poll" \notin DrivePcs
    BY DEF WorkerPcs, DrivePcs, DrainPcs
  <2>2. Moved(w) /\ wk' \in [Workers -> WorkerRecord] /\ wk'[w].pc = "poll"
    <3> DEFINE rec == [wk[w] EXCEPT !.pc = "poll", !.chain = None]
    <3>1. wk[w] \in WorkerRecord
      BY <1>1 DEF TypeOK
    <3>2. rec \in WorkerRecord /\ rec.pc = "poll" /\ rec.resume = wk[w].resume
      BY <2>1, <3>1 DEF WorkerRecord
    <3>3. wk' = [wk EXCEPT ![w] = rec]
      BY <1>1, <1>4 DEF TypeOK
    <3> HIDE DEF rec
    <3>4. QED
      BY <1>1, <3>2, <3>3 DEF TypeOK, Moved
  <2>3. QED
    BY <1>0, <1>2, <1>4, <2>1, <2>2, LocalStepInv DEF cmVars
<1>5. ASSUME NEW i \in 1..Len(pending), PopAt(c, i),
             wk' = [wk EXCEPT ![w].pc = "drainMark", ![w].rt = pending[i]]
      PROVE  IInv'
  <2>1. "drainMark" \in WorkerPcs /\ "drainMark" \in DrivePcs /\ "drainMark" \in DrainPcs
    BY DEF WorkerPcs, DrivePcs, DrainPcs
  <2>2. /\ pending' \in Seq(Nat) /\ leases' \in SUBSET Nat
        /\ pending[i] \in Nat /\ QueueRefs'
    BY <1>1, <1>2, <1>5, PopFacts
  <2>3. /\ Moved(w) /\ wk' \in [Workers -> WorkerRecord]
        /\ wk'[w].pc = "drainMark" /\ wk'[w].chain = c
    BY <1>1, <1>5, <2>1, <2>2, TakeRtMoved
  <2>4. QED
    BY <1>0, <1>1, <1>2, <2>1, <2>2, <2>3, DriveStepInv DEF TypeOK
<1>6. QED
  BY <1>3, <1>4, <1>5 DEF DrainPop

LEMMA DrainReleaseInv ==
    ASSUME IInv, NEW w \in Workers, DrainRelease(w)
    PROVE  IInv'
<1> USE DEF nonWorkerVars
<1>0. /\ wk[w].pc \in DrivePcs /\ "drain" \in DrivePcs /\ "drain" \in DrainPcs
  BY DEF DrainRelease, DrivePcs, DrainPcs
<1>1. TypeOK /\ QueueRefs
  BY <1>0, InHandFacts
<1>2. UNCHANGED <<status, rts, pending, stepRt, nonWorkerVars>> /\ Goto(w, "drain")
      /\ leases' = leases \ {wk[w].rt}
  BY DEF DrainRelease
<1>3. leases' \in SUBSET Nat /\ QueueRefs'
  BY <1>1, <1>2, QuietRefs DEF TypeOK
<1>4. QED
  BY <1>0, <1>1, <1>2, <1>3, GoOnInv DEF TypeOK

LEMMA WorkerFaultInv ==
    ASSUME IInv, NEW w \in Workers, WorkerFault(w)
    PROVE  IInv'
<1> USE DEF cmVars
<1>1. TypeOK /\ QueueRefs /\ wk[w] \in WorkerRecord
  BY DEF IInv, HandInv, TypeOK
<1>2. UNCHANGED <<cmVars, producerVars, registry, phase, strays, crashes>>
  BY DEF WorkerFault
<1>3. faults' \in 0..MaxFaults
  BY <1>1, EngineAssumption DEF WorkerFault, TypeOK
<1> DEFINE pc == AfterFault[wk[w].pc]
<1>4. CASE wk[w].pc \in {"poll", "recheck", "drain"}
  <2>1. wk' = [wk EXCEPT ![w] = OffWorker]
    BY <1>1, <1>4 DEF WorkerFault, AfterFault, TypeOK
  <2>2. QED
    BY <1>2, <1>3, <2>1, WorkerEndsInv
<1>5. CASE wk[w].pc \notin {"poll", "recheck", "drain"}
  <2>0. wk[w].pc \in DOMAIN AfterFault
    BY DEF WorkerFault
  <2>1. /\ pc \in DrivePcs /\ pc # "off" /\ wk[w].pc \in DrivePcs
        /\ (wk[w].pc \in DrainPcs => pc \in DrainPcs)
    BY <1>5, <2>0 DEF AfterFault, DrivePcs, DrainPcs
  <2>2. Goto(w, pc)
    BY <1>1, <2>1 DEF WorkerFault
  <2> HIDE DEF pc
  <2>3. pc \in WorkerPcs
    BY <2>1 DEF WorkerPcs
  <2>4. /\ Moved(w) /\ wk' \in [Workers -> WorkerRecord]
        /\ wk'[w].pc = pc /\ wk'[w].chain = wk[w].chain
    BY <1>1, <2>2, <2>3, GotoMoved
  <2>5. QueueRefs'
    BY <1>1, <1>2, QuietRefs
  <2>6. QED
    BY <1>1, <1>2, <1>3, <2>1, <2>4, <2>5, DriveStepInv DEF TypeOK
<1>6. QED
  BY <1>4, <1>5

LEMMA DriveInv ==
    ASSUME IInv, NEW w \in Workers, Drive(w) \/ Execution(w)
    PROVE  IInv'
BY ActivateInv, RehydrateInv, PopStepRtInv, StepPushInv, StepTrailInv, RepopStepRtInv,
   DispatchInv, MarkInv, ReleaseRtInv, FinishChainInv, DrainPopInv, DrainReleaseInv,
   ActorRecordsInv, ActorEndsInv DEF Drive, Execution

-----------------------------------------------------------------------------
(* The producers. *)

\* The lock is held by the busy request, which the process still serves.
LEMMA BusyFacts ==
    ASSUME IInv, NEW q \in Requests, Busy(q)
    PROVE  /\ lock = q /\ phase = "serving" /\ req[q].chain \in Chains
           /\ req[q] \in RequestRecord
           /\ \A p \in Requests : p # q => ~Busy(p)
<1>1. lock = q /\ req[q].chain \in Chains
  BY DEF IInv, AdmissionInv
<1>2. phase = "serving"
  BY <1>1, EngineAssumption DEF IInv, RegistryInv
<1>3. \A p \in Requests : p # q => ~Busy(p)
  BY <1>1 DEF IInv, AdmissionInv
<1>4. QED
  BY <1>1, <1>2, <1>3 DEF IInv, TypeOK

\* A step of the only busy request.
LEMMA AdmissionStep ==
    ASSUME NEW q \in Requests,
           \A p \in Requests : p # q => ~Busy(p) /\ req'[p] = req[p],
           Busy(q)' => lock' = q /\ req'[q].chain \in Chains,
           req'[q].pc = "duplicate" => status'[req'[q].chain] = "none",
           req'[q].pc = "create" => /\ status'[req'[q].chain] = "none"
                                    /\ PendingOf(PipelineOf[req[q].chain])' = {},
           req'[q].pc \in {"push", "trail"} => status'[req'[q].chain] # "none"
    PROVE  AdmissionInv'
<1> SUFFICES ASSUME NEW p \in Requests
             PROVE  /\ Busy(p)' => lock' = p /\ req'[p].chain \in Chains
                    /\ req'[p].pc = "duplicate" => status'[req'[p].chain] = "none"
                    /\ req'[p].pc = "create" => /\ status'[req'[p].chain] = "none"
                                               /\ PendingOf(PipelineOf[req[p].chain])' = {}
                    /\ req'[p].pc \in {"push", "trail"} => status'[req'[p].chain] # "none"
  BY DEF AdmissionInv
<1>1. CASE p = q
  BY <1>1
<1>2. CASE p # q
  <2>1. req'[p] = req[p] /\ ~Busy(p)
    BY <1>2
  <2>2. QED
    BY <2>1 DEF Busy
<1>3. QED
  BY <1>1, <1>2

\* What a producer does leaves the workers alone, except for the last wake-up.
LEMMA ProducerStepInv ==
    ASSUME IInv, phase = "serving", TypeOK', WaitingAtMostOne', AdmissionInv', QueueRefs',
           \A c \in Chains : status[c] # "none" => status'[c] # "none",
           UNCHANGED <<registry, wk, phase>>
    PROVE  IInv'
<1>1. SingleDriver' /\ RegistryInv'
  BY DEF IInv, SingleDriver, RegistryInv
<1>2. \A w \in Workers : WorkerHand(w)'
  BY DEF IInv, HandInv, WorkerHand, Created
<1>3. QED
  BY <1>1, <1>2 DEF IInv, HandInv

LEMMA AdmitInv ==
    ASSUME IInv, NEW q \in Requests, Admit(q)
    PROVE  IInv'
<1> USE DEF cmVars, restVars, otherVars
<1>1. PICK c \in Chains : req' = [req EXCEPT ![q].pc = "exists", ![q].chain = c]
  BY DEF Admit
<1>2. /\ phase = "serving" /\ lock = None /\ lock' = q
      /\ UNCHANGED <<cmVars, restVars>>
  BY DEF Admit, LockFree
<1>3. TypeOK /\ req \in [Requests -> RequestRecord]
  BY DEF IInv, TypeOK
<1>4. /\ req' \in [Requests -> RequestRecord]
      /\ req'[q].pc = "exists" /\ req'[q].chain = c
      /\ \A p \in Requests : p # q => req'[p] = req[p]
  BY <1>1, <1>3 DEF RequestRecord, RequestPcs
<1>5. TypeOK'
  BY <1>2, <1>3, <1>4 DEF TypeOK
<1>6. \A p \in Requests : ~Busy(p)
  BY <1>2, EngineAssumption DEF IInv, AdmissionInv
<1>7. AdmissionInv'
  BY <1>2, <1>4, <1>6, AdmissionStep
<1>8. WaitingAtMostOne' /\ QueueRefs'
  BY <1>2, QuietRefs DEF IInv, WaitingAtMostOne, HandInv
<1>9. QED
  BY <1>2, <1>5, <1>7, <1>8, ProducerStepInv

\* An answer gives the lock back.
LEMMA ReplyFacts ==
    ASSUME IInv, NEW q \in Requests, Busy(q), NEW pc \in {"replied", "error"}, Reply(q, pc)
    PROVE  /\ req' \in [Requests -> RequestRecord] /\ lock' \in Requests \cup {None}
           /\ AdmissionInv'
<1>1. /\ req \in [Requests -> RequestRecord]
      /\ \A p \in Requests : p # q => ~Busy(p)
  BY BusyFacts DEF IInv, TypeOK
<1> DEFINE rec == [IdleRequest EXCEPT !.pc = pc]
<1>2. rec \in RequestRecord /\ rec.pc = pc
  BY EngineAssumption DEF IdleRequest, RequestRecord, RequestPcs, Steps
<1>3. req' = [req EXCEPT ![q] = rec] /\ lock' = None
  BY DEF Reply
<1> HIDE DEF rec
<1>4. /\ req' \in [Requests -> RequestRecord] /\ req'[q].pc = pc
      /\ \A p \in Requests : p # q => req'[p] = req[p]
  BY <1>1, <1>2, <1>3
<1>5. AdmissionInv'
  BY <1>1, <1>4, AdmissionStep DEF Busy
<1>6. QED
  BY <1>3, <1>4, <1>5

\* The two looks at the chains that exist.
LEMMA LookInv ==
    ASSUME IInv, NEW q \in Requests, ChainIdExists(q) \/ FindPendingDuplicate(q)
    PROVE  IInv'
<1> USE DEF cmVars, restVars, otherVars
<1>1. Busy(q) /\ TypeOK
  BY DEF ChainIdExists, FindPendingDuplicate, Busy, IInv
<1>2. UNCHANGED <<cmVars, restVars>>
  BY DEF ChainIdExists, FindPendingDuplicate
<1>3. WaitingAtMostOne' /\ QueueRefs'
  BY <1>2, QuietRefs DEF IInv, WaitingAtMostOne, HandInv
<1>4. /\ phase = "serving" /\ lock = q /\ req[q].chain \in Chains
      /\ req[q] \in RequestRecord
      /\ \A p \in Requests : p # q => ~Busy(p)
  BY <1>1, BusyFacts
<1>5. CASE Reply(q, "replied")
  <2>1. /\ req' \in [Requests -> RequestRecord] /\ lock' \in Requests \cup {None}
        /\ AdmissionInv'
    BY <1>1, <1>5, ReplyFacts
  <2>2. TypeOK'
    BY <1>1, <1>2, <2>1 DEF TypeOK
  <2>3. QED
    BY <1>2, <1>3, <1>4, <2>1, <2>2, ProducerStepInv
<1>6. ASSUME NEW pc \in RequestPcs, req' = [req EXCEPT ![q].pc = pc], lock' = lock,
             pc \in {"duplicate", "create"},
             status[req[q].chain] = "none",
             pc = "create" => PendingOf(PipelineOf[req[q].chain]) = {}
      PROVE  IInv'
  <2>1. /\ req' \in [Requests -> RequestRecord]
        /\ req'[q].pc = pc /\ req'[q].chain = req[q].chain
        /\ \A p \in Requests : p # q => req'[p] = req[p]
    BY <1>1, <1>4, <1>6 DEF TypeOK, RequestRecord
  <2>2. TypeOK'
    BY <1>1, <1>2, <1>6, <2>1 DEF TypeOK
  <2>3. pc = "create" => PendingOf(PipelineOf[req[q].chain])' = {}
    BY <1>2, <1>6, <2>1 DEF PendingOf
  <2>4. AdmissionInv'
    BY <1>2, <1>4, <1>6, <2>1, <2>3, AdmissionStep
  <2>5. QED
    BY <1>2, <1>3, <1>4, <2>2, <2>4, ProducerStepInv
<1>7. CASE ChainIdExists(q)
  <2>1. CASE status[req[q].chain] # "none"
    BY <1>5, <1>7, <2>1 DEF ChainIdExists
  <2>2. CASE status[req[q].chain] = "none"
    BY <1>6, <1>7, <2>2 DEF ChainIdExists, RequestPcs
  <2>3. QED
    BY <2>1, <2>2
<1>8. CASE FindPendingDuplicate(q)
  <2>1. CASE PendingOf(PipelineOf[req[q].chain]) # {}
    BY <1>5, <1>8, <2>1 DEF FindPendingDuplicate
  <2>2. CASE PendingOf(PipelineOf[req[q].chain]) = {}
    <3>1. status[req[q].chain] = "none"
      BY <1>8 DEF FindPendingDuplicate, IInv, AdmissionInv
    <3>2. QED
      BY <1>6, <1>8, <2>2, <3>1 DEF FindPendingDuplicate, RequestPcs
  <2>3. QED
    BY <2>1, <2>2
<1>9. QED
  BY <1>7, <1>8

LEMMA CreateChainInv ==
    ASSUME IInv, NEW q \in Requests, CreateChain(q)
    PROVE  IInv'
<1> USE DEF restVars, otherVars
<1> DEFINE c == req[q].chain
<1>1. Busy(q) /\ TypeOK /\ req[q].pc = "create"
  BY DEF CreateChain, Busy, IInv
<1>2. /\ phase = "serving" /\ lock = q /\ c \in Chains /\ req[q] \in RequestRecord
      /\ \A p \in Requests : p # q => ~Busy(p)
  BY <1>1, BusyFacts
<1>3. /\ status' = [status EXCEPT ![c] = "pending"]
      /\ req' = [req EXCEPT ![q].pc = "push"]
      /\ UNCHANGED <<rts, pending, leases, stepRt, lock, restVars>>
  BY DEF CreateChain, SetStatus
<1>4. status[c] = "none" /\ PendingOf(PipelineOf[c]) = {}
  BY <1>1 DEF IInv, AdmissionInv
<1>5. /\ req' \in [Requests -> RequestRecord]
      /\ req'[q].pc = "push" /\ req'[q].chain = c
      /\ \A p \in Requests : p # q => req'[p] = req[p]
  BY <1>1, <1>2, <1>3 DEF TypeOK, RequestRecord, RequestPcs
<1>6. /\ status' \in [Chains -> {"none", "pending", "active"} \cup Terminal]
      /\ status'[c] = "pending"
      /\ \A d \in Chains : d # c => status'[d] = status[d]
  BY <1>1, <1>2, <1>3 DEF TypeOK
<1>7. TypeOK'
  BY <1>1, <1>3, <1>5, <1>6 DEF TypeOK
<1>8. AdmissionInv'
  BY <1>2, <1>3, <1>5, <1>6, AdmissionStep
<1>9. WaitingAtMostOne'
  <2>1. \A d \in Chains : status'[d] = "pending" /\ PipelineOf[d] = PipelineOf[c] => d = c
    BY <1>4, <1>6 DEF PendingOf
  <2>2. QED
    BY <1>2, <1>6, <2>1 DEF IInv, WaitingAtMostOne
<1>10. \A d \in Chains : status[d] # "none" => status'[d] # "none"
  BY <1>6
<1>11. QueueRefs'
  BY <1>3, <1>10, QuietRefs DEF IInv, HandInv
<1>12. QED
  BY <1>2, <1>3, <1>7, <1>8, <1>9, <1>10, <1>11, ProducerStepInv

LEMMA ProducerPushInv ==
    ASSUME IInv, NEW q \in Requests, ProducerPush(q)
    PROVE  IInv'
<1> USE DEF restVars, otherVars
<1> DEFINE c == req[q].chain
<1>1. Busy(q) /\ TypeOK /\ QueueRefs /\ req[q].pc = "push"
  BY DEF ProducerPush, Busy, IInv, HandInv
<1>2. /\ phase = "serving" /\ lock = q /\ c \in Chains /\ req[q] \in RequestRecord
      /\ \A p \in Requests : p # q => ~Busy(p)
  BY <1>1, BusyFacts
<1>3. /\ PushRt(c, req[q].step)
      /\ req' = [req EXCEPT ![q].pc = "trail", ![q].rt = Len(rts) + 1]
      /\ UNCHANGED <<status, leases, stepRt, lock, restVars>>
  BY DEF ProducerPush
<1>4. status[c] # "none" /\ Created(c) /\ req[q].step \in Steps
  BY <1>1, <1>2 DEF IInv, AdmissionInv, Created, RequestRecord
<1>5. /\ rts' \in Seq(RtRecord) /\ pending' \in Seq(Nat) /\ QueueRefs'
      /\ Len(rts) + 1 \in Nat
  BY <1>1, <1>3, <1>4, PushFacts
<1>6. /\ req' \in [Requests -> RequestRecord]
      /\ req'[q].pc = "trail" /\ req'[q].chain = c
      /\ \A p \in Requests : p # q => req'[p] = req[p]
  BY <1>1, <1>2, <1>3, <1>5 DEF TypeOK, RequestRecord, RequestPcs
<1>7. TypeOK'
  BY <1>1, <1>3, <1>5, <1>6 DEF TypeOK
<1>8. AdmissionInv'
  BY <1>2, <1>3, <1>4, <1>6, AdmissionStep
<1>9. WaitingAtMostOne'
  BY <1>3 DEF IInv, WaitingAtMostOne
<1>10. QED
  BY <1>2, <1>3, <1>5, <1>7, <1>8, <1>9, ProducerStepInv

LEMMA ProducerFaultInv ==
    ASSUME IInv, NEW q \in Requests, ProducerFault(q)
    PROVE  IInv'
<1> USE DEF cmVars
<1>1. Busy(q) /\ TypeOK
  BY DEF ProducerFault, Busy, IInv
<1>2. /\ Reply(q, "error") /\ faults < MaxFaults /\ faults' = faults + 1
      /\ UNCHANGED <<cmVars, registry, wk, phase, strays, crashes>>
  BY DEF ProducerFault
<1>3. /\ req' \in [Requests -> RequestRecord] /\ lock' \in Requests \cup {None}
      /\ AdmissionInv'
  BY <1>1, <1>2, ReplyFacts
<1>4. TypeOK'
  BY <1>1, <1>2, <1>3, EngineAssumption DEF TypeOK
<1>5. WaitingAtMostOne' /\ QueueRefs'
  BY <1>2, QuietRefs DEF IInv, WaitingAtMostOne, HandInv
<1>6. QED
  BY <1>1, <1>2, <1>3, <1>4, <1>5, BusyFacts, ProducerStepInv

\* The wake-up leaves one worker alive, the registered one.
LEMMA EnsureWorkerFacts ==
    ASSUME IInv, phase = "serving", EnsureWorkerAndWake
    PROVE  /\ wk' \in [Workers -> WorkerRecord] /\ registry' \in Workers \cup {None}
           /\ \A w \in Workers : wk'[w].pc # "off" => registry' = w
           /\ \A w \in Workers :
                 \/ /\ wk'[w].pc = wk[w].pc /\ wk'[w].chain = wk[w].chain
                    /\ wk'[w].resume = wk[w].resume
                 \/ wk[w].pc = "off" /\ wk'[w].pc = "poll" /\ wk'[w].resume = {}
<1>1. /\ TypeOK /\ wk \in [Workers -> WorkerRecord]
      /\ \A w \in Workers : wk[w].pc # "off" => registry = w
  BY DEF IInv, TypeOK, RegistryInv
<1>2. CASE LiveWorker # {}
  <2>1. /\ wk' = [w \in Workers |-> IF w \in LiveWorker THEN Woken(w) ELSE wk[w]]
        /\ registry' = registry
    BY <1>2 DEF EnsureWorkerAndWake
  <2>2. \A w \in Workers :
           /\ Woken(w) \in WorkerRecord /\ Woken(w).pc = wk[w].pc
           /\ Woken(w).chain = wk[w].chain /\ Woken(w).resume = wk[w].resume
    BY <1>1 DEF Woken, WorkerRecord
  <2> HIDE DEF Woken
  <2>3. \A w \in Workers :
           /\ wk'[w] \in WorkerRecord /\ wk'[w].pc = wk[w].pc
           /\ wk'[w].chain = wk[w].chain /\ wk'[w].resume = wk[w].resume
    BY <1>1, <2>1, <2>2
  <2>4. wk' \in [Workers -> WorkerRecord]
    BY <1>1, <2>1, <2>2
  <2>5. QED
    BY <1>1, <2>1, <2>3, <2>4 DEF TypeOK
<1>3. CASE LiveWorker = {}
  <2> DEFINE rec == [OffWorker EXCEPT !.pc = "poll", !.wake = TRUE]
  <2>1. PICK w \in Workers : wk' = [wk EXCEPT ![w] = rec] /\ registry' = w
    BY <1>3 DEF EnsureWorkerAndWake
  <2>2. rec \in WorkerRecord /\ rec.pc = "poll" /\ rec.resume = {}
    <3>1. OffWorker \in WorkerRecord /\ OffWorker.resume = {}
      BY EngineAssumption DEF OffWorker, WorkerRecord, WorkerPcs, Steps
    <3> HIDE DEF OffWorker
    <3>2. QED
      BY <3>1 DEF WorkerRecord, WorkerPcs
  <2> HIDE DEF rec
  <2>3. \A v \in Workers : wk[v].pc = "off"
    BY <1>1, <1>3 DEF LiveWorker
  <2>4. wk' \in [Workers -> WorkerRecord] /\ wk'[w] = rec
        /\ \A v \in Workers : v # w => wk'[v] = wk[v]
    BY <1>1, <2>1, <2>2
  <2>5. QED
    BY <2>1, <2>2, <2>3, <2>4
<1>4. QED
  BY <1>2, <1>3

LEMMA RtEnqueuedInv ==
    ASSUME IInv, NEW q \in Requests, RtEnqueued(q)
    PROVE  IInv'
<1> USE DEF otherVars
<1> DEFINE c == req[q].chain
<1>1. Busy(q) /\ TypeOK /\ req[q].pc = "trail"
  BY DEF RtEnqueued, Busy, IInv
<1>2. /\ phase = "serving" /\ lock = q /\ c \in Chains /\ req[q] \in RequestRecord
      /\ \A p \in Requests : p # q => ~Busy(p)
  BY <1>1, BusyFacts
<1>3. /\ stepRt' = [stepRt EXCEPT ![c][req[q].step] = req[q].rt]
      /\ UNCHANGED <<status, rts, pending, leases, otherVars>>
  BY DEF RtEnqueued
<1>4. status[c] # "none" /\ req[q].rt \in Nat /\ req[q].step \in Steps
  BY <1>1, <1>2 DEF IInv, AdmissionInv, RequestRecord
<1>5. stepRt' \in [Chains -> [Steps -> Nat]]
  <2>2. stepRt[c] \in [Steps -> Nat]
    BY <1>1, <1>2 DEF TypeOK
  <2>3. [stepRt[c] EXCEPT ![req[q].step] = req[q].rt] \in [Steps -> Nat]
    BY <1>4, <2>2
  <2>4. QED
    BY <1>1, <1>3, <2>3 DEF TypeOK
<1>6. WaitingAtMostOne' /\ QueueRefs'
  BY <1>3, QuietRefs DEF IInv, WaitingAtMostOne, HandInv
<1>7. CASE HasNextStep(req[q].step)
  <2>1. /\ req' = [req EXCEPT ![q].pc = "push", ![q].step = @ + 1]
        /\ UNCHANGED <<lock, registry, wk>>
    BY <1>7 DEF RtEnqueued
  <2>2. req[q].step + 1 \in Steps
    BY <1>4, <1>7, EngineAssumption DEF HasNextStep, Steps
  <2>3. /\ req' \in [Requests -> RequestRecord]
        /\ req'[q].pc = "push" /\ req'[q].chain = c
        /\ \A p \in Requests : p # q => req'[p] = req[p]
    BY <1>1, <1>2, <2>1, <2>2 DEF TypeOK, RequestRecord, RequestPcs
  <2>4. TypeOK'
    BY <1>1, <1>3, <1>5, <2>1, <2>3 DEF TypeOK
  <2>5. AdmissionInv'
    BY <1>2, <1>3, <1>4, <2>1, <2>3, AdmissionStep
  <2>6. QED
    BY <1>2, <1>3, <1>6, <2>1, <2>4, <2>5, ProducerStepInv
<1>8. CASE ~HasNextStep(req[q].step)
  <2>1. Reply(q, "replied") /\ EnsureWorkerAndWake
    BY <1>8 DEF RtEnqueued
  <2>2. /\ req' \in [Requests -> RequestRecord] /\ lock' \in Requests \cup {None}
        /\ AdmissionInv'
    BY <1>1, <2>1, ReplyFacts
  <2>3. /\ wk' \in [Workers -> WorkerRecord] /\ registry' \in Workers \cup {None}
        /\ \A w \in Workers : wk'[w].pc # "off" => registry' = w
        /\ \A w \in Workers :
              \/ /\ wk'[w].pc = wk[w].pc /\ wk'[w].chain = wk[w].chain
                 /\ wk'[w].resume = wk[w].resume
              \/ wk'[w].pc = "poll" /\ wk'[w].resume = {}
    BY <1>2, <2>1, EnsureWorkerFacts
  <2>4. TypeOK'
    BY <1>1, <1>3, <1>5, <2>2, <2>3 DEF TypeOK
  <2>5. SingleDriver' /\ RegistryInv'
    BY <1>2, <1>3, <2>3 DEF SingleDriver, RegistryInv
  <2>6. ASSUME NEW w \in Workers PROVE WorkerHand(w)'
    BY <1>3, <2>3 DEF IInv, HandInv, WorkerHand, Created, DrivePcs, DrainPcs
  <2>7. QED
    BY <1>6, <2>2, <2>4, <2>5, <2>6 DEF IInv, HandInv
<1>9. QED
  BY <1>7, <1>8

-----------------------------------------------------------------------------
(* Crash, shutdown and restart. *)

LEMMA OffWorkerFacts ==
    /\ OffWorker \in WorkerRecord /\ OffWorker.pc = "off" /\ OffWorker.resume = {}
    /\ "off" \notin DrivePcs /\ "off" # "clear"
BY EngineAssumption DEF OffWorker, WorkerRecord, WorkerPcs, Steps, DrivePcs, DrainPcs

LEMMA DispatchedFacts ==
    ASSUME TypeOK
    PROVE  Dispatched \in SUBSET Nat
BY DEF TypeOK, WorkerRecord, Dispatched

\* With the lock free no request is busy.
LEMMA NobodyBusy ==
    ASSUME IInv, lock = None
    PROVE  \A q \in Requests : ~Busy(q)
BY EngineAssumption DEF IInv, AdmissionInv

\* What the process does as a whole leaves the chains, the RT records and the queue as
\* they are, and no request busy.
LEMMA ProcessStepInv ==
    ASSUME IInv, TypeOK', RegistryInv', SingleDriver',
           \A q \in Requests : ~Busy(q)',
           \A w \in Workers : WorkerHand(w)',
           UNCHANGED <<status, rts, pending>>
    PROVE  IInv'
<1>1. AdmissionInv' /\ WaitingAtMostOne'
  BY DEF IInv, AdmissionInv, WaitingAtMostOne, Busy
<1>2. QueueRefs'
  BY QuietRefs DEF IInv, HandInv
<1>3. QED
  BY <1>1, <1>2 DEF IInv, HandInv

LEMMA CrashInv ==
    ASSUME IInv, Crash
    PROVE  IInv'
<1> USE DEF cmVars
<1>1. TypeOK
  BY DEF IInv
<1>2. /\ phase' = "down" /\ crashes < MaxCrashes /\ crashes' = crashes + 1
      /\ lock' = None /\ registry' = None /\ strays' = strays \cup Dispatched
      /\ wk' = [w \in Workers |-> OffWorker]
      /\ req' = [q \in Requests |->
                  IF req[q].pc \in {"idle", "replied", "error"} THEN req[q]
                  ELSE [IdleRequest EXCEPT !.pc = "error"]]
      /\ UNCHANGED <<cmVars, faults>>
  BY DEF Crash
<1>3. strays' \in SUBSET Nat
  BY <1>1, <1>2, DispatchedFacts DEF TypeOK
<1> DEFINE rec == [IdleRequest EXCEPT !.pc = "error"]
<1>4. rec \in RequestRecord /\ rec.pc = "error"
  BY EngineAssumption DEF IdleRequest, RequestRecord, RequestPcs, Steps
<1> HIDE DEF rec
<1>5. req' = [q \in Requests |-> IF req[q].pc \in {"idle", "replied", "error"} THEN req[q]
                                 ELSE rec]
  BY <1>2 DEF rec
<1>6. req' \in [Requests -> RequestRecord]
  BY <1>1, <1>4, <1>5 DEF TypeOK
<1>7. \A q \in Requests : ~Busy(q)'
  BY <1>4, <1>5 DEF Busy
<1> HIDE DEF OffWorker
<1>8. wk' \in [Workers -> WorkerRecord] /\ \A w \in Workers : wk'[w] = OffWorker
  BY <1>2, OffWorkerFacts
<1>9. TypeOK'
  <2>1. crashes' \in 0..MaxCrashes
    BY <1>1, <1>2, EngineAssumption DEF TypeOK
  <2>2. UNCHANGED <<cmVars, faults>> /\ lock' = None /\ registry' = None
        /\ phase' = "down"
    BY <1>2
  <2>3. QED
    BY <1>1, <1>3, <1>6, <1>8, <2>1, <2>2 DEF TypeOK
<1>10. RegistryInv' /\ SingleDriver'
  BY <1>2, <1>8, OffWorkerFacts DEF RegistryInv, SingleDriver
<1>11. \A w \in Workers : WorkerHand(w)'
  BY <1>8, OffWorkerFacts DEF WorkerHand
<1>12. QED
  BY <1>2, <1>7, <1>9, <1>10, <1>11, ProcessStepInv

LEMMA ShutdownInv ==
    ASSUME IInv, Shutdown
    PROVE  IInv'
<1> USE DEF producerVars
<1>1. TypeOK /\ wk \in [Workers -> WorkerRecord] /\ SingleDriver
      /\ \A w \in Workers : WorkerHand(w)
  BY DEF IInv, TypeOK, HandInv
<1>2. /\ phase = "serving" /\ lock = None /\ phase' = "stopping"
      /\ crashes < MaxCrashes /\ crashes' = crashes + 1
      /\ registry' = None /\ strays' = strays \cup Dispatched
      /\ leases' \subseteq leases
      /\ wk' = [w \in Workers |-> IF wk[w].pc \in DrivePcs \ DrainPcs
                                  THEN [wk[w] EXCEPT !.pc = "drain"] ELSE OffWorker]
      /\ UNCHANGED <<status, rts, pending, stepRt, producerVars, faults>>
  BY DEF Shutdown
<1>3. strays' \in SUBSET Nat /\ leases' \in SUBSET Nat
  BY <1>1, <1>2, DispatchedFacts DEF TypeOK
<1>4. \A q \in Requests : ~Busy(q)'
  BY <1>2, NobodyBusy DEF Busy
<1>5. \A w \in Workers :
         LET rec == [wk[w] EXCEPT !.pc = "drain"]
         IN  rec \in WorkerRecord /\ rec.pc = "drain" /\ rec.chain = wk[w].chain
             /\ rec.resume = wk[w].resume
  BY <1>1 DEF WorkerRecord, WorkerPcs, DrivePcs
<1> HIDE DEF OffWorker
<1>6. \A w \in Workers :
         \/ /\ wk[w].pc \in DrivePcs
            /\ wk'[w] \in WorkerRecord /\ wk'[w].pc = "drain"
            /\ wk'[w].chain = wk[w].chain /\ wk'[w].resume = wk[w].resume
         \/ wk'[w] = OffWorker
  BY <1>2, <1>5
<1>7. wk' \in [Workers -> WorkerRecord]
  BY <1>2, <1>5, OffWorkerFacts
<1>8. TypeOK'
  BY <1>1, <1>2, <1>3, <1>7, EngineAssumption DEF TypeOK
<1>9. RegistryInv' /\ SingleDriver'
  BY <1>1, <1>2, <1>6, OffWorkerFacts DEF RegistryInv, SingleDriver, DrainPcs
<1>10. \A w \in Workers : WorkerHand(w)'
  BY <1>1, <1>2, <1>6, OffWorkerFacts DEF WorkerHand, Created
<1>11. QED
  BY <1>2, <1>4, <1>8, <1>9, <1>10, ProcessStepInv

LEMMA ProcessInv ==
    ASSUME IInv, Stop \/ Restart \/ RestartBlind
    PROVE  IInv'
<1> USE DEF cmVars, producerVars
<1>1. /\ TypeOK /\ wk \in [Workers -> WorkerRecord]
      /\ \A w \in Workers : wk[w].pc = "off" /\ WorkerHand(w)
      /\ lock = None
  BY DEF IInv, TypeOK, HandInv, RegistryInv, Stop, Restart, RestartBlind
<1>2. /\ UNCHANGED <<cmVars, producerVars, strays, crashes>>
      /\ phase' \in {"serving", "down"}
  BY DEF Stop, Restart, RestartBlind
<1>3. \A q \in Requests : ~Busy(q)'
  BY <1>1, <1>2, NobodyBusy DEF Busy
<1>4. ASSUME UNCHANGED <<registry, wk>> PROVE IInv'
  <2>1. faults' \in 0..MaxFaults
    BY <1>1, EngineAssumption DEF Stop, Restart, RestartBlind, TypeOK
  <2>2. TypeOK'
    BY <1>1, <1>2, <1>4, <2>1 DEF TypeOK
  <2>3. RegistryInv' /\ SingleDriver'
    BY <1>1, <1>2, <1>4 DEF RegistryInv, SingleDriver
  <2>4. \A w \in Workers : WorkerHand(w)'
    BY <1>1, <1>2, <1>4 DEF WorkerHand, Created
  <2>5. QED
    BY <1>2, <1>3, <2>2, <2>3, <2>4, ProcessStepInv
<1> DEFINE rec == [OffWorker EXCEPT !.pc = "poll", !.wake = TRUE, !.resume = Unfinished]
<1>5. ASSUME NEW w \in Workers, wk' = [wk EXCEPT ![w] = rec], registry' = w,
             phase' = "serving", faults' = faults
      PROVE  IInv'
  <2>1. Unfinished \in SUBSET Chains
    BY DEF Unfinished
  <2>2. rec \in WorkerRecord /\ rec.pc = "poll" /\ rec.resume = Unfinished
    <3> HIDE DEF OffWorker
    <3>1. QED
      BY <2>1, OffWorkerFacts DEF WorkerRecord, WorkerPcs
  <2> HIDE DEF rec
  <2>3. wk' \in [Workers -> WorkerRecord] /\ wk'[w] = rec
        /\ \A v \in Workers : v # w => wk'[v] = wk[v]
    BY <1>1, <1>5, <2>2
  <2>4. TypeOK'
    BY <1>1, <1>2, <1>5, <2>3 DEF TypeOK
  <2>5. RegistryInv' /\ SingleDriver'
    BY <1>1, <1>2, <1>5, <2>2, <2>3 DEF RegistryInv, SingleDriver
  <2>6. \A v \in Workers : v # w => WorkerHand(v)'
    BY <1>1, <1>2, <2>3 DEF WorkerHand, Created
  <2>7. WorkerHand(w)'
    BY <1>2, <2>2, <2>3 DEF WorkerHand, Created, Unfinished, DrivePcs, DrainPcs
  <2>8. QED
    BY <1>2, <1>3, <2>4, <2>5, <2>6, <2>7, ProcessStepInv
<1>6. QED
  BY <1>4, <1>5 DEF Stop, Restart, RestartBlind

LEMMA StrayEndsInv ==
    ASSUME IInv, NEW r \in strays, StrayEnds(r)
    PROVE  IInv'
<1> USE DEF producerVars
<1>1. TypeOK /\ QueueRefs /\ r \in Nat
  BY DEF IInv, HandInv, TypeOK
<1>2. /\ SetRt(r, "done") \/ UNCHANGED rts
      /\ strays' = strays \ {r}
      /\ UNCHANGED <<status, pending, leases, stepRt, producerVars, registry, wk,
                     phase, crashes, faults>>
  BY DEF StrayEnds
<1>3. rts' \in Seq(RtRecord) /\ QueueRefs'
  <2>1. CASE SetRt(r, "done")
    BY <1>1, <1>2, <2>1, SetRtFacts, SetRtRefs
  <2>2. CASE UNCHANGED rts
    <3>1. QueueRefs'
      BY <1>1, <1>2, <2>2, QuietRefs
    <3>2. QED
      BY <1>1, <2>2, <3>1 DEF TypeOK
  <2>3. QED
    BY <1>2, <2>1, <2>2
<1>4. TypeOK'
  BY <1>1, <1>2, <1>3 DEF TypeOK
<1>5. WaitingAtMostOne' /\ SingleDriver' /\ AdmissionInv' /\ RegistryInv'
  BY <1>2 DEF IInv, WaitingAtMostOne, SingleDriver, AdmissionInv, RegistryInv, Busy,
     PendingOf
<1>6. \A w \in Workers : WorkerHand(w)'
  BY <1>2 DEF IInv, HandInv, WorkerHand, Created
<1>7. QED
  BY <1>3, <1>4, <1>5, <1>6 DEF IInv, HandInv

-----------------------------------------------------------------------------
(* The invariants. *)

LEMMA NextIInv == IInv /\ [Next]_vars => IInv'
<1> SUFFICES ASSUME IInv, [Next]_vars PROVE IInv'
  OBVIOUS
<1>1. ASSUME NEW q \in Requests, RunChain(q) \/ ProducerFault(q) PROVE IInv'
  BY <1>1, AdmitInv, LookInv, CreateChainInv, ProducerPushInv, RtEnqueuedInv,
     ProducerFaultInv DEF RunChain
<1>2. ASSUME NEW w \in Workers,
             \/ WorkerLoop(w) \/ IdleTimeout(w) \/ Drive(w)
             \/ Execution(w) \/ WorkerFault(w)
      PROVE  IInv'
  BY <1>2, LoopInv, DriveInv, WorkerFaultInv
<1>3. CASE Crash \/ Shutdown \/ Stop \/ Restart \/ RestartBlind
  BY <1>3, CrashInv, ShutdownInv, ProcessInv
<1>4. ASSUME NEW r \in strays, StrayEnds(r) PROVE IInv'
  BY <1>4, StrayEndsInv
<1>5. CASE UNCHANGED vars
  <2> USE DEF vars, cmVars, nonWorkerVars, producerVars, otherVars
  <2>1. TypeOK'
    BY <1>5 DEF IInv, TypeOK
  <2>2. WaitingAtMostOne' /\ SingleDriver' /\ AdmissionInv' /\ RegistryInv'
    BY <1>5 DEF IInv, WaitingAtMostOne, SingleDriver, AdmissionInv, RegistryInv, Busy,
       PendingOf
  <2>3. QueueRefs'
    BY <1>5, QuietRefs DEF IInv, HandInv
  <2>4. \A w \in Workers : WorkerHand(w)'
    BY <1>5 DEF IInv, HandInv, WorkerHand, Created
  <2>5. QED
    BY <2>1, <2>2, <2>3, <2>4 DEF IInv, HandInv
<1>6. QED
  BY <1>1, <1>2, <1>3, <1>4, <1>5 DEF Next

THEOREM EngineInvariant == Spec => []IInv
<1>1. QED
  BY InitIInv, NextIInv, PTL DEF Spec

\* The state of the engine is always well formed: a worker that drives has a chain in
\* hand, whatever crash, shutdown or failing call came before.
THEOREM EngineWellFormed == Spec => []TypeOK
<1>1. IInv => TypeOK
  BY DEF IInv
<1>2. QED
  BY <1>1, EngineInvariant, PTL

\* Admission: run_chain never lets two chains of one pipeline wait, for any number of
\* concurrent requests, workers, crashes and failing calls.
THEOREM AtMostOneWaits == Spec => []WaitingAtMostOne
<1>1. IInv => WaitingAtMostOne
  BY DEF IInv
<1>2. QED
  BY <1>1, EngineInvariant, PTL

\* The registry, the teardown under its lock, shutdown_all and the restart never leave
\* two workers of the persona alive.
THEOREM OneDriver == Spec => []SingleDriver
<1>1. IInv => SingleDriver
  BY DEF IInv
<1>2. QED
  BY <1>1, EngineInvariant, PTL

-----------------------------------------------------------------------------
(* The engine implements the ledger of chains. *)

LedgerStep == Ledger!Next \/ UNCHANGED Ledger!vars

\* With one worker alive, the chain in hand is the one it drives.
LEMMA HandOf ==
    ASSUME NEW w \in Workers, \A v \in Workers : v # w => wk[v].pc = "off"
    PROVE  InHand = IF wk[w].pc \in DrivePcs THEN {wk[w].chain} ELSE {}
BY OffWorkerFacts DEF InHand

LEMMA HandAfter ==
    ASSUME NEW w \in Workers, \A v \in Workers : v # w => wk'[v].pc = "off"
    PROVE  InHand' = IF wk'[w].pc \in DrivePcs THEN {wk'[w].chain} ELSE {}
BY OffWorkerFacts DEF InHand

\* A worker's step that changes no status takes a chain, keeps it or drops it.
LEMMA QuietStepMaps ==
    ASSUME IInv, IInv', NEW w \in Workers, wk[w].pc # "off",
           \A v \in Workers : v # w => wk'[v] = wk[v],
           wk[w].pc \in DrivePcs /\ wk'[w].pc \in DrivePcs => wk'[w].chain = wk[w].chain,
           UNCHANGED status
    PROVE  LedgerStep
<1>1. \A v \in Workers : v # w => wk[v].pc = "off" /\ wk'[v].pc = "off"
  BY DEF IInv, SingleDriver
<1>2. /\ InHand = IF wk[w].pc \in DrivePcs THEN {wk[w].chain} ELSE {}
      /\ InHand' = IF wk'[w].pc \in DrivePcs THEN {wk'[w].chain} ELSE {}
  BY <1>1, HandOf, HandAfter
<1>3. CASE InHand' = InHand
  BY <1>3 DEF LedgerStep, Ledger!vars
<1>4. CASE InHand' = {}
  BY <1>4 DEF LedgerStep, Ledger!Next, Ledger!Drop
<1>5. CASE InHand = {} /\ wk'[w].pc \in DrivePcs
  <2>1. Created(wk[w].chain)'
    BY <1>5 DEF IInv, HandInv, WorkerHand
  <2>2. wk'[w].chain \in Chains /\ status[wk'[w].chain] # "none"
    BY <2>1 DEF Created
  <2>3. QED
    BY <1>2, <1>5, <2>2 DEF LedgerStep, Ledger!Next, Ledger!Take
<1>6. QED
  BY <1>2, <1>3, <1>4, <1>5

\* A worker's step changes its own state only, and keeps the chain while it drives.
LEMMA WorkerKeeps ==
    ASSUME TypeOK, NEW w \in Workers,
           \/ WorkerLoop(w) \/ IdleTimeout(w) \/ Drive(w)
           \/ Execution(w) \/ WorkerFault(w)
    PROVE  /\ wk[w].pc # "off"
           /\ \A v \in Workers : v # w => wk'[v] = wk[v]
           /\ wk[w].pc \in DrivePcs /\ wk'[w].pc \in DrivePcs
                 => wk'[w].chain = wk[w].chain
<1>1. wk \in [Workers -> WorkerRecord] /\ wk[w] \in WorkerRecord
  BY DEF TypeOK
<1>2. ASSUME NEW pc, Goto(w, pc)
      PROVE  (\A v \in Workers : v # w => wk'[v] = wk[v]) /\ wk'[w].chain = wk[w].chain
  BY <1>1, <1>2 DEF Goto, WorkerRecord
<1>3. ASSUME NEW context, Advance(w, context)
      PROVE  (\A v \in Workers : v # w => wk'[v] = wk[v]) /\ wk'[w].chain = wk[w].chain
  BY <1>1, <1>3 DEF Advance, WorkerRecord
<1>4. CASE WorkerLoop(w) \/ IdleTimeout(w)
  <2>1. wk[w].pc \notin DrivePcs /\ wk[w].pc # "off"
    BY <1>4 DEF WorkerLoop, IdleTimeout, TakeResumed, PollQueue, ClearAndDrive,
       ClearAndRecheck, Recheck, WakeUp, Teardown, DrivePcs, DrainPcs
  <2>2. \A v \in Workers : v # w => wk'[v] = wk[v]
    BY <1>1, <1>2, <1>4 DEF WorkerLoop, IdleTimeout, TakeResumed, PollQueue,
       ClearAndDrive, ClearAndRecheck, Recheck, WakeUp, Teardown
  <2>3. QED
    BY <2>1, <2>2
<1>5. CASE Activate(w) \/ Rehydrate(w) \/ ReleaseRt(w)
  <2>1. wk[w].pc # "off"
    BY <1>5 DEF Activate, Rehydrate, ReleaseRt
  <2>2. QED
    BY <1>2, <1>3, <1>5, <2>1 DEF Activate, Rehydrate, ReleaseRt
<1>6. CASE PopStepRt(w) \/ StepPush(w)
  <2>1. ASSUME NEW pc, NEW r, wk' = [wk EXCEPT ![w].pc = pc, ![w].rt = r]
        PROVE  (\A v \in Workers : v # w => wk'[v] = wk[v]) /\ wk'[w].chain = wk[w].chain
    BY <1>1, <2>1 DEF WorkerRecord
  <2>2. wk[w].pc # "off"
    BY <1>6 DEF PopStepRt, StepPush
  <2>3. QED
    BY <1>2, <1>6, <2>1, <2>2 DEF PopStepRt, StepPush
<1>7. CASE \/ StepTrail(w) \/ RepopStepRt(w) \/ BeginRt(w) \/ Dispatch(w) \/ RecordRt(w)
           \/ FinishChain(w) \/ DrainMark(w) \/ DrainRelease(w)
           \/ ActorAnswers(w) \/ DispatchFails(w)
  BY <1>2, <1>7 DEF StepTrail, RepopStepRt, BeginRt, Dispatch, RecordRt, FinishChain,
     DrainMark, DrainRelease, ActorAnswers, DispatchFails
<1>8. CASE ActorRecords(w)
  BY <1>8 DEF ActorRecords
<1>9. CASE DrainPop(w)
  <2>1. wk[w].pc # "off" /\ \A v \in Workers : v # w => wk'[v] = wk[v]
    BY <1>1, <1>9 DEF DrainPop
  <2>2. \/ wk'[w].pc \in {"off", "poll"}
        \/ wk'[w].chain = wk[w].chain
    BY <1>1, <1>9, OffWorkerFacts DEF DrainPop, WorkerRecord
  <2>3. QED
    BY <2>1, <2>2 DEF DrivePcs, DrainPcs
<1>10. CASE WorkerFault(w)
  <2>1. wk[w].pc # "off"
    BY <1>10 DEF WorkerFault, AfterFault
  <2>2. CASE wk' = [wk EXCEPT ![w] = OffWorker]
    <3>1. wk'[w].pc \notin DrivePcs /\ \A v \in Workers : v # w => wk'[v] = wk[v]
      BY <1>1, <2>2, OffWorkerFacts
    <3>2. QED
      BY <2>1, <3>1
  <2>3. CASE Goto(w, AfterFault[wk[w].pc])
    BY <1>2, <2>1, <2>3
  <2>4. QED
    BY <1>10, <2>2, <2>3 DEF WorkerFault
<1>11. QED
  BY <1>4, <1>5, <1>6, <1>7, <1>8, <1>9, <1>10 DEF Drive, Execution

LEMMA WorkerMaps ==
    ASSUME IInv, IInv', NEW w \in Workers,
           \/ WorkerLoop(w) \/ IdleTimeout(w) \/ Drive(w)
           \/ Execution(w) \/ WorkerFault(w)
    PROVE  LedgerStep
<1> DEFINE c == wk[w].chain
<1>1. /\ wk[w].pc # "off" /\ \A v \in Workers : v # w => wk'[v] = wk[v]
      /\ wk[w].pc \in DrivePcs /\ wk'[w].pc \in DrivePcs => wk'[w].chain = c
  BY WorkerKeeps DEF IInv
<1>2. CASE UNCHANGED status
  BY <1>1, <1>2, QuietStepMaps
<1>3. ASSUME NEW s \in {"active", "done", "failed"}, status' = [status EXCEPT ![c] = s],
             wk[w].pc \in DrivePcs, wk'[w].pc \in DrivePcs
      PROVE  LedgerStep
  <2>1. \A v \in Workers : v # w => wk[v].pc = "off" /\ wk'[v].pc = "off"
    BY <1>1 DEF IInv, SingleDriver
  <2>2. InHand = {c} /\ InHand' = {c}
    BY <1>1, <1>3, <2>1, HandOf, HandAfter
  <2>3. c \in Chains
    BY <1>3, InHandFacts
  <2>4. QED
    BY <1>3, <2>2, <2>3 DEF LedgerStep, Ledger!Next, Ledger!Progress
<1>4. CASE Activate(w)
  <2>1. wk[w].pc \in DrivePcs
    BY <1>4 DEF Activate, DrivePcs
  <2>2. wk'[w].pc \in {"rehydrate", "complete", "pop"}
    <3>1. CASE Goto(w, "rehydrate")
      BY <3>1 DEF Goto, IInv, TypeOK, WorkerRecord
    <3>2. CASE Advance(w, {})
      BY <3>2, AdvanceMoved DEF IInv
    <3>3. QED
      BY <1>4, <3>1, <3>2 DEF Activate
  <2>3. wk'[w].pc \in DrivePcs
    BY <2>2 DEF DrivePcs
  <2>4. QED
    BY <1>3, <1>4, <2>1, <2>3 DEF Activate, SetStatus
<1>5. CASE FinishChain(w)
  <2>1. wk[w].pc \in DrivePcs
    BY <1>5 DEF FinishChain, DrivePcs
  <2>2. PICK pc \in {"completed", "drain"} : Goto(w, pc)
    BY <1>5 DEF FinishChain
  <2>3. wk'[w].pc = pc
    BY <2>2 DEF Goto, IInv, TypeOK, WorkerRecord
  <2>4. wk'[w].pc \in DrivePcs
    BY <2>3 DEF DrivePcs
  <2>5. \/ UNCHANGED status
        \/ \E s \in {"done", "failed"} : status' = [status EXCEPT ![c] = s]
    BY <1>5 DEF FinishChain, SetStatus
  <2>6. QED
    BY <1>2, <1>3, <2>1, <2>4, <2>5
<1>6. CASE \/ Rehydrate(w) \/ PopStepRt(w) \/ StepPush(w) \/ StepTrail(w)
           \/ RepopStepRt(w) \/ BeginRt(w) \/ Dispatch(w) \/ RecordRt(w) \/ ReleaseRt(w)
           \/ DrainPop(w) \/ DrainMark(w) \/ DrainRelease(w)
  BY <1>2, <1>6 DEF Rehydrate, PopStepRt, StepPush, StepTrail, RepopStepRt, BeginRt,
     Dispatch, RecordRt, ReleaseRt, DrainPop, DrainMark, DrainRelease, cmVars
<1>7. CASE WorkerLoop(w) \/ IdleTimeout(w) \/ Execution(w) \/ WorkerFault(w)
  BY <1>2, <1>7 DEF WorkerLoop, TakeResumed, PollQueue, ClearAndDrive, ClearAndRecheck,
     Recheck, WakeUp, Teardown, IdleTimeout, Execution, ActorRecords, ActorAnswers,
     DispatchFails, WorkerFault, cmVars
<1>8. QED
  BY <1>4, <1>5, <1>6, <1>7 DEF Drive

LEMMA ProducerMaps ==
    ASSUME IInv, NEW q \in Requests, RunChain(q) \/ ProducerFault(q)
    PROVE  LedgerStep
<1> DEFINE c == req[q].chain
<1>1. CASE CreateChain(q)
  <2>1. c \in Chains /\ status[c] = "none" /\ PendingOf(PipelineOf[c]) = {}
    BY <1>1 DEF CreateChain, IInv, AdmissionInv, Busy
  <2>2. /\ status' = [status EXCEPT ![c] = "pending"] /\ UNCHANGED wk
    BY <1>1 DEF CreateChain, SetStatus, restVars
  <2>3. UNCHANGED InHand
    BY <2>2 DEF InHand
  <2>4. \A d \in Chains : PipelineOf[d] = PipelineOf[c] => status[d] # "pending"
    BY <2>1 DEF PendingOf
  <2>5. QED
    BY <2>1, <2>2, <2>3, <2>4 DEF LedgerStep, Ledger!Next, Ledger!Create
<1>2. CASE RtEnqueued(q)
  <2>1. UNCHANGED status /\ phase = "serving"
    BY <1>2, BusyFacts DEF RtEnqueued, Busy
  <2>2. CASE UNCHANGED wk
    BY <2>1, <2>2 DEF LedgerStep, Ledger!vars, InHand
  <2>3. CASE EnsureWorkerAndWake
    <3>1. \A w \in Workers :
             \/ wk'[w].pc = wk[w].pc /\ wk'[w].chain = wk[w].chain
             \/ wk[w].pc = "off" /\ wk'[w].pc = "poll"
      BY <2>1, <2>3, EnsureWorkerFacts
    <3>2. InHand' = InHand
      BY <3>1 DEF InHand, DrivePcs, DrainPcs
    <3>3. QED
      BY <2>1, <3>2 DEF LedgerStep, Ledger!vars
  <2>4. QED
    BY <1>2, <2>2, <2>3 DEF RtEnqueued
<1>3. CASE \/ Admit(q) \/ ChainIdExists(q) \/ FindPendingDuplicate(q)
           \/ ProducerPush(q) \/ ProducerFault(q)
  <2>1. UNCHANGED <<status, wk>>
    BY <1>3 DEF Admit, ChainIdExists, FindPendingDuplicate, ProducerPush, ProducerFault,
       cmVars, restVars
  <2>2. QED
    BY <2>1 DEF LedgerStep, Ledger!vars, InHand
<1>4. QED
  BY <1>1, <1>2, <1>3 DEF RunChain

LEMMA ProcessMaps ==
    ASSUME IInv, Crash \/ Shutdown \/ Stop \/ Restart \/ RestartBlind
    PROVE  LedgerStep
<1>1. UNCHANGED status
  BY DEF Crash, Shutdown, Stop, Restart, RestartBlind, cmVars
<1>2. TypeOK /\ wk \in [Workers -> WorkerRecord]
  BY DEF IInv, TypeOK
<1>3. InHand' = InHand \/ InHand' = {}
  <2>1. CASE Crash
    <3>1. \A w \in Workers : wk'[w] = OffWorker
      BY <2>1 DEF Crash
    <3>2. QED
      BY <3>1, OffWorkerFacts DEF InHand
  <2>2. CASE Shutdown
    <3>1. \A w \in Workers :
             IF wk[w].pc \in DrivePcs \ DrainPcs
             THEN wk'[w].pc = "drain" /\ wk'[w].chain = wk[w].chain
             ELSE wk'[w].pc = "off"
      BY <1>2, <2>2, OffWorkerFacts DEF Shutdown, WorkerRecord
    <3>2. CASE \E w \in Workers : wk[w].pc \in DrivePcs \ DrainPcs
      <4>1. PICK w \in Workers : wk[w].pc \in DrivePcs \ DrainPcs
        BY <3>2
      <4>2. \A v \in Workers : v # w => wk[v].pc = "off" /\ wk'[v].pc = "off"
        BY <3>1, <4>1, OffWorkerFacts DEF IInv, SingleDriver
      <4>3. wk'[w].pc \in DrivePcs /\ wk'[w].chain = wk[w].chain
        BY <3>1, <4>1 DEF DrivePcs
      <4>4. QED
        BY <4>1, <4>2, <4>3, HandOf, HandAfter
    <3>3. CASE \A w \in Workers : wk[w].pc \notin DrivePcs \ DrainPcs
      BY <3>1, <3>3, OffWorkerFacts DEF InHand
    <3>4. QED
      BY <3>2, <3>3
  <2>3. CASE Stop \/ RestartBlind
    BY <2>3 DEF Stop, RestartBlind, InHand
  <2>4. CASE Restart
    <3>1. \A w \in Workers : wk[w].pc = "off"
      BY <2>4 DEF IInv, RegistryInv, Restart
    <3>2. \A w \in Workers : wk'[w].pc \in {"off", "poll"}
      <4>1. CASE UNCHANGED wk
        BY <3>1, <4>1
      <4>2. ASSUME NEW w \in Workers,
                   wk' = [wk EXCEPT ![w] = [OffWorker EXCEPT !.pc = "poll",
                                              !.wake = TRUE, !.resume = Unfinished]]
            PROVE  \A v \in Workers : wk'[v].pc \in {"off", "poll"}
        <5> DEFINE rec == [OffWorker EXCEPT !.pc = "poll", !.wake = TRUE,
                                            !.resume = Unfinished]
        <5>1. rec.pc = "poll"
          BY DEF OffWorker
        <5> HIDE DEF rec
        <5>2. wk' = [wk EXCEPT ![w] = rec]
          BY <4>2 DEF rec
        <5>3. QED
          BY <1>2, <3>1, <5>1, <5>2
      <4>3. QED
        BY <2>4, <4>1, <4>2 DEF Restart
    <3>3. QED
      BY <3>2 DEF InHand, DrivePcs, DrainPcs
  <2>5. QED
    BY <2>1, <2>2, <2>3, <2>4
<1>4. QED
  BY <1>1, <1>3 DEF LedgerStep, Ledger!Next, Ledger!Drop, Ledger!vars

LEMMA InitMaps == Init => Ledger!Init
BY OffWorkerFacts DEF Init, Ledger!Init, InHand

LEMMA StepMaps == IInv /\ IInv' /\ [Next]_vars => [Ledger!Next]_Ledger!vars
<1> SUFFICES ASSUME IInv, IInv', [Next]_vars PROVE LedgerStep
  BY DEF LedgerStep
<1>1. ASSUME NEW r \in strays, StrayEnds(r) PROVE LedgerStep
  BY <1>1 DEF StrayEnds, LedgerStep, Ledger!vars, InHand
<1>2. CASE UNCHANGED vars
  BY <1>2 DEF vars, cmVars, LedgerStep, Ledger!vars, InHand
<1>3. QED
  BY <1>1, <1>2, ProducerMaps, WorkerMaps, ProcessMaps DEF Next

\* The engine implements the ledger: whatever the queue, the RTs, the lock, the tasks
\* and the faults do, a chain is created once and only while no other chain of its
\* pipeline waits, and only the one chain in hand changes status.
THEOREM EngineImplementsLedger == Spec => ImplementsLedger
<1>1. QED
  BY InitMaps, StepMaps, EngineInvariant, PTL DEF Spec, ImplementsLedger, Ledger!Spec
-----------------------------------------------------------------------------
(***************************************************************************)
(* The order of a chain's steps, and the attendance to chains that are not *)
(* finished.                                                               *)
(***************************************************************************)

\* The RT was made for the step of the chain.
Named(r, c, s) == r \in RtIds /\ rts[r].chain = c /\ rts[r].step = s
HasOutput(c, s) == \E r \in RtsOf(c) : rts[r].step = s /\ rts[r].state = "done"

\* Where _run_steps has a step in hand; where it has an RT for it.
RtPcs == {"trail", "repop", "begin", "dispatch", "await", "record", "release"}
StepPcs == {"pop", "push"} \cup RtPcs

\* What the trail tells of a step is an RT of that step, also before it is told.
TrailNames == \A c \in Chains : \A s \in Steps :
    stepRt[c][s] # 0 => Named(stepRt[c][s], c, s)
ProducerNames == \A q \in Requests :
    req[q].pc = "trail" => Named(req[q].rt, req[q].chain, req[q].step)

\* The outputs kept are of the steps before the one in hand, never of that one, whose RT
\* may be begun again.
InOrder(w) == wk[w].pc \in StepPcs =>
    /\ wk[w].step \notin wk[w].context /\ 1..(wk[w].step - 1) \subseteq wk[w].context
    /\ \A s \in wk[w].context : HasOutput(wk[w].chain, s)
    /\ wk[w].pc \in RtPcs => Named(wk[w].rt, wk[w].chain, wk[w].step)
    /\ wk[w].pc = "release" => rts[wk[w].rt].state = "done"
Completed(w) == wk[w].pc = "complete" => \A s \in Steps : HasOutput(wk[w].chain, s)

StepInv == TrailNames /\ ProducerNames /\ \A w \in Workers : InOrder(w) /\ Completed(w)

LEMMA InitStepInv == Init => StepInv
BY DEF Init, StepInv, TrailNames, ProducerNames, InOrder, Completed, IdleRequest, OffWorker,
   StepPcs, RtPcs

-----------------------------------------------------------------------------
(* What stays true of the RT records. *)

Kept == \A r \in RtIds : r \in RtIds' /\ rts'[r].chain = rts[r].chain /\ rts'[r].step = rts[r].step

\* Outputs are lost of one step at most.
OutputsKept(s) == \A r \in RtIds : rts[r].state = "done" => rts'[r].state = "done" \/ rts[r].step = s

LEMMA SetRtKept ==
    ASSUME TypeOK, NEW r \in Nat, NEW s \in {"in_flight", "done", "failed"}, SetRt(r, s)
    PROVE  /\ RtIds' = RtIds /\ Kept
           /\ \A i \in RtIds : i # r => rts'[i].state = rts[i].state
           /\ r \in RtIds => rts'[r].state = s
<1>1. rts \in Seq(RtRecord) /\ Len(rts) \in Nat /\ DOMAIN rts = 1..Len(rts)
  BY DEF TypeOK
<1>2. CASE r \notin 1..Len(rts)
  <2>1. rts' = rts
    BY <1>1, <1>2 DEF SetRt
  <2> QED
    BY <1>2, <2>1 DEF Kept, RtIds
<1>3. CASE r \in 1..Len(rts)
  <2> DEFINE rec == [rts[r] EXCEPT !.state = s]
  <2>1. rts[r] \in RtRecord
    BY <1>1, <1>3
  <2>2. rec.chain = rts[r].chain /\ rec.step = rts[r].step /\ rec.state = s
    BY <2>1 DEF RtRecord
  <2>3. rts' = [rts EXCEPT ![r] = rec]
    BY DEF SetRt
  <2> HIDE DEF rec
  <2>4. /\ Len(rts') = Len(rts) /\ rts'[r] = rec
        /\ \A i \in 1..Len(rts) : i # r => rts'[i] = rts[i]
    BY <1>1, <1>3, <2>3
  <2> QED
    BY <1>3, <2>2, <2>4 DEF Kept, RtIds
<1> QED
  BY <1>2, <1>3

LEMMA PushKept ==
    ASSUME TypeOK, NEW c, NEW s, PushRt(c, s)
    PROVE  /\ Kept /\ \A i \in RtIds : rts'[i].state = rts[i].state
           /\ Len(rts) + 1 \in RtIds' /\ Len(rts) + 1 \notin RtIds
           /\ rts'[Len(rts) + 1].chain = c /\ rts'[Len(rts) + 1].step = s
<1> DEFINE rec == [chain |-> c, step |-> s, state |-> "pending"]
           n == Len(rts)
<1>1. rts \in Seq(RtRecord) /\ n \in Nat /\ rts' = Append(rts, rec)
  BY DEF TypeOK, PushRt
<1>2. rec.chain = c /\ rec.step = s
  OBVIOUS
<1> HIDE DEF rec
<1>3. Len(rts') = n + 1 /\ rts'[n + 1] = rec /\ \A i \in 1..n : rts'[i] = rts[i]
  BY <1>1
<1> HIDE DEF n
<1>4. \A i \in 1..n : i \in 1..(n + 1)
  BY <1>1
<1> QED
  BY <1>1, <1>2, <1>3, <1>4 DEF Kept, RtIds, n

LEMMA SameRts == ASSUME UNCHANGED rts PROVE Kept /\ \A i \in RtIds : rts'[i].state = rts[i].state
BY DEF Kept, RtIds

LEMMA OutputKept ==
    ASSUME Kept, NEW c, NEW s, HasOutput(c, s), NEW t, OutputsKept(t), t # s
    PROVE  HasOutput(c, s)'
<1>1. PICK r \in RtIds : rts[r].chain = c /\ rts[r].step = s /\ rts[r].state = "done"
  BY DEF HasOutput, RtsOf
<1>2. r \in RtIds' /\ rts'[r].chain = c /\ rts'[r].step = s /\ rts'[r].state = "done"
  BY <1>1 DEF Kept, OutputsKept
<1> QED
  BY <1>2 DEF HasOutput, RtsOf

-----------------------------------------------------------------------------
(* A step of one worker. *)

LEMMA WorkerStepsInv ==
    ASSUME IInv, StepInv, NEW w \in Workers, wk[w].pc # "off",
           \A v \in Workers : v # w => wk'[v] = wk[v],
           InOrder(w)', Completed(w)', TrailNames', Kept, UNCHANGED req
    PROVE  StepInv'
<1>1. ASSUME NEW v \in Workers, v # w PROVE InOrder(v)' /\ Completed(v)'
  <2>1. wk'[v].pc = "off"
    BY <1>1 DEF IInv, SingleDriver
  <2> QED
    BY <2>1 DEF InOrder, Completed, StepPcs, RtPcs
<1>2. ProducerNames'
  BY DEF StepInv, ProducerNames, Named, Kept
<1> QED
  BY <1>1, <1>2 DEF StepInv

LEMMA TrailKept == ASSUME StepInv, Kept, UNCHANGED stepRt PROVE TrailNames'
BY DEF StepInv, TrailNames, Named, Kept

\* A step that has no step in hand after it.
LEMMA OtherPc ==
    ASSUME NEW w, wk'[w].pc \notin StepPcs \cup {"complete"} PROVE InOrder(w)' /\ Completed(w)'
BY DEF InOrder, Completed

SameStep(w) == /\ wk'[w].chain = wk[w].chain /\ wk'[w].context = wk[w].context
               /\ wk'[w].step = wk[w].step

\* A step on the way of the step in hand.
LEMMA OnStep ==
    ASSUME TypeOK, NEW w \in Workers, InOrder(w), wk[w].pc \in StepPcs, SameStep(w),
           wk'[w].pc \in StepPcs, Kept, OutputsKept(wk[w].step),
           wk'[w].pc \in RtPcs => Named(wk[w].rt, wk[w].chain, wk[w].step)',
           wk'[w].pc = "release" => rts'[wk'[w].rt].state = "done"
    PROVE  InOrder(w)' /\ Completed(w)'
<1>1. PICK c, context, step : c = wk[w].chain /\ context = wk[w].context /\ step = wk[w].step
  OBVIOUS
<1>2. /\ step \notin context /\ 1..(step - 1) \subseteq context
      /\ \A s \in context : HasOutput(c, s)
  BY <1>1 DEF InOrder
<1>3. \A s \in context : HasOutput(c, s)'
  BY <1>1, <1>2, OutputKept
<1>4. wk'[w].chain = c /\ wk'[w].context = context /\ wk'[w].step = step
  BY <1>1 DEF SameStep
<1>5. wk'[w].pc # "complete"
  BY DEF StepPcs, RtPcs
<1> QED
  BY <1>2, <1>3, <1>4, <1>5 DEF InOrder, Completed

\* The fields a step writes.
LEMMA GotoFields ==
    ASSUME TypeOK, NEW w \in Workers, NEW pc, Goto(w, pc)
    PROVE  /\ wk'[w].pc = pc /\ SameStep(w) /\ wk'[w].rt = wk[w].rt
           /\ \A v \in Workers : v # w => wk'[v] = wk[v]
BY DEF TypeOK, WorkerRecord, Goto, SameStep

LEMMA TakeFields ==
    ASSUME TypeOK, NEW w \in Workers, NEW pc, NEW r, wk' = [wk EXCEPT ![w].pc = pc, ![w].rt = r]
    PROVE  /\ wk'[w].pc = pc /\ SameStep(w) /\ wk'[w].rt = r
           /\ \A v \in Workers : v # w => wk'[v] = wk[v]
BY DEF TypeOK, WorkerRecord, SameStep

\* _run_steps goes to the first step that has no output.
LEMMA AdvanceInOrder ==
    ASSUME TypeOK, NEW w \in Workers, NEW context \in SUBSET Steps, Advance(w, context),
           \A s \in context : HasOutput(wk[w].chain, s), UNCHANGED rts
    PROVE  /\ InOrder(w)' /\ Completed(w)'
           /\ \A v \in Workers : v # w => wk'[v] = wk[v]
<1>1. PICK c : c = wk[w].chain
  OBVIOUS
<1>2. \A s \in context : HasOutput(c, s)'
  BY <1>1 DEF HasOutput, RtsOf, RtIds
<1>3. CASE Steps \subseteq context
           /\ wk' = [wk EXCEPT ![w] = [@ EXCEPT !.context = context, !.pc = "complete"]]
  <2>1. wk'[w].pc = "complete" /\ wk'[w].chain = c /\ \A v \in Workers : v # w => wk'[v] = wk[v]
    BY <1>1, <1>3 DEF TypeOK, WorkerRecord
  <2> QED
    BY <1>2, <1>3, <2>1 DEF InOrder, Completed, StepPcs, RtPcs
<1>4. ASSUME NEW s \in Steps \ context, \A t \in Steps \ context : s <= t,
             wk' = [wk EXCEPT ![w] = [@ EXCEPT !.context = context, !.pc = "pop", !.step = s]]
      PROVE  InOrder(w)' /\ Completed(w)' /\ \A v \in Workers : v # w => wk'[v] = wk[v]
  <2>1. /\ wk'[w].pc = "pop" /\ wk'[w].chain = c /\ wk'[w].context = context /\ wk'[w].step = s
        /\ \A v \in Workers : v # w => wk'[v] = wk[v]
    BY <1>1, <1>4 DEF TypeOK, WorkerRecord
  <2>2. 1..(s - 1) \subseteq context
    BY <1>4, EngineAssumption DEF Steps
  <2> QED
    BY <1>2, <2>1, <2>2 DEF InOrder, Completed, StepPcs, RtPcs
<1> QED
  BY <1>3, <1>4 DEF Advance

-----------------------------------------------------------------------------
(* The actions of a worker. *)

LEMMA LoopSteps ==
    ASSUME IInv, IInv', StepInv, NEW w \in Workers, WorkerLoop(w) \/ IdleTimeout(w)
    PROVE  StepInv'
<1>1. wk[w].pc # "off" /\ \A v \in Workers : v # w => wk'[v] = wk[v]
  BY WorkerKeeps DEF IInv
<1>2. UNCHANGED <<rts, stepRt, req>>
  BY DEF WorkerLoop, IdleTimeout, TakeResumed, PollQueue, ClearAndDrive, ClearAndRecheck,
     Recheck, WakeUp, Teardown, cmVars, nonWorkerVars, producerVars
<1>3. wk \in [Workers -> WorkerRecord]
  BY DEF IInv, TypeOK
<1>4. ASSUME NEW c, NEW b, wk' = [wk EXCEPT ![w] = Driving(w, c, b)]
      PROVE  wk'[w].pc = "activate"
  <2>1. Driving(w, c, b).pc = "activate"
    BY DEF Driving, OffWorker
  <2> QED
    BY <1>3, <1>4, <2>1
<1>5. wk'[w].pc \in {"activate", "clear", "recheck", "poll", "wait", "teardown", "off"}
  <2>1. CASE TakeResumed(w) \/ ClearAndDrive(w)
    BY <1>4, <2>1 DEF TakeResumed, ClearAndDrive
  <2>2. CASE PollQueue(w) \/ ClearAndRecheck(w) \/ Recheck(w) \/ WakeUp(w) \/ IdleTimeout(w)
    BY <1>3, <2>2 DEF PollQueue, ClearAndRecheck, Recheck, WakeUp, IdleTimeout, Goto, WorkerRecord
  <2>3. CASE Teardown(w)
    BY <1>3, <2>3, OffWorkerFacts DEF Teardown, Goto, WorkerRecord
  <2> QED
    BY <2>1, <2>2, <2>3 DEF WorkerLoop
<1>6. InOrder(w)' /\ Completed(w)'
  BY <1>5, OtherPc DEF StepPcs, RtPcs
<1> QED
  BY <1>1, <1>2, <1>6, SameRts, TrailKept, WorkerStepsInv

LEMMA AdvanceSteps ==
    ASSUME IInv, IInv', StepInv, NEW w \in Workers, Activate(w) \/ Rehydrate(w) \/ ReleaseRt(w)
    PROVE  StepInv'
<1>1. wk[w].pc # "off" /\ UNCHANGED <<rts, stepRt, req>>
  BY DEF Activate, Rehydrate, ReleaseRt, cmVars, nonWorkerVars, producerVars
<1>2. TypeOK /\ InOrder(w)
  BY DEF IInv, StepInv
<1>3. ASSUME NEW pc \in {"rehydrate", "abort"}, Goto(w, pc)
      PROVE  InOrder(w)' /\ Completed(w)' /\ \A v \in Workers : v # w => wk'[v] = wk[v]
  <2>1. wk'[w].pc = pc /\ \A v \in Workers : v # w => wk'[v] = wk[v]
    BY <1>2, <1>3, GotoFields
  <2> QED
    BY <2>1, OtherPc DEF StepPcs, RtPcs
<1>4. ASSUME NEW context \in SUBSET Steps, Advance(w, context),
             \A s \in context : HasOutput(wk[w].chain, s)
      PROVE  InOrder(w)' /\ Completed(w)' /\ \A v \in Workers : v # w => wk'[v] = wk[v]
  BY <1>1, <1>2, <1>4, AdvanceInOrder
<1>5. InOrder(w)' /\ Completed(w)' /\ \A v \in Workers : v # w => wk'[v] = wk[v]
  <2>1. CASE Activate(w)
    <3>1. {} \in SUBSET Steps /\ \A s \in {} : HasOutput(wk[w].chain, s)
      OBVIOUS
    <3> QED
      BY <1>3, <1>4, <2>1, <3>1 DEF Activate
  <2>2. CASE Rehydrate(w)
    <3>1. PICK c : c = wk[w].chain
      OBVIOUS
    <3>2. c \in Chains
      BY <2>2, <3>1, InHandFacts DEF Rehydrate, DrivePcs
    <3>3. Restored(c) \in SUBSET Steps
      BY DEF Restored
    <3>4. ASSUME NEW s \in Restored(c) PROVE HasOutput(c, s)
      <4>1. s \in Steps /\ stepRt[c][s] \in RtIds /\ rts[stepRt[c][s]].state = "done"
        BY DEF Restored
      <4>2. stepRt[c][s] # 0
        BY <4>1 DEF RtIds
      <4>3. Named(stepRt[c][s], c, s)
        BY <3>2, <4>1, <4>2 DEF StepInv, TrailNames
      <4> QED
        BY <4>1, <4>3 DEF Named, HasOutput, RtsOf
    <3>5. Advance(w, Restored(c))
      BY <2>2, <3>1 DEF Rehydrate
    <3> QED
      BY <1>4, <3>1, <3>3, <3>4, <3>5
  <2>3. CASE ReleaseRt(w) /\ wk[w].pc = "release"
    <3>1. PICK c, r, s : c = wk[w].chain /\ r = wk[w].rt /\ s = wk[w].step
      OBVIOUS
    <3>2. /\ \A t \in wk[w].context : HasOutput(c, t)
          /\ Named(r, c, s) /\ rts[r].state = "done"
      BY <1>2, <2>3, <3>1 DEF InOrder, StepPcs, RtPcs
    <3>3. HasOutput(c, s)
      BY <3>2 DEF Named, HasOutput, RtsOf
    <3>4. wk[w].context \cup {s} \in SUBSET Steps
      BY <1>2, <3>1 DEF TypeOK, WorkerRecord
    <3>5. \A t \in wk[w].context \cup {s} : HasOutput(c, t)
      BY <3>2, <3>3
    <3>6. Advance(w, wk[w].context \cup {s})
      BY <2>3, <3>1 DEF ReleaseRt
    <3> QED
      BY <1>4, <3>1, <3>4, <3>5, <3>6
  <2>4. CASE ReleaseRt(w) /\ wk[w].pc # "release"
    BY <1>3, <2>4 DEF ReleaseRt
  <2> QED
    BY <2>1, <2>2, <2>3, <2>4
<1> QED
  BY <1>1, <1>5, SameRts, TrailKept, WorkerStepsInv

\* The pops and the push of _pop_or_create_step_rt.
LEMMA TakeSteps ==
    ASSUME IInv, IInv', StepInv, NEW w \in Workers,
           PopStepRt(w) \/ StepPush(w) \/ StepTrail(w) \/ RepopStepRt(w)
    PROVE  StepInv'
<1>1. TypeOK /\ InOrder(w) /\ wk[w].pc \in StepPcs /\ wk[w].pc # "off" /\ UNCHANGED req
  BY DEF IInv, StepInv, StepPcs, RtPcs, PopStepRt, StepPush, StepTrail, RepopStepRt, nonWorkerVars,
     producerVars
<1>2. CASE PopStepRt(w) /\ Goto(w, "push")
  <2>1. UNCHANGED <<rts, stepRt>>
    BY <1>2 DEF PopStepRt
  <2>2. wk'[w].pc = "push" /\ SameStep(w) /\ \A v \in Workers : v # w => wk'[v] = wk[v]
    BY <1>1, <1>2, GotoFields
  <2>3. InOrder(w)' /\ Completed(w)'
    BY <1>1, <2>1, <2>2, SameRts, OnStep DEF StepPcs, RtPcs, OutputsKept
  <2> QED
    BY <1>1, <2>1, <2>2, <2>3, SameRts, TrailKept, WorkerStepsInv
<1>3. CASE PopStepRt(w) /\ ~Goto(w, "push")
  <2>0. PICK i \in 1..Len(pending) :
           \E r : /\ r = pending[i] /\ PopAt(wk[w].chain, i)
                  /\ wk' = [wk EXCEPT ![w].pc = IF Serves(w, r) THEN "begin" ELSE "push", ![w].rt = r]
    BY <1>3 DEF PopStepRt
  <2>1. PICK r :
           /\ r = pending[i] /\ PopAt(wk[w].chain, i)
           /\ wk' = [wk EXCEPT ![w].pc = IF Serves(w, r) THEN "begin" ELSE "push", ![w].rt = r]
    BY <2>0
  <2>2. PICK pc : pc = IF Serves(w, r) THEN "begin" ELSE "push"
    OBVIOUS
  <2>3. /\ wk'[w].pc = pc /\ SameStep(w) /\ wk'[w].rt = r
        /\ \A v \in Workers : v # w => wk'[v] = wk[v]
    <3>1. wk' = [wk EXCEPT ![w].pc = pc, ![w].rt = r]
      BY <2>1, <2>2
    <3> QED
      BY <1>1, <3>1, TakeFields
  <2>4. r \in RtIds /\ rts[r].chain = wk[w].chain
    BY <2>1 DEF PopAt, IsFirst, RtsOf
  <2>5. UNCHANGED <<rts, stepRt>>
    BY <1>3 DEF PopStepRt
  <2>6. wk'[w].pc \in RtPcs => Named(wk[w].rt, wk[w].chain, wk[w].step)'
    BY <2>2, <2>3, <2>4, <2>5 DEF SameStep, Serves, RtPcs, Named, RtIds
  <2>7. InOrder(w)' /\ Completed(w)'
    BY <1>1, <2>2, <2>3, <2>5, <2>6, SameRts, OnStep DEF StepPcs, RtPcs, OutputsKept
  <2> QED
    BY <1>1, <2>3, <2>5, <2>7, SameRts, TrailKept, WorkerStepsInv
<1>4. CASE StepPush(w)
  <2>1. /\ PushRt(wk[w].chain, wk[w].step) /\ UNCHANGED stepRt
        /\ wk' = [wk EXCEPT ![w].pc = "trail", ![w].rt = Len(rts) + 1]
    BY <1>4 DEF StepPush
  <2>2. /\ Kept /\ \A i \in RtIds : rts'[i].state = rts[i].state
        /\ Len(rts) + 1 \in RtIds'
        /\ rts'[Len(rts) + 1].chain = wk[w].chain /\ rts'[Len(rts) + 1].step = wk[w].step
    BY <1>1, <2>1, PushKept
  <2>3. /\ wk'[w].pc = "trail" /\ SameStep(w) /\ wk'[w].rt = Len(rts) + 1
        /\ \A v \in Workers : v # w => wk'[v] = wk[v]
    BY <1>1, <2>1, TakeFields
  <2>4. Named(wk[w].rt, wk[w].chain, wk[w].step)'
    BY <2>2, <2>3 DEF Named, SameStep
  <2>5. InOrder(w)' /\ Completed(w)'
    BY <1>1, <2>2, <2>3, <2>4, OnStep DEF StepPcs, RtPcs, OutputsKept
  <2> QED
    BY <1>1, <2>1, <2>2, <2>3, <2>5, TrailKept, WorkerStepsInv
<1>5. CASE StepTrail(w) \/ RepopStepRt(w)
  <2>1. PICK pc \in {"repop", "begin"} : Goto(w, pc)
    BY <1>5 DEF StepTrail, RepopStepRt
  <2>2. UNCHANGED rts /\ wk[w].pc \in {"trail", "repop"}
    BY <1>5 DEF StepTrail, RepopStepRt
  <2>3. /\ wk'[w].pc = pc /\ SameStep(w) /\ wk'[w].rt = wk[w].rt
        /\ \A v \in Workers : v # w => wk'[v] = wk[v]
    BY <1>1, <2>1, GotoFields
  <2>4. Named(wk[w].rt, wk[w].chain, wk[w].step)
    BY <1>1, <2>2 DEF InOrder, RtPcs
  <2>5. Named(wk[w].rt, wk[w].chain, wk[w].step)'
    BY <2>2, <2>3, <2>4 DEF Named, SameStep, RtIds
  <2>6. InOrder(w)' /\ Completed(w)'
    BY <1>1, <2>2, <2>3, <2>5, SameRts, OnStep DEF StepPcs, RtPcs, OutputsKept
  <2>7. TrailNames'
    <3>1. CASE RepopStepRt(w)
      BY <2>2, <3>1, SameRts, TrailKept DEF RepopStepRt
    <3>2. CASE StepTrail(w)
      <4>1. PICK c, s, r : c = wk[w].chain /\ s = wk[w].step /\ r = wk[w].rt
        OBVIOUS
      <4>2. stepRt' = [stepRt EXCEPT ![c][s] = r] /\ Named(r, c, s)
        BY <2>4, <3>2, <4>1 DEF StepTrail
      <4>3. stepRt \in [Chains -> [Steps -> Nat]]
        BY <1>1 DEF TypeOK
      <4>4. ASSUME NEW d \in Chains, NEW t \in Steps, stepRt'[d][t] # 0
            PROVE  Named(stepRt'[d][t], d, t)
        <5>1. CASE d = c /\ t = s
          <6>1. stepRt'[d][t] = r
            BY <4>2, <4>3, <5>1
          <6> QED
            BY <4>2, <5>1, <6>1
        <5>2. CASE ~(d = c /\ t = s)
          <6>1. stepRt'[d][t] = stepRt[d][t]
            BY <4>2, <4>3, <5>2
          <6> QED
            BY <4>4, <6>1 DEF StepInv, TrailNames
        <5> QED
          BY <5>1, <5>2
      <4> QED
        BY <2>2, <4>4 DEF TrailNames, Named, RtIds
    <3> QED
      BY <1>5, <3>1, <3>2
  <2> QED
    BY <1>1, <2>2, <2>3, <2>6, <2>7, SameRts, WorkerStepsInv
<1> QED
  BY <1>2, <1>3, <1>4, <1>5

\* The RT in hand is begun, dispatched, executed and recorded.
LEMMA ExecuteSteps ==
    ASSUME IInv, IInv', StepInv, NEW w \in Workers,
           BeginRt(w) \/ Dispatch(w) \/ Execution(w) \/ RecordRt(w)
    PROVE  StepInv'
<1>1. /\ TypeOK /\ InOrder(w) /\ wk[w].pc # "off" /\ UNCHANGED <<req, stepRt>>
      /\ wk[w].rt \in Nat
  BY DEF IInv, StepInv, TypeOK, WorkerRecord, BeginRt, Dispatch, Execution, ActorRecords,
     ActorAnswers, DispatchFails, RecordRt, nonWorkerVars, producerVars, cmVars
<1>2. CASE DispatchFails(w) \/ (RecordRt(w) /\ wk[w].pc = "recordFailed")
  <2>1. PICK pc \in {"recordFailed", "releaseFailed"} : Goto(w, pc)
    BY <1>2 DEF DispatchFails, RecordRt
  <2>2. wk'[w].pc = pc /\ \A v \in Workers : v # w => wk'[v] = wk[v]
    BY <1>1, <2>1, GotoFields
  <2>3. InOrder(w)' /\ Completed(w)'
    BY <2>2, OtherPc DEF StepPcs, RtPcs
  <2>4. Kept
    <3>1. CASE DispatchFails(w)
      BY <3>1, SameRts DEF DispatchFails, cmVars
    <3>2. CASE RecordRt(w) /\ wk[w].pc = "recordFailed"
      <4>1. SetRt(wk[w].rt, "failed")
        BY <3>2 DEF RecordRt
      <4> QED
        BY <1>1, <4>1, SetRtKept
    <3> QED
      BY <1>2, <3>1, <3>2
  <2> QED
    BY <1>1, <2>2, <2>3, <2>4, TrailKept, WorkerStepsInv
<1>3. CASE \/ BeginRt(w) \/ Dispatch(w) \/ ActorRecords(w) \/ ActorAnswers(w)
           \/ (RecordRt(w) /\ wk[w].pc = "record")
  <2> DEFINE r == wk[w].rt
  <2>1. wk[w].pc \in RtPcs /\ wk[w].pc \in StepPcs
    BY <1>3 DEF RtPcs, StepPcs, BeginRt, Dispatch, ActorRecords, ActorAnswers
  <2>2. Named(r, wk[w].chain, wk[w].step)
    BY <1>1, <2>1 DEF InOrder
  <2>3. UNCHANGED rts \/ SetRt(r, "in_flight") \/ SetRt(r, "done")
    BY <1>3 DEF BeginRt, Dispatch, ActorRecords, ActorAnswers, RecordRt, cmVars
  <2>4. Kept /\ OutputsKept(wk[w].step)
    <3>1. CASE UNCHANGED rts
      BY <3>1, SameRts DEF OutputsKept
    <3>2. ASSUME NEW s \in {"in_flight", "done"}, SetRt(r, s)
          PROVE  Kept /\ OutputsKept(wk[w].step)
      <4>1. Kept /\ \A i \in RtIds : i # r => rts'[i].state = rts[i].state
        BY <1>1, <3>2, SetRtKept
      <4> QED
        BY <2>2, <4>1 DEF OutputsKept, Named
    <3> QED
      BY <2>3, <3>1, <3>2
  <2>5. /\ SameStep(w) /\ wk'[w].rt = wk[w].rt
        /\ \A v \in Workers : v # w => wk'[v] = wk[v]
        /\ wk'[w].pc \in RtPcs
        /\ wk'[w].pc = "release" => RecordRt(w) /\ wk[w].pc = "record"
    <3>1. CASE ActorRecords(w)
      BY <3>1 DEF ActorRecords, SameStep, RtPcs
    <3>2. ASSUME NEW pc \in {"dispatch", "await", "record", "release"}, Goto(w, pc),
                 pc = "release" => RecordRt(w) /\ wk[w].pc = "record"
          PROVE  /\ SameStep(w) /\ wk'[w].rt = wk[w].rt
                 /\ \A v \in Workers : v # w => wk'[v] = wk[v]
                 /\ wk'[w].pc \in RtPcs
                 /\ wk'[w].pc = "release" => RecordRt(w) /\ wk[w].pc = "record"
      BY <1>1, <3>2, GotoFields DEF RtPcs
    <3>3. CASE BeginRt(w)
      BY <3>2, <3>3 DEF BeginRt
    <3>4. CASE Dispatch(w)
      BY <3>2, <3>4 DEF Dispatch
    <3>5. CASE ActorAnswers(w)
      BY <3>2, <3>5 DEF ActorAnswers
    <3>6. CASE RecordRt(w) /\ wk[w].pc = "record"
      BY <3>2, <3>6 DEF RecordRt
    <3> QED
      BY <1>3, <3>1, <3>3, <3>4, <3>5, <3>6
  <2>6. Named(wk[w].rt, wk[w].chain, wk[w].step)'
    BY <2>2, <2>4, <2>5 DEF Named, Kept, SameStep
  <2>7. wk'[w].pc = "release" => rts'[wk'[w].rt].state = "done"
    <3>1. SUFFICES ASSUME RecordRt(w), wk[w].pc = "record" PROVE rts'[r].state = "done"
      BY <2>5
    <3>2. SetRt(r, "done") /\ r \in RtIds
      BY <2>2, <3>1 DEF RecordRt, Named
    <3> QED
      BY <1>1, <3>2, SetRtKept
  <2>8. wk'[w].pc \in StepPcs
    BY <2>5 DEF StepPcs
  <2>9. InOrder(w)' /\ Completed(w)'
    BY <1>1, <2>1, <2>4, <2>5, <2>6, <2>7, <2>8, OnStep
  <2> QED
    BY <1>1, <2>4, <2>5, <2>9, TrailKept, WorkerStepsInv
<1> QED
  BY <1>2, <1>3 DEF Execution, RecordRt

\* The chain ends: no step is in hand.
LEMMA EndSteps ==
    ASSUME IInv, IInv', StepInv, NEW w \in Workers,
           \/ FinishChain(w) \/ DrainPop(w) \/ DrainMark(w) \/ DrainRelease(w) \/ WorkerFault(w)
    PROVE  StepInv'
<1>1. wk[w].pc # "off" /\ \A v \in Workers : v # w => wk'[v] = wk[v]
  BY WorkerKeeps DEF IInv, Drive
<1>2. TypeOK /\ wk[w].rt \in Nat /\ wk \in [Workers -> WorkerRecord] /\ UNCHANGED <<req, stepRt>>
  BY DEF IInv, TypeOK, WorkerRecord, FinishChain, DrainPop, DrainMark, DrainRelease, WorkerFault,
     nonWorkerVars, producerVars, cmVars
<1>3. wk'[w].pc \notin StepPcs \cup {"complete"}
  <2>1. ASSUME NEW pc, Goto(w, pc) PROVE wk'[w].pc = pc
    BY <1>2, <2>1, GotoFields
  <2>2. CASE FinishChain(w) \/ DrainMark(w) \/ DrainRelease(w)
    BY <2>1, <2>2 DEF FinishChain, DrainMark, DrainRelease, StepPcs, RtPcs
  <2>3. CASE DrainPop(w)
    <3>1. wk'[w].pc \in {"off", "poll", "drainMark"}
      BY <1>2, <2>3, OffWorkerFacts DEF DrainPop, WorkerRecord
    <3> QED
      BY <3>1 DEF StepPcs, RtPcs
  <2>4. CASE WorkerFault(w)
    <3>1. \/ wk' = [wk EXCEPT ![w] = OffWorker]
          \/ Goto(w, AfterFault[wk[w].pc])
      BY <2>4 DEF WorkerFault
    <3>2. AfterFault[wk[w].pc] \in {"recordFailed", "releaseFailed", "drain", "drainRelease", "off",
                                    "abort"}
      BY <2>4 DEF WorkerFault, AfterFault
    <3>3. CASE wk' = [wk EXCEPT ![w] = OffWorker]
      BY <1>2, <3>3, OffWorkerFacts DEF StepPcs, RtPcs
    <3>4. CASE Goto(w, AfterFault[wk[w].pc])
      <4>1. PICK pc : pc = AfterFault[wk[w].pc]
        OBVIOUS
      <4>2. wk'[w].pc = pc
        BY <2>1, <3>4, <4>1
      <4> QED
        BY <3>2, <4>1, <4>2 DEF StepPcs, RtPcs
    <3> QED
      BY <3>1, <3>3, <3>4
  <2> QED
    BY <2>2, <2>3, <2>4
<1>4. Kept
  <2>1. CASE DrainMark(w)
    BY <1>2, <2>1, SetRtKept DEF DrainMark
  <2>2. CASE FinishChain(w) \/ DrainPop(w) \/ DrainRelease(w) \/ WorkerFault(w)
    BY <2>2, SameRts DEF FinishChain, DrainPop, DrainRelease, WorkerFault, cmVars
  <2> QED
    BY <2>1, <2>2
<1>5. InOrder(w)' /\ Completed(w)'
  BY <1>3, OtherPc
<1> QED
  BY <1>1, <1>2, <1>4, <1>5, TrailKept, WorkerStepsInv

-----------------------------------------------------------------------------
(* The other actions. *)

\* What changes no worker that has a step in hand, and no RT but a stray that is done.
LEMMA OthersStepsInv ==
    ASSUME StepInv, TrailNames', ProducerNames', Kept,
           \A r \in RtIds : rts[r].state = "done" => rts'[r].state = "done",
           \A w \in Workers : \/ wk'[w].pc \notin StepPcs \cup {"complete"}
                              \/ wk'[w].pc = wk[w].pc /\ SameStep(w) /\ wk'[w].rt = wk[w].rt
    PROVE  StepInv'
<1> SUFFICES ASSUME NEW w \in Workers PROVE InOrder(w)' /\ Completed(w)'
  BY DEF StepInv
<1>1. CASE wk'[w].pc \notin StepPcs \cup {"complete"}
  BY <1>1, OtherPc
<1>2. CASE wk'[w].pc = wk[w].pc /\ SameStep(w) /\ wk'[w].rt = wk[w].rt
  <2>1. PICK c, r, s : c = wk[w].chain /\ r = wk[w].rt /\ s = wk[w].step
    OBVIOUS
  <2>2. ASSUME NEW t, HasOutput(c, t) PROVE HasOutput(c, t)'
    BY <2>2 DEF HasOutput, RtsOf, Kept
  <2>3. Named(r, c, s) => Named(r, c, s)' /\ (rts[r].state = "done" => rts'[r].state = "done")
    BY DEF Named, Kept
  <2>4. InOrder(w) /\ Completed(w)
    BY DEF StepInv
  <2>5. InOrder(w)'
    BY <1>2, <2>1, <2>2, <2>3, <2>4 DEF InOrder, SameStep, StepPcs, RtPcs
  <2>6. Completed(w)'
    BY <1>2, <2>1, <2>2, <2>4 DEF Completed, SameStep
  <2> QED
    BY <2>5, <2>6
<1> QED
  BY <1>1, <1>2

LEMMA ProducerSteps ==
    ASSUME IInv, IInv', StepInv, NEW q \in Requests, RunChain(q) \/ ProducerFault(q)
    PROVE  StepInv'
<1>1. TypeOK /\ req \in [Requests -> RequestRecord] /\ wk \in [Workers -> WorkerRecord]
  BY DEF IInv, TypeOK
<1>2. CASE ProducerPush(q)
  <2>1. /\ PushRt(req[q].chain, req[q].step) /\ UNCHANGED <<stepRt, wk>>
        /\ req' = [req EXCEPT ![q].pc = "trail", ![q].rt = Len(rts) + 1]
    BY <1>2 DEF ProducerPush, restVars
  <2>2. /\ Kept /\ \A i \in RtIds : rts'[i].state = rts[i].state
        /\ Len(rts) + 1 \in RtIds'
        /\ rts'[Len(rts) + 1].chain = req[q].chain /\ rts'[Len(rts) + 1].step = req[q].step
    BY <1>1, <2>1, PushKept
  <2>3. /\ req'[q].chain = req[q].chain /\ req'[q].step = req[q].step /\ req'[q].rt = Len(rts) + 1
        /\ \A p \in Requests : p # q => req'[p] = req[p]
    BY <1>1, <2>1 DEF RequestRecord
  <2>4. ProducerNames'
    BY <2>2, <2>3 DEF StepInv, ProducerNames, Named, Kept
  <2> QED
    BY <2>1, <2>2, <2>4, TrailKept, OthersStepsInv DEF SameStep
<1>3. CASE RtEnqueued(q)
  <2>1. UNCHANGED rts /\ Busy(q) /\ req[q].pc = "trail"
    BY <1>3 DEF RtEnqueued, Busy
  <2>2. PICK c, s, r : c = req[q].chain /\ s = req[q].step /\ r = req[q].rt
    OBVIOUS
  <2>3. stepRt' = [stepRt EXCEPT ![c][s] = r] /\ Named(r, c, s)
    BY <1>3, <2>1, <2>2 DEF RtEnqueued, StepInv, ProducerNames
  <2>4. TrailNames'
    <3>1. ASSUME NEW d \in Chains, NEW t \in Steps, stepRt'[d][t] # 0
          PROVE  Named(stepRt'[d][t], d, t)
      <4>1. stepRt \in [Chains -> [Steps -> Nat]]
        BY <1>1 DEF TypeOK
      <4>2. CASE d = c /\ t = s
        <5>1. stepRt'[d][t] = r
          BY <2>3, <4>1, <4>2
        <5> QED
          BY <2>3, <4>2, <5>1
      <4>3. CASE ~(d = c /\ t = s)
        <5>1. stepRt'[d][t] = stepRt[d][t]
          BY <2>3, <4>1, <4>3
        <5> QED
          BY <3>1, <5>1 DEF StepInv, TrailNames
      <4> QED
        BY <4>2, <4>3
    <3> QED
      BY <2>1, <3>1 DEF TrailNames, Named, RtIds
  <2>5. ProducerNames'
    <3>1. req'[q].pc # "trail" /\ \A p \in Requests : p # q => req'[p] = req[p]
      BY <1>1, <1>3 DEF RtEnqueued, Reply, IdleRequest, RequestRecord
    <3> QED
      BY <2>1, <3>1 DEF StepInv, ProducerNames, Named, RtIds
  <2>6. \A w \in Workers : \/ wk'[w].pc \notin StepPcs \cup {"complete"}
                           \/ wk'[w].pc = wk[w].pc /\ SameStep(w) /\ wk'[w].rt = wk[w].rt
    <3>1. CASE UNCHANGED wk
      BY <3>1 DEF SameStep
    <3>2. CASE LiveWorker # {} /\ EnsureWorkerAndWake
      <4>1. ASSUME NEW w \in Workers
            PROVE  wk'[w].pc = wk[w].pc /\ SameStep(w) /\ wk'[w].rt = wk[w].rt
        <5>1. wk[w] \in WorkerRecord /\ (wk'[w] = wk[w] \/ wk'[w] = Woken(w))
          BY <1>1, <3>2 DEF EnsureWorkerAndWake
        <5>2. /\ Woken(w).pc = wk[w].pc /\ Woken(w).rt = wk[w].rt /\ Woken(w).chain = wk[w].chain
              /\ Woken(w).context = wk[w].context /\ Woken(w).step = wk[w].step
          BY <5>1 DEF Woken, WorkerRecord
        <5> QED
          BY <5>1, <5>2 DEF SameStep
      <4> QED
        BY <4>1
    <3>3. CASE LiveWorker = {} /\ EnsureWorkerAndWake
      <4>1. PICK w \in Workers : wk' = [wk EXCEPT ![w] = [OffWorker EXCEPT !.pc = "poll", !.wake = TRUE]]
        BY <3>3 DEF EnsureWorkerAndWake
      <4> DEFINE new == [OffWorker EXCEPT !.pc = "poll", !.wake = TRUE]
      <4>2. new.pc = "poll"
        BY DEF OffWorker
      <4> HIDE DEF new
      <4>3. wk'[w].pc = "poll" /\ \A v \in Workers : v # w => wk'[v] = wk[v]
        BY <1>1, <4>1, <4>2 DEF new
      <4> QED
        BY <4>3 DEF StepPcs, RtPcs, SameStep
    <3> QED
      BY <1>3, <3>1, <3>2, <3>3 DEF RtEnqueued
  <2> QED
    BY <2>1, <2>4, <2>5, <2>6, SameRts, OthersStepsInv
<1>4. CASE Admit(q) \/ ChainIdExists(q) \/ FindPendingDuplicate(q) \/ CreateChain(q) \/ ProducerFault(q)
  <2>1. UNCHANGED <<rts, stepRt, wk>>
    BY <1>4 DEF Admit, ChainIdExists, FindPendingDuplicate, CreateChain, ProducerFault, cmVars, restVars
  <2>2. req'[q].pc # "trail" /\ \A p \in Requests : p # q => req'[p] = req[p]
    BY <1>1, <1>4 DEF Admit, ChainIdExists, FindPendingDuplicate, CreateChain, ProducerFault, Reply,
       IdleRequest, RequestRecord
  <2>3. ProducerNames'
    BY <2>1, <2>2 DEF StepInv, ProducerNames, Named, RtIds
  <2> QED
    BY <2>1, <2>3, SameRts, TrailKept, OthersStepsInv DEF SameStep
<1> QED
  BY <1>2, <1>3, <1>4 DEF RunChain

LEMMA ProcessSteps ==
    ASSUME IInv, IInv', StepInv, Crash \/ Shutdown \/ Stop \/ Restart \/ RestartBlind
    PROVE  StepInv'
<1>1. wk \in [Workers -> WorkerRecord] /\ req \in [Requests -> RequestRecord]
  BY DEF IInv, TypeOK
<1>2. UNCHANGED <<rts, stepRt>>
  BY DEF Crash, Shutdown, Stop, Restart, RestartBlind, cmVars
<1>3. ProducerNames'
  <2>1. \A q \in Requests : req'[q] = req[q] \/ req'[q].pc # "trail"
    BY <1>1 DEF Crash, Shutdown, Stop, Restart, RestartBlind, producerVars, IdleRequest
  <2> QED
    BY <1>2, <2>1 DEF StepInv, ProducerNames, Named, RtIds
<1>4. ASSUME NEW w \in Workers PROVE wk'[w].pc \notin StepPcs \cup {"complete"} \/ wk'[w] = wk[w]
  <2>1. CASE Crash
    BY <2>1, OffWorkerFacts DEF Crash, StepPcs, RtPcs
  <2>2. CASE Shutdown
    <3>1. wk[w] \in WorkerRecord /\ (wk'[w] = OffWorker \/ wk'[w] = [wk[w] EXCEPT !.pc = "drain"])
      BY <1>1, <2>2 DEF Shutdown
    <3> QED
      BY <3>1, OffWorkerFacts DEF WorkerRecord, StepPcs, RtPcs
  <2>3. CASE Stop \/ RestartBlind
    BY <2>3 DEF Stop, RestartBlind
  <2>4. CASE Restart
    <3> DEFINE new == [OffWorker EXCEPT !.pc = "poll", !.wake = TRUE, !.resume = Unfinished]
    <3>1. new.pc = "poll"
      BY DEF OffWorker
    <3>2. UNCHANGED wk \/ \E v \in Workers : wk' = [wk EXCEPT ![v] = new]
      BY <2>4 DEF Restart
    <3> HIDE DEF new
    <3> QED
      BY <1>1, <3>1, <3>2 DEF StepPcs, RtPcs
  <2> QED
    BY <2>1, <2>2, <2>3, <2>4
<1> QED
  BY <1>2, <1>3, <1>4, SameRts, TrailKept, OthersStepsInv DEF SameStep

LEMMA StrayEndsSteps ==
    ASSUME IInv, StepInv, NEW r \in strays, StrayEnds(r)
    PROVE  StepInv'
<1>1. TypeOK /\ r \in Nat /\ UNCHANGED <<stepRt, req, wk>>
  BY DEF IInv, TypeOK, StrayEnds, producerVars
<1>2. Kept /\ \A i \in RtIds : rts[i].state = "done" => rts'[i].state = "done"
  <2>1. CASE UNCHANGED rts
    BY <2>1, SameRts
  <2>2. CASE SetRt(r, "done")
    BY <1>1, <2>2, SetRtKept
  <2> QED
    BY <2>1, <2>2 DEF StrayEnds
<1>3. ProducerNames'
  BY <1>1, <1>2 DEF StepInv, ProducerNames, Named, Kept
<1> QED
  BY <1>1, <1>2, <1>3, TrailKept, OthersStepsInv DEF SameStep

LEMMA NextStepInv == IInv /\ IInv' /\ StepInv /\ [Next]_vars => StepInv'
<1> SUFFICES ASSUME IInv, IInv', StepInv, [Next]_vars PROVE StepInv'
  OBVIOUS
<1>1. ASSUME NEW w \in Workers,
             WorkerLoop(w) \/ IdleTimeout(w) \/ Drive(w) \/ Execution(w) \/ WorkerFault(w)
      PROVE  StepInv'
  BY <1>1, LoopSteps, AdvanceSteps, TakeSteps, ExecuteSteps, EndSteps DEF Drive
<1>2. CASE UNCHANGED vars
  <2>1. UNCHANGED <<rts, stepRt, req, wk>>
    BY <1>2 DEF vars, cmVars, nonWorkerVars, producerVars
  <2>2. ProducerNames'
    BY <2>1 DEF StepInv, ProducerNames, Named, RtIds
  <2> QED
    BY <2>1, <2>2, SameRts, TrailKept, OthersStepsInv DEF SameStep
<1> QED
  BY <1>1, <1>2, ProducerSteps, ProcessSteps, StrayEndsSteps DEF Next

THEOREM StepsInvariant == Spec => []StepInv
BY InitStepInv, NextStepInv, EngineInvariant, PTL DEF Spec

\* DispatchInOrder: an RT is dispatched for its own step and chain, and with the outputs
\* of all earlier steps on record, whatever was recovered, pushed or popped before it
\* (_pop_or_create_step_rt, _rehydrate_done_steps), and though an RT may be begun again.
THEOREM StepsInOrder == Spec => []DispatchInOrder
<1>1. TypeOK /\ StepInv => DispatchInOrder
  <2> SUFFICES ASSUME TypeOK, StepInv, NEW w \in Workers, wk[w].pc \in {"begin", "dispatch", "await"}
               PROVE  /\ wk[w].rt \in RtsOf(wk[w].chain)
                      /\ rts[wk[w].rt].step = wk[w].step
                      /\ \A s \in 1..(wk[w].step - 1) : HasOutput(wk[w].chain, s)
    BY DEF DispatchInOrder, HasOutput
  <2>1. InOrder(w) /\ wk[w].pc \in StepPcs /\ wk[w].pc \in RtPcs
    BY DEF StepInv, StepPcs, RtPcs
  <2> QED
    BY <2>1 DEF InOrder, Named, RtsOf
<1>2. IInv => TypeOK
  BY DEF IInv
<1> QED
  BY <1>1, <1>2, StepsInvariant, EngineInvariant, PTL

\* CompleteHasOutputs: no step of a chain that completes was skipped, though the chain was
\* taken up again after a crash from what its trail and RT records tell.
THEOREM NoStepSkipped == Spec => []CompleteHasOutputs
<1>1. StepInv => CompleteHasOutputs
  BY DEF StepInv, Completed, CompleteHasOutputs, HasOutput
<1> QED
  BY <1>1, StepsInvariant, PTL

-----------------------------------------------------------------------------
(* Wake-ups: while no call has failed, an unfinished chain is attended to. *)

Attended ==
    \/ \E w \in Workers : \/ wk[w].pc \notin {"off", "recheck", "wait", "teardown"}
                          \/ wk[w].pc = "recheck" /\ pending # <<>>
                          \/ wk[w].pc # "off" /\ wk[w].wake
    \/ \E q \in Requests : req[q].pc \in {"push", "trail"}

\* A drive that has not finished its chain.
HandPcs == DrivePcs \ (DrainPcs \cup {"completed"})

\* Where an unfinished chain is known: a producer is about to push for it, a worker shall
\* recover it or has it in hand, or it has an entry in the queue.
Tracked(c) ==
    \/ \E q \in Requests : req[q].pc = "push" /\ req[q].chain = c
    \/ \E w \in Workers : wk[w].pc # "off" /\ c \in wk[w].resume
    \/ \E w \in Workers : wk[w].pc \in HandPcs /\ wk[w].chain = c
    \/ HasEntry(pending, RtsOf(c))

\* A worker goes to rest with nothing to recover, and drains finished chains only.
RestInv(w) ==
    /\ wk[w].pc \in {"clear", "recheck", "wait", "teardown"} => wk[w].resume = {}
    /\ wk[w].pc \in DrainPcs \cup {"completed"} => status[wk[w].chain] \in Terminal

AttendInv ==
    /\ Unfinished # {} => Attended
    /\ \A c \in Unfinished : Tracked(c)
    /\ \A w \in Workers : RestInv(w)

Undisturbed == phase = "serving" /\ faults = 0

\* Entries of the queue stay, but those of one chain.
EntriesKept(c) == \A d \in Chains :
    HasEntry(pending, RtsOf(d)) /\ d # c => HasEntry(pending', RtsOf(d)')

LEMMA SameEntries ==
    ASSUME Kept, UNCHANGED pending, NEW d, HasEntry(pending, RtsOf(d))
    PROVE  HasEntry(pending', RtsOf(d)')
BY DEF HasEntry, RtsOf, Kept

LEMMA PushEntries ==
    ASSUME TypeOK, NEW c, NEW s, PushRt(c, s)
    PROVE  /\ HasEntry(pending', RtsOf(c)')
           /\ \A d : HasEntry(pending, RtsOf(d)) => HasEntry(pending', RtsOf(d)')
<1>1. /\ pending \in Seq(Nat) /\ Len(pending) \in Nat
      /\ pending' = Append(pending, Len(rts) + 1) /\ Len(rts) + 1 \in Nat
  BY DEF TypeOK, PushRt
<1>2. /\ Len(pending') = Len(pending) + 1 /\ pending'[Len(pending) + 1] = Len(rts) + 1
      /\ \A i \in 1..Len(pending) : pending'[i] = pending[i] /\ i \in 1..Len(pending')
      /\ Len(pending) + 1 \in 1..Len(pending')
  BY <1>1
<1>3. Kept /\ Len(rts) + 1 \in RtsOf(c)'
  BY PushKept DEF RtsOf
<1> QED
  BY <1>2, <1>3 DEF HasEntry, RtsOf, Kept

LEMMA PopEntries ==
    ASSUME TypeOK, NEW c, NEW i, PopAt(c, i), UNCHANGED rts
    PROVE  EntriesKept(c)
<1>1. pending \in Seq(Nat) /\ Len(pending) \in Nat /\ i \in 1..Len(pending)
  BY DEF TypeOK, PopAt, IsFirst
<1>2. /\ Len(pending') = Len(pending) - 1
      /\ \A j \in 1..(Len(pending) - 1) :
            pending'[j] = IF j < i THEN pending[j] ELSE pending[j + 1]
  BY <1>1, RemoveAtFacts DEF PopAt
<1>3. ASSUME NEW d \in Chains, HasEntry(pending, RtsOf(d)), d # c
      PROVE  HasEntry(pending', RtsOf(d)')
  <2>1. PICK j \in 1..Len(pending) : pending[j] \in RtsOf(d)
    BY <1>3 DEF HasEntry
  <2>2. pending[i] \in RtsOf(c)
    BY DEF PopAt, IsFirst
  <2>3. j # i
    BY <1>3, <2>1, <2>2 DEF RtsOf
  <2>4. \E k \in 1..(Len(pending) - 1) : pending'[k] = pending[j]
    <3> PICK n : n = Len(pending)
      OBVIOUS
    <3>1. n \in Nat /\ i \in 1..n /\ j \in 1..n
      BY <1>1, <2>1
    <3>2. CASE j < i
      <4>1. j \in 1..(n - 1)
        BY <3>1, <3>2
      <4> QED
        BY <1>2, <3>2, <4>1
    <3>3. CASE ~(j < i)
      <4>1. j - 1 \in 1..(n - 1) /\ ~(j - 1 < i) /\ (j - 1) + 1 = j
        BY <2>3, <3>1, <3>3
      <4> QED
        BY <1>2, <4>1
    <3> QED
      BY <3>2, <3>3
  <2> QED
    BY <1>2, <2>1, <2>4 DEF HasEntry, RtsOf, RtIds
<1> QED
  BY <1>3 DEF EntriesKept

-----------------------------------------------------------------------------
(* The drive. *)

LEMMA DriveAttends ==
    ASSUME IInv, AttendInv, NEW w \in Workers, wk[w].pc \in DrivePcs,
           \A v \in Workers : v # w => wk'[v] = wk[v],
           wk'[w].pc \in DrivePcs \cup {"poll"},
           wk'[w].pc \in DrivePcs => wk'[w].chain = wk[w].chain,
           wk'[w].resume = wk[w].resume,
           wk[w].pc \in HandPcs => wk'[w].pc \in HandPcs \/ status'[wk[w].chain] \in Terminal,
           wk'[w].pc \notin HandPcs => status'[wk[w].chain] \in Terminal,
           \A c \in Chains : c # wk[w].chain => status'[c] = status[c],
           EntriesKept(wk[w].chain), UNCHANGED req
    PROVE  AttendInv'
<1>1. \A v \in Workers : v # w => wk[v].pc = "off" /\ wk'[v].pc = "off"
  BY DEF IInv, SingleDriver, DrivePcs, DrainPcs
<1>2. Attended'
  BY DEF Attended, DrivePcs, DrainPcs
<1>3. \A v \in Workers : RestInv(v)'
  <2>1. RestInv(w)'
    BY DEF RestInv, DrivePcs, DrainPcs, HandPcs
  <2>2. ASSUME NEW v \in Workers, v # w PROVE RestInv(v)'
    BY <1>1, <2>2 DEF RestInv, DrainPcs
  <2> QED
    BY <2>1, <2>2
<1>4. ASSUME NEW c \in Chains, status'[c] \in {"pending", "active"} PROVE Tracked(c)'
  <2>1. CASE c = wk[w].chain
    <3>1. wk'[w].pc \in HandPcs
      BY <1>4, <2>1 DEF Terminal
    <3> QED
      BY <2>1, <3>1 DEF Tracked, HandPcs
  <2>2. CASE c # wk[w].chain
    <3>1. Tracked(c)
      BY <1>4, <2>2 DEF AttendInv, Unfinished
    <3>2. CASE \E q \in Requests : req[q].pc = "push" /\ req[q].chain = c
      BY <3>2 DEF Tracked
    <3>3. CASE \E v \in Workers : wk[v].pc # "off" /\ c \in wk[v].resume
      <4>1. wk[w].pc # "off" /\ c \in wk[w].resume
        BY <1>1, <3>3
      <4>2. wk'[w].pc # "off" /\ c \in wk'[w].resume
        BY <4>1 DEF DrivePcs, DrainPcs
      <4> QED
        BY <4>2 DEF Tracked
    <3>4. CASE \E v \in Workers : wk[v].pc \in HandPcs /\ wk[v].chain = c
      BY <1>1, <2>2, <3>4 DEF HandPcs, DrivePcs, DrainPcs
    <3>5. CASE HasEntry(pending, RtsOf(c))
      BY <2>2, <3>5 DEF EntriesKept, Tracked
    <3> QED
      BY <3>1, <3>2, <3>3, <3>4, <3>5 DEF Tracked
  <2> QED
    BY <2>1, <2>2
<1> QED
  BY <1>2, <1>3, <1>4 DEF AttendInv, Unfinished

\* Where a drive goes, of a process that is not stopping.
LEMMA DriveGoes ==
    ASSUME TypeOK, NEW w \in Workers, phase = "serving", Drive(w) \/ Execution(w)
    PROVE  /\ wk[w].pc \in DrivePcs /\ wk'[w].resume = wk[w].resume
           /\ \/ wk[w].pc \in HandPcs /\ wk'[w].pc \in HandPcs
              \/ FinishChain(w)
              \/ wk[w].pc \in DrainPcs /\ wk'[w].pc \in DrainPcs \cup {"poll"} /\ UNCHANGED status
<1> DEFINE Goal == /\ wk[w].pc \in DrivePcs /\ wk'[w].resume = wk[w].resume
                   /\ \/ wk[w].pc \in HandPcs /\ wk'[w].pc \in HandPcs
                      \/ FinishChain(w)
                      \/ wk[w].pc \in DrainPcs /\ wk'[w].pc \in DrainPcs \cup {"poll"}
                         /\ UNCHANGED status
<1>1. wk \in [Workers -> WorkerRecord] /\ wk[w] \in WorkerRecord
  BY DEF TypeOK
<1>2. ASSUME NEW pc, Goto(w, pc) PROVE wk'[w].pc = pc /\ wk'[w].resume = wk[w].resume
  BY <1>1, <1>2 DEF Goto, WorkerRecord
<1>3. ASSUME NEW context, Advance(w, context)
      PROVE  wk'[w].pc \in {"complete", "pop"} /\ wk'[w].resume = wk[w].resume
  BY <1>1, <1>3 DEF Advance, WorkerRecord
<1>4. ASSUME NEW pc, NEW r, wk' = [wk EXCEPT ![w].pc = pc, ![w].rt = r]
      PROVE  wk'[w].pc = pc /\ wk'[w].resume = wk[w].resume
  BY <1>1, <1>4 DEF WorkerRecord
<1>5. {"complete", "pop", "push", "trail", "repop", "begin", "dispatch", "await", "record",
       "recordFailed", "release", "releaseFailed", "rehydrate", "activate", "abort"} \subseteq HandPcs
  BY DEF HandPcs, DrivePcs, DrainPcs
<1>6. HandPcs \subseteq DrivePcs /\ DrainPcs \subseteq DrivePcs /\ "completed" \in DrivePcs
      /\ DrainPcs = {"drain", "drainMark", "drainRelease"}
  BY DEF HandPcs, DrivePcs, DrainPcs
<1>7. CASE Activate(w) \/ Rehydrate(w) \/ ReleaseRt(w)
  BY <1>2, <1>3, <1>5, <1>6, <1>7 DEF Activate, Rehydrate, ReleaseRt
<1>8. CASE PopStepRt(w)
  <2>1. CASE Goto(w, "push")
    BY <1>2, <1>5, <1>6, <1>8, <2>1 DEF PopStepRt
  <2>2. CASE ~Goto(w, "push")
    <3>1. PICK i \in 1..Len(pending) :
             wk' = [wk EXCEPT ![w].pc = IF Serves(w, pending[i]) THEN "begin" ELSE "push",
                              ![w].rt = pending[i]]
      BY <1>8, <2>2 DEF PopStepRt
    <3>2. PICK r, pc : r = pending[i] /\ pc = IF Serves(w, pending[i]) THEN "begin" ELSE "push"
      OBVIOUS
    <3>3. wk' = [wk EXCEPT ![w].pc = pc, ![w].rt = r]
      BY <3>1, <3>2
    <3>4. wk'[w].pc = pc /\ wk'[w].resume = wk[w].resume
      BY <1>4, <3>3
    <3>5. wk[w].pc \in HandPcs /\ pc \in HandPcs
      BY <1>5, <1>8, <3>2 DEF PopStepRt
    <3> QED
      BY <1>6, <3>4, <3>5
  <2> QED
    BY <2>1, <2>2
<1>9. CASE StepPush(w)
  BY <1>4, <1>5, <1>6, <1>9 DEF StepPush
<1>10. CASE StepTrail(w) \/ RepopStepRt(w) \/ BeginRt(w) \/ Dispatch(w) \/ RecordRt(w)
            \/ ActorAnswers(w) \/ DispatchFails(w)
  BY <1>2, <1>5, <1>6, <1>10 DEF StepTrail, RepopStepRt, BeginRt, Dispatch, RecordRt, ActorAnswers,
     DispatchFails
<1>11. CASE ActorRecords(w)
  BY <1>5, <1>6, <1>11 DEF ActorRecords
<1>12. CASE FinishChain(w)
  BY <1>2, <1>5, <1>6, <1>12 DEF FinishChain
<1>13. CASE DrainMark(w) \/ DrainRelease(w)
  BY <1>2, <1>6, <1>13 DEF DrainMark, DrainRelease
<1>14. CASE DrainPop(w)
  <2>1. wk'[w].pc \in {"poll", "drainMark"} /\ wk'[w].resume = wk[w].resume
    <3>1. CASE NothingQueued(wk[w].chain) /\ wk' = [wk EXCEPT ![w].pc = "poll", ![w].chain = None]
      BY <1>1, <3>1 DEF WorkerRecord
    <3>2. CASE \E i \in 1..Len(pending) :
                  wk' = [wk EXCEPT ![w].pc = "drainMark", ![w].rt = pending[i]]
      BY <1>4, <3>2
    <3> QED
      BY <1>14, <3>1, <3>2 DEF DrainPop
  <2> QED
    BY <1>6, <1>14, <2>1 DEF DrainPop
<1> HIDE DEF Goal
<1> QED
  BY <1>7, <1>8, <1>9, <1>10, <1>11, <1>12, <1>13, <1>14 DEF Drive, Execution, Goal

LEMMA DriveEntries ==
    ASSUME TypeOK, NEW w \in Workers, Drive(w) \/ Execution(w)
    PROVE  EntriesKept(wk[w].chain) /\ UNCHANGED req
<1>1. PICK c : c = wk[w].chain
  OBVIOUS
<1>2. wk[w].rt \in Nat
  BY DEF TypeOK, WorkerRecord
<1>3. CASE StepPush(w)
  BY <1>3, PushEntries DEF StepPush, EntriesKept, nonWorkerVars, producerVars
<1>4. CASE PopStepRt(w) \/ RepopStepRt(w) \/ DrainPop(w)
  <2>1. UNCHANGED <<rts, req>> /\ (UNCHANGED pending \/ \E i \in 1..Len(pending) : PopAt(c, i))
    BY <1>1, <1>4 DEF PopStepRt, RepopStepRt, DrainPop, nonWorkerVars, producerVars
  <2>2. EntriesKept(c)
    BY <2>1, PopEntries, SameRts, SameEntries DEF EntriesKept
  <2> QED
    BY <1>1, <2>1, <2>2
<1>5. CASE \/ Activate(w) \/ Rehydrate(w) \/ StepTrail(w) \/ BeginRt(w) \/ Dispatch(w)
           \/ RecordRt(w) \/ ReleaseRt(w) \/ FinishChain(w) \/ DrainMark(w) \/ DrainRelease(w)
           \/ Execution(w)
  <2>1. UNCHANGED <<pending, req>>
    BY <1>5 DEF Activate, Rehydrate, StepTrail, BeginRt, Dispatch, RecordRt, ReleaseRt, FinishChain,
       DrainMark, DrainRelease, Execution, ActorRecords, ActorAnswers, DispatchFails, cmVars,
       nonWorkerVars, producerVars
  <2>2. UNCHANGED rts \/ \E s \in {"in_flight", "done", "failed"} : SetRt(wk[w].rt, s)
    BY <1>5 DEF Activate, Rehydrate, StepTrail, BeginRt, Dispatch, RecordRt, ReleaseRt, FinishChain,
       DrainMark, DrainRelease, Execution, ActorRecords, ActorAnswers, DispatchFails, cmVars
  <2>3. Kept
    BY <1>2, <2>2, SameRts, SetRtKept
  <2> QED
    BY <2>1, <2>3, SameEntries DEF EntriesKept
<1> QED
  BY <1>3, <1>4, <1>5 DEF Drive

LEMMA DriveAttendInv ==
    ASSUME IInv, AttendInv, Undisturbed, NEW w \in Workers, Drive(w) \/ Execution(w)
    PROVE  AttendInv'
<1> DEFINE c == wk[w].chain
<1>1. TypeOK /\ phase = "serving"
  BY DEF IInv, Undisturbed
<1>2. /\ wk[w].pc \in DrivePcs /\ wk'[w].resume = wk[w].resume
      /\ \/ wk[w].pc \in HandPcs /\ wk'[w].pc \in HandPcs
         \/ FinishChain(w)
         \/ wk[w].pc \in DrainPcs /\ wk'[w].pc \in DrainPcs \cup {"poll"} /\ UNCHANGED status
  BY <1>1, DriveGoes
<1>3. /\ \A v \in Workers : v # w => wk'[v] = wk[v]
      /\ wk'[w].pc \in DrivePcs => wk'[w].chain = c
  BY <1>1, <1>2, WorkerKeeps
<1>4. EntriesKept(c) /\ UNCHANGED req
  BY <1>1, DriveEntries
<1>5. \A d \in Chains : d # c => status'[d] = status[d]
  BY <1>1 DEF Drive, Execution, Activate, Rehydrate, PopStepRt, StepPush, StepTrail, RepopStepRt,
     BeginRt, Dispatch, RecordRt, ReleaseRt, FinishChain, DrainPop, DrainMark, DrainRelease,
     ActorRecords, ActorAnswers, DispatchFails, SetStatus, TypeOK, cmVars
<1>6. RestInv(w) /\ c \in Chains
  BY <1>2, InHandFacts DEF AttendInv
<1>7. CASE FinishChain(w)
  <2>1. PICK pc \in {"completed", "drain"} : Goto(w, pc)
    BY <1>7 DEF FinishChain
  <2>2. wk'[w].pc = pc
    BY <1>1, <2>1, GotoFields
  <2>3. status'[c] \in Terminal
    BY <1>1, <1>6, <1>7 DEF FinishChain, SetStatus, TypeOK, Terminal, RestInv
  <2>4. wk'[w].pc \in DrivePcs \cup {"poll"}
    BY <2>2 DEF DrivePcs, DrainPcs
  <2> QED
    BY <1>2, <1>3, <1>4, <1>5, <2>3, <2>4, DriveAttends
<1>8. CASE wk[w].pc \in HandPcs /\ wk'[w].pc \in HandPcs
  <2>1. wk'[w].pc \in DrivePcs \cup {"poll"}
    BY <1>8 DEF HandPcs
  <2> QED
    BY <1>2, <1>3, <1>4, <1>5, <1>8, <2>1, DriveAttends
<1>9. CASE wk[w].pc \in DrainPcs /\ wk'[w].pc \in DrainPcs \cup {"poll"} /\ UNCHANGED status
  <2>1. status'[c] \in Terminal /\ wk'[w].pc \in DrivePcs \cup {"poll"}
    BY <1>6, <1>9 DEF RestInv, DrivePcs, DrainPcs
  <2> QED
    BY <1>2, <1>3, <1>4, <1>5, <2>1, DriveAttends
<1> QED
  BY <1>2, <1>7, <1>8, <1>9

-----------------------------------------------------------------------------
(* The loop. *)

LEMMA LoopAttends ==
    ASSUME IInv, AttendInv, NEW w \in Workers, wk[w].pc # "off", wk[w].pc \notin DrivePcs,
           \A v \in Workers : v # w => wk'[v] = wk[v],
           \A c \in wk[w].resume : \/ wk'[w].pc # "off" /\ c \in wk'[w].resume
                                   \/ wk'[w].pc \in HandPcs /\ wk'[w].chain = c,
           RestInv(w)', Unfinished # {} => Attended',
           UNCHANGED <<status, rts, pending, req>>
    PROVE  AttendInv'
<1>1. \A v \in Workers : v # w => wk[v].pc = "off" /\ wk'[v].pc = "off"
  BY DEF IInv, SingleDriver
<1>2. ASSUME NEW v \in Workers PROVE RestInv(v)'
  BY <1>1 DEF RestInv, DrainPcs
<1>3. ASSUME NEW c \in Unfinished PROVE Tracked(c)'
  <2>1. Tracked(c)
    BY DEF AttendInv
  <2>2. CASE \E q \in Requests : req[q].pc = "push" /\ req[q].chain = c
    BY <2>2 DEF Tracked
  <2>3. CASE \E v \in Workers : wk[v].pc # "off" /\ c \in wk[v].resume
    <3>1. c \in wk[w].resume
      BY <1>1, <2>3
    <3> QED
      BY <3>1 DEF Tracked
  <2>4. CASE \E v \in Workers : wk[v].pc \in HandPcs /\ wk[v].chain = c
    BY <1>1, <2>4 DEF HandPcs, DrivePcs, DrainPcs
  <2>5. CASE HasEntry(pending, RtsOf(c))
    BY <2>5, SameRts, SameEntries DEF Tracked
  <2> QED
    BY <2>1, <2>2, <2>3, <2>4, <2>5 DEF Tracked
<1> QED
  BY <1>2, <1>3 DEF AttendInv, Unfinished

\* What an unfinished chain has, when the worker that lives looks at an empty queue.
LEMMA RestTracked ==
    ASSUME IInv, AttendInv, NEW w \in Workers, wk[w].pc \in {"clear", "recheck", "wait", "teardown"},
           Unfinished # {}
    PROVE  pending # <<>> \/ \E q \in Requests : req[q].pc = "push"
<1>1. PICK c \in Unfinished : Tracked(c)
  BY DEF AttendInv
<1>2. wk[w].resume = {} /\ \A v \in Workers : v # w => wk[v].pc = "off"
  BY DEF AttendInv, RestInv, IInv, SingleDriver
<1>3. HasEntry(pending, RtsOf(c)) => pending # <<>>
  BY DEF HasEntry
<1> QED
  BY <1>1, <1>2, <1>3 DEF Tracked, HandPcs, DrivePcs, DrainPcs

\* With the only worker at rest and not called, a producer is at work.
LEMMA RestAttended ==
    ASSUME IInv, AttendInv, NEW w \in Workers, wk[w].pc \in {"wait", "teardown"}, ~wk[w].wake,
           Unfinished # {}
    PROVE  \E q \in Requests : req[q].pc \in {"push", "trail"}
BY DEF AttendInv, Attended, IInv, SingleDriver

LEMMA LoopAttendInv ==
    ASSUME IInv, AttendInv, NEW w \in Workers, WorkerLoop(w) \/ IdleTimeout(w)
    PROVE  AttendInv'
<1>1. /\ wk[w].pc # "off" /\ wk[w].pc \notin DrivePcs
      /\ \A v \in Workers : v # w => wk'[v] = wk[v]
  <2>1. wk[w].pc \in {"poll", "clear", "recheck", "wait", "teardown"}
    BY DEF WorkerLoop, IdleTimeout, TakeResumed, PollQueue, ClearAndDrive, ClearAndRecheck,
       Recheck, WakeUp, Teardown
  <2> QED
    BY <2>1, WorkerKeeps DEF IInv, DrivePcs, DrainPcs
<1>2. UNCHANGED <<status, rts, pending, req>>
  BY DEF WorkerLoop, IdleTimeout, TakeResumed, PollQueue, ClearAndDrive, ClearAndRecheck,
     Recheck, WakeUp, Teardown, cmVars, nonWorkerVars, producerVars
<1>3. TypeOK /\ wk \in [Workers -> WorkerRecord] /\ wk[w] \in WorkerRecord /\ RestInv(w)
  BY DEF IInv, TypeOK, AttendInv
<1>4. ASSUME NEW c, NEW b, wk' = [wk EXCEPT ![w] = Driving(w, c, b)]
      PROVE  wk'[w].pc = "activate" /\ wk'[w].chain = c /\ wk'[w].resume = wk[w].resume \ {c}
  <2> DEFINE new == Driving(w, c, b)
  <2>1. new.pc = "activate" /\ new.chain = c /\ new.resume = wk[w].resume \ {c}
    BY DEF Driving, OffWorker
  <2> HIDE DEF new
  <2> QED
    BY <1>3, <1>4, <2>1 DEF new
<1>5. ASSUME NEW pc, Goto(w, pc)
      PROVE  wk'[w].pc = pc /\ wk'[w].resume = wk[w].resume /\ wk'[w].wake = wk[w].wake
  BY <1>3, <1>5 DEF Goto, WorkerRecord
<1>6. "activate" \in HandPcs /\ "activate" \notin DrainPcs \cup {"completed"}
  BY DEF HandPcs, DrivePcs, DrainPcs
<1>7. CASE TakeResumed(w) \/ ClearAndDrive(w)
  <2>1. PICK c, b : wk' = [wk EXCEPT ![w] = Driving(w, c, b)]
    BY <1>7 DEF TakeResumed, ClearAndDrive
  <2>2. wk'[w].pc = "activate" /\ wk'[w].chain = c /\ wk'[w].resume = wk[w].resume \ {c}
    BY <1>4, <2>1
  <2>3. RestInv(w)' /\ Attended'
    BY <1>6, <2>2 DEF RestInv, Attended
  <2> QED
    BY <1>1, <1>2, <1>6, <2>2, <2>3, LoopAttends
<1>8. CASE PollQueue(w)
  <2>1. wk'[w].pc = "clear" /\ wk'[w].resume = {} /\ wk[w].resume = {}
    <3>1. PICK c : wk' = [wk EXCEPT ![w].pc = "clear", ![w].chain = c]
      BY <1>8 DEF PollQueue
    <3> QED
      BY <1>3, <1>8, <3>1 DEF PollQueue, WorkerRecord
  <2>2. RestInv(w)' /\ Attended'
    BY <2>1 DEF RestInv, Attended, DrainPcs
  <2> QED
    BY <1>1, <1>2, <2>1, <2>2, LoopAttends
<1>9. CASE ClearAndRecheck(w)
  <2>1. /\ wk'[w].pc = "recheck" /\ wk'[w].resume = {} /\ wk[w].resume = {}
    BY <1>3, <1>9 DEF ClearAndRecheck, WorkerRecord, RestInv
  <2>2. Unfinished # {} => Attended'
    <3>1. Unfinished # {} => pending # <<>> \/ \E q \in Requests : req[q].pc = "push"
      BY <1>9, RestTracked DEF ClearAndRecheck
    <3> QED
      BY <1>2, <2>1, <3>1 DEF Attended
  <2>3. RestInv(w)'
    BY <2>1 DEF RestInv, DrainPcs
  <2> QED
    BY <1>1, <1>2, <2>1, <2>2, <2>3, LoopAttends
<1>10. CASE Recheck(w)
  <2>1. PICK pc : pc = IF QueueHasEntries THEN "poll" ELSE "wait"
    OBVIOUS
  <2>2. wk'[w].pc = pc /\ wk'[w].resume = {} /\ wk[w].resume = {}
    <3>1. Goto(w, pc)
      BY <1>10, <2>1 DEF Recheck
    <3> QED
      BY <1>3, <1>5, <1>10, <3>1 DEF Recheck, RestInv
  <2>3. Unfinished # {} => Attended'
    <3>1. Unfinished # {} => pending # <<>> \/ \E q \in Requests : req[q].pc = "push"
      BY <1>10, RestTracked DEF Recheck
    <3> QED
      BY <1>2, <2>1, <2>2, <3>1 DEF Attended, QueueHasEntries
  <2>4. RestInv(w)'
    BY <2>1, <2>2 DEF RestInv, DrainPcs
  <2> QED
    BY <1>1, <1>2, <2>2, <2>3, <2>4, LoopAttends
<1>11. CASE WakeUp(w) \/ (Teardown(w) /\ CalledMeanwhile(w))
  <2>1. wk'[w].pc = "poll" /\ wk'[w].resume = {} /\ wk[w].resume = {}
    BY <1>3, <1>5, <1>11 DEF WakeUp, Teardown, RestInv
  <2>2. RestInv(w)' /\ Attended'
    BY <2>1 DEF RestInv, Attended, DrainPcs
  <2> QED
    BY <1>1, <1>2, <2>1, <2>2, LoopAttends
<1>12. CASE IdleTimeout(w) \/ (Teardown(w) /\ ~CalledMeanwhile(w))
  <2>1. wk[w].pc \in {"wait", "teardown"} /\ ~wk[w].wake /\ wk[w].resume = {}
    BY <1>3, <1>12 DEF IdleTimeout, Teardown, CalledMeanwhile, RestInv
  <2>2. wk'[w].pc \in {"teardown", "off"} /\ wk'[w].resume = {}
    BY <1>3, <1>5, <1>12, <2>1, OffWorkerFacts DEF IdleTimeout, Teardown
  <2>3. Unfinished # {} => Attended'
    <3>1. Unfinished # {} => \E q \in Requests : req[q].pc \in {"push", "trail"}
      BY <2>1, RestAttended
    <3> QED
      BY <1>2, <3>1 DEF Attended
  <2>4. RestInv(w)'
    BY <2>2 DEF RestInv, DrainPcs
  <2> QED
    BY <1>1, <1>2, <2>1, <2>3, <2>4, LoopAttends
<1> QED
  BY <1>7, <1>8, <1>9, <1>10, <1>11, <1>12 DEF WorkerLoop

-----------------------------------------------------------------------------
(* The producers, the process, and the whole. *)

LEMMA AdmissionAttendInv ==
    ASSUME IInv, AttendInv, NEW q \in Requests,
           Admit(q) \/ ChainIdExists(q) \/ FindPendingDuplicate(q) \/ CreateChain(q)
    PROVE  AttendInv'
<1>1. /\ TypeOK /\ req \in [Requests -> RequestRecord] /\ UNCHANGED <<rts, pending, wk>>
  BY DEF IInv, TypeOK, Admit, ChainIdExists, FindPendingDuplicate, CreateChain, cmVars, restVars
<1>2. /\ req[q].pc \notin {"push", "trail"} /\ \A p \in Requests : p # q => req'[p] = req[p]
  BY <1>1 DEF Admit, ChainIdExists, FindPendingDuplicate, CreateChain, Reply
<1>3. ASSUME NEW c \in Unfinished PROVE Tracked(c)'
  <2>1. Tracked(c)
    BY DEF AttendInv
  <2>2. HasEntry(pending, RtsOf(c)) => HasEntry(pending', RtsOf(c)')
    BY <1>1, SameRts, SameEntries
  <2> QED
    BY <1>1, <1>2, <2>1, <2>2 DEF Tracked
<1>4. Attended => Attended'
  BY <1>1, <1>2 DEF Attended
<1>5. CASE UNCHANGED status
  BY <1>1, <1>3, <1>4, <1>5 DEF AttendInv, Unfinished, RestInv
<1>6. CASE CreateChain(q)
  <2>1. PICK c \in Chains : c = req[q].chain
    BY <1>6, BusyFacts DEF CreateChain, Busy
  <2>2. status' = [status EXCEPT ![c] = "pending"] /\ status[c] = "none"
    BY <1>6, <2>1 DEF CreateChain, SetStatus, IInv, AdmissionInv
  <2>3. req'[q].pc = "push" /\ req'[q].chain = c
    BY <1>1, <1>6, <2>1 DEF CreateChain, RequestRecord
  <2>4. Tracked(c)' /\ Attended'
    BY <2>3 DEF Tracked, Attended
  <2>5. \A d \in Chains : d # c => status'[d] = status[d]
    BY <1>1, <2>2 DEF TypeOK
  <2>6. ASSUME NEW w \in Workers PROVE RestInv(w)'
    <3>1. RestInv(w)
      BY DEF AttendInv
    <3>2. wk[w].pc \in DrainPcs \cup {"completed"} => wk[w].chain \in Chains /\ wk[w].chain # c
        <4>1. wk[w].pc \in DrainPcs \cup {"completed"} => wk[w].pc \in DrivePcs
        BY DEF DrivePcs, DrainPcs
      <4>2. wk[w].pc \in DrivePcs => wk[w].chain \in Chains /\ status[wk[w].chain] # "none"
        BY InHandFacts
      <4> QED
        BY <2>2, <4>1, <4>2
    <3> QED
      BY <1>1, <2>5, <3>1, <3>2 DEF RestInv
  <2> QED
    BY <1>3, <2>4, <2>5, <2>6 DEF AttendInv, Unfinished
<1> QED
  BY <1>5, <1>6 DEF Admit, ChainIdExists, FindPendingDuplicate, cmVars

LEMMA PushAttendInv ==
    ASSUME IInv, AttendInv, NEW q \in Requests, ProducerPush(q)
    PROVE  AttendInv'
<1>1. /\ TypeOK /\ req \in [Requests -> RequestRecord] /\ UNCHANGED <<status, wk>>
      /\ PushRt(req[q].chain, req[q].step)
  BY DEF IInv, TypeOK, ProducerPush, restVars
<1>2. req'[q].pc = "trail" /\ \A p \in Requests : p # q => req'[p] = req[p]
  BY <1>1 DEF ProducerPush, RequestRecord
<1>3. ASSUME NEW c \in Unfinished PROVE Tracked(c)'
  <2>1. Tracked(c)
    BY DEF AttendInv
  <2>2. /\ HasEntry(pending, RtsOf(c)) => HasEntry(pending', RtsOf(c)')
        /\ req[q].chain = c => HasEntry(pending', RtsOf(c)')
    BY <1>1, PushEntries
  <2> QED
    BY <1>1, <1>2, <2>1, <2>2 DEF Tracked
<1>4. Attended'
  BY <1>2 DEF Attended
<1> QED
  BY <1>1, <1>3, <1>4 DEF AttendInv, Unfinished, RestInv

LEMMA WakeAttendInv ==
    ASSUME IInv, AttendInv, NEW q \in Requests, RtEnqueued(q)
    PROVE  AttendInv'
<1>1. /\ TypeOK /\ req \in [Requests -> RequestRecord] /\ wk \in [Workers -> WorkerRecord]
      /\ UNCHANGED <<status, rts, pending>> /\ req[q].pc = "trail"
  BY DEF IInv, TypeOK, RtEnqueued
<1>2. phase = "serving"
  BY <1>1, BusyFacts DEF Busy
<1>3. \A p \in Requests : p # q => req'[p] = req[p]
  BY <1>1 DEF RtEnqueued, Reply
<1>4. \A c : HasEntry(pending, RtsOf(c)) => HasEntry(pending', RtsOf(c)')
  BY <1>1, SameRts, SameEntries
<1>5. CASE HasNextStep(req[q].step)
  <2>1. UNCHANGED wk /\ req'[q].pc = "push"
    BY <1>1, <1>5 DEF RtEnqueued, RequestRecord
  <2>2. Attended'
    BY <2>1 DEF Attended
  <2>3. \A c \in Unfinished : Tracked(c)'
    BY <1>1, <1>3, <1>4, <2>1 DEF AttendInv, Tracked
  <2> QED
    BY <1>1, <2>1, <2>2, <2>3 DEF AttendInv, Unfinished, RestInv
<1>6. CASE ~HasNextStep(req[q].step)
  <2>1. EnsureWorkerAndWake
    BY <1>6 DEF RtEnqueued
  <2>2. \A w \in Workers :
           \/ /\ wk'[w].pc = wk[w].pc /\ wk'[w].chain = wk[w].chain
              /\ wk'[w].resume = wk[w].resume
           \/ wk[w].pc = "off" /\ wk'[w].pc = "poll" /\ wk'[w].resume = {}
    BY <1>2, <2>1, EnsureWorkerFacts
  <2>3. Attended'
    <3>1. CASE LiveWorker # {}
      <4>1. PICK w \in LiveWorker : wk'[w] = Woken(w)
        BY <1>1, <2>1, <3>1 DEF EnsureWorkerAndWake, LiveWorker
      <4>2. w \in Workers /\ wk[w].pc # "off"
        BY DEF LiveWorker
      <4>3. wk'[w].pc # "off" /\ wk'[w].wake
        BY <1>1, <4>1, <4>2 DEF Woken, WorkerRecord
      <4> QED
        BY <4>2, <4>3 DEF Attended
    <3>2. CASE LiveWorker = {}
      <4>1. PICK w \in Workers : wk' = [wk EXCEPT ![w] = [OffWorker EXCEPT !.pc = "poll", !.wake = TRUE]]
        BY <2>1, <3>2 DEF EnsureWorkerAndWake
      <4> DEFINE new == [OffWorker EXCEPT !.pc = "poll", !.wake = TRUE]
      <4>2. new.pc = "poll"
        BY DEF OffWorker
      <4> HIDE DEF new
      <4>3. wk'[w].pc = "poll"
        BY <1>1, <4>1, <4>2 DEF new
      <4> QED
        BY <4>3 DEF Attended
    <3> QED
      BY <3>1, <3>2
  <2>4. ASSUME NEW c \in Unfinished PROVE Tracked(c)'
    <3>1. Tracked(c)
      BY DEF AttendInv
    <3>2. \A w \in Workers : /\ wk[w].pc # "off" /\ c \in wk[w].resume
                                  => wk'[w].pc # "off" /\ c \in wk'[w].resume
                             /\ wk[w].pc \in HandPcs /\ wk[w].chain = c
                                  => wk'[w].pc \in HandPcs /\ wk'[w].chain = c
      BY <2>2 DEF HandPcs, DrivePcs, DrainPcs
    <3> QED
      BY <1>1, <1>3, <1>4, <3>1, <3>2 DEF Tracked
  <2>5. ASSUME NEW w \in Workers PROVE RestInv(w)'
    BY <1>1, <2>2 DEF AttendInv, RestInv, DrainPcs
  <2> QED
    BY <1>1, <2>3, <2>4, <2>5 DEF AttendInv, Unfinished
<1> QED
  BY <1>5, <1>6

\* The worker of a restart has every unfinished chain to recover.
LEMMA RestartAttendInv ==
    ASSUME IInv, Restart
    PROVE  AttendInv'
<1>1. /\ wk \in [Workers -> WorkerRecord] /\ \A w \in Workers : wk[w].pc = "off"
      /\ UNCHANGED <<status, rts, pending, req>>
  BY DEF IInv, TypeOK, RegistryInv, Restart, cmVars, producerVars
<1>2. CASE Unfinished = {} /\ UNCHANGED wk
  BY <1>1, <1>2 DEF AttendInv, Unfinished, RestInv, DrainPcs
<1>3. CASE Unfinished # {}
  <2> DEFINE new == [OffWorker EXCEPT !.pc = "poll", !.wake = TRUE, !.resume = Unfinished]
  <2>1. PICK w \in Workers : wk' = [wk EXCEPT ![w] = new]
    BY <1>3 DEF Restart
  <2>2. new.pc = "poll" /\ new.resume = Unfinished
    BY DEF OffWorker
  <2> HIDE DEF new
  <2>3. /\ wk'[w].pc = "poll" /\ wk'[w].resume = Unfinished
        /\ \A v \in Workers : v # w => wk'[v] = wk[v]
    BY <1>1, <2>1, <2>2
  <2>4. Attended'
    BY <2>3 DEF Attended
  <2>5. \A c \in Unfinished : Tracked(c)'
    BY <2>3 DEF Tracked
  <2>6. \A v \in Workers : RestInv(v)'
    BY <1>1, <2>3 DEF RestInv, DrainPcs
  <2> QED
    BY <1>1, <2>4, <2>5, <2>6 DEF AttendInv, Unfinished
<1> QED
  BY <1>2, <1>3 DEF Restart

LEMMA SameAttends ==
    ASSUME AttendInv, Kept, UNCHANGED <<status, pending, req, wk>>
    PROVE  AttendInv'
<1>1. \A c \in Unfinished : Tracked(c)'
  BY SameEntries DEF AttendInv, Tracked
<1> QED
  BY <1>1 DEF AttendInv, Attended, Unfinished, RestInv

LEMMA InitAttendInv == Init => AttendInv
BY DEF Init, AttendInv, Unfinished, RestInv, OffWorker, DrainPcs

LEMMA NextAttendInv == IInv /\ (Undisturbed => AttendInv) /\ [Next]_vars => (Undisturbed' => AttendInv')
<1> SUFFICES ASSUME IInv, Undisturbed => AttendInv, [Next]_vars, Undisturbed' PROVE AttendInv'
  OBVIOUS
<1>1. TypeOK /\ faults \in Nat /\ phase' = "serving" /\ faults' = 0
  BY EngineAssumption DEF IInv, TypeOK, Undisturbed
<1>2. ASSUME NEW q \in Requests, RunChain(q) \/ ProducerFault(q) PROVE AttendInv'
  <2>1. ~ProducerFault(q)
    BY <1>1 DEF ProducerFault
  <2>2. UNCHANGED <<phase, faults>>
    BY <1>2, <2>1 DEF RunChain, Admit, ChainIdExists, FindPendingDuplicate, CreateChain, ProducerPush,
       RtEnqueued, restVars, otherVars
  <2> QED
    BY <1>2, <2>1, <2>2, AdmissionAttendInv, PushAttendInv, WakeAttendInv DEF RunChain, Undisturbed
<1>3. ASSUME NEW w \in Workers,
             WorkerLoop(w) \/ IdleTimeout(w) \/ Drive(w) \/ Execution(w) \/ WorkerFault(w)
      PROVE  AttendInv'
  <2>1. ~WorkerFault(w)
    BY <1>1 DEF WorkerFault
  <2>2. UNCHANGED <<phase, faults>>
    BY <1>3, <2>1 DEF WorkerLoop, IdleTimeout, Drive, Execution, TakeResumed, PollQueue, ClearAndDrive,
       ClearAndRecheck, Recheck, WakeUp, Teardown, Activate, Rehydrate, PopStepRt, StepPush, StepTrail,
       RepopStepRt, BeginRt, Dispatch, RecordRt, ReleaseRt, FinishChain, DrainPop, DrainMark,
       DrainRelease, ActorRecords, ActorAnswers, DispatchFails, nonWorkerVars, otherVars
  <2> QED
    BY <1>3, <2>1, <2>2, LoopAttendInv, DriveAttendInv DEF Undisturbed
<1>4. CASE Crash \/ Shutdown \/ Stop \/ RestartBlind
  BY <1>1, <1>4 DEF Crash, Shutdown, Stop, RestartBlind
<1>5. ASSUME NEW r \in strays, StrayEnds(r) PROVE AttendInv'
  <2>1. r \in Nat /\ UNCHANGED <<phase, faults, status, pending, req, wk>>
    BY <1>1, <1>5 DEF StrayEnds, TypeOK, producerVars
  <2>2. Kept
    BY <1>1, <1>5, <2>1, SameRts, SetRtKept DEF StrayEnds
  <2> QED
    BY <2>1, <2>2, SameAttends DEF Undisturbed
<1>6. CASE UNCHANGED vars
  BY <1>6, SameRts, SameAttends DEF vars, cmVars, nonWorkerVars, producerVars, otherVars, Undisturbed
<1> QED
  BY <1>2, <1>3, <1>4, <1>5, <1>6, RestartAttendInv DEF Next

\* UnfinishedAttended: no wake-up is lost, whatever the order of pushes, idle timeouts,
\* teardowns, crashes and restarts, as long as no call to the content manager has failed
\* (ensure_worker and wake.set without an await between, the second look at the queue,
\* the teardown under the registry lock).
THEOREM NoLostWakeup == Spec => [](faults = 0 => UnfinishedAttended)
<1>1. (Undisturbed => AttendInv) => (faults = 0 => UnfinishedAttended)
  BY DEF Undisturbed, AttendInv, Attended, Unfinished, UnfinishedAttended
<1>2. Init => (Undisturbed => AttendInv)
  BY InitAttendInv
<1> QED
  BY <1>1, <1>2, NextAttendInv, EngineInvariant, PTL DEF Spec
=============================================================================
