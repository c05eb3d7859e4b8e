----------------------------- MODULE ChainEngine -----------------------------
(***************************************************************************)
(* How the DRO runs the chains of one (session, persona): the producers    *)
(* (run_chain), the worker registry, the worker loop that drives one chain *)
(* at a time, and what of it survives a crash in the content manager.      *)
(*                                                                         *)
(* The DRO is one asyncio process, so a step runs from one await of the    *)
(* source to the next: an action is one content-manager call with the code *)
(* after it up to the following call.  Calls that only append to a log are *)
(* folded into their neighbour, and so is the creation of an RT record     *)
(* into the push that first makes its fresh identifier visible.            *)
(***************************************************************************)
EXTENDS QueueOps, FiniteSets

CONSTANTS
    Chains,         \* chain identifiers callers may ask for
    Pipelines,      \* pipelines of this persona
    PipelineOf,     \* PipelineOf[c]: the pipeline chain c runs
    NumSteps,       \* steps of a pipeline, run in sequence
    Requests,       \* POST /control/spawn requests, each used once
    Workers,        \* worker tasks that may exist
    MaxCrashes,     \* bound: crashes and shutdowns of the DRO
    MaxFaults,      \* bound: content-manager calls that fail
    None            \* no worker, no lock holder

ASSUME EngineAssumption ==
    /\ PipelineOf \in [Chains -> Pipelines]
    /\ NumSteps \in Nat \ {0}
    /\ MaxCrashes \in Nat /\ MaxFaults \in Nat
    /\ None \notin Requests \cup Workers

Steps == 1..NumSteps

VARIABLES
    \* content manager
    status,     \* status[c] of chain c, mirrored in the session's chain index
    rts,        \* RT records in creation order; an RT's identifier is its position
    pending,    \* the persona queue: identifiers of waiting RTs
    leases,     \* identifiers of leased RTs
    stepRt,     \* stepRt[c][s]: RT of the last rt_enqueued line of the trail, or 0
    \* DRO process
    phase,      \* the process is "serving", "stopping" or "down"
    lock,       \* holder of the admission lock
    req,        \* req[q]: progress of a run_chain call
    registry,   \* _WORKERS: the registered worker
    wk,         \* wk[w]: a worker task
    \* outside
    strays,     \* RTs the Actor still executes for a DRO that has crashed
    crashes, faults

cmVars == <<status, rts, pending, leases, stepRt>>
producerVars == <<lock, req>>
otherVars == <<phase, strays, crashes, faults>>
restVars == <<registry, wk, otherVars>>
nonWorkerVars == <<producerVars, registry, otherVars>>
vars == <<cmVars, wk, nonWorkerVars>>

Terminal == {"done", "failed"}
RtIds == 1..Len(rts)

IdleRequest == [pc |-> "idle", chain |-> None, step |-> 1, rt |-> 0]
OffWorker == [pc |-> "off", wake |-> FALSE, resume |-> {}, chain |-> None,
              resuming |-> FALSE, context |-> {}, step |-> 1, rt |-> 0]

RequestPcs == {"idle", "exists", "duplicate", "create", "push", "trail",
               "replied", "error"}
DrivePcs == {"activate", "rehydrate", "pop", "push", "trail", "repop", "begin",
             "dispatch", "await", "record", "recordFailed", "release",
             "releaseFailed", "complete", "completed", "abort", "drain", "drainMark",
             "drainRelease"}
DrainPcs == {"drain", "drainMark", "drainRelease"}
WorkerPcs == {"off", "poll", "clear", "recheck", "wait", "teardown"} \cup DrivePcs

RtRecord == [chain : Chains, step : Steps,
             state : {"pending", "in_flight", "done", "failed"}]
RequestRecord == [pc : RequestPcs, chain : Chains \cup {None}, step : Steps, rt : Nat]
WorkerRecord == [pc : WorkerPcs, wake : BOOLEAN, resume : SUBSET Chains,
                 chain : Chains \cup {None}, resuming : BOOLEAN,
                 context : SUBSET Steps, step : Steps, rt : Nat]

TypeOK ==
    /\ status \in [Chains -> {"none", "pending", "active"} \cup Terminal]
    /\ rts \in Seq(RtRecord)
    /\ pending \in Seq(Nat)
    /\ leases \in SUBSET Nat
    /\ stepRt \in [Chains -> [Steps -> Nat]]
    /\ phase \in {"serving", "stopping", "down"}
    /\ lock \in Requests \cup {None}
    /\ req \in [Requests -> RequestRecord]
    /\ registry \in Workers \cup {None}
    /\ wk \in [Workers -> WorkerRecord]
    /\ strays \in SUBSET Nat
    /\ crashes \in 0..MaxCrashes /\ faults \in 0..MaxFaults

Init ==
    /\ status = [c \in Chains |-> "none"]
    /\ rts = <<>>
    /\ pending = <<>>
    /\ leases = {}
    /\ stepRt = [c \in Chains |-> [s \in Steps |-> 0]]
    /\ phase = "serving"
    /\ lock = None
    /\ req = [q \in Requests |-> IdleRequest]
    /\ registry = None
    /\ wk = [w \in Workers |-> OffWorker]
    /\ strays = {}
    /\ crashes = 0 /\ faults = 0

-----------------------------------------------------------------------------
(* The content manager as the DRO uses it. *)

RtsOf(c) == {r \in RtIds : rts[r].chain = c}

\* create_rt of a fresh RT, then persona_queue_push.
PushRt(c, s) ==
    /\ rts' = Append(rts, [chain |-> c, step |-> s, state |-> "pending"])
    /\ pending' = Append(pending, Len(rts) + 1)

\* persona_queue_pop(chain_id=c) finding the entry at position i.
PopAt(c, i) ==
    /\ IsFirst(i, pending, RtsOf(c))
    /\ pending' = RemoveAt(pending, i)
    /\ leases' = leases \cup {pending[i]}

NothingQueued(c) == ~HasEntry(pending, RtsOf(c))

SetStatus(c, s) == status' = [status EXCEPT ![c] = s]
SetRt(r, s) == rts' = [rts EXCEPT ![r].state = s]

-----------------------------------------------------------------------------
(* The producer: run_chain, under the admission lock of the persona. *)

\* Mutant: admission without the lock.
NoLock == TRUE

LockFree == lock = None

\* The requests wait for the lock in any order.
Admit(q) ==
    /\ phase = "serving" /\ LockFree /\ req[q].pc = "idle"
    /\ \E c \in Chains : req' = [req EXCEPT ![q].pc = "exists", ![q].chain = c]
    /\ lock' = q
    /\ UNCHANGED <<cmVars, restVars>>

\* The call returns (or raises) and gives the lock back.
Reply(q, pc) ==
    /\ req' = [req EXCEPT ![q] = [IdleRequest EXCEPT !.pc = pc]]
    /\ lock' = None

\* _chain_id_exists: a chain identifier already created is dropped.
ChainIdExists(q) ==
    /\ req[q].pc = "exists"
    /\ IF status[req[q].chain] # "none"
       THEN Reply(q, "replied")
       ELSE /\ req' = [req EXCEPT ![q].pc = "duplicate"]
            /\ UNCHANGED lock
    /\ UNCHANGED <<cmVars, restVars>>

\* Mutant: chains that already started are taken for the waiting ones.
ActiveOf(p) == {c \in Chains : PipelineOf[c] = p /\ status[c] = "active"}

PendingOf(p) == {c \in Chains : PipelineOf[c] = p /\ status[c] = "pending"}

\* _find_pending_duplicate: a chain of the same pipeline that has not started
\* absorbs the request.
FindPendingDuplicate(q) ==
    /\ req[q].pc = "duplicate"
    /\ IF PendingOf(PipelineOf[req[q].chain]) # {}
       THEN Reply(q, "replied")
       ELSE /\ req' = [req EXCEPT ![q].pc = "create"]
            /\ UNCHANGED lock
    /\ UNCHANGED <<cmVars, restVars>>

CreateChain(q) ==
    /\ req[q].pc = "create"
    /\ SetStatus(req[q].chain, "pending")
    /\ req' = [req EXCEPT ![q].pc = "push"]
    /\ UNCHANGED <<rts, pending, leases, stepRt, lock, restVars>>

\* _create_and_push_rt for the next step of the pipeline ...
ProducerPush(q) ==
    /\ req[q].pc = "push"
    /\ PushRt(req[q].chain, req[q].step)
    /\ req' = [req EXCEPT ![q].pc = "trail", ![q].rt = Len(rts) + 1]
    /\ UNCHANGED <<status, leases, stepRt, lock, restVars>>

\* Mutant: the registry is not consulted.
NoLiveWorker == {}

\* The registered worker whose task has not ended, if there is one.
LiveWorker == {w \in Workers : registry = w /\ wk[w].pc # "off"}

Woken(w) == [wk[w] EXCEPT !.wake = TRUE]

\* ensure_worker, then wake.set(): no await separates the two.
EnsureWorkerAndWake ==
    IF LiveWorker # {}
    THEN /\ wk' = [w \in Workers |->
                      IF w \in LiveWorker THEN Woken(w) ELSE wk[w]]
         /\ UNCHANGED registry
    ELSE \E w \in Workers :
            /\ wk[w].pc = "off"
            /\ wk' = [wk EXCEPT ![w] = [OffWorker EXCEPT !.pc = "poll", !.wake = TRUE]]
            /\ registry' = w

\* Mutant: the loop over the steps runs one too far.
OnePastLast(s) == s <= NumSteps

HasNextStep(s) == s < NumSteps

\* ... its trail line, then its rt_enqueued event; after those of the last step the
\* lock is given back and the worker is woken before the next await.
RtEnqueued(q) ==
    /\ req[q].pc = "trail"
    /\ stepRt' = [stepRt EXCEPT ![req[q].chain][req[q].step] = req[q].rt]
    /\ IF HasNextStep(req[q].step)
       THEN /\ req' = [req EXCEPT ![q].pc = "push", ![q].step = @ + 1]
            /\ UNCHANGED <<lock, registry, wk>>
       ELSE Reply(q, "replied") /\ EnsureWorkerAndWake
    /\ UNCHANGED <<status, rts, pending, leases, otherVars>>

\* A content-manager call of run_chain fails: the exception leaves the lock's
\* `async with` and the request is answered with an error.
ProducerFault(q) ==
    /\ faults < MaxFaults
    /\ req[q].pc \in {"exists", "duplicate", "create", "push", "trail"}
    /\ Reply(q, "error")
    /\ faults' = faults + 1
    /\ UNCHANGED <<cmVars, registry, wk, phase, strays, crashes>>

RunChain(q) ==
    \/ Admit(q) \/ ChainIdExists(q) \/ FindPendingDuplicate(q) \/ CreateChain(q)
    \/ ProducerPush(q) \/ RtEnqueued(q)

-----------------------------------------------------------------------------
(* The worker loop. *)

Goto(w, pc) == wk' = [wk EXCEPT ![w].pc = pc]

\* What _drive_chain starts with: no step output, nothing in hand.
Driving(w, c, resuming) ==
    [OffWorker EXCEPT !.pc = "activate", !.chain = c, !.resuming = resuming,
                      !.resume = wk[w].resume \ {c}]

\* Chains registered for recovery come first; no call is made to take one.
TakeResumed(w) ==
    /\ wk[w].pc = "poll"
    /\ \E c \in wk[w].resume : wk' = [wk EXCEPT ![w] = Driving(w, c, TRUE)]
    /\ UNCHANGED <<cmVars, nonWorkerVars>>

\* _next_pending_chain: the chain of the head of the queue.  The wake flag is
\* cleared when the answer arrives, a step later (ClearAndDrive, ClearAndRecheck).
PollQueue(w) ==
    /\ wk[w].pc = "poll" /\ wk[w].resume = {}
    /\ wk' = [wk EXCEPT ![w].pc = "clear",
                        ![w].chain = IF pending = <<>> THEN None
                                                       ELSE rts[pending[1]].chain]
    /\ UNCHANGED <<cmVars, nonWorkerVars>>

ClearAndDrive(w) ==
    /\ wk[w].pc = "clear" /\ wk[w].chain # None
    /\ wk' = [wk EXCEPT ![w] = Driving(w, wk[w].chain, FALSE)]
    /\ UNCHANGED <<cmVars, nonWorkerVars>>

ClearAndRecheck(w) ==
    /\ wk[w].pc = "clear" /\ wk[w].chain = None
    /\ wk' = [wk EXCEPT ![w].wake = FALSE, ![w].pc = "recheck"]
    /\ UNCHANGED <<cmVars, nonWorkerVars>>

\* Mutant: the second look at the queue is not taken.
LookTakenForEmpty == FALSE

QueueHasEntries == pending # <<>>

\* A producer may have pushed between the first look and the clear.
Recheck(w) ==
    /\ wk[w].pc = "recheck"
    /\ Goto(w, IF QueueHasEntries THEN "poll" ELSE "wait")
    /\ UNCHANGED <<cmVars, nonWorkerVars>>

WakeUp(w) ==
    /\ wk[w].pc = "wait" /\ wk[w].wake
    /\ Goto(w, "poll")
    /\ UNCHANGED <<cmVars, nonWorkerVars>>

\* The idle grace of 30 s is over.
IdleTimeout(w) ==
    /\ wk[w].pc = "wait" /\ ~wk[w].wake
    /\ Goto(w, "teardown")
    /\ UNCHANGED <<cmVars, nonWorkerVars>>

CalledMeanwhile(w) == wk[w].wake

\* Under the registry lock: a wake that came after the timeout keeps the worker.
Teardown(w) ==
    /\ wk[w].pc = "teardown"
    /\ IF CalledMeanwhile(w)
       THEN Goto(w, "poll") /\ UNCHANGED registry
       ELSE wk' = [wk EXCEPT ![w] = OffWorker] /\ registry' = None
    /\ UNCHANGED <<cmVars, producerVars, otherVars>>

-----------------------------------------------------------------------------
(* _drive_chain: one chain from activation to its final status. *)

\* _run_steps goes to the first step without an output; if all have one, the chain
\* is complete.
Advance(w, context) ==
    \/ /\ Steps \subseteq context
       /\ wk' = [wk EXCEPT ![w] = [@ EXCEPT !.context = context, !.pc = "complete"]]
    \/ \E s \in Steps \ context :
          /\ \A t \in Steps \ context : s <= t
          /\ wk' = [wk EXCEPT ![w] = [@ EXCEPT !.context = context, !.pc = "pop",
                                               !.step = s]]

Activate(w) ==
    /\ wk[w].pc = "activate"
    /\ SetStatus(wk[w].chain, "active")
    /\ IF wk[w].resuming THEN Goto(w, "rehydrate") ELSE Advance(w, {})
    /\ UNCHANGED <<rts, pending, leases, stepRt, nonWorkerVars>>

\* Mutant: every enqueued step counts as done.
RestoredEnqueued(c) == {s \in Steps : stepRt[c][s] \in RtIds}

\* _rehydrate_done_steps: the steps whose last enqueued RT is done keep its output.
Restored(c) ==
    {s \in Steps : stepRt[c][s] \in RtIds /\ rts[stepRt[c][s]].state = "done"}

Rehydrate(w) ==
    /\ wk[w].pc = "rehydrate"
    /\ Advance(w, Restored(wk[w].chain))
    /\ UNCHANGED <<cmVars, nonWorkerVars>>

\* Mutant: any RT of the chain will do.
AnyRt(w, r) == TRUE

\* A popped RT serves the step in hand if it was made for it and is not done.
Serves(w, r) == rts[r].step = wk[w].step /\ rts[r].state # "done"

\* _pop_or_create_step_rt: the first queued RT of the chain is used if it serves;
\* otherwise it stays leased and a new one is made.
PopStepRt(w) ==
    /\ wk[w].pc = "pop"
    /\ \/ /\ NothingQueued(wk[w].chain)
          /\ Goto(w, "push")
          /\ UNCHANGED <<pending, leases>>
       \/ \E i \in 1..Len(pending) :
             /\ PopAt(wk[w].chain, i)
             /\ wk' = [wk EXCEPT ![w].pc = IF Serves(w, pending[i]) THEN "begin"
                                                                    ELSE "push",
                                 ![w].rt = pending[i]]
    /\ UNCHANGED <<status, rts, stepRt, nonWorkerVars>>

StepPush(w) ==
    /\ wk[w].pc = "push"
    /\ PushRt(wk[w].chain, wk[w].step)
    /\ wk' = [wk EXCEPT ![w].pc = "trail", ![w].rt = Len(rts) + 1]
    /\ UNCHANGED <<status, leases, stepRt, nonWorkerVars>>

StepTrail(w) ==
    /\ wk[w].pc = "trail"
    /\ stepRt' = [stepRt EXCEPT ![wk[w].chain][wk[w].step] = wk[w].rt]
    /\ Goto(w, "repop")
    /\ UNCHANGED <<status, rts, pending, leases, nonWorkerVars>>

\* The second pop is for the new RT, but takes the first of the chain, whichever
\* that is; the step goes on with the RT it made.
RepopStepRt(w) ==
    /\ wk[w].pc = "repop"
    /\ \/ NothingQueued(wk[w].chain) /\ UNCHANGED <<pending, leases>>
       \/ \E i \in 1..Len(pending) : PopAt(wk[w].chain, i)
    /\ Goto(w, "begin")
    /\ UNCHANGED <<status, rts, stepRt, nonWorkerVars>>

BeginRt(w) ==
    /\ wk[w].pc = "begin"
    /\ SetRt(wk[w].rt, "in_flight")
    /\ Goto(w, "dispatch")
    /\ UNCHANGED <<status, pending, leases, stepRt, nonWorkerVars>>

\* The Actor accepts the RT and reports rt_started.
Dispatch(w) ==
    /\ wk[w].pc = "dispatch"
    /\ Goto(w, "await")
    /\ UNCHANGED <<cmVars, producerVars, registry, otherVars>>

\* The Actor records the output itself before it answers.
ActorRecords(w) ==
    /\ wk[w].pc = "await" /\ rts[wk[w].rt].state # "done"
    /\ SetRt(wk[w].rt, "done")
    /\ UNCHANGED <<status, pending, leases, stepRt, wk, nonWorkerVars>>

ActorAnswers(w) ==
    /\ wk[w].pc = "await" /\ rts[wk[w].rt].state = "done"
    /\ Goto(w, "record")
    /\ UNCHANGED <<cmVars, nonWorkerVars>>

\* The step failed, the retry budget is exhausted, or the connection is lost: the
\* same to the DRO, and the last of them whether the output was recorded or not.
DispatchFails(w) ==
    /\ wk[w].pc = "await"
    /\ Goto(w, "recordFailed")
    /\ UNCHANGED <<cmVars, nonWorkerVars>>

Execution(w) == ActorRecords(w) \/ ActorAnswers(w) \/ DispatchFails(w)

RecordRt(w) ==
    /\ \/ wk[w].pc = "record" /\ SetRt(wk[w].rt, "done") /\ Goto(w, "release")
       \/ wk[w].pc = "recordFailed" /\ SetRt(wk[w].rt, "failed")
             /\ Goto(w, "releaseFailed")
    /\ UNCHANGED <<status, pending, leases, stepRt, nonWorkerVars>>

ReleaseRt(w) ==
    /\ leases' = leases \ {wk[w].rt}
    /\ \/ wk[w].pc = "release" /\ Advance(w, wk[w].context \cup {wk[w].step})
       \/ wk[w].pc = "releaseFailed" /\ Goto(w, "abort")
    /\ UNCHANGED <<status, rts, pending, stepRt, nonWorkerVars>>

\* chain=done, then the trail line and the event of its completion; or chain=failed
\* and the error event.
FinishChain(w) ==
    /\ \/ /\ wk[w].pc = "complete"
          /\ SetStatus(wk[w].chain, "done") /\ Goto(w, "completed")
       \/ wk[w].pc = "completed" /\ Goto(w, "drain") /\ UNCHANGED status
       \/ wk[w].pc = "abort" /\ SetStatus(wk[w].chain, "failed") /\ Goto(w, "drain")
    /\ UNCHANGED <<rts, pending, leases, stepRt, nonWorkerVars>>

\* _drain_chain_pending: what is left of the chain in the queue is marked failed.
DrainPop(w) ==
    /\ wk[w].pc = "drain"
    /\ \/ /\ NothingQueued(wk[w].chain)
          /\ IF phase = "stopping"
             THEN wk' = [wk EXCEPT ![w] = OffWorker]
             ELSE wk' = [wk EXCEPT ![w].pc = "poll", ![w].chain = None]
          /\ UNCHANGED <<pending, leases>>
       \/ \E i \in 1..Len(pending) :
             /\ PopAt(wk[w].chain, i)
             /\ wk' = [wk EXCEPT ![w].pc = "drainMark", ![w].rt = pending[i]]
    /\ UNCHANGED <<status, rts, stepRt, nonWorkerVars>>

DrainMark(w) ==
    /\ wk[w].pc = "drainMark"
    /\ SetRt(wk[w].rt, "failed")
    /\ Goto(w, "drainRelease")
    /\ UNCHANGED <<status, pending, leases, stepRt, nonWorkerVars>>

DrainRelease(w) ==
    /\ wk[w].pc = "drainRelease"
    /\ leases' = leases \ {wk[w].rt}
    /\ Goto(w, "drain")
    /\ UNCHANGED <<status, rts, pending, stepRt, nonWorkerVars>>

\* Where the loop goes when a content-manager call of the worker raises.
AfterFault ==
    [pc \in {"activate", "rehydrate", "pop", "push", "trail", "repop", "begin",
             "dispatch", "complete", "completed", "record", "recordFailed", "abort",
             "drainMark", "drainRelease", "poll", "recheck", "drain"} |->
       CASE pc = "record" -> "recordFailed"
         [] pc = "recordFailed" -> "releaseFailed"
         [] pc = "abort" -> "drain"
         [] pc = "drainMark" -> "drainRelease"
         [] pc = "drainRelease" -> "drain"
         [] pc \in {"poll", "recheck", "drain"} -> "off"
         [] OTHER -> "abort"]

\* A failed call in _drive_chain fails the chain; a failed look at the queue, or a
\* failed first pop of a drain, ends the worker task, which stays registered.
WorkerFault(w) ==
    /\ faults < MaxFaults
    /\ wk[w].pc \in DOMAIN AfterFault
    /\ wk[w].pc = "poll" => wk[w].resume = {}
    /\ IF AfterFault[wk[w].pc] = "off"
       THEN wk' = [wk EXCEPT ![w] = OffWorker]
       ELSE Goto(w, AfterFault[wk[w].pc])
    /\ faults' = faults + 1
    /\ UNCHANGED <<cmVars, producerVars, registry, phase, strays, crashes>>

Drive(w) ==
    \/ Activate(w) \/ Rehydrate(w) \/ PopStepRt(w) \/ StepPush(w) \/ StepTrail(w)
    \/ RepopStepRt(w) \/ BeginRt(w) \/ Dispatch(w) \/ RecordRt(w) \/ ReleaseRt(w)
    \/ FinishChain(w) \/ DrainPop(w) \/ DrainMark(w) \/ DrainRelease(w)

WorkerLoop(w) ==
    \/ TakeResumed(w) \/ PollQueue(w) \/ ClearAndDrive(w) \/ ClearAndRecheck(w)
    \/ Recheck(w) \/ WakeUp(w) \/ Teardown(w)

-----------------------------------------------------------------------------
(* Crash and restart of the DRO. *)

\* The RTs the Actor is executing for the workers.
Dispatched == {wk[w].rt : w \in {v \in Workers : wk[v].pc = "await"}}

Crash ==
    /\ phase # "down" /\ crashes < MaxCrashes
    /\ phase' = "down"
    /\ crashes' = crashes + 1
    /\ lock' = None
    /\ registry' = None
    /\ strays' = strays \cup Dispatched
    /\ wk' = [w \in Workers |-> OffWorker]
    /\ req' = [q \in Requests |->
                  IF req[q].pc \in {"idle", "replied", "error"} THEN req[q]
                  ELSE [IdleRequest EXCEPT !.pc = "error"]]
    /\ UNCHANGED <<cmVars, faults>>

\* shutdown_all, after the last request: the workers are cancelled.  A cancelled
\* dispatch still gives its lease back and a cancelled chain is still drained, but
\* its status stays what it was; a drain that is cancelled stops.
Shutdown ==
    /\ phase = "serving" /\ crashes < MaxCrashes
    /\ lock = None
    /\ phase' = "stopping"
    /\ crashes' = crashes + 1
    /\ registry' = None
    /\ strays' = strays \cup Dispatched
    /\ leases' = leases \ {wk[w].rt : w \in {v \in Workers :
                              wk[v].pc \in {"await", "record", "recordFailed"}}}
    /\ wk' = [w \in Workers |-> IF wk[w].pc \in DrivePcs \ DrainPcs
                                THEN [wk[w] EXCEPT !.pc = "drain"] ELSE OffWorker]
    /\ UNCHANGED <<status, rts, pending, stepRt, producerVars, faults>>

Stop ==
    /\ phase = "stopping" /\ \A w \in Workers : wk[w].pc = "off"
    /\ phase' = "down"
    /\ UNCHANGED <<cmVars, producerVars, registry, wk, strays, crashes,
                   faults>>

\* Mutant: the scan for unfinished chains misses those that had started.
ScanPending == {c \in Chains : status[c] = "pending"}

\* list_active_chains.
Unfinished == {c \in Chains : status[c] \in {"pending", "active"}}

\* resume_active_chains, before the first request is served: the worker starts
\* with every unfinished chain of the index registered for recovery.
Restart ==
    /\ phase = "down"
    /\ phase' = "serving"
    /\ \/ Unfinished = {} /\ UNCHANGED <<registry, wk>>
       \/ /\ Unfinished # {}
          /\ \E w \in Workers :
                /\ wk' = [wk EXCEPT ![w] = [OffWorker EXCEPT !.pc = "poll",
                                      !.wake = TRUE, !.resume = Unfinished]]
                /\ registry' = w
    /\ UNCHANGED <<cmVars, producerVars, strays, crashes, faults>>

\* The list of unfinished chains cannot be read: recovery is skipped.
RestartBlind ==
    /\ phase = "down" /\ faults < MaxFaults
    /\ phase' = "serving"
    /\ faults' = faults + 1
    /\ UNCHANGED <<cmVars, producerVars, registry, wk, strays, crashes>>

\* An execution the crashed DRO had asked for ends: its output is recorded, or
\* the Actor gave it up with the connection.
StrayEnds(r) ==
    /\ r \in strays
    /\ strays' = strays \ {r}
    /\ SetRt(r, "done") \/ UNCHANGED rts
    /\ UNCHANGED <<status, pending, leases, stepRt, producerVars, registry, wk,
                   phase, crashes, faults>>

-----------------------------------------------------------------------------
Next ==
    \/ \E q \in Requests : RunChain(q) \/ ProducerFault(q)
    \/ \E w \in Workers :
          \/ WorkerLoop(w) \/ IdleTimeout(w) \/ Drive(w)
          \/ Execution(w) \/ WorkerFault(w)
    \/ Crash \/ Shutdown \/ Stop \/ Restart \/ RestartBlind
    \/ \E r \in strays : StrayEnds(r)

Spec == Init /\ [][Next]_vars

\* asyncio runs every ready task, every answer of the content manager arrives, and
\* a dispatch ends by its timeout.  Nothing makes a request come, a call fail or a
\* process crash; a crashed DRO is restarted.
Fairness ==
    /\ \A q \in Requests : WF_vars(RunChain(q) /\ req[q].pc # "idle")
    /\ \A w \in Workers : WF_vars(WorkerLoop(w) \/ IdleTimeout(w) \/ Drive(w)
                                  \/ Execution(w))
    /\ WF_vars(Stop \/ Restart \/ RestartBlind)

FairSpec == Spec /\ Fairness

-----------------------------------------------------------------------------
(* Safety. *)

\* At most one chain of a pipeline waits ("waiting <= 1"): the look for a waiting
\* duplicate and the creation are not separated by another admission.
WaitingAtMostOne ==
    \A c, d \in Chains :
       /\ status[c] = "pending" /\ status[d] = "pending"
       /\ PipelineOf[c] = PipelineOf[d]
       => c = d

\* At most one worker of the persona is alive ("running <= 1"), whatever the order of
\* wake-ups, idle timeouts, teardowns, shutdowns and restarts.
SingleDriver ==
    \A v, w \in Workers : wk[v].pc # "off" /\ wk[w].pc # "off" => v = w

\* A chain of which the last step just ended has an output recorded for every
\* step: no step is skipped, also when the chain was recovered after a crash.
CompleteHasOutputs ==
    \A w \in Workers : wk[w].pc = "complete" =>
       \A s \in Steps : \E r \in RtsOf(wk[w].chain) :
          rts[r].step = s /\ rts[r].state = "done"

\* An RT is dispatched for the step its record names, in the chain in hand, and only
\* once the outputs of all earlier steps are recorded.
DispatchInOrder ==
    \A w \in Workers : wk[w].pc \in {"begin", "dispatch", "await"} =>
       /\ wk[w].rt \in RtsOf(wk[w].chain)
       /\ rts[wk[w].rt].step = wk[w].step
       /\ \A s \in 1..(wk[w].step - 1) : \E r \in RtsOf(wk[w].chain) :
             rts[r].step = s /\ rts[r].state = "done"

\* No lost wake-up: an unfinished chain always has a worker about to look at the
\* queue or at work, a wake-up on its way, or the producer that will send one.
UnfinishedAttended ==
    phase = "serving" /\ (\E c \in Chains : status[c] \in {"pending", "active"}) =>
       \/ \E w \in Workers : \/ wk[w].pc \notin {"off", "recheck", "wait", "teardown"}
                             \/ wk[w].pc = "recheck" /\ pending # <<>>
                             \/ wk[w].pc # "off" /\ wk[w].wake
       \/ \E q \in Requests : req[q].pc \in {"push", "trail"}

\* The chains some worker drives.
InHand == {wk[w].chain : w \in {v \in Workers : wk[v].pc \in DrivePcs}}

\* Chains, whichever tasks drive them: see ChainLedger.
Ledger == INSTANCE ChainLedger WITH inHand <- InHand

ImplementsLedger == Ledger!Spec

(* Liveness. *)

\* A chain that was created is eventually finished for good.
Settles == \A c \in Chains : status[c] # "none" ~> [](status[c] \in Terminal)

-----------------------------------------------------------------------------
(* Statements of the repository that the code does not keep. *)

\* worker.py: a chain that waits gets its turn.
WaitingGetsItsTurn ==
    \A c \in Chains : status[c] = "pending" ~> status[c] # "pending"

=============================================================================
