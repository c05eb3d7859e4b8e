------------------------------- MODULE StepTree -------------------------------
(***************************************************************************)
(* The chains of one persona of a work as trees of steps: the worker that  *)
(* drives them one after the other, the groups whose steps run at once,    *)
(* the reasoning tasks (RTs) the steps pop from the persona queue or       *)
(* create, and the follow-up chains of dispatch_to.                        *)
(*                                                                         *)
(* asyncio.gather raises the first failure of a group and leaves the other *)
(* steps running.  Such strays belong to a drive that is over; a drive has *)
(* a number for that.  Leases, wake-ups and admission of requests are the  *)
(* subject of PersonaQueue and ChainEngine.                                *)
(***************************************************************************)
EXTENDS PipelineLoad, QueueOps, FiniteSets, TLC

CONSTANTS
    Root,           \* the pipeline of the first chain
    MaxSelf,        \* max_self_recursion
    MaxChains,      \* bound: chains
    MaxRts,         \* bound: RTs
    MaxFaults,      \* bound: failing calls and RTs
    MaxCrashes      \* bound: restarts of the DRO

RawSteps(p) == UNION {ToSet(File[p].groups[k]) : k \in DOMAIN File[p].groups}

ASSUME StepTreeAssumption ==
    /\ Root \in Pipelines /\ MaxSelf \in Nat
    /\ {MaxChains, MaxRts, MaxFaults, MaxCrashes} \subseteq Nat

\* What the pipeline files keep to and no code checks: no step id comes twice in a pipeline,
\* and a step reads steps of earlier groups only.
ASSUME PipelineFiles ==
    \A p \in Pipelines :
        /\ File[p].groups \in Seq(Seq(RawSteps(p)))
        /\ File[p].actions \in Seq(Seq(Pipelines))
        /\ \A raw \in RawSteps(p) : raw.tool \in BOOLEAN
        /\ \A j, k \in DOMAIN StepsOf(p) :
              \A h \in DOMAIN StepsOf(p)[j], i \in DOMAIN StepsOf(p)[k] :
                 LET a == StepsOf(p)[j][h]
                     b == StepsOf(p)[k][i]
                 IN  /\ a.id = b.id => j = k /\ h = i
                     /\ a.id \in b.reads => j < k

VARIABLES
    chain,          \* the chains of the content manager, in the order they were created
    rt,             \* the RTs, in the order they were created
    queue,          \* the pending RTs of the persona
    w,              \* the worker
    tasks,          \* the steps that run, of the worker's drive and strays
    ctx,            \* context["steps"] of the worker's drive: outputs by step id
    drives,         \* drives begun
    faults, crashes

vars == <<chain, rt, queue, w, tasks, ctx, drives, faults, crashes>>
bounds == <<faults, crashes>>

NewChain(p, parent, ancestors) ==
    [pipe |-> p, parent |-> parent, ancestors |-> ancestors, status |-> "pending",
     drives |-> 0, strayed |-> FALSE, cut |-> FALSE]

NewRt(c, s) == [chain |-> c, step |-> s, state |-> "pending", input |-> NoNames, output |-> "none"]

\* Off the drive: which chain, which group of its steps and which follow-ups are left.
Free == [pc |-> "select", chain |-> 0, again |-> FALSE, resume |-> {}, drive |-> 0, group |-> 0, todo |-> <<>>]

ChainIds == DOMAIN chain
PipeOf(c) == StepsOf(chain[c].pipe)
StepsAt(c, k) == ToSet(PipeOf(c)[k])
AllSteps(p) == UNION {ToSet(StepsOf(p)[k]) : k \in DOMAIN StepsOf(p)}

\* _enqueue_all_rts: the RTs of a chain's steps, group after group.
RtsOfStep(c, s) == IF s.llm \/ s.tool THEN <<NewRt(c, s.id)>> ELSE <<>>
RtsFor(c, p) ==
    FlattenSeq([k \in DOMAIN StepsOf(p) |->
        FlattenSeq([i \in DOMAIN StepsOf(p)[k] |-> RtsOfStep(c, StepsOf(p)[k][i])])])

\* persona_queue_push of RTs that follow the n RTs there are.
Places(n, rts) == [i \in 1..Len(rts) |-> n + i]

Init ==
    /\ chain = <<NewChain(Root, 0, <<>>)>>
    /\ rt = RtsFor(1, Root)
    /\ queue = Places(0, RtsFor(1, Root))
    /\ w = Free
    /\ tasks = {} /\ ctx = NoNames /\ drives = 0
    /\ faults = 0 /\ crashes = 0

-----------------------------------------------------------------------------
(* One step: its RT, its input, its execution. *)

Move(t, u) == tasks' = (tasks \ {t}) \cup {u}

RtsOfChain(c) == {r \in DOMAIN rt : rt[r].chain = c}

\* persona_queue_pop with a chain takes the first RT of the chain: its place in the queue,
\* the RT, 0 if there is none, and what is left.
Place(c) == CHOOSE i \in DOMAIN queue : IsFirst(i, queue, RtsOfChain(c))
Popped(c) == IF HasEntry(queue, RtsOfChain(c)) THEN queue[Place(c)] ELSE 0
Rest(c) == IF HasEntry(queue, RtsOfChain(c)) THEN RemoveAt(queue, Place(c)) ELSE queue

\* Mutant: any RT of the chain will do.
AnyRtServes(t, r) == r # 0

\* The popped RT is this step's and has not been done.
Serves(t, r) == r # 0 /\ rt[r].step = t.step.id /\ rt[r].state # "done"

\* substitute_placeholders: the outputs the step reads; a path without a value is None,
\* here left out.  What _resolve_inject_context fetches for a tool is always there.
Substituted(t) == [id \in t.step.reads \cap DOMAIN t.ctx |-> t.ctx[id]]

\* The output as the next steps see it: the structured part of an answer of the model,
\* the whole result of a tool.
InContext(s) == IF s.llm /\ s.result = "structured" THEN "inner" ELSE s.result

\* The output as the RT records it: a tool's result that is no object is wrapped.
Recorded(s) == IF s.tool /\ s.result = "list" THEN "wrapped" ELSE s.result

BeginRt(t, r) ==
    /\ rt' = [rt EXCEPT ![r].state = "in_flight", ![r].input = Substituted(t)]
    /\ Move(t, [t EXCEPT !.pc = "run", !.rt = r])

\* _pop_or_create_step_rt: an RT that is missing or another step's is created anew.
PopStepRt(t) ==
    /\ t.pc = "pop"
    /\ queue' = Rest(t.chain)
    /\ LET r == Popped(t.chain) IN
       IF Serves(t, r) THEN BeginRt(t, r)
       ELSE Move(t, [t EXCEPT !.pc = "push"]) /\ UNCHANGED rt
    /\ UNCHANGED <<chain, w, ctx, drives, bounds>>

\* _create_and_push_rt.
PushStepRt(t) ==
    /\ t.pc = "push" /\ Len(rt) < MaxRts
    /\ rt' = Append(rt, NewRt(t.chain, t.step.id))
    /\ queue' = Append(queue, Len(rt'))
    /\ Move(t, [t EXCEPT !.pc = "repop", !.rt = Len(rt')])
    /\ UNCHANGED <<chain, w, ctx, drives, bounds>>

\* The second pop takes whatever RT of the chain comes first; the step runs its new one.
RepopStepRt(t) ==
    /\ t.pc = "repop"
    /\ queue' = Rest(t.chain)
    /\ BeginRt(t, t.rt)
    /\ UNCHANGED <<chain, w, ctx, drives, bounds>>

\* A context with the output of a step.
WithOutput(f, s) ==
    [id \in DOMAIN f \cup {s.id} |-> IF id = s.id THEN InContext(s) ELSE f[id]]

\* The output is recorded and reaches the context its drive reads.
Completed(t) ==
    /\ t.pc = "run"
    /\ rt' = [rt EXCEPT ![t.rt].state = "done", ![t.rt].output = Recorded(t.step)]
    /\ tasks' = {[u EXCEPT !.ctx = IF u.drive = t.drive THEN WithOutput(@, t.step) ELSE @] :
                      u \in tasks \ {t}}
    /\ ctx' = IF t.drive = w.drive THEN WithOutput(ctx, t.step) ELSE ctx
    /\ UNCHANGED <<chain, queue, w, drives, bounds>>

StepDone(t) == t.step.llm /\ Completed(t)

ToolDone(t) == t.step.tool /\ Completed(t)

\* The drive is over, its steps that still run are strays.
Strayed(c, drive) == [chain EXCEPT ![c].strayed = @ \/ \E u \in tasks' : u.drive = drive]

\* A call of the step fails, or its RT; the RT is marked if it was begun.  The first
\* failure of a group ends the drive, the others are nobody's.
StepFails(t) ==
    /\ faults < MaxFaults /\ faults' = faults + 1
    /\ tasks' = tasks \ {t}
    /\ rt' = IF t.pc = "run" THEN [rt EXCEPT ![t.rt].state = "failed"] ELSE rt
    /\ IF t.drive = w.drive /\ w.pc = "steps"
       THEN /\ w' = [w EXCEPT !.pc = "fail", !.group = 0]
            /\ chain' = Strayed(t.chain, t.drive)
       ELSE UNCHANGED <<w, chain>>
    /\ UNCHANGED <<queue, ctx, drives, crashes>>

-----------------------------------------------------------------------------
(* The worker. *)

\* The next chain: one to resume, or the one the head of the queue belongs to.
Select ==
    /\ w.pc = "select"
    /\ \/ \E c \in w.resume :
             w' = [w EXCEPT !.pc = "start", !.chain = c, !.again = TRUE,
                             !.resume = @ \ {c}]
       \/ /\ w.resume = {} /\ queue # <<>>
          /\ w' = [w EXCEPT !.pc = "start", !.chain = rt[Head(queue)].chain, !.again = FALSE]
    /\ UNCHANGED <<chain, rt, queue, tasks, ctx, drives, bounds>>

\* The task of each step of group k, started at once with the outputs there are; a step
\* whose output was restored is skipped, one of neither or of both kinds raises.
Begun(c, k, done, drive) ==
    {[drive |-> drive, chain |-> c, step |-> s, pc |-> "pop", rt |-> 0, ctx |-> done] :
        s \in {x \in StepsAt(c, k) : x.id \notin DOMAIN done /\ (x.llm # x.tool)}}

Malformed(c, k, done) == \E s \in StepsAt(c, k) : s.id \notin DOMAIN done /\ (s.llm = s.tool)

LastRt(c, id) ==
    LET rts == {r \in DOMAIN rt : rt[r].chain = c /\ rt[r].step = id}
    IN  CHOOSE r \in rts : \A q \in rts : q <= r

\* The last enqueued RT of the step is done.
WasDone(c, s) ==
    /\ \E r \in DOMAIN rt : rt[r].chain = c /\ rt[r].step = s.id
    /\ rt[LastRt(c, s.id)].state = "done"

\* _rehydrate_done_steps: the recorded outputs, unwrapped whatever made them.
Rehydrated(c) ==
    [id \in {s.id : s \in {x \in AllSteps(chain[c].pipe) : WasDone(c, x)}} |->
        LET out == rt[LastRt(c, id)].output IN IF out = "structured" THEN "inner" ELSE out]

\* _drive_chain up to its steps; only a chain taken from the resume set is rehydrated.
Start ==
    /\ w.pc = "start"
    /\ LET c == w.chain
           done == IF w.again THEN Rehydrated(c) ELSE NoNames
       IN  /\ chain' = [chain EXCEPT ![c].status = "active", ![c].drives = @ + 1]
           /\ drives' = drives + 1
           /\ ctx' = done
           /\ w' = [w EXCEPT !.pc = "steps", !.drive = drives + 1, !.group = 0]
    /\ UNCHANGED <<rt, queue, tasks, bounds>>

Running == {t \in tasks : t.drive = w.drive}

\* Mutant: the next group does not wait for the last one.
AnyTime == TRUE

\* gather has all its results.
GroupOver == Running = {}

NextGroup ==
    /\ w.pc = "steps" /\ GroupOver
    /\ LET c == w.chain
           k == w.group + 1
       IN  IF k > Len(PipeOf(c))
           THEN w' = [w EXCEPT !.pc = "handoff", !.group = 0] /\ UNCHANGED <<chain, tasks>>
           ELSE /\ tasks' = tasks \cup Begun(c, k, ctx, w.drive)
                /\ IF Malformed(c, k, ctx)
                   THEN /\ w' = [w EXCEPT !.pc = "fail", !.group = 0]
                        /\ chain' = Strayed(c, w.drive)
                   ELSE w' = [w EXCEPT !.group = k] /\ UNCHANGED chain
    /\ UNCHANGED <<rt, queue, ctx, drives, bounds>>

\* The guard against self-recursion: a pipeline that calls itself, with its occurrences
\* among the ancestors.
Guarded(c, q) ==
    /\ q = chain[c].pipe
    /\ Len(SelectSeq(chain[c].ancestors, LAMBDA a : a = q)) + 1 > MaxSelf

\* The calls of an action that are left.
Unguarded(c, action) ==
    FlattenSeq([i \in DOMAIN action |-> IF Guarded(c, action[i]) THEN <<>> ELSE <<action[i]>>])

LastStep(c) == Last(Last(PipeOf(c)))

\* The actions the chain may end with: the only one, or one the model was shown (the
\* dispatch_choice_guide of the last step) and names.  A tool names none.
ActionsOpen(c) ==
    LET actions == File[chain[c].pipe].actions IN
    IF Len(actions) = 1 \/ LastStep(c).llm THEN DOMAIN actions ELSE {}

\* resolve_dispatch: the chosen action without the guarded calls; a choice that is
\* missing or out of range fails the chain.
Resolve ==
    /\ w.pc = "handoff" /\ w.group = 0
    /\ LET c == w.chain
           actions == File[chain[c].pipe].actions
       IN  \/ /\ actions = <<>>
              /\ w' = [w EXCEPT !.pc = "finish"]
              /\ UNCHANGED faults
           \/ \E i \in ActionsOpen(c) :
              /\ w' = [w EXCEPT !.group = 1,
                                !.todo = Unguarded(c, actions[i])]
              /\ UNCHANGED faults
           \/ /\ Len(actions) > 1 /\ w' = [w EXCEPT !.pc = "fail"]
              /\ IF ActionsOpen(c) = {} THEN UNCHANGED faults
                 ELSE faults < MaxFaults /\ faults' = faults + 1
    /\ UNCHANGED <<chain, rt, queue, tasks, ctx, drives, crashes>>

Waiting(p) == {c \in ChainIds : chain[c].pipe = p /\ chain[c].status = "pending"}

\* run_chain of a follow-up with a fresh id: a pipeline that does not load raises, a waiting
\* chain of the pipeline absorbs it, otherwise the chain and its RTs are created.
HandOff ==
    /\ w.pc = "handoff" /\ w.group = 1 /\ w.todo # <<>>
    /\ LET c == w.chain
           q == Head(w.todo)
           rest == [w EXCEPT !.todo = Tail(@)]
           id == Len(chain) + 1
           rts == RtsFor(id, q)
       IN  \/ /\ ~Loads(q)
              /\ w' = [w EXCEPT !.pc = "fail", !.todo = <<>>]
              /\ UNCHANGED <<chain, rt, queue>>
           \/ /\ Loads(q) /\ Waiting(q) # {}
              /\ w' = rest
              /\ UNCHANGED <<chain, rt, queue>>
           \/ /\ Loads(q) /\ Waiting(q) = {}
              /\ Len(chain) < MaxChains /\ Len(rt) + Len(rts) <= MaxRts
              /\ chain' = Append(chain, NewChain(q, c, Append(chain[c].ancestors, chain[c].pipe)))
              /\ rt' = rt \o rts
              /\ queue' = queue \o Places(Len(rt), rts)
              /\ w' = rest
    /\ UNCHANGED <<tasks, ctx, drives, bounds>>

HandedOff ==
    /\ w.pc = "handoff" /\ w.group = 1 /\ w.todo = <<>>
    /\ w' = [w EXCEPT !.pc = "finish"]
    /\ UNCHANGED <<chain, rt, queue, tasks, ctx, drives, bounds>>

\* The chain is marked done, or failed, and its RTs left over are drained.
Settle ==
    /\ w.pc \in {"finish", "fail"}
    /\ chain' = [chain EXCEPT ![w.chain].status = IF w.pc = "finish" THEN "done" ELSE "failed"]
    /\ w' = [w EXCEPT !.pc = "drain", !.group = 0, !.todo = <<>>, !.drive = 0]
    /\ UNCHANGED <<rt, queue, tasks, ctx, drives, bounds>>

\* Mutant: the drain ends after one RT.
OneTaken(r) == TRUE

\* The pop of the drain finds no RT of the chain.
NoneLeft(r) == r = 0

\* _drain_chain_pending: one RT after the other, until the pop finds none.
Drain ==
    /\ w.pc = "drain"
    /\ LET r == Popped(w.chain) IN
       IF NoneLeft(r)
       THEN w' = [w EXCEPT !.pc = "select", !.chain = 0] /\ ctx' = NoNames /\ UNCHANGED <<rt, queue>>
       ELSE /\ queue' = Rest(w.chain)
            /\ rt' = [rt EXCEPT ![r].state = "failed"]
            /\ UNCHANGED <<w, ctx>>
    /\ UNCHANGED <<chain, tasks, drives, bounds>>

HandingOff == w.group = 1 /\ w.pc \in {"handoff", "finish", "fail"}

\* Mutant: the scan leaves out the failed chains only.
NotFailed == {c \in ChainIds : chain[c].status # "failed"}

\* list_active_chains.
Unfinished == {c \in ChainIds : chain[c].status \in {"pending", "active"}}

\* The DRO restarts: tasks are gone, every chain that is not over is resumed.
Restart ==
    /\ crashes < MaxCrashes /\ crashes' = crashes + 1
    /\ w' = [Free EXCEPT !.resume = Unfinished]
    /\ chain' = [c \in ChainIds |-> [chain[c] EXCEPT !.cut = @ \/ (c = w.chain /\ HandingOff)]]
    /\ tasks' = {} /\ ctx' = NoNames
    /\ UNCHANGED <<rt, queue, drives, faults>>

Next ==
    \/ \E t \in tasks :
          PopStepRt(t) \/ PushStepRt(t) \/ RepopStepRt(t) \/ StepDone(t)
          \/ ToolDone(t) \/ StepFails(t)
    \/ Select \/ Start \/ NextGroup \/ Resolve \/ HandOff \/ HandedOff \/ Settle \/ Drain
    \/ Restart

Spec == Init /\ [][Next]_vars

-----------------------------------------------------------------------------
\* The RT a step executes is its own and no other step executes it, however the pops of a
\* group are ordered (orchestrator.py, _pop_or_create_step_rt under gather).
RunsOwnRt ==
    \A t \in tasks : t.pc = "run" =>
        /\ rt[t.rt].chain = t.chain /\ rt[t.rt].step = t.step.id
        /\ \A u \in tasks \ {t} :
              u.pc = "run" /\ u.rt = t.rt => u.drive # t.drive /\ chain[t.chain].strayed

\* A step is executed with every output it reads, as the step that made it left it, also
\* after a restart; only the result of a tool that is no plain object is not restored as
\* it was (orchestrator.py, _run_steps; worker.py, _rehydrate_done_steps).
InputsComplete ==
    \A t \in tasks : t.pc = "run" =>
        \A s \in AllSteps(chain[t.chain].pipe) : s.id \in t.step.reads =>
            /\ s.id \in DOMAIN rt[t.rt].input
            /\ \/ rt[t.rt].input[s.id] = InContext(s)
               \/ s.tool /\ s.result # "object" /\ crashes > 0

\* The queue never makes the worker drive a chain again that is over: drained chains stay
\* drained, except through a step that outlived its failed group (worker.py,
\* _drain_chain_pending).
DrivenAgainOnlyByStray ==
    \A c \in ChainIds : chain[c].drives > 1 + crashes => chain[c].strayed

\* A chain calls a follow-up pipeline once, unless a restart cut its hand-off before it was
\* marked done or a stray had it driven again (worker.py, _drive_chain).
FollowUpOnce ==
    \A a, b \in ChainIds :
        (/\ a < b /\ chain[a].parent = chain[b].parent /\ chain[a].parent # 0
         /\ chain[a].pipe = chain[b].pipe)
            => chain[chain[a].parent].cut \/ chain[chain[a].parent].strayed
=============================================================================
