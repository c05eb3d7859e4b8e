# Youdea engine: specifications and proofs

TLA+ models of the Youdea patent engine (`src/`), the TLC instances that check
them, and TLAPS proofs of the properties that matter most. The engine is four
Python processes, each a single asyncio event loop: Nexus (gateway, `100.Nexus`),
DRO (orchestrator, `200.DRO`), Actor (LLM execution, `300.Actor`) and CM (content
manager, the only writer of S3, `400.CM`).

What makes the code hard is always one of two things: a coroutine reads something,
awaits a call, and acts on what it read; or a process stops between two of the
calls that belong together. The models therefore take one step per await: an action is
one call to another process, together with the code up to the next call. Inside CM the S3
calls are synchronous, so each CM handler is one step.

Run a model with `tlc -config <cfg> <module>.tla` and a proof with `tlapm <module>.tla`.

## 1. Inventory

| part (source) | state | operations | what is hard | what makes it correct |
|---|---|---|---|---|
| **DRO worker, admission** `200.DRO/src/worker.py` | registry of workers, one wake flag and resume set per worker, admission locks | `run_chain`, `ensure_worker`, `_worker_loop`, `_drive_chain`, `_drain_chain_pending`, `shutdown_all`, `resume_active_chains` | producers against worker, lost wake-ups, idle teardown, crash anywhere, failing CM calls | one worker per (session, persona); at most one waiting chain per pipeline; every chain ends; recovery skips nothing |
| **DRO step runner** `200.DRO/src/orchestrator.py`, `pipeline_walker.py` | step outputs in memory | enqueue all, pop or create, dispatch, record, release; groups, branches, tools, bindings | the popped RT may be another one; parallel siblings after a failure | an RT runs for the step its record names, after its predecessors |
| **DRO dispatch** `dispatcher.py`, `dispatch_resolver.py` | none | call the Actor, retry while saturated; choose follow-ups | answers lost after the output is recorded; unbounded follow-ups | a recorded output is used; self-calls are bounded |
| **DRO event hub** `event_sse.py` | subscriber queues, sequence per key | emit, subscribe | bounded queues drop the oldest | order; loss only by overflow |
| **CM persona queue** `400.CM/src/queue_store.py` | `pending` list, lease ledger | push, pop (of a chain or any), release, lazy sweep | several chains in one list; expiry against release | each RT handed out once; a chain's RTs in order; leases removed only by owner or expiry |
| **CM chain store** `chain_store.py` | chain and RT records, manifest, trail, agent_state | create, patch, append, list active | record and manifest are separate writes | what recovery reads is what happened |
| **CM document store** `store.py` | idempotency records, conversation, identities, refresh families, work documents, media | claim, append, patch, rotate, revoke, delete | claims that expire; whole-document writes | a message once; a token once |
| **Nexus message.send** `ws_inbound.py`, `message_flow.py` | none | claim, write turn, spawn roots, record, release | repeats, failures and late calls between the steps | an accepted message is recorded once and read by a chain |
| **Nexus authentication** `auth.py`, `router.py` | cookies in the browser | login, link, unlink, refresh, logout | several tabs, lost answers | no login lost, no token rotated twice |
| **Nexus event stream** `event_consumer.py`, `event_mapper.py`, `ws_manager.py` | consumers with reference counts, replay buffers, sequence numbers | acquire, release, emit, replay | replay against live events; counters that restart | no gap without a resync |
| **Nexus works** `router.py` | none | create, rename, phase transition, roadmap, media, draft | check, await, act | idempotent creation; no lost update |
| **Actor** `slots.py`, `dispatcher.py`, `actor_session.py`, `llm/` | slot counters, agent_state of a chain | acquire, run with vendor retry, record, release | state read before and written after minutes; slots of streams that break | no slot leaks; state and output belong together |

The parts talk by HTTP: Nexus spawns chains in the DRO (`POST /control/spawn`), the
DRO dispatches RTs to the Actor and reads its answer as a stream, all three call CM,
and the DRO streams raw events back to Nexus, which maps them to socket messages.
`PROJECT.json` lists every component with what is modelled of it, and every hazard at
its line.

## 2. Modules

| module | models | uses |
|---|---|---|
| `QueueOps` | what a pop may take from the list | |
| `PersonaQueue` | the persona queue with its lease ledger and clock | `QueueOps`; implements `RtHandout` |
| `RtHandout` | abstract: an RT is handed to one caller, once | |
| `ChainEngine` | producers, registry, worker loop, driving, drain, crash, shutdown, restart, failing calls; queue and chain records as the DRO sees them | `QueueOps`; implements `ChainLedger` |
| `ChainLedger` | abstract: a chain is admitted once while none of its pipeline waits; only the chain in hand changes status; one is in hand | |
| `PipelineLoad` | what the loader makes of pipeline files | |
| `StepTree` | one worker driving chains as trees of steps: parallel groups, strays, tools, inputs and outputs, rehydration, follow-up chains | `PipelineLoad`, `QueueOps` |
| `AgentContext` | agent_state: what the vendor adapters keep of a session | |
| `StepExecution` | executions of RTs: DRO retry, Actor slots, calls with retry and fallback, the two final writes | `AgentContext` |
| `MessageSend` | the handler of `message.send`, with CM's claim and conversation and the DRO's admission | |
| `EventStream` | raw hub of the DRO, consumer, mapper and socket registry of Nexus, browser tabs | |
| `RefreshFamily` | refresh and logout of one login, with the browser's cookie jar | |
| `NexusTasks` | requests of Nexus as tasks suspended in each call | |
| `AccountLinks` | login, connect, disconnect, alias | `NexusTasks` |
| `WorkDocuments` | works, titles, phases, idempotency keys, roadmap, upload tickets | `NexusTasks` |
| `WorkOutputs` | the draft of a work as a document | `NexusTasks` |
| `ObjectKeys` | keys and prefixes of the bucket | |
| `ObjectStore` | CM's document endpoints on the bucket, with its threads | `ObjectKeys`; implements `DocumentShelf` |
| `DocumentShelf` | abstract: separate documents, and works that are deleted as a whole | |
| `UserDocuments` | `AccountLinks`, `WorkDocuments` and `WorkOutputs` side by side | these three |
| `SequenceFacts` | lemmas about lists, and induction over the naturals | `QueueOps` |
| `ContentManagerProofs`, `ChainEngineProofs`, `StepTreeProofs`, `StepExecutionProofs`, `NexusProofs`, `EventStreamProofs`, `UserDocumentsProofs` | lemmas, theorems, proofs; `ContentManagerProofs` is about `PersonaQueue` and `ObjectStore`, `NexusProofs` about `MessageSend` and `RefreshFamily` | `SequenceFacts` (the first four) |
| `MCPersonaQueue`, `MCChainEngine`, `MCMessageSend`, `MCStepTree`, `MCStepExecution`, `MCEventStream`, `MCDocuments`, `MCObjectStore` | functions and symmetry for the instances | |

Each module states its properties at its end. A definition whose comment begins with
"Mutant" is not used by the specification: it is a plausible bug, kept beside the
definition it would replace, that shows a property can fail. `PROJECT.json` maps each
definition to its lines.

How the modules meet: `ChainEngine` has the queue of `PersonaQueue` without its leases;
`StepTree` starts where `ChainEngine` hands a chain to `_drive_chain`, with one worker, which
`OneDriver` justifies; its step that runs an RT is what `StepExecution` opens up;
`MessageSend` has of the engine what `ChainLedger` promises. They are not composed into one
specification: each product would be beyond TLC, and what one takes from another is a
property that is checked or proved there.

### PersonaQueue
`pending` is the list, `expires[r]` the lease of RT `r` (0: none), `clock` the clock of
CM. `holder` is the callers' view: never pushed, queued, out, given back. Every
operation holds the lock of the queue's key around its read and write, so it is one action.
The sweep of expired leases is part of push, pop and release. A pop that finds
nothing writes nothing. A release may name an RT that was never popped, because
`_pop_or_create_step_rt` may run an RT it did not pop.

### ChainEngine
State in CM: `status`, `rts` (RT records in creation order), `pending`, `leases`, and
`stepRt`, the RT of the last `rt_enqueued` line per step, all that recovery reads of the trail. State of
the process: `phase`, `lock`, `req` (calls of `run_chain`), `registry` and
`wk` (worker tasks). `strays` are RTs the Actor still runs for a DRO that died. The
program counters name the await a coroutine is at: for a request `exists`, `duplicate`,
`create`, then `push` and `trail` per step; for a worker `poll`, `clear`, `recheck`,
`wait`, `teardown` of the loop and `activate` ... `drainRelease` of one chain.

* The look at the queue is two steps (`PollQueue`, then `ClearAndDrive` or
  `ClearAndRecheck`), since the wake flag is cleared only after the answer came.
* `ensure_worker` and `wake.set()` are one step with the last `rt_enqueued`: between
  them the code awaits only a lock nobody holds across an await of another process.
* `WorkerFault` sends a worker where the `except` and `finally` clauses send it; a failing
  poll, or a failing first call of the drain, ends the task.
* `Shutdown` cancels the workers; their `finally` clauses still release and drain.
* `Execution` is external: the Actor records the output, answers, fails, or the
  connection is lost after the output was recorded.

Left out: steps of a pipeline are a sequence (groups and branches are in `StepTree`), as
is the `dispatch_to` hand-off; leases do not expire (they are advisory: only `PersonaQueue`
reads them); creation of an RT record is one step with its push.

### MessageSend
One variable per place: `idem` (claim or done record), `conv`, `chain[m][p]` (the chain
of message `m` for root pipeline `p`, whose id is derived from both), `h` (handlers),
`late` (spawns that timed out and may still be executed), `acks`. A failing call may
have been executed. The DRO is its admission, and a worker that takes a waiting
chain and reads the conversation from then on; that a waiting chain is taken is what
`ChainEngine` shows in the absence of failing calls, and `engine_forgotten` shows where it ends.

### RefreshFamily
`current`, `prev`, `grace` and `revoked` are the family record, `jar` the cookie all
tabs share, `reqs` the requests, each sent with the cookie of that moment. Tokens are
numbered by rotation. `Timely` says that requests are not under way for longer
than the 30 s of grace.

### StepTree and PipelineLoad
`chain`, `rt` and `queue` are CM's records, `w` the worker, `tasks` the coroutines of the
steps that run, `ctx` is `context["steps"]`. `asyncio.gather` raises the first failure of a
group and leaves the other steps running: such a stray keeps the number of its drive, pops from
the same queue and writes its RT when the chain has long failed. A step file that is neither an LLM
step nor a tool, or both, ends the drive as soon as the step is reached, and the steps of its group that were
begun before it become strays too (`orchestrator.py:154-172`). `PipelineLoad` makes
the groups from pipeline files as the loader does, with its shared layers and its refusals.
`InputsComplete` excuses the result of a tool that is not a plain object: after a restart it is
restored from the record in another form (`worker.py:224-233` against `orchestrator.py:782-813`).
`FollowUpOnce` excuses a hand-off cut by a restart, since follow-ups get a fresh id. `RunsOwnRt`
excuses only strays of other drives: two steps that run one RT at once are a stray and a step of a later drive, which
may be the first one (a parallel first group leaves a stray that pops for the next drive).
`PipelineFiles` is what the pipeline files keep to and no code checks: no step id comes twice in a
pipeline, and a step reads the outputs of earlier groups only. It holds of each pipeline of `src/@pipelines`.
The recursion guard (`dispatch_resolver.py:79`) counts only the pipeline itself among its
ancestors, and `worker.py:285` passes no `max_self_recursion`, so the default applies even
where the pipeline file sets it (P02.R12); real pipelines do call each other in cycles. No property
is stated of it: nothing in the repository promises that such chains end.

### StepExecution and AgentContext
`ask` is the DRO's side of an RT, `exec` the Actor's executions, `used` the slots, `context`
agent_state. The retries of one vendor call (`with_backoff`) are folded into one. Every
`finally` that gives a slot back is part of the action that ends the execution. A vendor may
never answer, and nothing in the Actor limits a call, so executions may hold their slots for good;
`CallsEnd` shows that the DRO's budget ends its side. `TurnsKept` and `TurnsOnce` say which
turns a context may lose or repeat: agent_state is read before and written after the calls, so
two RTs of one parallel group overwrite each other. `AgentContext` has all four
vendor adapters; the instance changes between Claude and OpenAI.

### EventStream
One asyncio loop runs Nexus and its locks guard sections without an await, so joining and
leaving are one step and each send is one; the list of sockets is a set, so a frame goes to them in any order. `tab` is what a browser knows, `epoch`
counts how often the numbering of the work was collected. `GapsHaveCause` excuses a tab
whose numbering restarted while it was away (`ws_manager.py:137`) and one that left during a replay
(`ws_manager.py:144`). `FramesArrive` excuses what the code drops: the oldest event of a
full queue, a broken stream, a failed fetch. The numbers of the raw hub have no reader.

### NexusTasks, AccountLinks, WorkDocuments, WorkOutputs, UserDocuments
A request is a record with the list of calls it still has to make; each call is one step, of its
own effect in CM and whatever Nexus does with the answer. A call that fails takes
effect at once or never; whether it had one, the client does not learn. The areas share no document but the context manifest, where no
writer depends on the others' fields, so `UserDocuments` follows one area at a time. The
assessment of the roadmap by a model is external: it keeps the items it was shown. In
`WorkOutputs` the invention object model is the number of its writes, and a draft is the build that
made it.

### ObjectKeys, ObjectStore, DocumentShelf
A key is a sequence of tokens, so that `startswith`, `endswith` and `split("/")` are what they
are in the code and one id may continue another. Handlers of CM do not yield; the deletion of
a work holds the loop but makes several calls, while `list_media` and `delete_media` run in
threads and browsers upload with a ticket, so these interleave. The instance
has either every kind of document without threads, or files with threads.
The answer of `delete_objects` is not looked at by the code (`Quiet`), and errors of single keys
are not modelled. `IsDocument` says what names the documents have: ids are single segments of a key, a persona
and a dialog have one of the names of the scaffolding. A file of `outputs/` named `manifest.*` would be hidden from the listing; the
program stores `draft.docx` only.

## 3. Runs

| run | question | bounds | result |
|---|---|---|---|
| `persona_queue` | does the queue keep its promises, and implement the hand-out ledger? | 4 RTs of 2 chains, lease 2, clock to 4 | holds |
| `engine_recovery` | a crash or shutdown anywhere, a repeated request: is the chain finished and no step skipped? | 1 chain, 3 steps, 2 requests, 1 crash | holds |
| `engine_wakeups` | producers against an idle or busy worker: is a wake-up lost? | 2 chains of 2 pipelines, 2 steps, 3 requests | holds |
| `engine_faults` | admission and refinement under a crash and a failing call | 2 chains of 1 pipeline, 1 step, 1 crash, 1 fault | holds |
| `engine_forgotten` | does a waiting chain get its turn? | 1 chain, 1 fault | violated |
| `step_tree` | do the steps of a group run with their own RTs and inputs; are chains driven, and follow-ups spawned, once? | a pipeline with a group, a tool and three follow-ups, 3 chains, 9 RTs, 1 fault, 1 restart | holds |
| `step_execution` | are slots given back, and contexts kept, through every way an execution ends? | 1 chain: two RTs at once, then a tool; 2 vendors; 3 executions, 1 failure, 1 restart, 1 schema retry | holds |
| `message_send` | is an accepted message recorded once, covered and read by a chain of each root? | 2 messages, 2 contents, 2 roots, 2 frames, 2 failures | holds |
| `event_stream` | does a tab see every frame once and in order, through reconnections and drops? | 2 tabs, one reconnects, 2 events, queues and buffer of 1, 1 break | holds |
| `refresh_family` | is a token rotated once, and when is a login lost? | 3 requests, 1 loss | holds |
| `documents` | what do overlapping requests on an account, on works and on a draft do to each other? | 3 requests, 2 logins of one provider, 1 key, 2 roadmap items, cap 1, 1 fault | holds |
| `object_store` | do keys and prefixes keep documents apart, and do listings tell what is there? | every kind of document, works, users and files with ids that begin alike, 3 objects, 2 threads | holds |

**Why the bounds suffice.** A hazard of the engine needs two actors and one fault. Three
steps are the fewest with a step before and after one that is recovered; two chains the
fewest for one to be driven while another is enqueued; a second worker slot is the
fewest for two to overlap; a third request repeats a chain already admitted. In `step_tree` a group of
two leaves a stray when one fails, and a third chain is a follow-up of a follow-up. In
`step_execution` two RTs at once and a third execution are the fewest where an abandoned execution overlaps
with both of its successors. In `message_send` one frame
repeats another, contradicts it, or is of the other message, and a second failure comes during
the repair of the first. In
`event_stream` queues of one overflow with the second event. In `refresh_family` three
requests are the fewest where one is overtaken twice. In `documents` a third request repeats or
undoes what two others are doing. In `object_store` a document, one whose key continues its
name, and one of the other work fit into three objects. What holds for every number of
chains, steps, faults and crashes is proved (section 4).

**Deadlock** is not checked: every one of these systems may come to rest when the clients have
sent everything the bounds allow.

**Fairness.** `ChainEngine`: an asyncio loop runs every ready task and CM answers, so a
producer that was admitted, a worker, and an execution go on (weak fairness each; a
dispatch ends by its timeout at the latest). A stopped process is restarted. That a
request is sent, a call fails, or a process dies is never forced, and no choice
between success and failure of an execution is fair. `MessageSend`: every call of a
handler is answered; the DRO takes the chains that wait. `StepExecution`: for each RT, a
request that waits is asked again (`Busy` or `Admit`) and a timer that is over fires (`Timeout`);
vendors, clients and restarts have no fairness. `EventStream`: the tasks that move an event on,
arrival, taking, mapping and sending, not the connections. `StepTree`, `NexusTasks` and
`ObjectStore` are checked for safety only.

### What the violation says
`engine_forgotten`: a CM call fails after `create_chain`. The chain waits, nobody is
woken, and later spawns of the pipeline are absorbed by it without waking anyone. Only a
restart is sure to end this (or, if it has RTs in the queue, any spawn that wakes a worker).

### What else the models show
Statements of the repository that the modelled code does not keep, without a run of their own:

* `worker.py:17-19` promises that enqueue events come first. A worker that just finished
  another chain looks at the queue without a wake-up, and starts a chain whose later RTs are still
  being pushed (`worker.py:175`). Execution is not affected, only what clients see.
* `worker.py:186` says a worker survives the failure of a chain; the pop of
  `_drain_chain_pending` in the `finally` clause is unguarded, and ends it.
* `ws_inbound.py:8-9` compares the content of a correlation id; after the claim was released
  or has expired (`ws_inbound.py:147`, `store.py:308`) another content is acknowledged while the first
  stays recorded.
* `router.py:366` (Nexus) calls the grace a protection of retries; a retry gets 204 without a
  cookie (`router.py:382`), so a lost first answer leaves the previous token in the browser, and the next
  refresh revokes the family. `LogoutExplained` says that this, and a request overtaken by two
  rotations, are the only ways.
* The comment at `actor_session.py:81` expects a fallback that names the same model to retry; the
  code raises. A first answer in prose is accepted without validation (`actor_session.py:153`).
* Disconnecting goes through the providers of the profile; a login or connect that failed
  between mapping and profile, or two connects at once, leave a mapping no disconnect finds
  (`auth.py:217-241`, excused in `NoHiddenMapping`).

Behaviour no statement excludes, which is why some properties are as weak as they are: a chain may
be driven again after it was `done` or `failed` (a crash, or a half-enqueued chain whose first RTs
were drained, or one finished while its producer was still pushing); `done` becomes `failed` if the
trail line after it fails; an RT that is `done` is overwritten with `failed` when its answer is lost
or a drain takes its entry; an If-Match check and the patch after it are two calls, so a write
between them is lost unseen; a PATCH of a missing document makes one; the scope of an upload key
lacks the work (`router.py:135`); the cap on uploads counts files, not tickets; `phase_transition`
does not look at readiness (`router.py:653`); `append_trail` takes any failing read for an
empty trail and writes only the new line (`chain_store.py:274`).

## 4. Proofs

Proved by TLAPS for all values of the constants, under the modules' `ASSUME`s only
(functions have their domains, bounds are naturals, `None` is no request and no worker):

| theorem | statement |
|---|---|
| `QueueSafe`, `QueueTyped`, `LeasesSurvive`, `QueueFifo` | the invariants and action properties of the queue |
| `QueueImplementsHandout` | `PersonaQueue` implements `RtHandout` |
| `EngineWellFormed` | the engine's state is well formed |
| `AtMostOneWaits` | at most one chain of a pipeline waits |
| `OneDriver` | at most one worker of the persona is alive |
| `EngineImplementsLedger` | `ChainEngine` implements `ChainLedger` |
| `StepsInOrder` | an RT is dispatched for its own step, with the outputs of all earlier steps on record |
| `NoStepSkipped` | a chain that completes has an output for every step, after any crash |
| `NoLostWakeup` | while no call has failed, an unfinished chain is attended to |
| `TreeInvariant` | the inductive invariant of the step tree, from which the next four follow |
| `StepsRunTheirOwnRt` | a step executes an RT of its own chain and step, and shares it only with a stray |
| `StepsHaveTheirInputs` | a step is executed with all the outputs it reads, as they were made |
| `OverChainsStayOver` | a chain is driven once more per restart at most, unless it has a stray |
| `FollowUpsAreCalledOnce` | a chain calls a follow-up pipeline once, unless a restart cut its hand-off or it has a stray |
| `KeysDistinct` | no two documents of the bucket share a key |
| `StoreIsShelf` | `ObjectStore` implements `DocumentShelf` |
| `Listings` | what the listings by prefix find is what is stored |
| `MediaListings` | a listing of files names all of them, or one was deleted meanwhile |
| `SlotsAreGivenBack` | the counter of a pool is the number of executions that hold a slot, and within its cap |
| `ContextsReplay` | a context tells accepted answers only, and holds no reasoning its model did not make |
| `TurnsToldOnce` | a context tells no turn twice, unless a DRO that restarted began the RT again |
| `TurnsAreKept` | the turn of an RT that is done is told, or was written over, at first by its own group only |
| `AcceptedMessagesRecorded` | an accepted message has one turn, at the position every answer names |
| `AcceptedMessagesCovered` | for each root pipeline a chain waits that will read the turn, or one started after it |
| `TokensRotateOnce` | a refresh token is rotated for at most one request |
| `LoginIsKept` | without a loss or a logout the browser keeps a usable token |
| `LogoutsHaveCause` | a family is revoked only after a logout, a loss, or a request overtaken twice (assumes `Timely`) |
| `SocketsAreServed` | an open socket keeps its numbering, and the consumer has one reference per handler |
| `NumbersHaveNoGaps` | a browser gets every number up to its last one, once, but for the causes named |
| `EtagsNameContent` | an `If-Match` that passes compared what the client was shown |
| `NoMappingIsHidden` | a mapped login is in its profile, but for the causes named |
| `MappingsOfOthersAreKept` | no step removes the mapping of another account (action property) |
| `KeysGiveOneResult` | one work or upload per idempotency key, but for the causes named |
| `AnswersAreKept` | an accepted answer to the roadmap does not get lost |
| `DraftPromiseIsKept` | who is told that a draft is there finds one that is new enough |

**Queue.** `IInv` is type correctness, `WaitingOnce` and `LeaseHasHolder`. It is inductive
as it stands; the one fact about sequences it needs, what removing an
element from the middle leaves, is a lemma of `SequenceFacts`. The action properties
follow from it step by step.

**Engine: admission.** Neither `WaitingAtMostOne` nor `SingleDriver` is inductive. `IInv` adds:

* `AdmissionInv`: a request in the middle of its admission holds the lock, and one
  that is about to create has looked while nobody else could create: no chain of its
  pipeline waits and its own chain does not exist. So the look and the creation act as one, although other
  steps come between. (Workers only make waiting chains fewer.)
* `RegistryInv`: while the process serves, a live worker is the registered one; while it
  stops, workers only drain and nobody holds the lock to start another; then none is left. Teardown, crash and shutdown keep this, so
  `EnsureWorkerAndWake` and `Restart` start a worker only when none lives.
* `HandInv`: a worker that drives has a chain that exists in hand, and what it and the queue refer to are
  RTs that exist. This is what gives the queue steps their types.

The proof has one lemma per action, from a few lemmas about the shapes steps share (a
worker that only moves; a step that changes one RT; a push; a pop). For the refinement,
`IInv` gives that at most one chain is in hand, and every action is one of the ledger's or a stutter.

**Engine: steps.** `StepInv` says that the trail names an RT of the step it tells of, and that
a worker's context has every earlier step and never the one in hand, each with a done RT. That is
inductive although a done RT may become `failed` or be begun again: only the RT in hand does, of the step
in hand, or one of a chain that is being drained, whose steps are over. A chain that completes
has its last step in the context, so nothing was skipped.

**Engine: wake-ups.** `UnfinishedAttended` alone is not inductive, since a worker that leaves its chain must
leave something behind that is attended to. `AttendInv` adds where each unfinished chain is
known: a producer that is about to push for it, a worker that shall recover it or has it in hand, or an
entry in the queue; and that a worker which goes to rest has nothing left to recover and drains
finished chains only. It is kept while the process serves and no call has failed;
a failing call breaks it (`engine_forgotten`).

**Step tree.** Nothing bounds the pipelines, the groups, the chains or the strays; the pipelines keep to
`PipelineFiles`. Of the four properties only `InputsComplete` and `FollowUpOnce` are in `IInv` as they are. It adds:

* `TasksOK`, `DrivesOK`: a task has an RT of its own step, whether popped, created or popped again after its own
  push; a drive is of one chain and runs a step once. Whatever is not of the drive under way is a stray, and
  its chain is marked.
* `ContextsOK`: what is in a context under a step's name is what this step made, or its restored form
  (`Seen`); the drive's context lacks of the groups so far only what still runs. An RT that is done has what
  its own step made, so rehydration restores no other step's output.
* `QueuedOK`, `QueuedNowOK`: a chain without strays never has more RTs in the queue than steps that have
  yet to pop one (`Due`, `DueNow`). A pop takes any RT of the chain, not the step's own, so only the
  numbers agree; when all groups are over, none is left, and no entry makes a worker drive the
  chain again. That is the argument for `DrivenAgainOnlyByStray`.
* `ChildrenOK`: a chain with follow-ups is calling them, or is over for good, so it cannot call them again.

The proof has a lemma per part and kind of step (`TaskStep...`, `WorkerStep...`), on what each action changes
(`...Effect`). `RtsFor`, the RTs a chain is created with, flattens a tree; what `FlattenSeq` returns for lists of any
length is proved by induction over the naturals, stated for sets (`Induction`, from `LeastNumber`,
in `SequenceFacts`), since theorems with an operator parameter cannot be instantiated.

**Bucket.** A key is cut at its first separator, and what comes before it is compared; then the rest, level by level
(`Layout`, `SegmentFacts`). Two documents of one key agree at every level, so they are one (`KeysDistinct`), and a prefix that
ends an id with its separator, or a file's with its dot, selects only documents that have that id at that level
(`FileFound`, and likewise for a work): an id that continues another does not begin with it and a separator.
`IndexFacts` does the same from the end: `list_active_chains` compares a suffix of four tokens, which no other document of a work ends with.
The listings then find what is stored. `StoreInv` says that each object is under the key of a document, that the
deletion of a work has only keys of that work left, and what each thread has in hand; it gives the refinement step by
step: a write, a patch or an upload stores, the end of a deletion or its failure closes, a batch removes
documents of that work only, and the deletion of a file removes that file or is a stutter. For
`MediaListings` it says of a listing under way that what it has and what it has left are the files it was asked for, and that
a key it has left is stored unless its file was deleted meanwhile.

**Messages.** A turn is found again by its message, so a second handler uses the first one's
(`TurnsUnique`), and whatever a handler, a record or an answer names is its position
(`PositionsTrue`). For the cover, a chain exists only for a message that has its turn, and one that
started has read all turns of then (`ChainsFollowTurns`); so a chain that waits covers every message, and
goes on to cover it once it starts. `SpawnedIsCovered` counts the roots a handler has passed.

**Refresh family.** `RotatedOnce` needs that a token once rotated is older than the current
one (`RotatedIsPast`), and that a request has a result exactly once it was answered. `LoginIsKept` needs
to know the jar while answers are under way (`JarFollows`): it has the current token, or the one
before while the answer with the current one is still to come, and no request carries a later one than the jar.
`GraceOutlasts` is where `Timely` comes in: once the grace is over, every request carries the current token.

**Event stream.** `GapsHaveCause` speaks of what a browser got; inductive is what it got together with
what is on its way. For an open socket these are the numbers from its first to the last one, each once: some
it has, some its replay still sends, the last may be in the mapper's hands (`OnlineSound`). A tab that is away has the numbers up to
its last one (`OfflineSound`), so a replay that starts after that number fits. This needs that the buffer
holds the last numbers without a hole (`BufferSound`), that a frame on its way to an open socket has the last number
(`SendSound`), and that the numbering is not collected while a socket is open (`SocketsSound`), which is the half of
`OpenIsServed` that is hard: a sender prunes only sockets that were lost before.

**Slots.** The counter equals the number of executions that hold a slot; each action changes
the two together. That needs the shape of `exec` only, not what its contexts carry.

**Contexts.** A context may have any length, so first come lemmas on what the operators of `AgentContext` return for every list:
`TurnsOf`, `ItemsToPlain` and `OpenaiSeedItems` give a list for each item and put these one after the other
(`Flat`), and that is proved, by induction over the length, to respect concatenation (`FlatConcat`) and composition
(`FlatThrough`). Hence a change of vendor keeps the turns: what the seed tells and what the preamble tells are together what the
context told (`SeedFacts`). Claude's store, fed twice with the two entries of a call, holds the seed and these two once
(`ClaudeAdds`), because ids of a call begin with the length the seed had (`OldIds`). So every export tells what was read
and the RT's own turn (`ExportFacts`). Then the invariants, for which each action is put into one of nine kinds
(`Kinds`):

* `ContextInv`: contexts, priors and exports fit their vendor (`Fits`), and an export that waits to be put tells the
  prior's turns and the RT's. It gives `ContextReplayable`.
* `OnceInv`, `KeptInv`: what holds of a context's turns holds of what each execution has read, and an RT that is done, or
  whose execution is past the put, is in the history.
* `FirstInv`: until the DRO restarts, groups run in order, each RT has at most one execution, and an RT whose turn is yet
  to be written is told nowhere (`Sequential`, `Written`); the context and the executions of a chain differ by
  turns of the group under way only (`Views`), so that is all a put can write over. Two executions of a chain are of one
  group (`OneGroup`) because an RT that was asked has all earlier groups answered.

**Accounts, works, draft.** `IInv` has one area at work, with that area's invariant, and the
documents of the others as they were at first.

* Accounts: every step of the three kinds of link requests is tied to the mapping it put or is about to put
  (`Covered`), and what it read of a profile is still there unless two requests met
  (`ConnectSound`, `DisconnectSound`, `MetTrue`). `DisconnectCalls` takes mappings away before it
  patches the profile, which is what makes a disconnect that was cut harmless.
* ETags: a stamp shown to a client is not above the document's, and one that equals it was shown with what
  is there. Every writer renews the stamp, so a match means the content of then.
* Works: unless a claim expired or an answer was lost (`shaky`), a key has one holder while it is
  claimed, and nothing is made under it before its holder makes it (`RecordTrue`). An answered item
  is in what an assessment is about to write, or an assessment that knows it is still to come (`TurnSound`).
* Draft: from the upload on, what is stored is good for the client, and whoever may still store something began no
  earlier or overlapped with it (`Good`).

**Assumptions.** The `ASSUME`s of the modules give constants their domains. Six came with these proofs:
a frame carries one of the messages (`MessageAssumption`), `None` is
no number and no kind of request (`TaskAssumption`), an RT is made for one step of one chain (`PlanAssumption`),
the configuration names vendors the Actor has an adapter for (`StepExecutionAssumption`; `_make_sdk_session` and
`parse_agent_state` refuse others), the pipelines are made as the shipped ones are
(`PipelineFiles`), and the documents are named as the program names them (`DocumentsAssumption`): ids are uuids, hashes, numbers of a
provider or names in the repository, so none is empty or has a separator in it; an uploaded file has a fresh uuid as its id,
which has no dot and no second file; a draft is not called `manifest.*`. Nothing in CM checks a path segment beyond what
the HTTP routes do, so that is what its callers keep to. A name is written as tokens in one way. TLC evaluates them in its runs.

**Checked only.** Every safety property of the runs is proved. `Settles`, `AcceptedIsRead`, `FramesArrive` and `CallsEnd`
are liveness under fairness, which is beyond the prover and stays with TLC.

## 5. Plan

Built: every component of section 1 that is modelled, and every safety property proved. A change of the program starts with
the module of its part: TLC's run shows within minutes which property it touches, and the lemma of the action that changed is the
one to prove again. The number of runs is kept small: one per component and question.

## 6. Not modelled

Prompt composition, search tools, search indexes, and the document generator
convert data and keep no protocol state. Configuration and contracts are read once at start.
Endpoints that read one document and change nothing are left out, and so are the validation of
bodies and the masking of previews. Token signing and the providers' OAuth are external. The
pipeline runner's tests and the offline tools run no part of the engine's protocols. `PROJECT.json`
gives the reason for each part.
