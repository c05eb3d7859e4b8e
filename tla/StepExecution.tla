---------------------------- MODULE StepExecution ----------------------------
(***************************************************************************)
(* The executions of the RTs of one persona: the DRO asks the Actor, the   *)
(* Actor admits an execution to a slot, reads the context of the chain,    *)
(* calls the vendor with retries and a fallback model, and writes the      *)
(* context and the RT.                                                     *)
(*                                                                         *)
(* A chain runs the groups of its RTs one after the other, the RTs of a    *)
(* group at once.  An execution whose DRO has gone is cut at some await or *)
(* runs on, as the server notices or not.  A vendor need not answer: no    *)
(* time limit of the Actor ends a call.                                    *)
(***************************************************************************)
EXTENDS AgentContext, FiniteSets, TLC

CONSTANTS
    Chains, Rts,
    Plan,           \* Plan[c]: the groups of the chain's RTs
    ToolRts,        \* the RTs that call a tool
    HasSchema,      \* the RTs with a response schema
    Parts,          \* Parts[r]: what the prompt of the RT is made of
    Configs,        \* engine.config, as far as it is about the persona: [sdk, model, fallback]
    Unlisted,       \* the configuration that does not list the persona
    PersonaSlots, ToolSlots,
    SchemaRetry,
    BusyBackoff, BusyBackoffMax, RetryBudget,
    MaxExecs, MaxFaults, MaxRestarts    \* bounds: executions at once, failures, restarts of either

ASSUME StepExecutionAssumption ==
    /\ ToolRts \subseteq Rts /\ HasSchema \subseteq Rts
    /\ {PersonaSlots, ToolSlots, BusyBackoff, MaxExecs} \subseteq Nat \ {0}
    /\ {SchemaRetry, BusyBackoffMax, RetryBudget, MaxFaults, MaxRestarts} \subseteq Nat
    /\ Unlisted \notin Configs /\ \A cfg \in Configs : cfg.sdk \in Vendors

\* An RT is made for one step of one chain.
ASSUME PlanAssumption ==
    /\ IsFiniteSet(Rts) /\ Plan \in [Chains -> Seq(SUBSET Rts)]
    /\ \A r \in Rts : \E c \in Chains : \E k \in DOMAIN Plan[c] : r \in Plan[c][k]
    /\ \A c, d \in Chains : \A j \in DOMAIN Plan[c], k \in DOMAIN Plan[d] :
          Plan[c][j] \cap Plan[d][k] # {} => c = d /\ j = k

VARIABLES
    config,         \* the configuration the Actor was built with
    ask,            \* what the DRO does for each RT
    rec,            \* the state of each RT as the content manager has it
    context,        \* agent_state of each chain
    exec,           \* the Actor's executions
    used,           \* slots in use, of each pool
    faults, restarts,
    resumed,        \* the DRO has restarted
    overwritten,    \* history: turns in a context that an execution wrote over unseen
    redone          \* history: RTs begun when the context told their turn already

actorVars == <<config, exec, used>>
bounds == <<faults, restarts>>
history == <<resumed, overwritten, redone>>
vars == <<config, ask, rec, context, exec, used, bounds, history>>

ChainOf(r) == CHOOSE c \in Chains : \E k \in DOMAIN Plan[c] : r \in Plan[c][k]
RtsOf(c) == UNION {Plan[c][k] : k \in DOMAIN Plan[c]}
Pool(r) == IF r \in ToolRts THEN "tool" ELSE "persona"
Cap == [persona |-> PersonaSlots, tool |-> ToolSlots]
Told(c) == ToSet(TurnsOf(context[c].items))

Idle == [st |-> "idle", delay |-> 0, waited |-> 0]
Over(st) == [Idle EXCEPT !.st = st]
NoExec == [rt |-> "none", pc |-> "gone", client |-> FALSE, slot |-> FALSE, prior |-> NoContext,
           model |-> "none", retries |-> 0, items |-> <<>>, reply |-> "none"]

Live == {x \in DOMAIN exec : exec[x].pc # "gone"}
Holds(pool) == {x \in Live : exec[x].slot /\ Pool(exec[x].rt) = pool}
Streams(r) == {x \in Live : exec[x].rt = r /\ exec[x].client}

Init ==
    /\ config \in Configs
    /\ ask = [r \in Rts |-> Idle]
    /\ rec = [r \in Rts |-> "queued"]
    /\ context = [c \in Chains |-> NoContext]
    /\ exec = [x \in 1..MaxExecs |-> NoExec] /\ used = [persona |-> 0, tool |-> 0]
    /\ faults = 0 /\ restarts = 0
    /\ resumed = FALSE /\ overwritten = {} /\ redone = {}

-----------------------------------------------------------------------------
(* The DRO: dispatch_with_retry and dispatch_tool. *)

\* The chain has failed: none of its other RTs is begun.
Failed(c) == \E r \in RtsOf(c) : ask[r].st = "failed"

\* _run_one_step reaches the RT: the groups before it are done.
Dispatch(r) ==
    LET c == ChainOf(r) IN
    /\ ask[r].st = "idle" /\ ~Failed(c)
    /\ \E k \in DOMAIN Plan[c] :
          r \in Plan[c][k] /\ \A j \in 1..k - 1 : \A q \in Plan[c][j] : ask[q].st = "ok"
    /\ ask' = [ask EXCEPT ![r] = [st |-> "asking", delay |-> BusyBackoff, waited |-> 0]]
    /\ rec' = [rec EXCEPT ![r] = "in_flight"]
    /\ UNCHANGED <<actorVars, context, bounds, history>>

Smaller(a, b) == IF a < b THEN a ELSE b

\* Mutant: the deadline is set anew for each attempt.
BusyForever(r) ==
    /\ ask[r].st = "asking" /\ used[Pool(r)] >= Cap[Pool(r)]
    /\ ask' = [ask EXCEPT ![r].delay = Smaller(2 * ask[r].delay, BusyBackoffMax)]
    /\ UNCHANGED <<actorVars, rec, context, bounds, history>>

\* The Actor answers 503: the DRO sleeps and asks again while the budget lasts.
\* A slow answer (lag) costs budget as well.
Busy(r) ==
    /\ ask[r].st = "asking" /\ used[Pool(r)] >= Cap[Pool(r)]
    /\ config # Unlisted \/ r \in ToolRts
    /\ \E lag \in {0, RetryBudget} :
         LET delay == Smaller(ask[r].delay, BusyBackoffMax)
             waited == ask[r].waited + lag + delay
         IN  IF waited > RetryBudget
             THEN /\ ask' = [ask EXCEPT ![r] = Over("failed")]
                  /\ rec' = [rec EXCEPT ![r] = "failed"]
             ELSE /\ ask' = [ask EXCEPT ![r] = [st |-> "asking", waited |-> waited,
                                                delay |-> Smaller(2 * delay, BusyBackoffMax)]]
                  /\ UNCHANGED rec
    /\ UNCHANGED <<actorVars, context, bounds, history>>

\* dispatch_endpoint and tool_endpoint take a slot.  A persona that is not listed gets
\* an execution without one, which refuses.
Admit(r) ==
    LET refused == config = Unlisted /\ r \notin ToolRts IN
    /\ ask[r].st = "asking"
    /\ refused \/ used[Pool(r)] < Cap[Pool(r)]
    /\ ask' = [ask EXCEPT ![r] = Over("open")]
    /\ \E x \in DOMAIN exec :
         /\ x \notin Live /\ \A y \in 1..x - 1 : y \in Live
         /\ exec' = [exec EXCEPT ![x] =
               [NoExec EXCEPT !.rt = r, !.client = TRUE, !.slot = ~refused,
                              !.pc = IF refused THEN "reply" ELSE "started",
                              !.reply = IF refused THEN "error" ELSE "none"]]
    /\ used' = IF refused THEN used ELSE [used EXCEPT ![Pool(r)] = @ + 1]
    /\ UNCHANGED <<config, rec, context, bounds, history>>

\* DISPATCH_TIMEOUT_S without a chunk, 60 seconds for a tool: the DRO gives the RT up.
Timeout(r) ==
    /\ ask[r].st = "open"
    /\ ask' = [ask EXCEPT ![r] = Over("failed")]
    /\ rec' = [rec EXCEPT ![r] = "failed"]
    /\ exec' = [x \in DOMAIN exec |-> IF x \in Streams(r) THEN [exec[x] EXCEPT !.client = FALSE]
                                      ELSE exec[x]]
    /\ UNCHANGED <<config, context, used, bounds, history>>

-----------------------------------------------------------------------------
(* The Actor: dispatcher.handle and ActorSession. *)

Local(x, e) == exec' = [exec EXCEPT ![x] = e]
At(x, pc) == [NoExec EXCEPT !.pc = pc, !.rt = exec[x].rt, !.client = exec[x].client, !.slot = exec[x].slot]
Reply(x, what) == Local(x, [At(x, "reply") EXCEPT !.reply = what])
Fault == faults < MaxFaults /\ faults' = faults + 1 /\ UNCHANGED restarts

\* create_session, with the model of the configuration.
NewSession(x, prior) ==
    [exec[x] EXCEPT !.pc = "calling", !.prior = prior, !.model = config.model, !.retries = SchemaRetry]

\* The context is read, the prompt composed.
Load(x) ==
    LET r == exec[x].rt IN
    /\ exec[x].pc = "started" /\ r \notin ToolRts
    /\ Local(x, NewSession(x, Prior(context[ChainOf(r)])))
    /\ redone' = IF r \in Told(ChainOf(r)) THEN redone \cup {r} ELSE redone
    /\ UNCHANGED <<config, ask, rec, context, used, bounds, resumed, overwritten>>

\* Something cannot be read, or the trail line not be written.
LoadFails(x) ==
    /\ exec[x].pc = "started" /\ exec[x].rt \notin ToolRts
    /\ \E part \in Parts[exec[x].rt] \cup {"rt", "agent_state", "trail"} : Aborts(part)
    /\ Reply(x, "error") /\ Fault
    /\ UNCHANGED <<config, ask, rec, context, used, history>>

\* _make_sdk_session: every call has a new session, seeded with the same prior.
Seed(e) == SeedItemsFor(e.prior, config.sdk, e.model)

\* export_items, of a call that answered.
Exported(x, valid, resent) ==
    LET e == exec[x] IN
    SessionItems(config.sdk, Seed(e),
                 Exchange(config.sdk, e.model, <<Len(Seed(e))>>,
                          Append(Preamble(e.prior, config.sdk), e.rt), valid), resent)

\* run: the answer is kept.  It fits the schema, or the RT has none, or it is no JSON:
\* only a retried answer has to be.
Answered(x) ==
    /\ exec[x].pc = "calling"
    /\ \E resent \in (IF config.sdk = "claude" THEN BOOLEAN ELSE {FALSE}) :
         Local(x, [exec[x] EXCEPT !.pc = "put", !.retries = 0, !.items = Exported(x, TRUE, resent)])
    /\ UNCHANGED <<config, ask, rec, context, used, bounds, history>>

\* run: the answer does not fit the schema, or is no JSON the second time.
Rejected(x) ==
    LET e == exec[x] IN
    /\ e.pc = "calling" /\ e.rt \in HasSchema /\ config.sdk # "fixture" /\ Fault
    /\ \/ e.retries > 0 /\ Local(x, [e EXCEPT !.items = Exported(x, FALSE, FALSE), !.retries = @ - 1,
                                              !.model = config.model])
       \/ e.retries < SchemaRetry /\ Reply(x, "error")
       \/ e.retries = 0 /\ Reply(x, "error")
    /\ UNCHANGED <<config, ask, rec, context, used, history>>

\* with_backoff gives up: a failure that does not pass, or the last of its attempts
\* (those before it are not seen outside).  _call_sdk: when the attempts are used up,
\* the fallback model is tried, if it is another one.
CallFails(x) ==
    LET e == exec[x] IN
    /\ e.pc = "calling" /\ config.sdk # "fixture" /\ Fault
    /\ \E kind \in {"overloaded", "bad_request"} :
         IF Classified(kind) = "retryable" /\ e.model = config.model /\ config.fallback # config.model
         THEN Local(x, [e EXCEPT !.model = config.fallback])
         ELSE Reply(x, "error")
    /\ UNCHANGED <<config, ask, rec, context, used, history>>

\* export_items of an OpenAI session that could not keep its input list.
Unexportable(x) ==
    /\ exec[x].pc = "calling" /\ config.sdk = "openai" /\ Fault
    /\ Reply(x, "error")
    /\ UNCHANGED <<config, ask, rec, context, used, history>>

\* put_agent_state.
Put(x) ==
    LET e == exec[x]
        c == ChainOf(e.rt)
    IN  /\ e.pc = "put"
        /\ context' = [context EXCEPT ![c] = Envelope(config.sdk, e.model, e.items)]
        /\ overwritten' = overwritten \cup (Told(c) \ ToSet(TurnsOf(e.prior.items)))
        /\ Local(x, At(x, "patch"))
        /\ UNCHANGED <<config, ask, rec, used, bounds, resumed, redone>>

\* patch_rt with the output.
Patch(x) ==
    /\ exec[x].pc = "patch"
    /\ rec' = [rec EXCEPT ![exec[x].rt] = "done"]
    /\ Reply(x, "result")
    /\ UNCHANGED <<config, ask, context, used, bounds, history>>

WriteFails(x) ==
    /\ exec[x].pc \in {"put", "patch"}
    /\ Reply(x, "error") /\ Fault
    /\ UNCHANGED <<config, ask, rec, context, used, history>>

\* tool_endpoint: the handler's result, recorded best effort, or its error.
RunTool(x) ==
    LET e == exec[x] IN
    /\ e.pc = "started" /\ e.rt \in ToolRts
    /\ \/ /\ rec' = [rec EXCEPT ![e.rt] = "done"]
          /\ Reply(x, "result") /\ UNCHANGED bounds
       \/ /\ \E what \in {"result", "error"} : Reply(x, what)
          /\ Fault /\ UNCHANGED rec
    /\ UNCHANGED <<config, ask, context, used, history>>

Freed(x) == IF exec[x].slot THEN [used EXCEPT ![Pool(exec[x].rt)] = @ - 1] ELSE used

\* The last event reaches the DRO, if it still listens, and _dispatch_rt records the
\* outcome; the finally clause of the endpoint gives the slot back.
Answer(x) ==
    LET e == exec[x]
        st == IF e.reply = "result" THEN "ok" ELSE "failed"
    IN  /\ e.pc = "reply"
        /\ Local(x, NoExec) /\ used' = Freed(x)
        /\ IF e.client
           THEN /\ ask' = [ask EXCEPT ![e.rt] = Over(st)]
                /\ rec' = [rec EXCEPT ![e.rt] = IF st = "ok" THEN "done" ELSE "failed"]
           ELSE UNCHANGED <<ask, rec>>
        /\ UNCHANGED <<config, context, bounds, history>>

\* Mutant: a stream that is cut keeps its slot.
CutKeepsSlot(x) ==
    /\ x \in Live /\ ~exec[x].client /\ exec[x].rt \notin ToolRts
    /\ Local(x, NoExec)
    /\ UNCHANGED <<config, ask, rec, context, used, bounds, history>>

\* The server notices that the DRO has gone: the stream is cancelled where it waits.
Cut(x) ==
    /\ x \in Live /\ ~exec[x].client /\ exec[x].rt \notin ToolRts
    /\ Local(x, NoExec) /\ used' = Freed(x)
    /\ UNCHANGED <<config, ask, rec, context, bounds, history>>

-----------------------------------------------------------------------------
(* Restarts. *)

\* What the DRO does for an RT once it is up again: a chain that is resumed goes on with
\* what is not done; one whose failure is on record stays as it is.
Resumed(r) == IF rec[r] = "done" THEN Over("ok") ELSE Idle

DroRestart ==
    /\ restarts < MaxRestarts /\ restarts' = restarts + 1 /\ resumed' = TRUE
    /\ \E stay \in SUBSET {c \in Chains : Failed(c)} :
         ask' = [r \in Rts |-> IF ChainOf(r) \in stay THEN Over("failed") ELSE Resumed(r)]
    /\ exec' = [x \in DOMAIN exec |-> [exec[x] EXCEPT !.client = FALSE]]
    /\ UNCHANGED <<config, rec, context, used, faults, overwritten, redone>>

\* The DRO sees the streams end without a result.
ActorRestart ==
    LET open == {r \in Rts : ask[r].st = "open"} IN
    /\ restarts < MaxRestarts /\ restarts' = restarts + 1
    /\ config' \in Configs \cup {Unlisted}
    /\ exec' = [x \in DOMAIN exec |-> NoExec]
    /\ used' = [persona |-> 0, tool |-> 0]
    /\ ask' = [r \in Rts |-> IF r \in open THEN Over("failed") ELSE ask[r]]
    /\ rec' = [r \in Rts |-> IF r \in open THEN "failed" ELSE rec[r]]
    /\ UNCHANGED <<context, faults, history>>

-----------------------------------------------------------------------------
DroNext == \E r \in Rts : Dispatch(r) \/ Busy(r) \/ Admit(r) \/ Timeout(r)
ActorNext ==
    \E x \in DOMAIN exec :
       \/ Load(x) \/ LoadFails(x) \/ Answered(x) \/ Rejected(x) \/ CallFails(x) \/ Unexportable(x)
       \/ Put(x) \/ Patch(x) \/ WriteFails(x) \/ RunTool(x) \/ Answer(x) \/ Cut(x)

Next == DroNext \/ ActorNext \/ DroRestart \/ ActorRestart

\* The event loops run; a vendor or a tool need not answer, a server need not notice.
Fairness ==
    \A r \in Rts : WF_vars(Busy(r) \/ Admit(r)) /\ WF_vars(Timeout(r))
Spec == Init /\ [][Next]_vars /\ Fairness

-----------------------------------------------------------------------------
(* Properties. *)

\* Each slot in use belongs to one execution that will give it back: none is leaked or
\* given back twice, whatever way the execution ends (slots.py, the finally clauses).
SlotsHeld == \A pool \in {"persona", "tool"} :
    used[pool] = Cardinality(Holds(pool)) /\ used[pool] <= Cap[pool]

\* The context of a chain tells the turn of every RT that is done, through retries, the
\* fallback model and a change of vendor, except a turn that another execution wrote
\* over; and that takes RTs of one group, or an execution of a DRO that restarted
\* (dispatcher.handle reads agent_state before and writes it after the calls).
TurnsKept ==
    /\ \A r \in Rts \ ToolRts : rec[r] = "done" => r \in Told(ChainOf(r)) \cup overwritten
    /\ \A r \in overwritten : resumed \/ \E k \in DOMAIN Plan[ChainOf(r)] :
          r \in Plan[ChainOf(r)][k] /\ Cardinality(Plan[ChainOf(r)][k] \ ToolRts) > 1

\* No turn is told twice, unless a DRO that restarted began the RT again after its turn
\* was written (between put_agent_state and patch_rt there is no other protection).
TurnsOnce ==
    /\ \A c \in Chains :
          LET told == TurnsOf(context[c].items)
          IN  \A j, k \in DOMAIN told : told[j] = told[k] => j = k \/ told[j] \in redone
    /\ redone # {} => resumed

\* Answers that were rejected never reach the context, and reasoning in an OpenAI context
\* is all of the model its envelope names: openai_seed_items decides by that name, and
\* another model's reasoning is refused (state.py, openai_seed_items).
ContextReplayable ==
    \A c \in Chains : \A k \in DOMAIN context[c].items :
       LET i == context[c].items[k] IN
       /\ i.valid
       /\ context[c].vendor = "openai" /\ i.part = "thought" => i.by = context[c].model

\* The calls of the DRO to the Actor come to an end, though the slots be taken for good by
\* executions that hang (dispatch_with_retry, RetryBudget): there are finitely many RTs,
\* and again and again the DRO waits for none of them.
CallsEnd == []<>(\A r \in Rts : ask[r].st \notin {"asking", "open"})
===============================================================================
