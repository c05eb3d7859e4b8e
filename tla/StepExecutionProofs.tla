------------------------- MODULE StepExecutionProofs -------------------------
(***************************************************************************)
(* The slots of the Actor are counted right, and the context of a chain    *)
(* tells the turns of its RTs, once, in a form its vendor takes: for any   *)
(* plan, configurations, slots and executions, failures and restarts.      *)
(***************************************************************************)
EXTENDS StepExecution, SequenceFacts

Pools == {"persona", "tool"}
Fields == {"rt", "pc", "client", "slot", "prior", "model", "retries", "items", "reply"}

\* The executions are records; what they carry of a context is left open.
Typed ==
    /\ DOMAIN exec = 1..MaxExecs
    /\ \A x \in DOMAIN exec : DOMAIN exec[x] = Fields /\ exec[x].slot \in BOOLEAN
    /\ used \in [Pools -> Nat]

SlotInv == Typed /\ SlotsHeld

-----------------------------------------------------------------------------
LEMMA PoolTyped == ASSUME NEW r PROVE Pool(r) \in Pools
BY DEF Pool, Pools

LEMMA HoldsFinite == ASSUME Typed, NEW pool PROVE IsFiniteSet(Holds(pool))
<1>1. IsFiniteSet(1..MaxExecs)
  BY FS_Interval, StepExecutionAssumption
<1> QED
  BY <1>1, FS_Subset DEF Typed, Holds, Live

\* An execution that only gets on with its work.
WorksOn(x) ==
    /\ DOMAIN exec' = DOMAIN exec /\ \A y \in DOMAIN exec \ {x} : exec'[y] = exec[y]
    /\ exec[x].pc # "gone" /\ exec'[x].pc # "gone"
    /\ DOMAIN exec'[x] = Fields
    /\ exec'[x].rt = exec[x].rt /\ exec'[x].slot = exec[x].slot
    /\ used' = used

LEMMA WorksOnKeeps == ASSUME SlotInv, NEW x \in DOMAIN exec, WorksOn(x) PROVE SlotInv'
<1>1. \A pool : Holds(pool)' = Holds(pool)
  BY DEF WorksOn, Holds, Live
<1> QED
  BY <1>1 DEF SlotInv, Typed, SlotsHeld, WorksOn, Pools

\* The steps of an execution: what they do to the record they change.
LEMMA LocalWorksOn ==
    ASSUME Typed, NEW x \in DOMAIN exec, exec[x].pc # "gone", used' = used, NEW e, Local(x, e),
           e.pc # "gone", DOMAIN e = Fields, e.rt = exec[x].rt, e.slot = exec[x].slot
    PROVE  WorksOn(x)
BY DEF Typed, Local, WorksOn

LEMMA AtShape ==
    ASSUME Typed, NEW x \in DOMAIN exec, NEW pc
    PROVE  /\ DOMAIN At(x, pc) = Fields
           /\ At(x, pc).pc = pc /\ At(x, pc).rt = exec[x].rt /\ At(x, pc).slot = exec[x].slot
BY DEF At, NoExec, Fields

LEMMA ReplyWorksOn ==
    ASSUME Typed, NEW x \in DOMAIN exec, exec[x].pc # "gone", used' = used, NEW what, Reply(x, what)
    PROVE  WorksOn(x)
<1> DEFINE e == [At(x, "reply") EXCEPT !.reply = what]
<1>1. DOMAIN At(x, "reply") = Fields /\ At(x, "reply").pc = "reply"
      /\ At(x, "reply").rt = exec[x].rt /\ At(x, "reply").slot = exec[x].slot
  BY AtShape
<1>2. DOMAIN e = Fields /\ e.pc = "reply" /\ e.rt = exec[x].rt /\ e.slot = exec[x].slot
  BY <1>1 DEF Fields
<1>3. Local(x, e)
  BY DEF Reply
<1> HIDE DEF e
<1> QED
  BY <1>2, <1>3, LocalWorksOn

LEMMA LoadWorks ==
    ASSUME Typed, NEW x \in DOMAIN exec, Load(x) \/ LoadFails(x) PROVE WorksOn(x)
<1>1. CASE Load(x)
  <2> DEFINE e == NewSession(x, Prior(context[ChainOf(exec[x].rt)]))
  <2>1. DOMAIN exec[x] = Fields
    BY DEF Typed
  <2>2. DOMAIN e = Fields /\ e.pc = "calling" /\ e.rt = exec[x].rt /\ e.slot = exec[x].slot
    BY <2>1 DEF NewSession, Fields
  <2>3. Local(x, e) /\ used' = used /\ exec[x].pc = "started"
    BY <1>1 DEF Load
  <2> HIDE DEF e
  <2> QED
    BY <2>2, <2>3, LocalWorksOn
<1>2. CASE LoadFails(x)
  BY <1>2, ReplyWorksOn DEF LoadFails
<1> QED
  BY <1>1, <1>2

LEMMA CallWorks ==
    ASSUME Typed, NEW x \in DOMAIN exec,
           Answered(x) \/ Rejected(x) \/ CallFails(x) \/ Unexportable(x)
    PROVE  WorksOn(x)
<1>1. exec[x].pc = "calling" /\ used' = used /\ DOMAIN exec[x] = Fields
  BY DEF Answered, Rejected, CallFails, Unexportable, Typed
<1>2. CASE Answered(x)
  <2>1. PICK resent : Local(x, [exec[x] EXCEPT !.pc = "put", !.retries = 0,
                                               !.items = Exported(x, TRUE, resent)])
    BY <1>2 DEF Answered
  <2> DEFINE items == Exported(x, TRUE, resent)
  <2> HIDE DEF items
  <2>2. Local(x, [exec[x] EXCEPT !.pc = "put", !.retries = 0, !.items = items])
    BY <2>1 DEF items
  <2> DEFINE e == [exec[x] EXCEPT !.pc = "put", !.retries = 0, !.items = items]
  <2>3. DOMAIN e = Fields /\ e.pc = "put" /\ e.rt = exec[x].rt /\ e.slot = exec[x].slot
    BY <1>1 DEF Fields
  <2> HIDE DEF e
  <2> QED
    BY <1>1, <2>2, <2>3, LocalWorksOn DEF e
<1>3. ASSUME NEW items, NEW retries,
             Local(x, [exec[x] EXCEPT !.items = items, !.retries = retries, !.model = config.model])
      PROVE  WorksOn(x)
  <2> DEFINE e == [exec[x] EXCEPT !.items = items, !.retries = retries, !.model = config.model]
  <2>1. DOMAIN e = Fields /\ e.pc = "calling" /\ e.rt = exec[x].rt /\ e.slot = exec[x].slot
    BY <1>1 DEF Fields
  <2> HIDE DEF e
  <2> QED
    BY <1>1, <1>3, <2>1, LocalWorksOn DEF e
<1>4. ASSUME NEW model, Local(x, [exec[x] EXCEPT !.model = model]) PROVE WorksOn(x)
  <2> DEFINE e == [exec[x] EXCEPT !.model = model]
  <2>1. DOMAIN e = Fields /\ e.pc = "calling" /\ e.rt = exec[x].rt /\ e.slot = exec[x].slot
    BY <1>1 DEF Fields
  <2> HIDE DEF e
  <2> QED
    BY <1>1, <1>4, <2>1, LocalWorksOn DEF e
<1>5. CASE Rejected(x)
  BY <1>1, <1>3, <1>5, ReplyWorksOn DEF Rejected
<1>6. CASE CallFails(x)
  BY <1>1, <1>4, <1>6, ReplyWorksOn DEF CallFails
<1>7. CASE Unexportable(x)
  BY <1>1, <1>7, ReplyWorksOn DEF Unexportable
<1> QED
  BY <1>2, <1>5, <1>6, <1>7

LEMMA WriteWorks ==
    ASSUME Typed, NEW x \in DOMAIN exec, Put(x) \/ Patch(x) \/ WriteFails(x) \/ RunTool(x)
    PROVE  WorksOn(x)
<1>1. exec[x].pc \in {"put", "patch", "started"} /\ used' = used
  BY DEF Put, Patch, WriteFails, RunTool
<1>2. CASE Put(x)
  <2>1. Local(x, At(x, "patch"))
    BY <1>2 DEF Put
  <2> QED
    BY <1>1, <2>1, AtShape, LocalWorksOn
<1>3. CASE Patch(x) \/ WriteFails(x) \/ RunTool(x)
  BY <1>1, <1>3, ReplyWorksOn DEF Patch, WriteFails, RunTool
<1> QED
  BY <1>2, <1>3

-----------------------------------------------------------------------------
(* The other steps: an execution begins or ends, or the DRO lets go of some. *)

LEMMA NoExecShape ==
    /\ DOMAIN NoExec = Fields /\ NoExec.slot = FALSE /\ NoExec.pc = "gone"
BY DEF NoExec, Fields

LEMMA NoneUsed == [persona |-> 0, tool |-> 0] \in [Pools -> Nat]
<1>1. [persona |-> 0, tool |-> 0] = [pool \in Pools |-> 0]
  BY DEF Pools
<1> QED
  BY <1>1

LEMMA CapTyped == \A pool \in {"persona", "tool"} : Cap[pool] \in Nat
BY StepExecutionAssumption DEF Cap

LEMMA InitSlotInv == Init => SlotInv
<1> SUFFICES ASSUME Init PROVE SlotInv
  OBVIOUS
<1>1. exec = [x \in 1..MaxExecs |-> NoExec] /\ used = [persona |-> 0, tool |-> 0]
  BY DEF Init
<1>2. Typed
  BY <1>1, NoExecShape, NoneUsed DEF Typed
<1>3. \A pool : Holds(pool) = {}
  BY <1>1, NoExecShape DEF Holds, Live
<1>4. \A pool \in {"persona", "tool"} : used[pool] = 0
  BY <1>1
<1>5. \A pool : Cardinality(Holds(pool)) = 0
  BY <1>3, FS_EmptySet
<1>6. SlotsHeld
  BY <1>4, <1>5, CapTyped DEF SlotsHeld
<1> QED
  BY <1>2, <1>6 DEF SlotInv

\* The DRO asks, or is told to wait: the Actor is as it was.
LEMMA AskKeeps == ASSUME SlotInv, NEW r \in Rts, Dispatch(r) \/ Busy(r) PROVE SlotInv'
<1>1. exec' = exec /\ used' = used
  BY DEF Dispatch, Busy, actorVars
<1>2. \A pool : Holds(pool)' = Holds(pool)
  BY <1>1 DEF Holds, Live
<1> QED
  BY <1>1, <1>2 DEF SlotInv, Typed, SlotsHeld

\* The DRO lets go of executions, which keep their slots.
LetsGo ==
    /\ DOMAIN exec' = DOMAIN exec /\ used' = used
    /\ \A x \in DOMAIN exec : exec'[x] = exec[x] \/ exec'[x] = [exec[x] EXCEPT !.client = FALSE]

LEMMA LetsGoKeeps == ASSUME SlotInv, LetsGo PROVE SlotInv'
<1>1. ASSUME NEW x \in DOMAIN exec
      PROVE  /\ DOMAIN exec'[x] = Fields /\ exec'[x].slot = exec[x].slot
             /\ exec'[x].pc = exec[x].pc /\ exec'[x].rt = exec[x].rt
  <2>1. DOMAIN exec[x] = Fields
    BY DEF SlotInv, Typed
  <2> DEFINE e == [exec[x] EXCEPT !.client = FALSE]
  <2>2. DOMAIN e = Fields /\ e.slot = exec[x].slot /\ e.pc = exec[x].pc /\ e.rt = exec[x].rt
    BY <2>1 DEF Fields
  <2>3. exec'[x] = exec[x] \/ exec'[x] = e
    BY DEF LetsGo
  <2> HIDE DEF e
  <2> QED
    BY <2>1, <2>2, <2>3
<1>2. \A pool : Holds(pool)' = Holds(pool)
  BY <1>1 DEF LetsGo, Holds, Live
<1>3. Typed'
  BY <1>1 DEF SlotInv, Typed, LetsGo
<1> QED
  BY <1>2, <1>3 DEF SlotInv, SlotsHeld, LetsGo

LEMMA TimeoutKeeps == ASSUME SlotInv, NEW r \in Rts, Timeout(r) PROVE SlotInv'
<1>1. LetsGo
  BY DEF Timeout, LetsGo
<1> QED
  BY <1>1, LetsGoKeeps

LEMMA DroRestartKeeps == ASSUME SlotInv, DroRestart PROVE SlotInv'
<1>1. LetsGo
  BY DEF DroRestart, LetsGo
<1> QED
  BY <1>1, LetsGoKeeps

LEMMA ActorRestartKeeps == ASSUME SlotInv, ActorRestart PROVE SlotInv'
<1>1. exec' = [x \in DOMAIN exec |-> NoExec] /\ used' = [persona |-> 0, tool |-> 0]
  BY DEF ActorRestart
<1>2. Typed'
  BY <1>1, NoExecShape, NoneUsed DEF SlotInv, Typed
<1>3. \A pool : Holds(pool)' = {}
  BY <1>1, NoExecShape DEF Holds, Live
<1>4. SlotsHeld'
  BY <1>1, <1>3, FS_EmptySet, CapTyped DEF SlotsHeld
<1> QED
  BY <1>2, <1>4 DEF SlotInv

\* An execution that begins takes the slot that admitted it.
LEMMA AdmitKeeps == ASSUME SlotInv, NEW r \in Rts, Admit(r) PROVE SlotInv'
<1> DEFINE refused == config = Unlisted /\ r \notin ToolRts
           e == [NoExec EXCEPT !.rt = r, !.client = TRUE, !.slot = ~refused,
                               !.pc = IF refused THEN "reply" ELSE "started",
                               !.reply = IF refused THEN "error" ELSE "none"]
<1>1. PICK x \in DOMAIN exec : x \notin Live /\ exec' = [exec EXCEPT ![x] = e]
  BY DEF Admit
<1>2. /\ refused \/ used[Pool(r)] < Cap[Pool(r)]
      /\ used' = IF refused THEN used ELSE [used EXCEPT ![Pool(r)] = @ + 1]
  BY DEF Admit
<1>3. /\ DOMAIN e = Fields /\ e.rt = r /\ e.slot = ~refused /\ e.slot \in BOOLEAN
      /\ e.pc # "gone"
  BY DEF NoExec, Fields
<1> HIDE DEF e
<1> HIDE DEF refused
<1>4. /\ DOMAIN exec' = DOMAIN exec /\ exec'[x] = e
      /\ \A y \in DOMAIN exec \ {x} : exec'[y] = exec[y]
  BY <1>1 DEF SlotInv, Typed
<1>5. Typed'
  <2>1. used' \in [Pools -> Nat]
    BY <1>2, PoolTyped DEF SlotInv, Typed
  <2> QED
    BY <1>3, <1>4, <2>1 DEF SlotInv, Typed
<1>6. SUFFICES ASSUME NEW pool \in Pools
               PROVE  used'[pool] = Cardinality(Holds(pool)') /\ used'[pool] <= Cap[pool]
  BY <1>5 DEF SlotInv, SlotsHeld, Pools
<1>7. used[pool] = Cardinality(Holds(pool)) /\ used[pool] <= Cap[pool] /\ used[pool] \in Nat
  BY DEF SlotInv, SlotsHeld, Typed, Pools
<1>8. IsFiniteSet(Holds(pool)) /\ x \notin Holds(pool)
  BY <1>1, HoldsFinite DEF SlotInv, Holds
<1>9. Cap[pool] \in Nat
  BY StepExecutionAssumption DEF Cap, Pools
<1>10. CASE ~refused /\ Pool(r) = pool
  <2>1. Holds(pool)' = Holds(pool) \cup {x}
    BY <1>1, <1>3, <1>4, <1>10 DEF Holds, Live
  <2>2. Cardinality(Holds(pool)') = Cardinality(Holds(pool)) + 1
    BY <1>8, <2>1, FS_AddElement
  <2>3. used'[pool] = used[pool] + 1 /\ used[pool] < Cap[pool]
    BY <1>2, <1>10 DEF SlotInv, Typed
  <2> QED
    BY <1>7, <1>9, <2>2, <2>3
<1>11. CASE refused \/ Pool(r) # pool
  <2>1. Holds(pool)' = Holds(pool)
    BY <1>1, <1>3, <1>4, <1>11 DEF Holds, Live
  <2>2. used'[pool] = used[pool]
    BY <1>2, <1>11 DEF SlotInv, Typed
  <2> QED
    BY <1>7, <2>1, <2>2
<1> QED
  BY <1>10, <1>11

\* An execution that ends gives its slot back.
LEMMA EndKeeps == ASSUME SlotInv, NEW x \in DOMAIN exec, Answer(x) \/ Cut(x) PROVE SlotInv'
<1>1. /\ exec[x].pc # "gone" /\ exec' = [exec EXCEPT ![x] = NoExec] /\ used' = Freed(x)
  BY DEF Answer, Cut, Local, Live
<1>2. /\ DOMAIN exec' = DOMAIN exec /\ exec'[x] = NoExec
      /\ \A y \in DOMAIN exec \ {x} : exec'[y] = exec[y]
  BY <1>1 DEF SlotInv, Typed
<1> DEFINE own == Pool(exec[x].rt)
<1>3. own \in Pools
  BY PoolTyped
<1>4. \A pool \in Pools : /\ used[pool] = Cardinality(Holds(pool)) /\ used[pool] \in Nat
                          /\ used[pool] <= Cap[pool] /\ Cap[pool] \in Nat
  BY StepExecutionAssumption DEF SlotInv, SlotsHeld, Typed, Pools, Cap
<1>5. exec[x].slot => /\ x \in Holds(own)
                      /\ Cardinality(Holds(own) \ {x}) = Cardinality(Holds(own)) - 1
                      /\ Cardinality(Holds(own) \ {x}) \in Nat
  <2> SUFFICES ASSUME exec[x].slot
               PROVE  /\ x \in Holds(own)
                      /\ Cardinality(Holds(own) \ {x}) = Cardinality(Holds(own)) - 1
                      /\ Cardinality(Holds(own) \ {x}) \in Nat
    OBVIOUS
  <2>1. x \in Holds(own)
    BY <1>1 DEF Holds, Live
  <2>2. IsFiniteSet(Holds(own))
    BY HoldsFinite DEF SlotInv
  <2>3. IsFiniteSet(Holds(own) \ {x})
    BY <2>2, FS_Subset
  <2> QED
    BY <2>1, <2>2, <2>3, FS_RemoveElement, FS_CardinalityType
<1>6. \A pool \in Pools : used'[pool] = IF exec[x].slot /\ pool = own THEN used[pool] - 1
                                        ELSE used[pool]
  BY <1>1, <1>3 DEF Freed, SlotInv, Typed
<1> HIDE DEF own
<1>7. Typed'
  <2>1. used' \in [Pools -> Int] /\ DOMAIN used' = Pools
    BY <1>1, <1>3 DEF Freed, SlotInv, Typed, own
  <2>2. \A pool \in Pools : used'[pool] \in Nat
    BY <1>3, <1>4, <1>5, <1>6
  <2>3. used' \in [Pools -> Nat]
    BY <2>1, <2>2
  <2> QED
    BY <1>2, <2>3, NoExecShape DEF SlotInv, Typed
<1>8. \A pool \in Pools : Holds(pool)' = IF exec[x].slot /\ pool = own THEN Holds(pool) \ {x}
                                         ELSE Holds(pool)
  BY <1>1, <1>2, NoExecShape DEF Holds, Live, SlotInv, Typed, own
<1> QED
  <2> SUFFICES ASSUME NEW pool \in Pools
               PROVE  used'[pool] = Cardinality(Holds(pool)') /\ used'[pool] <= Cap[pool]
    BY <1>7 DEF SlotInv, SlotsHeld, Pools
  <2>1. CASE exec[x].slot /\ pool = own
    BY <1>4, <1>5, <1>6, <1>8, <2>1
  <2>2. CASE ~(exec[x].slot /\ pool = own)
    BY <1>4, <1>6, <1>8, <2>2
  <2> QED
    BY <2>1, <2>2

LEMMA NextSlotInv == SlotInv /\ [Next]_vars => SlotInv'
<1> SUFFICES ASSUME SlotInv, [Next]_vars PROVE SlotInv'
  OBVIOUS
<1>1. CASE DroNext
  BY <1>1, AskKeeps, AdmitKeeps, TimeoutKeeps DEF DroNext
<1>2. CASE ActorNext
  <2>1. PICK x \in DOMAIN exec :
           \/ Load(x) \/ LoadFails(x) \/ Answered(x) \/ Rejected(x) \/ CallFails(x) \/ Unexportable(x)
           \/ Put(x) \/ Patch(x) \/ WriteFails(x) \/ RunTool(x) \/ Answer(x) \/ Cut(x)
    BY <1>2 DEF ActorNext
  <2>2. CASE Answer(x) \/ Cut(x)
    BY <2>2, EndKeeps
  <2>3. CASE ~(Answer(x) \/ Cut(x))
    <3>1. WorksOn(x)
      BY <2>1, <2>3, LoadWorks, CallWorks, WriteWorks DEF SlotInv
    <3> QED
      BY <3>1, WorksOnKeeps
  <2> QED
    BY <2>2, <2>3
<1>3. CASE DroRestart \/ ActorRestart
  BY <1>3, DroRestartKeeps, ActorRestartKeeps
<1>4. CASE UNCHANGED vars
  <2>1. exec' = exec /\ used' = used
    BY <1>4 DEF vars, actorVars
  <2>2. \A pool : Holds(pool)' = Holds(pool)
    BY <2>1 DEF Holds, Live
  <2> QED
    BY <2>1, <2>2 DEF SlotInv, Typed, SlotsHeld
<1> QED
  BY <1>1, <1>2, <1>3, <1>4 DEF Next

\* SlotsHeld: no way an execution ends, and no restart of either side, leaks a slot of the
\* Actor or gives one back twice, and no pool is ever over its limit (slots.py, the finally
\* clauses of dispatch_endpoint and tool_endpoint).
THEOREM SlotsAreGivenBack == Spec => []SlotsHeld
<1>1. SlotInv => SlotsHeld
  BY DEF SlotInv
<1> QED
  BY <1>1, InitSlotInv, NextSlotInv, PTL DEF Spec

-----------------------------------------------------------------------------
(* The items of a context, and the turns they tell. *)

\* The models a context may name.
Makers == {"none"} \cup {cfg.model : cfg \in Configs} \cup {cfg.fallback : cfg \in Configs}

Item ==
    {i \in [part : {"said", "thought"}, turns : Seq(Rts), by : Makers, id : Seq(Nat), valid : BOOLEAN] :
        i.part = "thought" => i.turns = <<>>}
Items == Seq(Item)

TurnsIn == [i \in Item |-> i.turns]
PlainOf == [i \in Item |-> IF i.part = "said" THEN <<[i EXCEPT !.by = "none", !.id = <<>>]>> ELSE <<>>]
KeptOf(same) == [i \in Item |-> IF i.part # "thought" \/ same THEN <<i>> ELSE <<>>]

LEMMA ItemFacts ==
    ASSUME NEW i \in Item
    PROVE  /\ i.turns \in Seq(Rts) /\ i.valid \in BOOLEAN /\ i.id \in Seq(Nat) /\ i.by \in Makers
           /\ i.part \in {"said", "thought"} /\ (i.part = "thought" => i.turns = <<>>)
BY DEF Item

LEMMA PlainItem ==
    ASSUME NEW i \in Item
    PROVE  /\ [i EXCEPT !.by = "none", !.id = <<>>] \in Item
           /\ [i EXCEPT !.by = "none", !.id = <<>>].turns = i.turns
           /\ [i EXCEPT !.by = "none", !.id = <<>>].part = i.part
           /\ [i EXCEPT !.by = "none", !.id = <<>>].valid = i.valid
<1>1. "none" \in Makers /\ <<>> \in Seq(Nat)
  BY DEF Makers
<1> HIDE DEF Makers
<1>2. QED
  BY <1>1 DEF Item

LEMMA ListsGiven ==
    /\ Gives(TurnsIn, Item, Rts) /\ Gives(PlainOf, Item, Item)
    /\ \A same : Gives(KeptOf(same), Item, Item)
<1>1. Gives(TurnsIn, Item, Rts)
  BY ItemFacts DEF TurnsIn, Gives
<1>2. Gives(PlainOf, Item, Item)
  <2> DEFINE Q(i) == [i EXCEPT !.by = "none", !.id = <<>>]
  <2>1. \A i \in Item : Q(i) \in Item
    BY PlainItem
  <2> HIDE DEF Q
  <2>2. \A i \in Item : (IF i.part = "said" THEN <<Q(i)>> ELSE <<>>) \in Seq(Item)
    BY <2>1
  <2>3. PlainOf = [i \in Item |-> IF i.part = "said" THEN <<Q(i)>> ELSE <<>>]
    BY DEF PlainOf, Q
  <2>4. QED
    BY <2>2, <2>3 DEF Gives
<1>3. ASSUME NEW same PROVE Gives(KeptOf(same), Item, Item)
  BY DEF KeptOf, Gives
<1>4. QED
  BY <1>1, <1>2, <1>3

\* A list, position by position, is what it is.
LEMMA ItemAt ==
    ASSUME NEW items \in Items
    PROVE  \A k \in DOMAIN items : items[k] \in Item /\ items[k] \in ToSet(items)
BY DEF Items, ToSet

LEMMA TurnsFlat == ASSUME NEW items \in Items PROVE TurnsOf(items) = Flat(TurnsIn, items)
<1>1. \A k \in DOMAIN items : TurnsIn[items[k]] = items[k].turns
  BY ItemAt DEF TurnsIn
<1>2. [k \in DOMAIN items |-> TurnsIn[items[k]]] = [k \in DOMAIN items |-> items[k].turns]
  BY <1>1
<1>3. QED
  BY <1>2 DEF TurnsOf, Flat

LEMMA PlainFlat == ASSUME NEW items \in Items PROVE ItemsToPlain(items) = Flat(PlainOf, items)
<1> DEFINE P(i) == IF i.part = "said" THEN <<[i EXCEPT !.by = "none", !.id = <<>>]>> ELSE <<>>
<1> HIDE DEF P
<1>1. \A k \in DOMAIN items : PlainOf[items[k]] = P(items[k])
  BY ItemAt DEF PlainOf, P
<1>2. [k \in DOMAIN items |-> PlainOf[items[k]]] = [k \in DOMAIN items |-> P(items[k])]
  BY <1>1
<1>3. ItemsToPlain(items) = FlattenSeq([k \in DOMAIN items |-> P(items[k])])
  BY DEF ItemsToPlain, P
<1>4. QED
  BY <1>2, <1>3 DEF Flat

LEMMA KeptFlat ==
    ASSUME NEW items \in Items, NEW stored, NEW target
    PROVE  OpenaiSeedItems(items, stored, target) = Flat(KeptOf(stored = target), items)
<1> DEFINE K(i) == IF i.part # "thought" \/ stored = target THEN <<i>> ELSE <<>>
           F == KeptOf(stored = target)
<1> HIDE DEF K
<1>1. \A k \in DOMAIN items : F[items[k]] = K(items[k])
  BY ItemAt DEF KeptOf, K
<1> HIDE DEF F
<1>2. [k \in DOMAIN items |-> F[items[k]]] = [k \in DOMAIN items |-> K(items[k])]
  BY <1>1
<1>3. OpenaiSeedItems(items, stored, target) = FlattenSeq([k \in DOMAIN items |-> K(items[k])])
  BY DEF OpenaiSeedItems, K
<1>4. QED
  BY <1>2, <1>3 DEF Flat, F

LEMMA TurnsType == ASSUME NEW items \in Items PROVE TurnsOf(items) \in Seq(Rts)
<1>1. Flat(TurnsIn, items) \in Seq(Rts)
  BY ListsGiven, FlatType DEF Items
<1>2. QED
  BY <1>1, TurnsFlat

LEMMA TurnsNone == TurnsOf(<<>>) = <<>> /\ <<>> \in Items
<1>1. <<>> \in Items
  BY DEF Items
<1>2. QED
  BY <1>1, TurnsFlat, FlatNone

LEMMA TurnsConcat ==
    ASSUME NEW a \in Items, NEW b \in Items
    PROVE  TurnsOf(a \o b) = TurnsOf(a) \o TurnsOf(b) /\ a \o b \in Items
<1>1. a \o b \in Items
  BY ConcatProperties DEF Items
<1>2. Flat(TurnsIn, a \o b) = Flat(TurnsIn, a) \o Flat(TurnsIn, b)
  BY ListsGiven, FlatConcat DEF Items
<1>3. QED
  BY <1>1, <1>2, TurnsFlat

LEMMA TurnsOne == ASSUME NEW i \in Item PROVE TurnsOf(<<i>>) = i.turns /\ <<i>> \in Items
<1>1. <<i>> \in Items
  BY DEF Items
<1>2. Flat(TurnsIn, <<i>>) = TurnsIn[i]
  BY ListsGiven, FlatOne
<1>3. QED
  BY <1>1, <1>2, TurnsFlat DEF TurnsIn

\* items_to_plain keeps every turn, and what was said only.
LEMMA PlainFacts ==
    ASSUME NEW items \in Items
    PROVE  /\ ItemsToPlain(items) \in Items
           /\ TurnsOf(ItemsToPlain(items)) = TurnsOf(items)
           /\ \A i \in ToSet(ItemsToPlain(items)) :
                 i.part = "said" /\ \E j \in ToSet(items) : i.valid = j.valid
<1> DEFINE out == Flat(PlainOf, items)
<1>1. out = ItemsToPlain(items)
  BY PlainFlat
<1>2. /\ out \in Seq(Item)
      /\ \A i : i \in ToSet(out) <=> \E k \in DOMAIN items : i \in ToSet(PlainOf[items[k]])
  BY ListsGiven, FlatType DEF Items
<1>3. Composes(TurnsIn, TurnsIn, PlainOf)
  <2>1. SUFFICES ASSUME NEW i \in Item PROVE Flat(TurnsIn, PlainOf[i]) = TurnsIn[i]
    BY DEF Composes, PlainOf
  <2>2. CASE i.part = "said"
    <3> DEFINE q == [i EXCEPT !.by = "none", !.id = <<>>]
    <3>1. PlainOf[i] = <<q>>
      BY <2>2 DEF PlainOf
    <3>2. q \in Item /\ q.turns = i.turns
      BY PlainItem
    <3> HIDE DEF q
    <3>3. Flat(TurnsIn, <<q>>) = TurnsIn[q]
      BY <3>2, ListsGiven, FlatOne
    <3>4. QED
      BY <3>1, <3>2, <3>3 DEF TurnsIn
  <2>3. CASE i.part # "said"
    <3>1. PlainOf[i] = <<>> /\ i.turns = <<>>
      BY <2>3, ItemFacts DEF PlainOf
    <3>2. QED
      BY <3>1, FlatNone DEF TurnsIn
  <2>4. QED
    BY <2>2, <2>3
<1>4. Flat(TurnsIn, out) = Flat(TurnsIn, items)
  BY <1>3, ListsGiven, FlatThrough DEF Items
<1> HIDE DEF out
<1>5. out \in Items /\ TurnsOf(out) = TurnsOf(items)
  BY <1>2, <1>4, TurnsFlat DEF Items
<1>6. ASSUME NEW i \in ToSet(out)
      PROVE  i.part = "said" /\ \E j \in ToSet(items) : i.valid = j.valid
  <2>1. PICK k \in DOMAIN items : i \in ToSet(PlainOf[items[k]])
    BY <1>2
  <2>2. items[k] \in Item /\ items[k] \in ToSet(items)
    BY ItemAt
  <2> DEFINE j == items[k]
             q == [j EXCEPT !.by = "none", !.id = <<>>]
  <2>3. q.part = j.part /\ q.valid = j.valid
    BY <2>2, PlainItem
  <2>4. PlainOf[j] = IF j.part = "said" THEN <<q>> ELSE <<>>
    BY <2>2 DEF PlainOf
  <2> HIDE DEF q, j
  <2>5. ToSet(PlainOf[j]) \subseteq {q} /\ (j.part # "said" => ToSet(PlainOf[j]) = {})
    BY <2>4 DEF ToSet
  <2>6. i = q /\ j.part = "said"
    BY <2>1, <2>5 DEF j
  <2>7. QED
    BY <2>2, <2>3, <2>6 DEF j
<1>7. QED
  BY <1>1, <1>5, <1>6

\* openai_seed_items keeps every turn, and reasoning of the model that is called only.
LEMMA KeptFacts ==
    ASSUME NEW items \in Items, NEW stored, NEW target
    PROVE  /\ OpenaiSeedItems(items, stored, target) \in Items
           /\ TurnsOf(OpenaiSeedItems(items, stored, target)) = TurnsOf(items)
           /\ \A i \in ToSet(OpenaiSeedItems(items, stored, target)) :
                 i \in ToSet(items) /\ (i.part = "thought" => stored = target)
<1> DEFINE F == KeptOf(stored = target)
           out == Flat(F, items)
<1>1. out = OpenaiSeedItems(items, stored, target)
  BY KeptFlat
<1>0. Gives(F, Item, Item)
  BY ListsGiven
<1>00. \A i \in Item : F[i] = IF i.part # "thought" \/ stored = target THEN <<i>> ELSE <<>>
  BY DEF KeptOf
<1> HIDE DEF F
<1>2. /\ out \in Seq(Item)
      /\ \A i : i \in ToSet(out) <=> \E k \in DOMAIN items : i \in ToSet(F[items[k]])
  BY <1>0, FlatType DEF Items
<1>3. Composes(TurnsIn, TurnsIn, F)
  <2>1. SUFFICES ASSUME NEW i \in Item PROVE Flat(TurnsIn, F[i]) = TurnsIn[i]
    BY <1>0 DEF Composes, Gives
  <2>2. CASE F[i] = <<i>>
    BY <2>2, ListsGiven, FlatOne
  <2>3. CASE F[i] # <<i>>
    <3>1. F[i] = <<>> /\ i.turns = <<>>
      BY <1>00, <2>3, ItemFacts
    <3>2. QED
      BY <3>1, FlatNone DEF TurnsIn
  <2>4. QED
    BY <2>2, <2>3
<1>4. Flat(TurnsIn, out) = Flat(TurnsIn, items)
  BY <1>0, <1>3, ListsGiven, FlatThrough DEF Items
<1> HIDE DEF out
<1>5. out \in Items /\ TurnsOf(out) = TurnsOf(items)
  BY <1>2, <1>4, TurnsFlat DEF Items
<1>6. ASSUME NEW i \in ToSet(out)
      PROVE  i \in ToSet(items) /\ (i.part = "thought" => stored = target)
  <2>1. PICK k \in DOMAIN items : i \in ToSet(F[items[k]])
    BY <1>2
  <2>2. items[k] \in Item /\ items[k] \in ToSet(items)
    BY ItemAt
  <2> DEFINE j == items[k]
  <2>4. F[j] = IF j.part # "thought" \/ stored = target THEN <<j>> ELSE <<>>
    BY <1>00, <2>2
  <2> HIDE DEF j
  <2>5. ToSet(F[j]) \subseteq {j} /\ (j.part = "thought" /\ stored # target => ToSet(F[j]) = {})
    BY <2>4 DEF ToSet
  <2>6. i = j /\ (j.part = "thought" => stored = target)
    BY <2>1, <2>5 DEF j
  <2>7. QED
    BY <2>2, <2>6 DEF j
<1>7. QED
  BY <1>1, <1>5, <1>6

-----------------------------------------------------------------------------
(* What a call adds to the items: Exchange and Upsert. *)

\* The ids in the list are of calls that began when it was shorter.
OldIds(items, n) == \A i \in ToSet(items) : i.id # <<>> => i.id[1] < n

LEMMA PairConcat == ASSUME NEW S, NEW s \in S, NEW t \in S PROVE <<s, t>> = <<s>> \o <<t>>
<1> DEFINE a == <<s>>
           b == <<t>>
<1>1. a \in Seq(S) /\ b \in Seq(S) /\ Len(a) = 1 /\ Len(b) = 1 /\ a[1] = s /\ b[1] = t
  OBVIOUS
<1> HIDE DEF a, b
<1>2. a \o b \in Seq(S) /\ Len(a \o b) = 2 /\ (a \o b)[1] = s /\ (a \o b)[2] = t
  <2>1. /\ a \o b \in Seq(S) /\ Len(a \o b) = Len(a) + Len(b)
        /\ \A i \in 1 .. Len(a) + Len(b) : (a \o b)[i] = IF i <= Len(a) THEN a[i] ELSE b[i - Len(a)]
    BY <1>1, ConcatProperties
  <2>2. QED
    BY <1>1, <2>1
<1> DEFINE c == a \o b
<1> HIDE DEF c
<1>3. c = <<s, t>>
  <2>1. c \in Seq(S) /\ Len(c) = 2 /\ c[1] = s /\ c[2] = t
    BY <1>2 DEF c
  <2>2. QED
    BY <2>1
<1>4. QED
  BY <1>3 DEF a, b, c
LEMMA AppendOne == ASSUME NEW S, NEW s \in S, NEW t \in S PROVE Append(<<s>>, t) = <<s, t>>
<1>1. <<s>> \in Seq(S)
  OBVIOUS
<1>2. Append(<<s>>, t) = <<s>> \o <<t>>
  BY <1>1, AppendIsConcat
<1>3. QED
  BY <1>2, PairConcat

LEMMA FirstOnly ==
    ASSUME NEW n \in Nat PROVE Min({n}) = n
BY DEF Min

\* An entry with a new id goes to the end.
LEMMA UpsertNew ==
    ASSUME NEW bucket \in Items, NEW e \in Item, \A i \in ToSet(bucket) : i.id # e.id
    PROVE  Upsert(bucket, e) = Append(bucket, e)
<1>1. \A k \in DOMAIN bucket : bucket[k].id # e.id
  BY ItemAt
<1>2. QED
  BY <1>1 DEF Upsert

\* An entry that is there, and alone has its id, changes nothing.
LEMMA UpsertSame ==
    ASSUME NEW bucket \in Items, NEW n \in DOMAIN bucket,
           \A k \in DOMAIN bucket : bucket[k].id = bucket[n].id => k = n
    PROVE  bucket[n].id # <<>> => Upsert(bucket, bucket[n]) = bucket
<1> DEFINE e == bucket[n]
           I == {i \in 1..Len(bucket) : bucket[i].id = e.id}
<1>1. bucket \in Seq(Item) /\ DOMAIN bucket = 1..Len(bucket) /\ Len(bucket) \in Nat /\ n \in Nat
  BY DEF Items
<1>2. I = {n}
  BY <1>1
<1>3. Min(I) = n /\ I # {}
  BY <1>1, <1>2, FirstOnly
<1>4. SelectInSeq(bucket, LAMBDA x : x.id = e.id) = n
  BY <1>3 DEF SelectInSeq
<1>5. [bucket EXCEPT ![n] = e] = bucket
  BY <1>1
<1> HIDE DEF e
<1>6. e.id # <<>> => Upsert(bucket, e) = bucket
  <2>1. bucket[n].id = e.id
    BY DEF e
  <2>2. QED
    BY <1>4, <1>5, <2>1 DEF Upsert
<1>7. QED
  BY <1>6 DEF e

LEMMA MirroredNone == ASSUME NEW bucket PROVE Mirrored(bucket, <<>>) = bucket
<1> DEFINE after == CHOOSE f : f = [n \in 0..0 |-> IF n = 0 THEN bucket ELSE Upsert(f[n - 1], <<>>[n])]
<1>1. \E f : f = [n \in 0..0 |-> IF n = 0 THEN bucket ELSE Upsert(f[n - 1], <<>>[n])]
  <2> DEFINE f == [n \in 0..0 |-> bucket]
  <2>1. f = [n \in 0..0 |-> IF n = 0 THEN bucket ELSE Upsert(f[n - 1], <<>>[n])]
    OBVIOUS
  <2>2. QED
    BY <2>1
<1>2. after = [n \in 0..0 |-> IF n = 0 THEN bucket ELSE Upsert(after[n - 1], <<>>[n])]
  BY <1>1
<1> HIDE DEF after
<1>3. after[0] = bucket
  BY <1>2
<1>4. Mirrored(bucket, <<>>) = after[0]
  BY DEF Mirrored, after
<1>5. QED
  BY <1>3, <1>4

LEMMA MirroredTwo ==
    ASSUME NEW bucket, NEW x, NEW y
    PROVE  Mirrored(bucket, <<x, y>>) = Upsert(Upsert(bucket, x), y)
<1> DEFINE batch == <<x, y>>
           Entry(f, n) == IF n = 0 THEN bucket ELSE Upsert(f[n - 1], batch[n])
           after == CHOOSE f : f = [n \in 0..2 |-> Entry(f, n)]
           one == Upsert(bucket, x)
           two == Upsert(one, y)
<1>1. batch[1] = x /\ batch[2] = y /\ Len(batch) = 2
  OBVIOUS
<1> HIDE DEF batch, one, two
<1>2. \E f : f = [n \in 0..2 |-> Entry(f, n)]
  <2> DEFINE f == [n \in 0..2 |-> IF n = 0 THEN bucket ELSE IF n = 1 THEN one ELSE two]
  <2>1. ASSUME NEW n \in 0..2 PROVE f[n] = Entry(f, n)
    <3>1. n \in {0, 1, 2}
      OBVIOUS
    <3>2. f[0] = bucket /\ f[1] = one /\ f[2] = two
      OBVIOUS
    <3> HIDE DEF f
    <3>3. QED
      BY <1>1, <3>1, <3>2 DEF one, two
  <2> HIDE DEF Entry
  <2>2. f = [n \in 0..2 |-> Entry(f, n)]
    BY <2>1
  <2> HIDE DEF f
  <2>3. QED
    BY <2>2
<1>3. after = [n \in 0..2 |-> Entry(after, n)]
  <2> HIDE DEF Entry
  <2>1. QED
    BY <1>2
<1> HIDE DEF after
<1>4. after[0] = bucket /\ after[1] = Upsert(after[0], batch[1]) /\ after[2] = Upsert(after[1], batch[2])
  <2> HIDE DEF Entry
  <2>1. after[0] = Entry(after, 0) /\ after[1] = Entry(after, 1) /\ after[2] = Entry(after, 2)
    BY <1>3
  <2>2. QED
    BY <2>1 DEF Entry
<1>5. Mirrored(bucket, batch) = after[2]
  BY <1>1 DEF Mirrored, after, Entry
<1>6. QED
  BY <1>1, <1>4, <1>5 DEF batch

\* The exchange of a call of the model, made when the list had n items.
Tells(ex, model, n, turns, valid) ==
    /\ ex \in Items /\ TurnsOf(ex) = turns
    /\ \A i \in ToSet(ex) : /\ i.valid = valid
                            /\ i.part = "thought" => i.by = model
                            /\ i.id # <<>> => i.id[1] = n

\* What the exchange of a call adds.
LEMMA ExchangeFacts ==
    ASSUME NEW sdk, NEW model \in Makers, NEW n \in Nat, NEW turns \in Seq(Rts), NEW valid \in BOOLEAN
    PROVE  /\ Tells(Exchange(sdk, model, <<n>>, turns, valid), model, n, turns, valid)
           /\ sdk # "fixture" => Exchange(sdk, model, <<n>>, turns, valid) =
                 <<Said(turns, model, <<n, 1>>, valid), Thought(model, <<n, 2>>, valid)>>
<1> DEFINE ex == Exchange(sdk, model, <<n>>, turns, valid)
           s == Said(turns, model, <<n, 1>>, valid)
           t == Thought(model, <<n, 2>>, valid)
           f == Said(turns, "none", <<>>, valid)
<1>1. Append(<<n>>, 1) = <<n, 1>> /\ Append(<<n>>, 2) = <<n, 2>>
      /\ <<n, 1>> \in Seq(Nat) /\ <<n, 2>> \in Seq(Nat) /\ <<>> \in Seq(Nat) /\ <<n, 1>>[1] = n /\ <<n, 2>>[1] = n
  <2>1. Append(<<n>>, 1) = <<n, 1>> /\ Append(<<n>>, 2) = <<n, 2>>
    BY AppendOne
  <2>2. <<n, 1>> \in Seq(Nat) /\ <<n, 2>> \in Seq(Nat) /\ <<>> \in Seq(Nat)
    OBVIOUS
  <2>3. <<n, 1>>[1] = n /\ <<n, 2>>[1] = n
    OBVIOUS
  <2>4. QED
    BY <2>1, <2>2, <2>3
<1>2. "none" \in Makers /\ <<>> \in Seq(Rts)
  BY DEF Makers
<1> HIDE DEF Makers
<1>3. s \in Item /\ s.turns = turns /\ s.valid = valid /\ s.part = "said" /\ s.id = <<n, 1>>
  BY <1>1 DEF Said, Item
<1>4. t \in Item /\ t.turns = <<>> /\ t.valid = valid /\ t.by = model /\ t.id = <<n, 2>>
  BY <1>1, <1>2 DEF Thought, Item
<1>5. f \in Item /\ f.turns = turns /\ f.valid = valid /\ f.part = "said" /\ f.id = <<>>
  BY <1>1, <1>2 DEF Said, Item
<1>6. ex = IF sdk = "fixture" THEN <<f>> ELSE <<s, t>>
  BY <1>1 DEF Exchange
<1> HIDE DEF s, t, f, ex
<1>7. CASE sdk = "fixture"
  <2>1. TurnsOf(<<f>>) = turns /\ <<f>> \in Items
    BY <1>5, TurnsOne
  <2>2. ToSet(<<f>>) = {f}
    BY DEF ToSet
  <2>3. QED
    BY <1>5, <1>6, <1>7, <2>1, <2>2 DEF ex, Tells
<1>8. CASE sdk # "fixture"
  <2>1. <<s, t>> = <<s>> \o <<t>>
    BY <1>3, <1>4, PairConcat
  <2>2. TurnsOf(<<s>>) = turns /\ TurnsOf(<<t>>) = <<>> /\ <<s>> \in Items /\ <<t>> \in Items
    BY <1>3, <1>4, TurnsOne
  <2>3. TurnsOf(<<s, t>>) = turns /\ <<s, t>> \in Items
    <3>1. TurnsOf(<<s>> \o <<t>>) = TurnsOf(<<s>>) \o TurnsOf(<<t>>) /\ <<s>> \o <<t>> \in Items
      BY <2>2, TurnsConcat
    <3>2. turns \o <<>> = turns
      BY ConcatEmptySeq
    <3>3. QED
      BY <2>1, <2>2, <3>1, <3>2
  <2>4. ToSet(<<s, t>>) = {s, t}
    BY DEF ToSet
  <2>5. ex \in Items /\ TurnsOf(ex) = turns /\ ToSet(ex) = {s, t} /\ ex = <<s, t>>
    BY <1>6, <1>8, <2>3, <2>4
  <2>6. \A i \in {s, t} : /\ i.valid = valid
                          /\ i.part = "thought" => i.by = model
                          /\ i.id # <<>> => i.id[1] = n
    BY <1>1, <1>3, <1>4
  <2>7. QED
    BY <1>8, <2>5, <2>6 DEF ex, s, t, Tells
<1>9. QED
  BY <1>7, <1>8

\* A session that keeps its entries by id takes in two new ones, however often they come.
LEMMA ClaudeAdds ==
    ASSUME NEW seed \in Items, OldIds(seed, Len(seed)),
           NEW s \in Item, NEW t \in Item, NEW resent \in BOOLEAN,
           s.id = <<Len(seed), 1>>, t.id = <<Len(seed), 2>>
    PROVE  ClaudeItems(seed, <<s, t>>, resent) = seed \o <<s, t>>
<1> DEFINE n == Len(seed)
           one == Append(seed, s)
           two == Append(one, t)
<1>0. seed \in Seq(Item) /\ n \in Nat /\ DOMAIN seed = 1..n
  BY DEF Items
<1>1. s.id # t.id /\ s.id # <<>> /\ t.id # <<>> /\ s.id[1] = n /\ t.id[1] = n
  <2>1. <<n, 1>> # <<n, 2>> /\ <<n, 1>> # <<>> /\ <<n, 2>> # <<>> /\ <<n, 1>>[1] = n /\ <<n, 2>>[1] = n
    OBVIOUS
  <2>2. QED
    BY <2>1
<1>2. \A k \in 1..n : seed[k].id # s.id /\ seed[k].id # t.id
  <2>1. \A k \in 1..n : seed[k] \in ToSet(seed)
    BY <1>0, ItemAt
  <2>2. \A k \in 1..n : seed[k].id # <<>> => seed[k].id[1] < n
    BY <2>1 DEF OldIds
  <2>3. ~(n < n)
    BY <1>0
  <2> HIDE DEF n
  <2>4. QED
    BY <1>1, <2>2, <2>3
<1>3. \A i \in ToSet(seed) : i.id # s.id
  BY <1>0, <1>2 DEF ToSet
<1>4. Upsert(seed, s) = one
  BY <1>3, UpsertNew
<1>5. /\ one \in Seq(Item) /\ Len(one) = n + 1 /\ DOMAIN one = 1..n + 1
      /\ one[n + 1] = s /\ \A k \in 1..n : one[k] = seed[k]
  BY <1>0
<1> HIDE DEF n, one
<1>6. /\ two \in Seq(Item) /\ Len(two) = n + 2 /\ DOMAIN two = 1..n + 2
      /\ two[n + 2] = t /\ \A k \in 1..n + 1 : two[k] = one[k]
  BY <1>0, <1>5
<1> HIDE DEF two
<1>7. \A k \in 1..n + 1 : one[k].id # t.id
  <2>1. ASSUME NEW k \in 1..n + 1 PROVE one[k].id # t.id
    <3>1. CASE k = n + 1
      BY <1>1, <1>5, <3>1
    <3>2. CASE k # n + 1
      <4>1. k \in 1..n
        BY <1>0, <3>2
      <4>2. QED
        BY <1>2, <1>5, <4>1
    <3>3. QED
      BY <3>1, <3>2
  <2>2. QED
    BY <2>1
<1>8. Upsert(one, t) = two
  <2>1. \A i \in ToSet(one) : i.id # t.id
    BY <1>5, <1>7 DEF ToSet
  <2>2. one \in Items
    BY <1>5 DEF Items
  <2>3. QED
    BY <2>1, <2>2, UpsertNew DEF two
<1>9. two \in Items /\ n + 1 \in 1..n + 1 /\ n + 1 \in 1..n + 2 /\ n + 2 \in 1..n + 2 /\ two[n + 1] = s
  BY <1>0, <1>5, <1>6 DEF Items
<1>10. ASSUME NEW k \in 1..n + 2 PROVE (two[k].id = s.id => k = n + 1) /\ (two[k].id = t.id => k = n + 2)
  <2>1. CASE k = n + 2
    BY <1>1, <1>6, <2>1
  <2>2. CASE k = n + 1
    BY <1>1, <1>9, <2>2
  <2>3. CASE k # n + 1 /\ k # n + 2
    <3>1. k \in 1..n /\ k \in 1..n + 1
      BY <1>0, <2>3
    <3>2. two[k] = seed[k]
      BY <1>5, <1>6, <3>1
    <3>3. QED
      BY <1>2, <3>1, <3>2
  <2>4. QED
    BY <2>1, <2>2, <2>3
<1>11. Upsert(two, s) = two
  <2> DEFINE m == n + 1
  <2>1. m \in DOMAIN two /\ two[m] = s /\ \A k \in DOMAIN two : two[k].id = two[m].id => k = m
    BY <1>6, <1>9, <1>10
  <2> HIDE DEF m
  <2>2. two[m].id # <<>> => Upsert(two, two[m]) = two
    BY <1>9, <2>1, UpsertSame
  <2>3. QED
    BY <1>1, <2>1, <2>2
<1>12. Upsert(two, t) = two
  <2> DEFINE m == n + 2
  <2>1. m \in DOMAIN two /\ two[m] = t /\ \A k \in DOMAIN two : two[k].id = two[m].id => k = m
    BY <1>6, <1>9, <1>10
  <2> HIDE DEF m
  <2>2. two[m].id # <<>> => Upsert(two, two[m]) = two
    BY <1>9, <2>1, UpsertSame
  <2>3. QED
    BY <1>1, <2>1, <2>2
<1>13. Mirrored(seed, <<s, t>>) = two /\ Mirrored(two, <<s, t>>) = two /\ Mirrored(two, <<>>) = two
  <2>1. Mirrored(seed, <<s, t>>) = Upsert(Upsert(seed, s), t)
    BY MirroredTwo
  <2>2. Mirrored(two, <<s, t>>) = Upsert(Upsert(two, s), t)
    BY MirroredTwo
  <2>3. QED
    BY <1>4, <1>8, <1>11, <1>12, <2>1, <2>2, MirroredNone
<1>14. ClaudeItems(seed, <<s, t>>, resent) = two
  BY <1>13 DEF ClaudeItems
<1>15. two = seed \o <<s, t>>
  <2>1. one = seed \o <<s>>
    BY <1>0, AppendIsConcat DEF one
  <2>2. two = one \o <<t>>
    BY <1>5, AppendIsConcat DEF two
  <2>3. <<s, t>> = <<s>> \o <<t>> /\ <<s>> \in Seq(Item) /\ <<t>> \in Seq(Item)
    BY PairConcat
  <2>4. (seed \o <<s>>) \o <<t>> = seed \o (<<s>> \o <<t>>)
    BY <1>0, <2>3, ConcatAssociative
  <2>5. QED
    BY <2>1, <2>2, <2>3, <2>4
<1>16. QED
  BY <1>14, <1>15

\* What the session of a vendor holds is what it was given, and the exchange.
LEMMA SessionAdds ==
    ASSUME NEW sdk \in Vendors, NEW model \in Makers, NEW turns \in Seq(Rts), NEW valid \in BOOLEAN,
           NEW resent \in BOOLEAN, NEW seed \in Items, sdk = "claude" => OldIds(seed, Len(seed))
    PROVE  SessionItems(sdk, seed, Exchange(sdk, model, <<Len(seed)>>, turns, valid), resent)
              = seed \o Exchange(sdk, model, <<Len(seed)>>, turns, valid)
<1> DEFINE n == Len(seed)
           ex == Exchange(sdk, model, <<n>>, turns, valid)
           s == Said(turns, model, <<n, 1>>, valid)
           t == Thought(model, <<n, 2>>, valid)
<1>1. n \in Nat
  BY DEF Items
<1> HIDE DEF n
<1>2. CASE sdk = "claude"
  <2>0. sdk # "fixture"
    BY <1>2
  <2>1. ex = <<s, t>> /\ ex \in Items
    <3>1. Tells(ex, model, n, turns, valid)
      BY <1>1, ExchangeFacts
    <3>2. ex = <<s, t>>
      BY <1>1, <2>0, ExchangeFacts
    <3> HIDE DEF ex
    <3>3. QED
      BY <3>1, <3>2 DEF Tells
  <2>2. ex \in Items
    BY <2>1
  <2>3. s.id = <<Len(seed), 1>> /\ t.id = <<Len(seed), 2>>
    BY DEF Said, Thought, n
  <2> HIDE DEF s, t, ex
  <2>4. s \in Item /\ t \in Item
    <3>1. <<s, t>>[1] = s /\ <<s, t>>[2] = t /\ DOMAIN <<s, t>> = 1..2 /\ 1 \in 1..2 /\ 2 \in 1..2
      OBVIOUS
    <3>2. QED
      BY <2>1, <2>2, <3>1, ItemAt
  <2>5. ClaudeItems(seed, <<s, t>>, resent) = seed \o <<s, t>>
    BY <1>2, <2>3, <2>4, ClaudeAdds
  <2>6. SessionItems(sdk, seed, ex, resent) = ClaudeItems(seed, ex, resent)
    BY <1>2 DEF SessionItems
  <2>7. SessionItems(sdk, seed, ex, resent) = seed \o ex
    BY <2>1, <2>5, <2>6
  <2>8. QED
    BY <2>7 DEF ex, n
<1>3. CASE sdk # "claude"
  <2> HIDE DEF ex
  <2>1. SessionItems(sdk, seed, ex, resent) = seed \o ex
    BY <1>3 DEF SessionItems, Vendors, OpenaiItems, GeminiItems, FixtureItems
  <2>2. QED
    BY <2>1 DEF ex, n
<1>4. QED
  BY <1>2, <1>3

-----------------------------------------------------------------------------
(* From the context that is read to the one that is written. *)

\* The items are all of answers that were kept, and the vendor takes them with the model.
Fits(vendor, model, items) ==
    /\ items \in Items
    /\ \A i \in ToSet(items) : i.valid /\ (vendor = "openai" /\ i.part = "thought" => i.by = model)
    /\ vendor = "claude" => OldIds(items, Len(items))

LEMMA FitsNone == ASSUME NEW vendor, NEW model PROVE Fits(vendor, model, <<>>)
<1>1. ToSet(<<>>) = {}
  BY DEF ToSet
<1>2. QED
  BY <1>1, TurnsNone DEF Fits, OldIds

\* _seed_items_for and _claude_downgrade_preamble tell every turn, between them once.
LEMMA SeedFacts ==
    ASSUME NEW sdk \in Vendors, NEW model \in Makers, NEW prior,
           Fits(prior.vendor, prior.model, prior.items)
    PROVE  /\ Fits(sdk, model, SeedItemsFor(prior, sdk, model))
           /\ Preamble(prior, sdk) \in Seq(Rts)
           /\ TurnsOf(SeedItemsFor(prior, sdk, model)) \o Preamble(prior, sdk) = TurnsOf(prior.items)
<1> DEFINE items == prior.items
           seed == SeedItemsFor(prior, sdk, model)
           told == Preamble(prior, sdk)
<1>1. items \in Items /\ TurnsOf(items) \in Seq(Rts) /\ <<>> \in Seq(Rts)
  BY TurnsType DEF Fits
<1>2. /\ ItemsToPlain(items) \in Items /\ TurnsOf(ItemsToPlain(items)) = TurnsOf(items)
      /\ \A i \in ToSet(ItemsToPlain(items)) : i.part = "said" /\ \E j \in ToSet(items) : i.valid = j.valid
  BY <1>1, PlainFacts
<1>3. \A i \in ToSet(items) : i.valid /\ (prior.vendor = "openai" /\ i.part = "thought" => i.by = prior.model)
  BY DEF Fits
<1>4. TurnsOf(items) \o <<>> = TurnsOf(items) /\ <<>> \o TurnsOf(items) = TurnsOf(items)
  BY <1>1, ConcatEmptySeq
<1>5. CASE prior.vendor = sdk
  <2>1. told = <<>>
    BY <1>5 DEF Preamble
  <2>2. CASE sdk = "openai"
    <3> DEFINE kept == OpenaiSeedItems(items, prior.model, model)
    <3>1. seed = kept
      BY <1>5, <2>2 DEF SeedItemsFor
    <3>2. /\ kept \in Items /\ TurnsOf(kept) = TurnsOf(items)
          /\ \A i \in ToSet(kept) : i \in ToSet(items) /\ (i.part = "thought" => prior.model = model)
      BY <1>1, KeptFacts
    <3> HIDE DEF kept
    <3>3. Fits(sdk, model, kept)
      BY <1>3, <1>5, <2>2, <3>2 DEF Fits
    <3>4. QED
      BY <1>1, <1>4, <2>1, <3>1, <3>2, <3>3
  <2>3. CASE sdk # "openai"
    <3>1. seed = items
      BY <1>5, <2>3 DEF SeedItemsFor
    <3>2. Fits(sdk, model, items)
      BY <1>5, <2>3 DEF Fits
    <3>3. QED
      BY <1>1, <1>4, <2>1, <3>1, <3>2
  <2>4. QED
    BY <2>2, <2>3
<1>6. CASE prior.vendor # sdk
  <2>1. CASE sdk = "claude"
    <3>1. seed = <<>> /\ told = TurnsOf(ItemsToPlain(items))
      BY <1>6, <2>1 DEF SeedItemsFor, Preamble
    <3>2. QED
      BY <1>1, <1>2, <1>4, <3>1, FitsNone, TurnsNone
  <2>2. CASE sdk # "claude"
    <3>1. seed = ItemsToPlain(items) /\ told = <<>>
      BY <1>6, <2>2 DEF SeedItemsFor, Preamble
    <3>2. Fits(sdk, model, ItemsToPlain(items))
      BY <1>2, <1>3, <2>2 DEF Fits
    <3>3. QED
      BY <1>1, <1>2, <1>4, <3>1, <3>2
  <2>3. QED
    BY <2>1, <2>2
<1>7. QED
  BY <1>5, <1>6

\* What an execution exports, by what it was given.
Export(sdk, model, prior, rt, resent) ==
    SessionItems(sdk, SeedItemsFor(prior, sdk, model),
                 Exchange(sdk, model, <<Len(SeedItemsFor(prior, sdk, model))>>,
                          Append(Preamble(prior, sdk), rt), TRUE), resent)

\* A call that answered exports what the chain was told before, and the turn of the RT.
LEMMA ExportFacts ==
    ASSUME NEW sdk \in Vendors, NEW model \in Makers, NEW prior, NEW rt \in Rts, NEW resent \in BOOLEAN,
           Fits(prior.vendor, prior.model, prior.items)
    PROVE  /\ Fits(sdk, model, Export(sdk, model, prior, rt, resent))
           /\ TurnsOf(Export(sdk, model, prior, rt, resent)) = Append(TurnsOf(prior.items), rt)
<1> DEFINE seed == SeedItemsFor(prior, sdk, model)
           told == Preamble(prior, sdk)
           turns == Append(told, rt)
           n == Len(seed)
           ex == Exchange(sdk, model, <<n>>, turns, TRUE)
           out == SessionItems(sdk, seed, ex, resent)
<1>00. \A u, v, w \in Seq(Rts) : (u \o v) \o w = u \o (v \o w)
  BY ConcatAssociative
<1>1. Fits(sdk, model, seed) /\ told \in Seq(Rts) /\ TurnsOf(seed) \o told = TurnsOf(prior.items)
  BY SeedFacts
<1> HIDE DEF seed, told
<1>2. seed \in Items /\ (sdk = "claude" => OldIds(seed, n)) /\ n \in Nat /\ turns \in Seq(Rts)
  BY <1>1 DEF Fits, Items
<1>0. TurnsOf(seed) \in Seq(Rts)
  BY <1>2, TurnsType
<1>9. turns = told \o <<rt>> /\ <<rt>> \in Seq(Rts) /\ turns # <<>>
  BY <1>1, AppendIsConcat
<1> HIDE DEF turns
<1>3. out = seed \o ex
  BY <1>2, SessionAdds
<1>4. Tells(ex, model, n, turns, TRUE)
  BY <1>2, ExchangeFacts
<1> HIDE DEF ex, out
<1>5. /\ ex \in Items /\ TurnsOf(ex) = turns
      /\ \A i \in ToSet(ex) : /\ i.valid = TRUE
                              /\ i.part = "thought" => i.by = model
                              /\ i.id # <<>> => i.id[1] = n
  BY <1>4 DEF Tells
<1>6. out \in Items /\ TurnsOf(out) = TurnsOf(seed) \o turns
  BY <1>2, <1>3, <1>5, TurnsConcat
<1>7. TurnsOf(out) = Append(TurnsOf(prior.items), rt)
  <2>1. (TurnsOf(seed) \o told) \o <<rt>> = TurnsOf(seed) \o (told \o <<rt>>)
    BY <1>00, <1>0, <1>1, <1>9
  <2>2. TurnsOf(prior.items) \in Seq(Rts)
    BY TurnsType DEF Fits
  <2>3. Append(TurnsOf(prior.items), rt) = TurnsOf(prior.items) \o <<rt>>
    BY <2>2, AppendIsConcat
  <2>4. QED
    BY <1>1, <1>6, <1>9, <2>1, <2>3
<1>8. Fits(sdk, model, out)
  <2>1. \A i \in ToSet(out) : i \in ToSet(seed) \/ i \in ToSet(ex)
    <3>1. ex \in Seq(Item) /\ seed \in Seq(Item)
      BY <1>2, <1>5 DEF Items
    <3>2. ToSet(seed \o ex) = ToSet(seed) \cup ToSet(ex)
      BY <3>1, ToSetConcat
    <3>3. QED
      BY <1>3, <3>2
  <2>2. \A i \in ToSet(out) : i.valid /\ (sdk = "openai" /\ i.part = "thought" => i.by = model)
    <3>1. \A i \in ToSet(seed) : i.valid /\ (sdk = "openai" /\ i.part = "thought" => i.by = model)
      BY <1>1 DEF Fits
    <3>2. \A i \in ToSet(ex) : i.valid /\ (sdk = "openai" /\ i.part = "thought" => i.by = model)
      BY <1>5
    <3>3. QED
      BY <2>1, <3>1, <3>2
  <2>3. CASE sdk = "claude"
    <3>1. n < Len(out)
      <4>1. ex # <<>>
        BY <1>5, <1>9, TurnsNone
      <4>2. ex \in Seq(Item) /\ seed \in Seq(Item)
        BY <1>2, <1>5 DEF Items
      <4>3. Len(ex) \in Nat \ {0} /\ Len(seed) \in Nat
        BY <4>1, <4>2
      <4>4. Len(seed \o ex) = Len(seed) + Len(ex)
        BY <4>2, ConcatProperties
      <4>5. QED
        BY <1>3, <4>3, <4>4
    <3>2. \A i \in ToSet(out) : i.id # <<>> => i.id[1] <= n
      <4>1. ASSUME NEW i \in ToSet(seed), i.id # <<>> PROVE i.id[1] <= n
        <5>1. i \in Item
          BY <1>2 DEF Items, ToSet
        <5>2. i.id \in Seq(Nat)
          BY <5>1, ItemFacts
        <5>3. i.id[1] \in Nat
          BY <4>1, <5>2
        <5>4. i.id[1] < n
          BY <1>2, <2>3, <4>1 DEF OldIds
        <5>5. QED
          BY <1>2, <5>3, <5>4
      <4>2. ASSUME NEW i \in ToSet(ex), i.id # <<>> PROVE i.id[1] <= n
        <5>1. i.id[1] = n
          BY <1>5, <4>2
        <5>2. n \in Nat
          BY <1>2
        <5> HIDE DEF n
        <5>3. QED
          BY <5>1, <5>2
      <4>3. QED
        BY <2>1, <4>1, <4>2
    <3>3. QED
      <4>1. ASSUME NEW i \in ToSet(out), i.id # <<>> PROVE i.id[1] < Len(out)
        <5>1. i \in Item /\ out \in Seq(Item)
          BY <1>6 DEF Items, ToSet
        <5>2. i.id \in Seq(Nat) /\ Len(out) \in Nat
          BY <5>1, ItemFacts
        <5>3. i.id[1] \in Nat
          BY <4>1, <5>2
        <5>4. QED
          BY <1>2, <3>1, <3>2, <4>1, <5>2, <5>3
      <4>2. OldIds(out, Len(out))
        BY <4>1 DEF OldIds
      <4>3. QED
        BY <1>6, <2>2, <4>2 DEF Fits
  <2>4. QED
    BY <1>6, <2>2, <2>3 DEF Fits
<1>10. QED
  BY <1>7, <1>8 DEF Export, out, ex, turns, told, seed

-----------------------------------------------------------------------------
(* The invariants. *)

Working == {"started", "calling", "put"}
Loaded(x) == exec[x].pc \in {"calling", "put"}
SeenBy(x) == TurnsOf(exec[x].prior.items)
View(x) == ToSet(SeenBy(x))

\* An execution has what it needs, and what it will write fits its vendor.
Sound(x) ==
    /\ exec[x].pc # "gone" => exec[x].rt \in Rts
    /\ exec[x].pc = "started" => config \in Configs \/ exec[x].rt \in ToolRts
    /\ exec[x].pc \in {"calling", "put", "patch"} => exec[x].rt \notin ToolRts
    /\ Loaded(x) => /\ config \in Configs /\ exec[x].model \in Makers
                    /\ Fits(exec[x].prior.vendor, exec[x].prior.model, exec[x].prior.items)
    /\ exec[x].pc = "put" => /\ Fits(config.sdk, exec[x].model, exec[x].items)
                             /\ TurnsOf(exec[x].items) = Append(SeenBy(x), exec[x].rt)

AskTyped == DOMAIN ask = Rts /\ DOMAIN rec = Rts

SoundContext(c) == Fits(context[c].vendor, context[c].model, context[c].items)

ContextInv ==
    /\ DOMAIN exec = 1..MaxExecs /\ DOMAIN context = Chains
    /\ config \in Configs \cup {Unlisted}
    /\ \A x \in DOMAIN exec : DOMAIN exec[x] = Fields /\ Sound(x)
    /\ \A c \in Chains : SoundContext(c)

\* The turns in the list that are there twice are allowed.
TwiceIn(seq, allowed) ==
    \A j, k \in DOMAIN seq : seq[j] = seq[k] => j = k \/ seq[j] \in allowed

OnceInv ==
    /\ \A c \in Chains : TwiceIn(TurnsOf(context[c].items), redone)
    /\ \A x \in DOMAIN exec : Loaded(x) => TwiceIn(SeenBy(x), redone)
                                           /\ (exec[x].rt \in View(x) => exec[x].rt \in redone)

PersonaRtsOf(c) == {r \in Rts \ ToolRts : ChainOf(r) = c}
InHistory(r) == r \in Told(ChainOf(r)) \cup overwritten

\* The execution has written the turn of its RT.
HasWritten(x) ==
    \/ exec[x].pc = "patch"
    \/ exec[x].pc = "reply" /\ exec[x].reply = "result" /\ exec[x].rt \notin ToolRts

KeptInv ==
    /\ \A c \in Chains : Told(c) \subseteq PersonaRtsOf(c)
    /\ \A x \in DOMAIN exec : Loaded(x) => View(x) \subseteq PersonaRtsOf(ChainOf(exec[x].rt))
    /\ overwritten \subseteq Rts \ ToolRts
    /\ \A r \in Rts \ ToolRts : rec[r] = "done" => InHistory(r)
    /\ \A x \in DOMAIN exec : HasWritten(x) => InHistory(exec[x].rt)

Together(q, r) == \E c \in Chains : \E k \in DOMAIN Plan[c] : {q, r} \subseteq Plan[c][k]

\* Until the DRO restarts, the groups run one after the other, each RT once.
Sequential ==
    /\ \A c \in Chains : \A k \in DOMAIN Plan[c] : \A r \in Plan[c][k] :
          ask[r].st # "idle" => \A j \in 1..k - 1 : \A q \in Plan[c][j] : ask[q].st = "ok"
    /\ \A x \in Live : ask[exec[x].rt].st \in {"open", "failed"}
    /\ \A x, y \in Live : exec[x].rt = exec[y].rt => x = y

\* The turn of an RT is in no context while the RT has yet to write it.
Unwritten(r) ==
    /\ r \notin Told(ChainOf(r))
    /\ \A x \in DOMAIN exec : Loaded(x) => r \notin View(x)
ToWrite(r) == ask[r].st \in {"idle", "asking"} \/ \E x \in DOMAIN exec : exec[x].rt = r /\ exec[x].pc \in Working
Written == \A r \in Rts : ToWrite(r) => Unwritten(r)

\* An execution differs from the context, and from the others of its chain, by the turns
\* of its own group only.
Views ==
    \A x \in DOMAIN exec : Loaded(x) =>
       /\ \A q \in Told(ChainOf(exec[x].rt)) \ View(x) : Together(q, exec[x].rt)
       /\ \A q \in View(x) \ Told(ChainOf(exec[x].rt)) : Together(q, exec[x].rt)
       /\ \A y \in DOMAIN exec : Loaded(y) /\ ChainOf(exec[y].rt) = ChainOf(exec[x].rt) =>
             \A q \in View(y) \ View(x) : Together(q, exec[x].rt)

OfManyRts(r) == \E k \in DOMAIN Plan[ChainOf(r)] :
    r \in Plan[ChainOf(r)][k] /\ Cardinality(Plan[ChainOf(r)][k] \ ToolRts) > 1

FirstInv == ~resumed =>
    /\ redone = {} /\ Sequential /\ Written /\ Views
    /\ \A r \in overwritten : OfManyRts(r)

-----------------------------------------------------------------------------
(* The kinds of step, by what they do to the executions. *)

Frame == config' = config /\ context' = context /\ overwritten' = overwritten /\ redone' = redone

Rests ==
    /\ Frame /\ DOMAIN exec' = DOMAIN exec
    /\ \A x \in DOMAIN exec :
          /\ DOMAIN exec'[x] = Fields
          /\ exec'[x].rt = exec[x].rt /\ exec'[x].pc = exec[x].pc /\ exec'[x].prior = exec[x].prior
          /\ exec'[x].model = exec[x].model /\ exec'[x].items = exec[x].items
          /\ exec'[x].reply = exec[x].reply

Changes(x) ==
    /\ DOMAIN exec' = DOMAIN exec /\ DOMAIN exec'[x] = Fields
    /\ \A y \in DOMAIN exec \ {x} : exec'[y] = exec[y]

Begins(x, r) ==
    /\ Frame /\ Changes(x) /\ exec[x].pc = "gone"
    /\ exec'[x].rt = r /\ exec'[x].pc \in {"started", "reply"} /\ exec'[x].reply # "result"
    /\ exec'[x].pc = "started" => config # Unlisted \/ r \in ToolRts

Loads(x) ==
    /\ config' = config /\ context' = context /\ overwritten' = overwritten /\ Changes(x)
    /\ exec[x].pc = "started" /\ exec[x].rt \notin ToolRts
    /\ exec'[x].pc = "calling" /\ exec'[x].rt = exec[x].rt /\ exec'[x].model = config.model
    /\ exec'[x].prior = Prior(context[ChainOf(exec[x].rt)])
    /\ redone' = IF exec[x].rt \in Told(ChainOf(exec[x].rt)) THEN redone \cup {exec[x].rt} ELSE redone

Recalls(x) ==
    /\ Frame /\ Changes(x) /\ exec[x].pc = "calling" /\ exec'[x].pc = "calling"
    /\ exec'[x].rt = exec[x].rt /\ exec'[x].prior = exec[x].prior
    /\ exec'[x].model \in {config.model, config.fallback}

Answers(x) ==
    /\ Frame /\ Changes(x) /\ exec[x].pc = "calling" /\ exec'[x].pc = "put"
    /\ exec'[x].rt = exec[x].rt /\ exec'[x].prior = exec[x].prior /\ exec'[x].model = exec[x].model
    /\ \E resent \in BOOLEAN :
          exec'[x].items = Export(config.sdk, exec[x].model, exec[x].prior, exec[x].rt, resent)

Writes(x) ==
    /\ config' = config /\ redone' = redone /\ Changes(x)
    /\ exec[x].pc = "put" /\ exec'[x].pc = "patch" /\ exec'[x].rt = exec[x].rt
    /\ context' = [context EXCEPT ![ChainOf(exec[x].rt)] =
                      Envelope(config.sdk, exec[x].model, exec[x].items)]
    /\ overwritten' = overwritten \cup (Told(ChainOf(exec[x].rt)) \ View(x))

Replies(x) ==
    /\ Frame /\ Changes(x) /\ exec[x].pc # "gone" /\ exec'[x].pc = "reply"
    /\ exec'[x].rt = exec[x].rt
    /\ exec'[x].reply = "result" => exec[x].pc = "patch" \/ exec[x].rt \in ToolRts

Ends(x) == Frame /\ Changes(x) /\ exec[x].pc # "gone" /\ exec'[x].pc = "gone"

AllEnd ==
    /\ config' \in Configs \cup {Unlisted} /\ context' = context /\ overwritten' = overwritten
    /\ redone' = redone /\ DOMAIN exec' = DOMAIN exec
    /\ \A x \in DOMAIN exec : DOMAIN exec'[x] = Fields /\ exec'[x].pc = "gone"

Shaped == DOMAIN exec = 1..MaxExecs /\ \A x \in DOMAIN exec : DOMAIN exec[x] = Fields

LEMMA LocalChanges ==
    ASSUME Shaped, NEW x \in DOMAIN exec, NEW e, DOMAIN e = Fields, Local(x, e)
    PROVE  Changes(x) /\ exec'[x] = e
BY DEF Shaped, Local, Changes

LEMMA ReplyShape ==
    ASSUME Shaped, NEW x \in DOMAIN exec, NEW what, Reply(x, what)
    PROVE  /\ Changes(x) /\ exec'[x].pc = "reply" /\ exec'[x].rt = exec[x].rt
           /\ exec'[x].reply = what
<1> DEFINE e == [At(x, "reply") EXCEPT !.reply = what]
<1>1. DOMAIN At(x, "reply") = Fields /\ At(x, "reply").pc = "reply" /\ At(x, "reply").rt = exec[x].rt
  BY DEF At, NoExec, Fields
<1>2. DOMAIN e = Fields /\ e.pc = "reply" /\ e.rt = exec[x].rt /\ e.reply = what
  BY <1>1 DEF Fields
<1>3. Local(x, e)
  BY DEF Reply
<1> HIDE DEF e
<1>4. QED
  BY <1>2, <1>3, LocalChanges

\* A failure that is answered.
LEMMA ErrorReplies ==
    ASSUME Shaped, NEW x \in DOMAIN exec, exec[x].pc # "gone", Frame, Reply(x, "error") PROVE Replies(x)
BY ReplyShape DEF Replies

LEMMA LetsGoRests == ASSUME Shaped, LetsGo, Frame PROVE Rests
<1>1. ASSUME NEW x \in DOMAIN exec
      PROVE  /\ DOMAIN exec'[x] = Fields
             /\ exec'[x].rt = exec[x].rt /\ exec'[x].pc = exec[x].pc /\ exec'[x].prior = exec[x].prior
             /\ exec'[x].model = exec[x].model /\ exec'[x].items = exec[x].items
             /\ exec'[x].reply = exec[x].reply
  <2> DEFINE e == [exec[x] EXCEPT !.client = FALSE]
  <2>1. DOMAIN exec[x] = Fields
    BY DEF Shaped
  <2>2. /\ DOMAIN e = Fields /\ e.rt = exec[x].rt /\ e.pc = exec[x].pc /\ e.prior = exec[x].prior
        /\ e.model = exec[x].model /\ e.items = exec[x].items /\ e.reply = exec[x].reply
    BY <2>1 DEF Fields
  <2>3. exec'[x] = exec[x] \/ exec'[x] = e
    BY DEF LetsGo
  <2> HIDE DEF e
  <2>4. QED
    BY <2>1, <2>2, <2>3
<1>2. QED
  BY <1>1 DEF Rests, LetsGo

LEMMA SameRests == ASSUME Shaped, exec' = exec, Frame PROVE Rests
BY DEF Shaped, Rests

LEMMA AskRests ==
    ASSUME Shaped, NEW r \in Rts, Dispatch(r) \/ Busy(r) \/ Timeout(r) PROVE Rests /\ resumed' = resumed
<1>1. Frame /\ resumed' = resumed
  BY DEF Dispatch, Busy, Timeout, Frame, actorVars, history
<1>2. CASE Dispatch(r) \/ Busy(r)
  BY <1>1, <1>2, SameRests DEF Dispatch, Busy, actorVars
<1>3. CASE Timeout(r)
  BY <1>1, <1>3, LetsGoRests DEF Timeout, LetsGo
<1>4. QED
  BY <1>1, <1>2, <1>3

LEMMA RestartRests == ASSUME Shaped, DroRestart PROVE Rests /\ resumed'
<1>1. Frame /\ resumed'
  BY DEF DroRestart, Frame
<1>2. LetsGo
  BY DEF DroRestart, LetsGo
<1>3. QED
  BY <1>1, <1>2, LetsGoRests

LEMMA AdmitBegins ==
    ASSUME Shaped, NEW r \in Rts, Admit(r)
    PROVE  (\E x \in DOMAIN exec : Begins(x, r)) /\ resumed' = resumed
<1> DEFINE refused == config = Unlisted /\ r \notin ToolRts
           e == [NoExec EXCEPT !.rt = r, !.client = TRUE, !.slot = ~refused,
                               !.pc = IF refused THEN "reply" ELSE "started",
                               !.reply = IF refused THEN "error" ELSE "none"]
<1>1. PICK x \in DOMAIN exec : x \notin Live /\ exec' = [exec EXCEPT ![x] = e]
  BY DEF Admit
<1>2. Frame /\ resumed' = resumed
  BY DEF Admit, Frame, history
<1>3. /\ DOMAIN e = Fields /\ e.rt = r /\ e.pc = (IF refused THEN "reply" ELSE "started")
      /\ e.reply = (IF refused THEN "error" ELSE "none")
  BY DEF NoExec, Fields
<1> HIDE DEF e
<1>4. Changes(x) /\ exec'[x] = e
  BY <1>1, <1>3, LocalChanges DEF Local
<1>5. exec[x].pc = "gone"
  BY <1>1 DEF Live
<1>6. Begins(x, r)
  BY <1>2, <1>3, <1>4, <1>5 DEF Begins
<1>7. QED
  BY <1>2, <1>6

LEMMA StartedSteps ==
    ASSUME Shaped, NEW x \in DOMAIN exec, Load(x) \/ LoadFails(x) \/ RunTool(x)
    PROVE  (Loads(x) \/ Replies(x)) /\ resumed' = resumed
<1>0. resumed' = resumed
  BY DEF Load, LoadFails, RunTool, history
<1>1. CASE Load(x)
  <2> DEFINE e == NewSession(x, Prior(context[ChainOf(exec[x].rt)]))
  <2>1. DOMAIN exec[x] = Fields
    BY DEF Shaped
  <2>2. /\ DOMAIN e = Fields /\ e.pc = "calling" /\ e.rt = exec[x].rt /\ e.model = config.model
        /\ e.prior = Prior(context[ChainOf(exec[x].rt)])
    BY <2>1 DEF NewSession, Fields
  <2>3. Local(x, e)
    BY <1>1 DEF Load
  <2> HIDE DEF e
  <2>4. Changes(x) /\ exec'[x] = e
    BY <2>2, <2>3, LocalChanges
  <2>5. Loads(x)
    BY <1>1, <2>2, <2>4 DEF Load, Loads
  <2>6. QED
    BY <1>0, <2>5
<1>2. CASE LoadFails(x)
  <2>1. Frame
    BY <1>2 DEF LoadFails, Frame, history
  <2>2. QED
    BY <1>0, <1>2, <2>1, ErrorReplies DEF LoadFails
<1>3. CASE RunTool(x)
  <2>1. Frame /\ exec[x].pc = "started" /\ exec[x].rt \in ToolRts
    BY <1>3 DEF RunTool, Frame, history
  <2>2. PICK what : Reply(x, what)
    BY <1>3 DEF RunTool
  <2>3. QED
    BY <1>0, <2>1, <2>2, ReplyShape DEF Replies
<1>4. QED
  BY <1>1, <1>2, <1>3

LEMMA CallingSteps ==
    ASSUME Shaped, NEW x \in DOMAIN exec, Answered(x) \/ Rejected(x) \/ CallFails(x) \/ Unexportable(x)
    PROVE  (Answers(x) \/ Recalls(x) \/ Replies(x)) /\ resumed' = resumed
<1>1. exec[x].pc = "calling" /\ Frame /\ resumed' = resumed /\ DOMAIN exec[x] = Fields
  BY DEF Answered, Rejected, CallFails, Unexportable, Shaped, Frame, history
<1>2. CASE Answered(x)
  <2>1. PICK resent \in BOOLEAN :
           Local(x, [exec[x] EXCEPT !.pc = "put", !.retries = 0, !.items = Exported(x, TRUE, resent)])
    BY <1>2 DEF Answered
  <2> DEFINE items == Exported(x, TRUE, resent)
             e == [exec[x] EXCEPT !.pc = "put", !.retries = 0, !.items = items]
  <2>2. items = Export(config.sdk, exec[x].model, exec[x].prior, exec[x].rt, resent)
    BY DEF Exported, Export, Seed
  <2> HIDE DEF items
  <2>3. Local(x, e)
    BY <2>1 DEF items
  <2>4. /\ DOMAIN e = Fields /\ e.pc = "put" /\ e.rt = exec[x].rt /\ e.prior = exec[x].prior
        /\ e.model = exec[x].model /\ e.items = items
    BY <1>1 DEF Fields
  <2> HIDE DEF e
  <2>5. Changes(x) /\ exec'[x] = e
    BY <2>3, <2>4, LocalChanges
  <2>6. Answers(x)
    BY <1>1, <2>2, <2>4, <2>5 DEF Answers
  <2>7. QED
    BY <1>1, <2>6
<1>3. ASSUME NEW items, NEW retries,
             Local(x, [exec[x] EXCEPT !.items = items, !.retries = retries, !.model = config.model])
      PROVE  Recalls(x)
  <2> DEFINE e == [exec[x] EXCEPT !.items = items, !.retries = retries, !.model = config.model]
  <2>1. /\ DOMAIN e = Fields /\ e.pc = "calling" /\ e.rt = exec[x].rt /\ e.prior = exec[x].prior
        /\ e.model = config.model
    BY <1>1 DEF Fields
  <2>2. Local(x, e)
    BY <1>3
  <2> HIDE DEF e
  <2>3. Changes(x) /\ exec'[x] = e
    BY <2>1, <2>2, LocalChanges
  <2>4. QED
    BY <1>1, <2>1, <2>3 DEF Recalls
<1>4. ASSUME Local(x, [exec[x] EXCEPT !.model = config.fallback]) PROVE Recalls(x)
  <2> DEFINE e == [exec[x] EXCEPT !.model = config.fallback]
  <2>1. /\ DOMAIN e = Fields /\ e.pc = "calling" /\ e.rt = exec[x].rt /\ e.prior = exec[x].prior
        /\ e.model = config.fallback
    BY <1>1 DEF Fields
  <2>2. Local(x, e)
    BY <1>4
  <2> HIDE DEF e
  <2>3. Changes(x) /\ exec'[x] = e
    BY <2>1, <2>2, LocalChanges
  <2>4. QED
    BY <1>1, <2>1, <2>3 DEF Recalls
<1>5. CASE Rejected(x)
  BY <1>1, <1>3, <1>5, ErrorReplies DEF Rejected
<1>6. CASE CallFails(x)
  BY <1>1, <1>4, <1>6, ErrorReplies DEF CallFails
<1>7. CASE Unexportable(x)
  BY <1>1, <1>7, ErrorReplies DEF Unexportable
<1>8. QED
  BY <1>2, <1>5, <1>6, <1>7

LEMMA WritingSteps ==
    ASSUME Shaped, NEW x \in DOMAIN exec, Put(x) \/ Patch(x) \/ WriteFails(x)
    PROVE  (Writes(x) \/ Replies(x)) /\ resumed' = resumed
<1>0. resumed' = resumed
  BY DEF Put, Patch, WriteFails, history
<1>1. CASE Put(x)
  <2> DEFINE e == At(x, "patch")
  <2>1. DOMAIN e = Fields /\ e.pc = "patch" /\ e.rt = exec[x].rt
    BY DEF At, NoExec, Fields
  <2>2. Local(x, e)
    BY <1>1 DEF Put
  <2> HIDE DEF e
  <2>3. Changes(x) /\ exec'[x] = e
    BY <2>1, <2>2, LocalChanges
  <2>4. Writes(x)
    BY <1>1, <2>1, <2>3 DEF Put, Writes, View, SeenBy
  <2>5. QED
    BY <1>0, <2>4
<1>2. CASE Patch(x)
  <2>1. Frame /\ exec[x].pc = "patch" /\ Reply(x, "result")
    BY <1>2 DEF Patch, Frame, history
  <2>2. QED
    BY <1>0, <2>1, ReplyShape DEF Replies
<1>3. CASE WriteFails(x)
  <2>1. Frame /\ exec[x].pc # "gone" /\ Reply(x, "error")
    BY <1>3 DEF WriteFails, Frame, history
  <2>2. QED
    BY <1>0, <2>1, ErrorReplies
<1>4. QED
  BY <1>1, <1>2, <1>3

LEMMA EndSteps ==
    ASSUME Shaped, NEW x \in DOMAIN exec, Answer(x) \/ Cut(x)
    PROVE  Ends(x) /\ resumed' = resumed
<1>1. Local(x, NoExec) /\ exec[x].pc # "gone" /\ Frame /\ resumed' = resumed
  BY DEF Answer, Cut, Live, Frame, history
<1>2. Changes(x) /\ exec'[x] = NoExec
  BY <1>1, NoExecShape, LocalChanges
<1>3. QED
  BY <1>1, <1>2, NoExecShape DEF Ends

LEMMA ActorRestartEnds == ASSUME Shaped, ActorRestart PROVE AllEnd /\ resumed' = resumed
BY NoExecShape DEF ActorRestart, AllEnd, Shaped, history

ActorStep(x) ==
    Loads(x) \/ Recalls(x) \/ Answers(x) \/ Writes(x) \/ Replies(x) \/ Ends(x)

\* Every step is of one of the kinds.
LEMMA Kinds ==
    ASSUME Shaped, [Next]_vars
    PROVE  \/ Rests /\ (resumed' = resumed \/ resumed')
           \/ AllEnd /\ resumed' = resumed
           \/ \E x \in DOMAIN exec : \E r \in Rts : Begins(x, r) /\ resumed' = resumed
           \/ \E x \in DOMAIN exec : ActorStep(x) /\ resumed' = resumed
<1>1. CASE DroNext
  BY <1>1, AskRests, AdmitBegins DEF DroNext
<1>2. CASE ActorNext
  <2>1. PICK x \in DOMAIN exec :
           \/ Load(x) \/ LoadFails(x) \/ Answered(x) \/ Rejected(x) \/ CallFails(x) \/ Unexportable(x)
           \/ Put(x) \/ Patch(x) \/ WriteFails(x) \/ RunTool(x) \/ Answer(x) \/ Cut(x)
    BY <1>2 DEF ActorNext
  <2>2. ActorStep(x) /\ resumed' = resumed
    BY <2>1, StartedSteps, CallingSteps, WritingSteps, EndSteps DEF ActorStep
  <2>3. QED
    BY <2>2
<1>3. CASE DroRestart \/ ActorRestart
  BY <1>3, RestartRests, ActorRestartEnds
<1>4. CASE UNCHANGED vars
  BY <1>4, SameRests DEF vars, actorVars, history, Frame
<1>5. QED
  BY <1>1, <1>2, <1>3, <1>4 DEF Next

-----------------------------------------------------------------------------
(* Contexts and sessions are fit for their vendor. *)

LEMMA ChainTyped == ASSUME NEW r \in Rts PROVE ChainOf(r) \in Chains
BY PlanAssumption DEF ChainOf

LEMMA ConfigFacts ==
    ASSUME config \in Configs
    PROVE  config.sdk \in Vendors /\ config.model \in Makers /\ config.fallback \in Makers
BY StepExecutionAssumption DEF Makers

LEMMA PriorFits ==
    ASSUME NEW state, Fits(state.vendor, state.model, state.items)
    PROVE  /\ Fits(Prior(state).vendor, Prior(state).model, Prior(state).items)
           /\ TurnsOf(Prior(state).items) = TurnsOf(state.items)
BY FitsNone DEF Prior, NoContext, Envelope

LEMMA InitContext == Init => ContextInv
<1> SUFFICES ASSUME Init PROVE ContextInv
  OBVIOUS
<1>1. /\ config \in Configs /\ context = [c \in Chains |-> NoContext]
      /\ exec = [x \in 1..MaxExecs |-> NoExec]
  BY DEF Init
<1>2. ASSUME NEW c \in Chains PROVE SoundContext(c)
  BY <1>1, FitsNone DEF SoundContext, NoContext, Envelope
<1>3. ASSUME NEW x \in DOMAIN exec PROVE DOMAIN exec[x] = Fields /\ Sound(x)
  BY <1>1, NoExecShape DEF Sound, Loaded
<1>4. QED
  BY <1>1, <1>2, <1>3 DEF ContextInv

\* An execution that changes as it may, the context being as it was.
LEMMA ChangesKeeps ==
    ASSUME ContextInv, NEW x \in DOMAIN exec, Changes(x), config' = config, context' = context, Sound(x)'
    PROVE  ContextInv'
<1>1. ASSUME NEW y \in DOMAIN exec, y # x PROVE Sound(y)'
  <2>1. Sound(y) /\ exec'[y] = exec[y]
    BY <1>1 DEF ContextInv, Changes
  <2>2. QED
    BY <2>1 DEF Sound, Loaded, SeenBy
<1>2. \A c \in Chains : SoundContext(c)'
  BY DEF ContextInv, SoundContext
<1>3. QED
  BY <1>1, <1>2 DEF ContextInv, Changes

LEMMA RestsKeeps == ASSUME ContextInv, Rests PROVE ContextInv'
<1>1. ASSUME NEW x \in DOMAIN exec PROVE Sound(x)'
  <2>1. Sound(x)
    BY DEF ContextInv
  <2>2. QED
    BY <2>1 DEF Rests, Frame, Sound, Loaded, SeenBy
<1>2. \A c \in Chains : SoundContext(c)'
  BY DEF ContextInv, SoundContext, Rests, Frame
<1>3. QED
  BY <1>1, <1>2 DEF ContextInv, Rests, Frame

LEMMA AllEndKeeps == ASSUME ContextInv, AllEnd PROVE ContextInv'
<1>1. ASSUME NEW x \in DOMAIN exec PROVE Sound(x)'
  BY DEF AllEnd, Sound, Loaded
<1>2. \A c \in Chains : SoundContext(c)'
  BY DEF ContextInv, SoundContext, AllEnd
<1>3. QED
  BY <1>1, <1>2 DEF ContextInv, AllEnd

LEMMA BeginsKeeps ==
    ASSUME ContextInv, NEW x \in DOMAIN exec, NEW r \in Rts, Begins(x, r) PROVE ContextInv'
<1>1. Changes(x) /\ config' = config /\ context' = context
  BY DEF Begins, Frame
<1>2. Sound(x)'
  BY DEF ContextInv, Begins, Frame, Sound, Loaded
<1>3. QED
  BY <1>1, <1>2, ChangesKeeps

LEMMA LoadsKeeps == ASSUME ContextInv, NEW x \in DOMAIN exec, Loads(x) PROVE ContextInv'
<1>1. Changes(x) /\ config' = config /\ context' = context
  BY DEF Loads
<1>2. Sound(x) /\ exec[x].pc = "started" /\ exec[x].rt \notin ToolRts
  BY DEF ContextInv, Loads
<1>3. exec[x].rt \in Rts /\ config \in Configs
  BY <1>2 DEF Sound
<1> DEFINE state == context[ChainOf(exec[x].rt)]
<1>4. Fits(state.vendor, state.model, state.items)
  BY <1>3, ChainTyped DEF ContextInv, SoundContext
<1> HIDE DEF state
<1>5. Fits(Prior(state).vendor, Prior(state).model, Prior(state).items)
  BY <1>4, PriorFits
<1>6. /\ exec'[x].pc = "calling" /\ exec'[x].rt = exec[x].rt /\ exec'[x].model = config.model
      /\ exec'[x].prior = Prior(state)
  BY DEF Loads, state
<1>7. Sound(x)'
  BY <1>1, <1>2, <1>3, <1>5, <1>6, ConfigFacts DEF Sound, Loaded
<1>8. QED
  BY <1>1, <1>7, ChangesKeeps

LEMMA RecallsKeeps == ASSUME ContextInv, NEW x \in DOMAIN exec, Recalls(x) PROVE ContextInv'
<1>1. Changes(x) /\ config' = config /\ context' = context
  BY DEF Recalls, Frame
<1>2. Sound(x)
  BY DEF ContextInv
<1>3. Sound(x)'
  BY <1>1, <1>2, ConfigFacts DEF Recalls, Sound, Loaded
<1>4. QED
  BY <1>1, <1>3, ChangesKeeps

LEMMA AnswersKeeps == ASSUME ContextInv, NEW x \in DOMAIN exec, Answers(x) PROVE ContextInv'
<1>1. Changes(x) /\ config' = config /\ context' = context
  BY DEF Answers, Frame
<1>2. Sound(x) /\ exec[x].pc = "calling"
  BY DEF ContextInv, Answers
<1> DEFINE prior == exec[x].prior
           model == exec[x].model
           rt == exec[x].rt
<1>3. /\ rt \in Rts /\ rt \notin ToolRts /\ config \in Configs /\ model \in Makers
      /\ Fits(prior.vendor, prior.model, prior.items)
  BY <1>2 DEF Sound, Loaded
<1>4. PICK resent \in BOOLEAN : exec'[x].items = Export(config.sdk, model, prior, rt, resent)
  BY DEF Answers
<1>5. /\ exec'[x].pc = "put" /\ exec'[x].rt = rt /\ exec'[x].prior = prior /\ exec'[x].model = model
  BY DEF Answers
<1> HIDE DEF prior, model, rt
<1>6. /\ Fits(config.sdk, model, exec'[x].items)
      /\ TurnsOf(exec'[x].items) = Append(TurnsOf(prior.items), rt)
  BY <1>3, <1>4, ConfigFacts, ExportFacts
<1>7. Sound(x)'
  BY <1>1, <1>3, <1>5, <1>6 DEF Sound, Loaded, SeenBy
<1>8. QED
  BY <1>1, <1>7, ChangesKeeps

LEMMA WritesKeeps == ASSUME ContextInv, NEW x \in DOMAIN exec, Writes(x) PROVE ContextInv'
<1>1. Changes(x) /\ config' = config
  BY DEF Writes
<1>2. Sound(x) /\ exec[x].pc = "put"
  BY DEF ContextInv, Writes
<1> DEFINE c == ChainOf(exec[x].rt)
           new == Envelope(config.sdk, exec[x].model, exec[x].items)
<1>3. Fits(new.vendor, new.model, new.items) /\ c \in Chains
  BY <1>2, ChainTyped DEF Sound, Envelope
<1>4. context' = [context EXCEPT ![c] = new]
  BY DEF Writes
<1> HIDE DEF c, new
<1>5. ASSUME NEW d \in Chains PROVE SoundContext(d)'
  <2>1. context'[d] = IF d = c THEN new ELSE context[d]
    BY <1>4 DEF ContextInv
  <2>2. QED
    BY <1>3, <2>1 DEF ContextInv, SoundContext
<1>6. ASSUME NEW y \in DOMAIN exec PROVE Sound(y)'
  <2>1. CASE y = x
    BY <1>2, <2>1 DEF Writes, Sound, Loaded
  <2>2. CASE y # x
    <3>1. Sound(y) /\ exec'[y] = exec[y]
      BY <1>1, <2>2 DEF ContextInv, Changes
    <3>2. QED
      BY <1>1, <3>1 DEF Sound, Loaded, SeenBy
  <2>3. QED
    BY <2>1, <2>2
<1>7. QED
  BY <1>1, <1>4, <1>5, <1>6 DEF ContextInv, Changes

LEMMA RepliesKeeps == ASSUME ContextInv, NEW x \in DOMAIN exec, Replies(x) \/ Ends(x) PROVE ContextInv'
<1>1. Changes(x) /\ config' = config /\ context' = context
  BY DEF Replies, Ends, Frame
<1>2. Sound(x)
  BY DEF ContextInv
<1>3. Sound(x)'
  BY <1>1, <1>2 DEF Replies, Ends, Sound, Loaded
<1>4. QED
  BY <1>1, <1>3, ChangesKeeps

LEMMA NextContext == ContextInv /\ [Next]_vars => ContextInv'
<1> SUFFICES ASSUME ContextInv, [Next]_vars PROVE ContextInv'
  OBVIOUS
<1>1. Shaped
  BY DEF ContextInv, Shaped
<1>2. CASE Rests
  BY <1>2, RestsKeeps
<1>3. CASE AllEnd
  BY <1>3, AllEndKeeps
<1>4. CASE \E x \in DOMAIN exec : \E r \in Rts : Begins(x, r)
  BY <1>4, BeginsKeeps
<1>5. CASE \E x \in DOMAIN exec : ActorStep(x)
  BY <1>5, LoadsKeeps, RecallsKeeps, AnswersKeeps, WritesKeeps, RepliesKeeps DEF ActorStep
<1>6. QED
  BY <1>1, <1>2, <1>3, <1>4, <1>5, Kinds

LEMMA ContextReplays == ContextInv => ContextReplayable
<1> SUFFICES ASSUME ContextInv, NEW c \in Chains, NEW k \in DOMAIN context[c].items
             PROVE  /\ context[c].items[k].valid
                    /\ context[c].vendor = "openai" /\ context[c].items[k].part = "thought"
                          => context[c].items[k].by = context[c].model
  BY DEF ContextReplayable
<1>1. Fits(context[c].vendor, context[c].model, context[c].items)
  BY DEF ContextInv, SoundContext
<1>2. context[c].items[k] \in ToSet(context[c].items)
  BY <1>1, ItemAt DEF Fits
<1>3. QED
  BY <1>1, <1>2 DEF Fits

\* ContextReplayable: whatever vendor or model an execution changes to, by fallback, restart or
\* a new configuration, the context tells no answer that was rejected, and holds no reasoning
\* that the model of its envelope did not make (state.py, openai_seed_items; session.py, run).
THEOREM ContextsReplay == Spec => []ContextReplayable
BY InitContext, NextContext, ContextReplays, PTL DEF Spec

-----------------------------------------------------------------------------
(* No turn is told twice. *)

LEMMA AppendFacts ==
    ASSUME NEW S, NEW s \in Seq(S), NEW r \in S
    PROVE  /\ ToSet(Append(s, r)) = ToSet(s) \cup {r}
           /\ \A allowed : TwiceIn(s, allowed) /\ (r \in ToSet(s) => r \in allowed) => TwiceIn(Append(s, r), allowed)
<1> DEFINE n == Len(s)
           t == Append(s, r)
<1>1. /\ n \in Nat /\ DOMAIN s = 1..n /\ DOMAIN t = 1..n + 1 /\ t[n + 1] = r
      /\ \A k \in 1..n : t[k] = s[k]
  OBVIOUS
<1> HIDE DEF n, t
<1>2. \A k \in 1..n + 1 : k \in 1..n \/ k = n + 1
  BY <1>1
<1>3. \A k \in 1..n : k \in 1..n + 1 /\ s[k] \in ToSet(s)
  BY <1>1 DEF ToSet
<1>4. n + 1 \in 1..n + 1
  BY <1>1
<1>5. ToSet(t) = ToSet(s) \cup {r}
  BY <1>1, <1>2, <1>3, <1>4 DEF ToSet
<1>6. ASSUME NEW allowed, TwiceIn(s, allowed), r \in ToSet(s) => r \in allowed,
             NEW j \in 1..n + 1, NEW k \in 1..n + 1, t[j] = t[k]
      PROVE  j = k \/ t[j] \in allowed
  <2>1. CASE j \in 1..n /\ k \in 1..n
    BY <1>1, <1>6, <2>1 DEF TwiceIn
  <2>2. CASE j = n + 1 \/ k = n + 1
    BY <1>1, <1>2, <1>3, <1>6, <2>2
  <2>3. QED
    BY <1>2, <2>1, <2>2
<1>7. QED
  BY <1>1, <1>5, <1>6 DEF TwiceIn, t

\* What an execution has seen is a list of RTs.
LEMMA SeenTyped == ASSUME ContextInv, NEW x \in DOMAIN exec, Loaded(x) PROVE SeenBy(x) \in Seq(Rts)
<1>1. Fits(exec[x].prior.vendor, exec[x].prior.model, exec[x].prior.items)
  BY DEF ContextInv, Sound
<1>2. exec[x].prior.items \in Items
  BY <1>1 DEF Fits
<1>3. QED
  BY <1>2, TurnsType DEF SeenBy

\* What a step leaves of what the executions have seen, and what it tells.
SeenKept(x) == Loaded(x)' => /\ Loaded(x) /\ exec'[x].rt = exec[x].rt
                             /\ exec'[x].prior = exec[x].prior

LEMMA OthersSeen ==
    ASSUME NEW x \in DOMAIN exec, Changes(x), NEW y \in DOMAIN exec, y # x PROVE SeenKept(y)
BY DEF Changes, SeenKept, Loaded

\* Only what is loaded is seen anew.
LEMMA SeenBySteps ==
    ASSUME NEW x \in DOMAIN exec
    PROVE  /\ Rests \/ AllEnd => SeenKept(x)
           /\ Recalls(x) \/ Answers(x) \/ Writes(x) \/ Replies(x) \/ Ends(x) => SeenKept(x)
           /\ \A r : Begins(x, r) => SeenKept(x)
BY DEF Rests, AllEnd, Recalls, Answers, Writes, Replies, Ends, Begins, SeenKept, Loaded

\* An execution that loads the context sees what it tells.
LEMMA LoadSees ==
    ASSUME ContextInv, NEW x \in DOMAIN exec, Loads(x)
    PROVE  /\ exec[x].rt \in Rts \ ToolRts /\ exec'[x].rt = exec[x].rt /\ ChainOf(exec[x].rt) \in Chains
           /\ SeenBy(x)' = TurnsOf(context[ChainOf(exec[x].rt)].items)
<1>1. exec[x].rt \in Rts \ ToolRts
  BY DEF ContextInv, Sound, Loads
<1> DEFINE state == context[ChainOf(exec[x].rt)]
<1>2. ChainOf(exec[x].rt) \in Chains /\ Fits(state.vendor, state.model, state.items)
  BY <1>1, ChainTyped DEF ContextInv, SoundContext
<1> HIDE DEF state
<1>3. TurnsOf(Prior(state).items) = TurnsOf(state.items)
  BY <1>2, PriorFits
<1>4. exec'[x].prior = Prior(state) /\ exec'[x].rt = exec[x].rt
  BY DEF Loads, state
<1>5. QED
  BY <1>1, <1>2, <1>3, <1>4 DEF SeenBy, state

\* An execution that writes the context tells what it has seen, and its own turn.
LEMMA WriteTells ==
    ASSUME ContextInv, NEW x \in DOMAIN exec, Writes(x), NEW c, c = ChainOf(exec[x].rt)
    PROVE  /\ exec[x].rt \in Rts \ ToolRts /\ Loaded(x) /\ SeenBy(x) \in Seq(Rts) /\ c \in Chains
           /\ TurnsOf(context'[c].items) = Append(SeenBy(x), exec[x].rt)
           /\ Told(c)' = View(x) \cup {exec[x].rt}
           /\ \A d \in Chains : d # c => context'[d] = context[d]
<1>1. exec[x].pc = "put" /\ Sound(x)
  BY DEF Writes, ContextInv
<1>2. /\ exec[x].rt \in Rts \ ToolRts /\ Loaded(x)
      /\ TurnsOf(exec[x].items) = Append(SeenBy(x), exec[x].rt)
  BY <1>1 DEF Sound, Loaded
<1> DEFINE new == Envelope(config.sdk, exec[x].model, exec[x].items)
<1>3. c \in Chains /\ SeenBy(x) \in Seq(Rts)
  BY <1>2, ChainTyped, SeenTyped
<1>4. context' = [context EXCEPT ![c] = new] /\ new.items = exec[x].items
  BY DEF Writes, Envelope
<1> HIDE DEF new
<1>5. context'[c] = new /\ \A d \in Chains : d # c => context'[d] = context[d]
  BY <1>3, <1>4 DEF ContextInv
<1>6. TurnsOf(context'[c].items) = Append(SeenBy(x), exec[x].rt)
  BY <1>2, <1>4, <1>5
<1>7. ToSet(Append(SeenBy(x), exec[x].rt)) = View(x) \cup {exec[x].rt}
  BY <1>2, <1>3, AppendFacts DEF View
<1>8. ToSet(TurnsOf(context'[c].items)) = View(x) \cup {exec[x].rt}
  BY <1>6, <1>7
<1>9. QED
  BY <1>2, <1>3, <1>5, <1>6, <1>8 DEF Told

-----------------------------------------------------------------------------

SeenOnce(x) == Loaded(x) => TwiceIn(SeenBy(x), redone) /\ (exec[x].rt \in View(x) => exec[x].rt \in redone)
ToldOnce(c) == TwiceIn(TurnsOf(context[c].items), redone)

LEMMA OnceParts == OnceInv <=> /\ \A c \in Chains : ToldOnce(c)
                               /\ \A x \in DOMAIN exec : SeenOnce(x)
BY DEF OnceInv, ToldOnce, SeenOnce

LEMMA SeenOnceKept ==
    ASSUME NEW x, SeenOnce(x), SeenKept(x), redone \subseteq redone' PROVE SeenOnce(x)'
BY DEF SeenOnce, SeenKept, SeenBy, View, TwiceIn

LEMMA ToldOnceKept ==
    ASSUME NEW c, ToldOnce(c), context'[c] = context[c], redone \subseteq redone' PROVE ToldOnce(c)'
BY DEF ToldOnce, TwiceIn

LEMMA InitOnce == Init => OnceInv
<1> SUFFICES ASSUME Init PROVE OnceInv
  OBVIOUS
<1>1. \A c \in Chains : context[c] = NoContext
  BY DEF Init
<1>2. \A x \in DOMAIN exec : exec[x] = NoExec
  BY DEF Init
<1>3. \A c \in Chains : ToldOnce(c)
  BY <1>1, TurnsNone DEF ToldOnce, TwiceIn, NoContext, Envelope
<1>4. \A x \in DOMAIN exec : SeenOnce(x)
  BY <1>2, NoExecShape DEF SeenOnce, Loaded
<1>5. QED
  BY <1>3, <1>4, OnceParts

LEMMA OnceStep ==
    ASSUME ContextInv, OnceInv, NEW x \in DOMAIN exec, ActorStep(x) PROVE OnceInv'
<1>1. Changes(x) /\ DOMAIN exec' = DOMAIN exec
  BY DEF ActorStep, Loads, Recalls, Answers, Writes, Replies, Ends, Changes
<1>2. redone \subseteq redone'
  BY DEF ActorStep, Loads, Recalls, Answers, Writes, Replies, Ends, Frame
<1>3. \A y \in DOMAIN exec : y # x => SeenOnce(y)'
  <2>1. \A y \in DOMAIN exec : y # x => SeenKept(y)
    BY <1>1, OthersSeen
  <2>2. \A y \in DOMAIN exec : SeenOnce(y)
    BY OnceParts
  <2>3. QED
    BY <1>2, <2>1, <2>2, SeenOnceKept
<1>4. SeenOnce(x) /\ \A c \in Chains : ToldOnce(c)
  BY OnceParts
<1>5. CASE Loads(x)
  <2> DEFINE r == exec[x].rt
             c == ChainOf(r)
  <2>1. exec'[x].rt = r /\ c \in Chains /\ SeenBy(x)' = TurnsOf(context[c].items)
    BY <1>5, LoadSees
  <2>2. redone' = IF r \in Told(c) THEN redone \cup {r} ELSE redone
    BY <1>5 DEF Loads
  <2>3. context' = context
    BY <1>5 DEF Loads
  <2> HIDE DEF r, c
  <2>4. ToldOnce(c)
    BY <1>4, <2>1
  <2>5. TwiceIn(TurnsOf(context[c].items), redone')
    BY <1>2, <2>4 DEF ToldOnce, TwiceIn
  <2>6. View(x)' = Told(c)
    BY <2>1 DEF View, Told
  <2>7. SeenOnce(x)'
    BY <2>1, <2>2, <2>5, <2>6 DEF SeenOnce
  <2>8. \A d \in Chains : ToldOnce(d)'
    BY <1>2, <1>4, <2>3, ToldOnceKept
  <2>9. QED
    BY <1>1, <1>3, <2>7, <2>8 DEF OnceInv, SeenOnce, ToldOnce
<1>6. CASE ~Loads(x)
  <2>1. SeenKept(x)
    BY <1>6, SeenBySteps DEF ActorStep
  <2>2. SeenOnce(x)'
    BY <1>2, <1>4, <2>1, SeenOnceKept
  <2>3. CASE Writes(x)
    <3>0. PICK c : c = ChainOf(exec[x].rt)
      OBVIOUS
    <3> DEFINE r == exec[x].rt
    <3>1. /\ r \in Rts /\ Loaded(x) /\ SeenBy(x) \in Seq(Rts) /\ c \in Chains
          /\ TurnsOf(context'[c].items) = Append(SeenBy(x), r)
          /\ \A d \in Chains : d # c => context'[d] = context[d]
      BY <2>3, <3>0, WriteTells
    <3>2. TwiceIn(SeenBy(x), redone) /\ (r \in ToSet(SeenBy(x)) => r \in redone)
      BY <1>4, <3>1 DEF SeenOnce, View
    <3> HIDE DEF r
    <3>3. TwiceIn(Append(SeenBy(x), r), redone)
      BY <3>1, <3>2, AppendFacts
    <3>4. redone' = redone
      BY <2>3 DEF Writes
    <3>5. ToldOnce(c)'
      BY <3>1, <3>3, <3>4 DEF ToldOnce
    <3>6. \A d \in Chains : d # c => ToldOnce(d)'
      BY <1>2, <1>4, <3>1, ToldOnceKept
    <3>7. \A d \in Chains : ToldOnce(d)'
      BY <3>5, <3>6
    <3>8. QED
      BY <1>1, <1>3, <2>2, <3>7 DEF OnceInv, SeenOnce, ToldOnce
  <2>4. CASE ~Writes(x)
    <3>1. context' = context
      BY <1>6, <2>4 DEF ActorStep, Recalls, Answers, Replies, Ends, Frame
    <3>2. \A d \in Chains : ToldOnce(d)'
      BY <1>2, <1>4, <3>1, ToldOnceKept
    <3>3. QED
      BY <1>1, <1>3, <2>2, <3>2 DEF OnceInv, SeenOnce, ToldOnce
  <2>5. QED
    BY <2>3, <2>4
<1>7. QED
  BY <1>5, <1>6

LEMMA NextOnce == ContextInv /\ OnceInv /\ [Next]_vars => OnceInv'
<1> SUFFICES ASSUME ContextInv, OnceInv, [Next]_vars PROVE OnceInv'
  OBVIOUS
<1>1. Shaped
  BY DEF ContextInv, Shaped
<1>2. (\A c \in Chains : ToldOnce(c)) /\ \A x \in DOMAIN exec : SeenOnce(x)
  BY OnceParts
<1>3. ASSUME DOMAIN exec' = DOMAIN exec, redone' = redone, context' = context,
             \A x \in DOMAIN exec : SeenKept(x)
      PROVE  OnceInv'
  <2>1. \A c \in Chains : ToldOnce(c)'
    BY <1>2, <1>3, ToldOnceKept
  <2>2. \A x \in DOMAIN exec : SeenOnce(x)'
    BY <1>2, <1>3, SeenOnceKept
  <2>3. QED
    BY <1>3, <2>1, <2>2 DEF OnceInv, SeenOnce, ToldOnce
<1>4. CASE Rests \/ AllEnd
  <2>1. DOMAIN exec' = DOMAIN exec /\ redone' = redone /\ context' = context
    BY <1>4 DEF Rests, AllEnd, Frame
  <2>2. QED
    BY <1>3, <1>4, <2>1, SeenBySteps
<1>5. CASE \E x \in DOMAIN exec : \E r \in Rts : Begins(x, r)
  <2>1. PICK x \in DOMAIN exec : \E r \in Rts : Begins(x, r)
    BY <1>5
  <2>2. PICK r \in Rts : Begins(x, r)
    BY <2>1
  <2>3. DOMAIN exec' = DOMAIN exec /\ redone' = redone /\ context' = context /\ Changes(x)
    BY <2>2 DEF Begins, Frame, Changes
  <2>4. \A y \in DOMAIN exec : SeenKept(y)
    BY <2>2, <2>3, SeenBySteps, OthersSeen
  <2>5. QED
    BY <1>3, <2>3, <2>4
<1>6. CASE \E x \in DOMAIN exec : ActorStep(x)
  BY <1>6, OnceStep
<1>7. QED
  BY <1>1, <1>4, <1>5, <1>6, Kinds

-----------------------------------------------------------------------------
(* The turns that were written are told, or were written over. *)

LEMMA InitTyped == Init => AskTyped
BY DEF Init, AskTyped

LEMMA NextTyped == AskTyped /\ [Next]_vars => AskTyped'
<1> SUFFICES ASSUME AskTyped, [Next]_vars PROVE AskTyped'
  OBVIOUS
<1>1. CASE DroNext
  BY <1>1 DEF DroNext, Dispatch, Busy, Admit, Timeout, AskTyped
<1>2. CASE ActorNext
  <2>1. PICK x \in DOMAIN exec :
           \/ Load(x) \/ LoadFails(x) \/ Answered(x) \/ Rejected(x) \/ CallFails(x) \/ Unexportable(x)
           \/ Put(x) \/ Patch(x) \/ WriteFails(x) \/ RunTool(x) \/ Answer(x) \/ Cut(x)
    BY <1>2 DEF ActorNext
  <2>2. DOMAIN ask' = DOMAIN ask /\ DOMAIN rec' = DOMAIN rec
    BY <2>1 DEF Load, LoadFails, Answered, Rejected, CallFails, Unexportable, Put, Patch, WriteFails,
                RunTool, Answer, Cut
  <2>3. QED
    BY <2>2 DEF AskTyped
<1>3. CASE DroRestart \/ ActorRestart
  BY <1>3 DEF DroRestart, ActorRestart, AskTyped
<1>4. CASE UNCHANGED vars
  BY <1>4 DEF vars, AskTyped
<1>5. QED
  BY <1>1, <1>2, <1>3, <1>4 DEF Next

\* An RT is recorded as done by an execution that has written its turn.
LEMMA DoneByWriter ==
    ASSUME AskTyped, [Next]_vars, NEW r \in Rts \ ToolRts, rec'[r] = "done"
    PROVE  rec[r] = "done" \/ \E x \in DOMAIN exec : exec[x].rt = r /\ HasWritten(x)
<1> SUFFICES ASSUME rec[r] # "done" PROVE \E x \in DOMAIN exec : exec[x].rt = r /\ HasWritten(x)
  OBVIOUS
<1>1. ~DroNext
  BY DEF DroNext, Dispatch, Busy, Admit, Timeout, AskTyped
<1>2. ~DroRestart /\ ~ActorRestart /\ ~UNCHANGED vars
  BY DEF DroRestart, ActorRestart, vars
<1>3. PICK x \in DOMAIN exec :
           \/ Load(x) \/ LoadFails(x) \/ Answered(x) \/ Rejected(x) \/ CallFails(x) \/ Unexportable(x)
           \/ Put(x) \/ Patch(x) \/ WriteFails(x) \/ RunTool(x) \/ Answer(x) \/ Cut(x)
  BY <1>1, <1>2 DEF Next, ActorNext
<1>4. rec' # rec
  OBVIOUS
<1>5. Patch(x) \/ RunTool(x) \/ Answer(x)
  BY <1>3, <1>4 DEF Load, LoadFails, Answered, Rejected, CallFails, Unexportable, Put, WriteFails, Cut
<1>6. ~RunTool(x)
  BY DEF RunTool, AskTyped
<1>7. CASE Patch(x)
  <2>1. exec[x].rt = r
    BY <1>7 DEF Patch, AskTyped
  <2>2. HasWritten(x)
    BY <1>7 DEF Patch, HasWritten
  <2>3. QED
    BY <2>1, <2>2
<1>8. CASE Answer(x)
  <2>1. exec[x].rt = r /\ exec[x].reply = "result" /\ exec[x].pc = "reply"
    BY <1>8 DEF Answer, AskTyped
  <2>2. QED
    BY <2>1 DEF HasWritten
<1>9. QED
  BY <1>5, <1>6, <1>7, <1>8

-----------------------------------------------------------------------------
TellsOwn(c) == Told(c) \subseteq PersonaRtsOf(c)
SeesOwn(x) == Loaded(x) => View(x) \subseteq PersonaRtsOf(ChainOf(exec[x].rt))
HistoryOf(x) == HasWritten(x) => InHistory(exec[x].rt)

LEMMA InitKept == Init => KeptInv
<1> SUFFICES ASSUME Init PROVE KeptInv
  OBVIOUS
<1>1. ASSUME NEW c \in Chains PROVE Told(c) \subseteq PersonaRtsOf(c)
  <2>1. context[c].items = <<>>
    BY DEF Init, NoContext, Envelope
  <2>2. QED
    BY <2>1, TurnsNone DEF Told, ToSet
<1>2. \A x \in DOMAIN exec : exec[x].pc = "gone"
  BY NoExecShape DEF Init
<1>3. QED
  BY <1>1, <1>2 DEF KeptInv, Loaded, HasWritten, Init

\* What a step does to the history.
LEMMA HistoryGrows ==
    ASSUME ContextInv, KeptInv, [Next]_vars
    PROVE  /\ \A r \in Rts : InHistory(r) => InHistory(r)'
           /\ \A c \in Chains : TellsOwn(c)'
           /\ (overwritten \subseteq Rts \ ToolRts)'
           /\ DOMAIN exec' = DOMAIN exec
<1>1. Shaped
  BY DEF ContextInv, Shaped
<1>2. CASE context' = context /\ overwritten' = overwritten /\ DOMAIN exec' = DOMAIN exec
  BY <1>2 DEF InHistory, KeptInv, TellsOwn, Told, PersonaRtsOf
<1>3. CASE \E x \in DOMAIN exec : Writes(x)
  <2>1. PICK x \in DOMAIN exec : Writes(x)
    BY <1>3
  <2>2. PICK c : c = ChainOf(exec[x].rt)
    OBVIOUS
  <2>3. /\ exec[x].rt \in Rts \ ToolRts /\ Loaded(x) /\ c \in Chains
        /\ Told(c)' = View(x) \cup {exec[x].rt}
        /\ \A d \in Chains : d # c => context'[d] = context[d]
    BY <2>1, <2>2, WriteTells
  <2>4. overwritten' = overwritten \cup (Told(c) \ View(x)) /\ DOMAIN exec' = DOMAIN exec
    BY <2>1, <2>2 DEF Writes, Changes
  <2>5. ASSUME NEW d \in Chains, d # c PROVE Told(d)' = Told(d)
    BY <2>3, <2>5 DEF Told
  <2>6. ASSUME NEW r \in Rts, InHistory(r) PROVE InHistory(r)'
    <3>1. r \in Told(ChainOf(r)) \cup overwritten /\ ChainOf(r) \in Chains
      BY <2>6, ChainTyped DEF InHistory
    <3>2. CASE ChainOf(r) = c
      <4>1. r \in Told(c)' \cup overwritten'
        BY <2>3, <2>4, <3>1, <3>2
      <4>2. QED
        BY <3>2, <4>1 DEF InHistory
    <3>3. CASE ChainOf(r) # c
      <4>1. Told(ChainOf(r))' = Told(ChainOf(r))
        BY <2>5, <3>1, <3>3
      <4>2. QED
        BY <2>4, <3>1, <4>1 DEF InHistory
    <3>4. QED
      BY <3>2, <3>3
  <2>7. View(x) \subseteq PersonaRtsOf(c) /\ exec[x].rt \in PersonaRtsOf(c)
    BY <2>2, <2>3 DEF KeptInv, PersonaRtsOf
  <2>8. \A d \in Chains : TellsOwn(d)'
    <3>1. TellsOwn(c)'
      BY <2>3, <2>7 DEF TellsOwn, PersonaRtsOf
    <3>2. ASSUME NEW d \in Chains, d # c PROVE TellsOwn(d)'
      BY <2>5, <3>2 DEF TellsOwn, KeptInv, PersonaRtsOf
    <3>3. QED
      BY <3>1, <3>2
  <2>9. (overwritten \subseteq Rts \ ToolRts)'
    BY <2>3, <2>4 DEF KeptInv, PersonaRtsOf
  <2>10. QED
    BY <2>4, <2>6, <2>8, <2>9
<1>4. QED
  BY <1>1, <1>2, <1>3, Kinds
     DEF Rests, AllEnd, Begins, ActorStep, Loads, Recalls, Answers, Replies, Ends, Frame, Changes

LEMMA SeesOwnKept == ASSUME NEW x, SeesOwn(x), SeenKept(x) PROVE SeesOwn(x)'
BY DEF SeesOwn, SeenKept, SeenBy, View, PersonaRtsOf

\* An execution sees turns of RTs of its chain only.
LEMMA NextSeesOwn ==
    ASSUME ContextInv, KeptInv, [Next]_vars, NEW x \in DOMAIN exec PROVE SeesOwn(x)'
<1>1. SeesOwn(x)
  BY DEF KeptInv, SeesOwn
<1>2. CASE SeenKept(x)
  BY <1>1, <1>2, SeesOwnKept
<1>3. CASE Loads(x)
  <2>1. PICK c : c = ChainOf(exec[x].rt)
    OBVIOUS
  <2>2. exec'[x].rt = exec[x].rt /\ c \in Chains /\ SeenBy(x)' = TurnsOf(context[c].items)
    BY <1>3, <2>1, LoadSees
  <2>3. View(x)' = Told(c) /\ Told(c) \subseteq PersonaRtsOf(c)
    BY <2>2 DEF View, Told, KeptInv
  <2>4. QED
    BY <2>1, <2>2, <2>3 DEF SeesOwn, PersonaRtsOf
<1>4. SeenKept(x) \/ Loads(x)
  <2>1. Shaped
    BY DEF ContextInv, Shaped
  <2>2. CASE Rests \/ AllEnd
    BY <2>2, SeenBySteps
  <2>3. CASE \E y \in DOMAIN exec : \E r \in Rts : Begins(y, r)
    <3>1. PICK y \in DOMAIN exec : \E r \in Rts : Begins(y, r)
      BY <2>3
    <3>2. Changes(y)
      BY <3>1 DEF Begins
    <3>3. QED
      BY <3>1, <3>2, SeenBySteps, OthersSeen
  <2>4. CASE \E y \in DOMAIN exec : ActorStep(y)
    <3>1. PICK y \in DOMAIN exec : ActorStep(y)
      BY <2>4
    <3>2. Changes(y)
      BY <3>1 DEF ActorStep, Loads, Recalls, Answers, Writes, Replies, Ends
    <3>3. QED
      BY <3>1, <3>2, SeenBySteps, OthersSeen DEF ActorStep
  <2>5. QED
    BY <2>1, <2>2, <2>3, <2>4, Kinds
<1>5. QED
  BY <1>2, <1>3, <1>4

\* An execution that has written its turn is in the history.
LEMMA NextHistory ==
    ASSUME ContextInv, KeptInv, [Next]_vars, NEW x \in DOMAIN exec PROVE HistoryOf(x)'
<1> SUFFICES ASSUME HasWritten(x)' PROVE (InHistory(exec[x].rt))'
  BY DEF HistoryOf
<1>1. PICK r : r = exec'[x].rt
  OBVIOUS
<1>2. \A q \in Rts : InHistory(q) => InHistory(q)'
  BY HistoryGrows
<1>3. ASSUME r \in Rts, InHistory(r)' PROVE (InHistory(exec[x].rt))'
  BY <1>1, <1>3 DEF InHistory
<1>4. CASE HasWritten(x) /\ exec[x].rt = r
  <2>1. r \in Rts
    BY <1>4 DEF ContextInv, Sound, HasWritten
  <2>2. InHistory(r)
    BY <1>4 DEF KeptInv
  <2>3. QED
    BY <1>2, <1>3, <2>1, <2>2
<1>5. CASE Writes(x)
  <2>1. PICK c : c = ChainOf(exec[x].rt)
    OBVIOUS
  <2>2. exec[x].rt \in Rts /\ Told(c)' = View(x) \cup {exec[x].rt}
    BY <1>5, <2>1, WriteTells
  <2>3. exec[x].rt = r
    BY <1>1, <1>5 DEF Writes
  <2>4. r \in Told(c)' /\ c = ChainOf(r)
    BY <2>1, <2>2, <2>3
  <2>5. QED
    BY <1>3, <2>2, <2>3, <2>4 DEF InHistory
<1>6. (HasWritten(x) /\ exec[x].rt = r) \/ Writes(x)
  <2>1. Shaped
    BY DEF ContextInv, Shaped
  <2>2. CASE Rests \/ AllEnd
    BY <1>1, <2>2 DEF Rests, AllEnd, HasWritten
  <2>3. ASSUME NEW y \in DOMAIN exec, Changes(y), y # x PROVE HasWritten(x) /\ exec[x].rt = r
    BY <1>1, <2>3 DEF Changes, HasWritten
  <2>4. CASE \E y \in DOMAIN exec : \E q \in Rts : Begins(y, q)
    BY <2>3, <2>4 DEF Begins, HasWritten
  <2>5. CASE \E y \in DOMAIN exec : ActorStep(y)
    <3>1. PICK y \in DOMAIN exec : ActorStep(y)
      BY <2>5
    <3>2. Changes(y)
      BY <3>1 DEF ActorStep, Loads, Recalls, Answers, Writes, Replies, Ends
    <3>3. CASE y = x
      <4>1. CASE Replies(x)
        BY <1>1, <4>1 DEF Replies, HasWritten
      <4>2. CASE Loads(x) \/ Recalls(x) \/ Answers(x) \/ Ends(x)
        BY <4>2 DEF Loads, Recalls, Answers, Ends, HasWritten
      <4>3. QED
        BY <3>1, <3>3, <4>1, <4>2 DEF ActorStep
    <3>4. QED
      BY <2>3, <3>2, <3>3
  <2>6. QED
    BY <2>1, <2>2, <2>4, <2>5, Kinds
<1>7. QED
  BY <1>4, <1>5, <1>6

LEMMA NextKept == AskTyped /\ ContextInv /\ KeptInv /\ [Next]_vars => KeptInv'
<1> SUFFICES ASSUME AskTyped, ContextInv, KeptInv, [Next]_vars PROVE KeptInv'
  OBVIOUS
<1>1. /\ \A r \in Rts : InHistory(r) => InHistory(r)'
      /\ \A c \in Chains : TellsOwn(c)'
      /\ (overwritten \subseteq Rts \ ToolRts)'
      /\ DOMAIN exec' = DOMAIN exec
  BY HistoryGrows
<1>2. \A x \in DOMAIN exec : SeesOwn(x)'
  BY NextSeesOwn
<1>3. \A x \in DOMAIN exec : HistoryOf(x)'
  BY NextHistory
<1>4. ASSUME NEW r \in Rts \ ToolRts, rec'[r] = "done" PROVE InHistory(r)'
  <2>1. rec[r] = "done" \/ \E x \in DOMAIN exec : exec[x].rt = r /\ HasWritten(x)
    BY <1>4, DoneByWriter
  <2>2. InHistory(r)
    BY <2>1 DEF KeptInv
  <2>3. QED
    BY <1>1, <2>2
<1>5. QED
  BY <1>1, <1>2, <1>3, <1>4 DEF KeptInv, TellsOwn, SeesOwn, HistoryOf

-----------------------------------------------------------------------------
(* Until the DRO restarts: the groups of the plan. *)

\* An RT is of its chain, and of one group.
LEMMA PlanFacts ==
    /\ \A r \in Rts : ChainOf(r) \in Chains /\ \E k \in DOMAIN Plan[ChainOf(r)] : r \in Plan[ChainOf(r)][k]
    /\ \A c \in Chains : \A k \in DOMAIN Plan[c] : \A r \in Plan[c][k] : r \in Rts /\ ChainOf(r) = c
    /\ \A c \in Chains : \A k \in DOMAIN Plan[c] : k \in Nat /\ 1..k - 1 \subseteq DOMAIN Plan[c]
<1>1. Plan \in [Chains -> Seq(SUBSET Rts)]
  BY PlanAssumption
<1>2. ASSUME NEW c \in Chains, NEW k \in DOMAIN Plan[c]
      PROVE  k \in Nat /\ 1..k - 1 \subseteq DOMAIN Plan[c] /\ Plan[c][k] \subseteq Rts
  <2>1. Plan[c] \in Seq(SUBSET Rts)
    BY <1>1
  <2>2. QED
    BY <2>1
<1>3. \A r \in Rts : ChainOf(r) \in Chains /\ \E k \in DOMAIN Plan[ChainOf(r)] : r \in Plan[ChainOf(r)][k]
  BY PlanAssumption DEF ChainOf
<1>4. ASSUME NEW c \in Chains, NEW k \in DOMAIN Plan[c], NEW r \in Plan[c][k]
      PROVE  r \in Rts /\ ChainOf(r) = c
  <2>1. r \in Rts
    BY <1>2
  <2>2. PICK j \in DOMAIN Plan[ChainOf(r)] : r \in Plan[ChainOf(r)][j]
    BY <1>3, <2>1
  <2>3. Plan[ChainOf(r)][j] \cap Plan[c][k] # {} /\ ChainOf(r) \in Chains
    BY <1>3, <2>1, <2>2
  <2>4. ChainOf(r) = c
    BY <2>2, <2>3, PlanAssumption
  <2>5. QED
    BY <2>1, <2>4
<1>5. QED
  BY <1>2, <1>3, <1>4

LEMMA TogetherFacts ==
    /\ \A q, r, s : Together(q, r) /\ Together(r, s) => Together(q, s)
    /\ \A r \in Rts : Together(r, r)
<1>1. ASSUME NEW q, NEW r, NEW s, Together(q, r), Together(r, s) PROVE Together(q, s)
  <2>1. PICK c \in Chains : \E k \in DOMAIN Plan[c] : {q, r} \subseteq Plan[c][k]
    BY <1>1 DEF Together
  <2>2. PICK k \in DOMAIN Plan[c] : {q, r} \subseteq Plan[c][k]
    BY <2>1
  <2>3. PICK d \in Chains : \E j \in DOMAIN Plan[d] : {r, s} \subseteq Plan[d][j]
    BY <1>1 DEF Together
  <2>4. PICK j \in DOMAIN Plan[d] : {r, s} \subseteq Plan[d][j]
    BY <2>3
  <2>5. Plan[c][k] \cap Plan[d][j] # {}
    BY <2>2, <2>4
  <2>6. c = d /\ k = j
    BY <2>5, PlanAssumption
  <2>7. {q, s} \subseteq Plan[c][k]
    BY <2>2, <2>4, <2>6
  <2>8. QED
    BY <2>7 DEF Together
<1>2. \A r \in Rts : Together(r, r)
  BY PlanFacts DEF Together
<1>3. QED
  BY <1>1, <1>2

-----------------------------------------------------------------------------
InOrder ==
    \A c \in Chains : \A k \in DOMAIN Plan[c] : \A r \in Plan[c][k] :
       ask[r].st # "idle" => \A j \in 1..k - 1 : \A q \in Plan[c][j] : ask[q].st = "ok"
Answering == \A x \in Live : ask[exec[x].rt].st \in {"open", "failed"}
Alone == \A x, y \in Live : exec[x].rt = exec[y].rt => x = y

LEMMA SequentialParts == Sequential <=> InOrder /\ Answering /\ Alone
BY DEF Sequential, InOrder, Answering, Alone

\* What is asked but not begun or done stays so; no execution begins.
Proceeds ==
    /\ \A r \in Rts : ask[r].st = "ok" => ask'[r].st = "ok"
    /\ \A r \in Rts : ask'[r].st # "idle" => ask[r].st # "idle"

LEMMA ProceedsInOrder == ASSUME InOrder, Proceeds PROVE InOrder'
<1> SUFFICES ASSUME NEW c \in Chains, NEW k \in DOMAIN Plan[c], NEW r \in Plan[c][k], ask'[r].st # "idle",
                    NEW j \in 1..k - 1, NEW q \in Plan[c][j]
             PROVE  ask'[q].st = "ok"
  BY DEF InOrder
<1>1. r \in Rts /\ q \in Rts
  BY PlanFacts
<1>2. ask[r].st # "idle"
  BY <1>1 DEF Proceeds
<1>3. ask[q].st = "ok"
  BY <1>2 DEF InOrder
<1>4. QED
  BY <1>1, <1>3 DEF Proceeds

LEMMA OverShape == \A st : Over(st).st = st
BY DEF Over, Idle

LEMMA DispatchSequential ==
    ASSUME AskTyped, ContextInv, Sequential, NEW r \in Rts, Dispatch(r) PROVE Sequential'
<1>1. InOrder /\ Answering /\ Alone
  BY SequentialParts
<1>2. /\ ask[r].st = "idle" /\ ask'[r].st = "asking" /\ exec' = exec
      /\ \A q \in Rts : q # r => ask'[q] = ask[q]
  BY DEF Dispatch, AskTyped, actorVars
<1>3. PICK k \in DOMAIN Plan[ChainOf(r)] :
         r \in Plan[ChainOf(r)][k] /\ \A j \in 1..k - 1 : \A q \in Plan[ChainOf(r)][j] : ask[q].st = "ok"
  BY DEF Dispatch
<1>4. InOrder'
  <2> SUFFICES ASSUME NEW c \in Chains, NEW i \in DOMAIN Plan[c], NEW p \in Plan[c][i], ask'[p].st # "idle",
                      NEW j \in 1..i - 1, NEW q \in Plan[c][j]
               PROVE  ask'[q].st = "ok"
    BY DEF InOrder
  <2>1. p \in Rts /\ q \in Rts /\ ChainOf(p) = c
    BY PlanFacts
  <2>2. ask[q].st = "ok"
    <3>1. CASE p = r
      <4>1. Plan[c][i] \cap Plan[c][k] # {} /\ k \in DOMAIN Plan[c]
        BY <1>3, <2>1, <3>1
      <4>2. i = k
        BY <4>1, PlanAssumption
      <4>3. QED
        BY <1>3, <2>1, <3>1, <4>2
    <3>2. CASE p # r
      BY <1>1, <1>2, <2>1, <3>2 DEF InOrder
    <3>3. QED
      BY <3>1, <3>2
  <2>3. q # r
    BY <1>2, <2>2
  <2>4. QED
    BY <1>2, <2>1, <2>2, <2>3
<1>5. Answering' /\ Alone'
  <2>1. \A x \in Live : exec[x].rt \in Rts
    BY DEF ContextInv, Sound, Live
  <2>2. \A x \in Live : exec[x].rt # r
    BY <1>1, <1>2 DEF Answering
  <2>3. QED
    BY <1>1, <1>2, <2>1, <2>2 DEF Answering, Alone, Live
<1>6. QED
  BY <1>4, <1>5 DEF Sequential, InOrder, Answering, Alone

LEMMA BusySequential ==
    ASSUME AskTyped, ContextInv, Sequential, NEW r \in Rts, Busy(r) PROVE Sequential'
<1>1. InOrder /\ Answering /\ Alone
  BY SequentialParts
<1>2. /\ ask[r].st = "asking" /\ ask'[r].st # "idle" /\ exec' = exec
      /\ \A q \in Rts : q # r => ask'[q] = ask[q]
  BY OverShape DEF Busy, AskTyped, actorVars
<1>3. InOrder'
  BY <1>1, <1>2, ProceedsInOrder DEF Proceeds
<1>4. Answering' /\ Alone'
  <2>1. \A x \in Live : exec[x].rt \in Rts
    BY DEF ContextInv, Sound, Live
  <2>2. \A x \in Live : exec[x].rt # r
    BY <1>1, <1>2 DEF Answering
  <2>3. QED
    BY <1>1, <1>2, <2>1, <2>2 DEF Answering, Alone, Live
<1>5. QED
  BY <1>3, <1>4 DEF Sequential, InOrder, Answering, Alone

LEMMA AdmitSequential ==
    ASSUME AskTyped, ContextInv, Sequential, NEW r \in Rts, Admit(r) PROVE Sequential'
<1>1. InOrder /\ Answering /\ Alone
  BY SequentialParts
<1>2. /\ ask[r].st = "asking" /\ ask'[r].st = "open"
      /\ \A q \in Rts : q # r => ask'[q] = ask[q]
  BY OverShape DEF Admit, AskTyped
<1>3. InOrder'
  BY <1>1, <1>2, ProceedsInOrder DEF Proceeds
<1>4. PICK x \in DOMAIN exec : Begins(x, r)
  <2>1. Shaped
    BY DEF ContextInv, Shaped
  <2>2. QED
    BY <2>1, AdmitBegins
<1>5. /\ DOMAIN exec' = DOMAIN exec /\ exec'[x].rt = r
      /\ \A y \in DOMAIN exec \ {x} : exec'[y] = exec[y]
  BY <1>4 DEF Begins, Changes
<1>6. \A y \in Live : exec[y].rt \in Rts /\ exec[y].rt # r
  <2>1. \A y \in Live : exec[y].rt \in Rts
    BY DEF ContextInv, Sound, Live
  <2>2. QED
    BY <1>1, <1>2, <2>1 DEF Answering
<1>7. \A y \in Live' : (y = x /\ exec'[y].rt = r) \/ (y # x /\ y \in Live /\ exec'[y] = exec[y])
  BY <1>5 DEF Live
<1>8. Answering'
  BY <1>1, <1>2, <1>6, <1>7 DEF Answering
<1>9. Alone'
  BY <1>1, <1>6, <1>7 DEF Alone
<1>10. QED
  BY <1>3, <1>8, <1>9 DEF Sequential, InOrder, Answering, Alone

\* No execution begins, and none changes its RT.
Shrinks == \A x \in Live' : x \in Live /\ exec'[x].rt = exec[x].rt

LEMMA TimeoutSequential ==
    ASSUME AskTyped, ContextInv, Sequential, NEW r \in Rts, Timeout(r) PROVE Sequential'
<1>1. InOrder /\ Answering /\ Alone
  BY SequentialParts
<1>2. /\ ask[r].st = "open" /\ ask'[r].st = "failed"
      /\ \A q \in Rts : q # r => ask'[q] = ask[q]
  BY OverShape DEF Timeout, AskTyped
<1>3. InOrder'
  BY <1>1, <1>2, ProceedsInOrder DEF Proceeds
<1>4. Shrinks
  <2>1. Shaped
    BY DEF ContextInv, Shaped
  <2>2. Rests
    BY <2>1, AskRests
  <2>3. QED
    BY <2>2 DEF Rests, Shrinks, Live
<1>5. \A x \in Live : exec[x].rt \in Rts
  BY DEF ContextInv, Sound, Live
<1>6. Answering' /\ Alone'
  BY <1>1, <1>2, <1>4, <1>5 DEF Answering, Alone, Shrinks
<1>7. QED
  BY <1>3, <1>6 DEF Sequential, InOrder, Answering, Alone

LEMMA AnswerSequential ==
    ASSUME AskTyped, ContextInv, Sequential, NEW x \in DOMAIN exec, Answer(x) PROVE Sequential'
<1>1. InOrder /\ Answering /\ Alone
  BY SequentialParts
<1> DEFINE r == exec[x].rt
<1>2. x \in Live /\ r \in Rts /\ ask[r].st \in {"open", "failed"}
  BY <1>1 DEF Answer, Live, ContextInv, Sound, Answering
<1>3. /\ \A q \in Rts : q # r => ask'[q] = ask[q]
      /\ ask'[r].st # "idle"
  <2>1. CASE exec[x].client
    <3>1. PICK st : ask' = [ask EXCEPT ![r] = Over(st)] /\ st \in {"ok", "failed"}
      BY <2>1 DEF Answer
    <3>2. QED
      BY <1>2, <3>1, OverShape DEF AskTyped
  <2>2. CASE ~exec[x].client
    BY <1>2, <2>2 DEF Answer
  <2>3. QED
    BY <2>1, <2>2
<1>4. Proceeds
  BY <1>2, <1>3 DEF Proceeds
<1>5. InOrder'
  BY <1>1, <1>4, ProceedsInOrder
<1>6. Ends(x)
  <2>1. Shaped
    BY DEF ContextInv, Shaped
  <2>2. QED
    BY <2>1, EndSteps
<1>7. \A y \in Live' : y \in Live /\ y # x /\ exec'[y].rt = exec[y].rt
  BY <1>6 DEF Ends, Changes, Live
<1>8. \A y \in Live : exec[y].rt \in Rts /\ (y # x => exec[y].rt # r)
  <2>1. \A y \in Live : exec[y].rt \in Rts
    BY DEF ContextInv, Sound, Live
  <2>2. QED
    BY <1>1, <1>2, <2>1 DEF Alone
<1>9. Answering'
  BY <1>1, <1>3, <1>7, <1>8 DEF Answering
<1>10. Alone'
  BY <1>1, <1>7 DEF Alone
<1>11. QED
  BY <1>5, <1>9, <1>10 DEF Sequential, InOrder, Answering, Alone

LEMMA SameSequential ==
    ASSUME Sequential, ask' = ask, Shrinks PROVE Sequential'
BY DEF Sequential, Shrinks

LEMMA ActorRestartSequential ==
    ASSUME AskTyped, ContextInv, Sequential, ActorRestart PROVE Sequential'
<1>1. InOrder /\ Answering /\ Alone
  BY SequentialParts
<1>2. \A r \in Rts : ask'[r] = IF ask[r].st = "open" THEN Over("failed") ELSE ask[r]
  BY DEF ActorRestart
<1>3. Proceeds
  BY <1>2, OverShape DEF Proceeds
<1>4. InOrder'
  BY <1>1, <1>3, ProceedsInOrder
<1>5. AllEnd
  <2>1. Shaped
    BY DEF ContextInv, Shaped
  <2>2. QED
    BY <2>1, ActorRestartEnds
<1>6. Live' = {}
  BY <1>5 DEF AllEnd, Live
<1>7. QED
  BY <1>4, <1>6 DEF Sequential, InOrder

LEMMA NextSequential ==
    ASSUME AskTyped, ContextInv, Sequential, [Next]_vars, ~resumed' PROVE Sequential'
<1>0. Shaped
  BY DEF ContextInv, Shaped
<1>1. CASE DroNext
  BY <1>1, DispatchSequential, BusySequential, AdmitSequential, TimeoutSequential DEF DroNext
<1>2. CASE ActorNext
  <2>1. PICK x \in DOMAIN exec :
           \/ Load(x) \/ LoadFails(x) \/ Answered(x) \/ Rejected(x) \/ CallFails(x) \/ Unexportable(x)
           \/ Put(x) \/ Patch(x) \/ WriteFails(x) \/ RunTool(x) \/ Answer(x) \/ Cut(x)
    BY <1>2 DEF ActorNext
  <2>2. CASE Answer(x)
    BY <2>2, AnswerSequential
  <2>3. CASE ~Answer(x)
    <3>1. ActorStep(x)
      BY <1>0, <2>1, StartedSteps, CallingSteps, WritingSteps, EndSteps DEF ActorStep
    <3>2. Shrinks
      BY <3>1 DEF ActorStep, Loads, Recalls, Answers, Writes, Replies, Ends, Changes, Shrinks, Live
    <3>3. ask' = ask
      BY <2>1, <2>3 DEF Load, LoadFails, Answered, Rejected, CallFails, Unexportable, Put, Patch, WriteFails,
                        RunTool, Cut
    <3>4. QED
      BY <3>2, <3>3, SameSequential
  <2>4. QED
    BY <2>2, <2>3
<1>3. CASE ActorRestart
  BY <1>3, ActorRestartSequential
<1>4. CASE UNCHANGED vars
  <2>1. ask' = ask /\ Shrinks
    BY <1>4 DEF vars, actorVars, Shrinks, Live
  <2>2. QED
    BY <2>1, SameSequential
<1>5. ~DroRestart
  BY DEF DroRestart
<1>6. QED
  BY <1>1, <1>2, <1>3, <1>4, <1>5 DEF Next

-----------------------------------------------------------------------------
(* Until the DRO restarts: the turns that are not yet written. *)

\* Until the DRO restarts, an RT that has its turn written gets no new execution.
LEMMA NoNewWork ==
    ASSUME AskTyped, ContextInv, [Next]_vars, ~resumed', NEW r \in Rts, ToWrite(r)' PROVE ToWrite(r)
<1>0. Shaped
  BY DEF ContextInv, Shaped
<1>1. CASE \E q \in Rts : Admit(q)
  <2>1. PICK q \in Rts : Admit(q)
    BY <1>1
  <2>2. ask[q].st = "asking" /\ ask'[q].st = "open" /\ \A p \in Rts : p # q => ask'[p] = ask[p]
    BY <2>1, OverShape DEF Admit, AskTyped
  <2>3. PICK x \in DOMAIN exec : Begins(x, q)
    BY <1>0, <2>1, AdmitBegins
  <2>4. /\ DOMAIN exec' = DOMAIN exec /\ exec'[x].rt = q
        /\ \A y \in DOMAIN exec \ {x} : exec'[y] = exec[y]
    BY <2>3 DEF Begins, Changes
  <2>5. CASE r = q
    BY <2>2, <2>5 DEF ToWrite
  <2>6. CASE r # q
    BY <2>2, <2>4, <2>6 DEF ToWrite
  <2>7. QED
    BY <2>5, <2>6
<1>2. ASSUME ask'[r].st \in {"idle", "asking"} => ask[r].st \in {"idle", "asking"},
             DOMAIN exec' = DOMAIN exec,
             \A x \in DOMAIN exec : exec'[x].pc \in Working => exec[x].pc \in Working /\ exec'[x].rt = exec[x].rt
      PROVE  ToWrite(r)
  BY <1>2 DEF ToWrite
<1>3. ASSUME Rests
      PROVE  /\ DOMAIN exec' = DOMAIN exec
             /\ \A x \in DOMAIN exec :
                   exec'[x].pc \in Working => exec[x].pc \in Working /\ exec'[x].rt = exec[x].rt
  BY <1>3 DEF Rests
<1>4. CASE \E q \in Rts : Dispatch(q) \/ Busy(q) \/ Timeout(q)
  <2>1. PICK q \in Rts : Dispatch(q) \/ Busy(q) \/ Timeout(q)
    BY <1>4
  <2>2. /\ q # r => ask'[r] = ask[r]
        /\ ask[q].st \in {"idle", "asking"} \/ ask'[q].st = "failed"
    BY <2>1, OverShape DEF Dispatch, Busy, Timeout, AskTyped
  <2>3. Rests
    BY <1>0, <2>1, AskRests
  <2>4. QED
    BY <1>2, <1>3, <2>2, <2>3
<1>5. CASE ActorNext
  <2>1. PICK x \in DOMAIN exec :
           \/ Load(x) \/ LoadFails(x) \/ Answered(x) \/ Rejected(x) \/ CallFails(x) \/ Unexportable(x)
           \/ Put(x) \/ Patch(x) \/ WriteFails(x) \/ RunTool(x) \/ Answer(x) \/ Cut(x)
    BY <1>5 DEF ActorNext
  <2>2. ActorStep(x)
    BY <1>0, <2>1, StartedSteps, CallingSteps, WritingSteps, EndSteps DEF ActorStep
  <2>3. /\ DOMAIN exec' = DOMAIN exec
        /\ \A y \in DOMAIN exec :
              exec'[y].pc \in Working => exec[y].pc \in Working /\ exec'[y].rt = exec[y].rt
    BY <2>2 DEF ActorStep, Loads, Recalls, Answers, Writes, Replies, Ends, Changes, Working
  <2>4. CASE Answer(x)
    <3>1. ask'[r] = ask[r] \/ \E st \in {"ok", "failed"} : ask'[r] = Over(st)
      BY <2>4 DEF Answer, AskTyped
    <3>2. QED
      BY <1>2, <2>3, <3>1, OverShape
  <2>5. CASE ~Answer(x)
    <3>1. ask' = ask
      BY <2>1, <2>5 DEF Load, LoadFails, Answered, Rejected, CallFails, Unexportable, Put, Patch, WriteFails,
                        RunTool, Cut
    <3>2. QED
      BY <1>2, <2>3, <3>1
  <2>6. QED
    BY <2>4, <2>5
<1>6. CASE ActorRestart
  <2>1. AllEnd
    BY <1>0, <1>6, ActorRestartEnds
  <2>2. ask'[r] = ask[r] \/ ask'[r] = Over("failed")
    BY <1>6 DEF ActorRestart
  <2>3. QED
    BY <1>2, <2>1, <2>2, OverShape DEF AllEnd, Working
<1>7. CASE UNCHANGED vars
  BY <1>2, <1>7 DEF vars, actorVars
<1>8. ~DroRestart
  BY DEF DroRestart
<1>9. QED
  BY <1>1, <1>4, <1>5, <1>6, <1>7, <1>8 DEF Next, DroNext

\* A step other than a load or a write leaves what is told and seen as it was.
Quiet == /\ context' = context /\ overwritten' = overwritten /\ redone' = redone
         /\ DOMAIN exec' = DOMAIN exec /\ \A x \in DOMAIN exec : SeenKept(x)

LEMMA QuietSteps ==
    ASSUME ContextInv, [Next]_vars
    PROVE  Quiet \/ \E x \in DOMAIN exec : Loads(x) \/ Writes(x)
<1>0. Shaped
  BY DEF ContextInv, Shaped
<1>1. CASE Rests \/ AllEnd
  BY <1>1, SeenBySteps DEF Rests, AllEnd, Frame, Quiet
<1>2. CASE \E x \in DOMAIN exec : \E r \in Rts : Begins(x, r)
  <2>1. PICK x \in DOMAIN exec : \E r \in Rts : Begins(x, r)
    BY <1>2
  <2>2. PICK r \in Rts : Begins(x, r)
    BY <2>1
  <2>3. Changes(x) /\ Frame
    BY <2>2 DEF Begins
  <2>4. \A y \in DOMAIN exec : SeenKept(y)
    BY <2>2, <2>3, SeenBySteps, OthersSeen
  <2>5. QED
    BY <2>3, <2>4 DEF Quiet, Frame, Changes
<1>3. CASE \E x \in DOMAIN exec : ActorStep(x)
  <2>1. PICK x \in DOMAIN exec : ActorStep(x)
    BY <1>3
  <2>2. SUFFICES ASSUME Recalls(x) \/ Answers(x) \/ Replies(x) \/ Ends(x) PROVE Quiet
    BY <2>1 DEF ActorStep
  <2>3. Changes(x) /\ Frame
    BY <2>2 DEF Recalls, Answers, Replies, Ends
  <2>4. \A y \in DOMAIN exec : SeenKept(y)
    BY <2>2, <2>3, SeenBySteps, OthersSeen
  <2>5. QED
    BY <2>3, <2>4 DEF Quiet, Frame, Changes
<1>4. QED
  BY <1>0, <1>1, <1>2, <1>3, Kinds

\* What has been seen stays.
LEMMA SameView == ASSUME NEW x, SeenKept(x), Loaded(x)' PROVE Loaded(x) /\ View(x)' = View(x) /\ exec'[x].rt = exec[x].rt
BY DEF SeenKept, View, SeenBy

LEMMA QuietWritten == ASSUME Quiet, NEW r, Unwritten(r) PROVE Unwritten(r)'
<1>1. ASSUME NEW x \in DOMAIN exec, Loaded(x)' PROVE r \notin View(x)'
  BY <1>1, SameView DEF Quiet, Unwritten
<1>2. QED
  BY <1>1 DEF Quiet, Unwritten, Told

LEMMA LoadWritten ==
    ASSUME ContextInv, KeptInv, NEW x \in DOMAIN exec, Loads(x), NEW r \in Rts, Unwritten(r)
    PROVE  Unwritten(r)'
<1>1. PICK c : c = ChainOf(exec[x].rt)
  OBVIOUS
<1>2. c \in Chains /\ SeenBy(x)' = TurnsOf(context[c].items) /\ context' = context /\ Changes(x)
  BY <1>1, LoadSees DEF Loads
<1>3. View(x)' = Told(c)
  BY <1>2 DEF View, Told
<1>4. r \notin Told(c)
  BY <1>2 DEF Unwritten, KeptInv, PersonaRtsOf
<1>5. ASSUME NEW y \in DOMAIN exec, y # x, Loaded(y)' PROVE r \notin View(y)'
  BY <1>2, <1>5, OthersSeen, SameView DEF Unwritten
<1>6. QED
  BY <1>2, <1>3, <1>4, <1>5 DEF Unwritten, Told, Changes

LEMMA WriteWritten ==
    ASSUME ContextInv, NEW x \in DOMAIN exec, Writes(x), NEW r \in Rts, r # exec[x].rt, Unwritten(r)
    PROVE  Unwritten(r)'
<1>1. PICK c : c = ChainOf(exec[x].rt)
  OBVIOUS
<1>2. /\ Loaded(x) /\ Told(c)' = View(x) \cup {exec[x].rt} /\ c \in Chains
      /\ \A d \in Chains : d # c => context'[d] = context[d]
  BY <1>1, WriteTells
<1>3. Changes(x) /\ ~Loaded(x)'
  BY DEF Writes, Loaded
<1>4. ASSUME NEW y \in DOMAIN exec, Loaded(y)' PROVE r \notin View(y)'
  BY <1>3, <1>4, OthersSeen, SameView DEF Unwritten
<1>5. r \notin Told(ChainOf(r))'
  <2>1. CASE ChainOf(r) = c
    <3>1. r \notin Told(c)'
      BY <1>2 DEF Unwritten
    <3>2. QED
      BY <2>1, <3>1
  <2>2. CASE ChainOf(r) # c
    BY <1>2, <2>2, ChainTyped DEF Told, Unwritten
  <2>3. QED
    BY <2>1, <2>2
<1>6. QED
  BY <1>3, <1>4, <1>5 DEF Unwritten, Changes

LEMMA NextWritten ==
    ASSUME AskTyped, ContextInv, KeptInv, Sequential, Written, [Next]_vars, ~resumed' PROVE Written'
<1> SUFFICES ASSUME NEW r \in Rts, ToWrite(r)' PROVE Unwritten(r)'
  BY DEF Written
<1>1. Unwritten(r)
  BY NoNewWork DEF Written
<1>2. CASE Quiet
  BY <1>1, <1>2, QuietWritten
<1>3. CASE \E x \in DOMAIN exec : Loads(x)
  BY <1>1, <1>3, LoadWritten
<1>4. CASE \E x \in DOMAIN exec : Writes(x)
  <2>1. PICK x \in DOMAIN exec : Writes(x)
    BY <1>4
  <2>2. r # exec[x].rt
    <3> SUFFICES ASSUME r = exec[x].rt PROVE FALSE
      OBVIOUS
    <3>1. Sequential'
      BY NextSequential
    <3>2. Answering' /\ Alone'
      BY <3>1 DEF Sequential, Answering, Alone
    <3>3. x \in Live' /\ exec'[x].rt = r /\ exec'[x].pc = "patch"
      BY <2>1 DEF Writes, Changes, Live
    <3>4. ask'[r].st \in {"open", "failed"}
      BY <3>2, <3>3 DEF Answering
    <3>5. \A y \in DOMAIN exec' : exec'[y].rt = r /\ exec'[y].pc \in Working => y = x
      BY <3>2, <3>3 DEF Alone, Live, Working
    <3>6. QED
      BY <3>3, <3>4, <3>5 DEF ToWrite, Working
  <2>3. QED
    BY <1>1, <2>1, <2>2, WriteWritten
<1>5. QED
  BY <1>2, <1>3, <1>4, QuietSteps

-----------------------------------------------------------------------------
\* The executions of a chain are of one group.
LEMMA OneGroup ==
    ASSUME ContextInv, Sequential, NEW x \in Live, NEW y \in Live, ChainOf(exec[x].rt) = ChainOf(exec[y].rt)
    PROVE  Together(exec[x].rt, exec[y].rt)
<1>1. InOrder /\ Answering
  BY SequentialParts
<1> DEFINE r == exec[x].rt
           q == exec[y].rt
           c == ChainOf(r)
<1>2. r \in Rts /\ q \in Rts
  BY DEF Live, ContextInv, Sound
<1>3. ask[r].st \in {"open", "failed"} /\ ask[q].st \in {"open", "failed"}
  BY <1>1 DEF Answering
<1>4. c \in Chains
  BY <1>2, PlanFacts
<1>5. PICK j \in DOMAIN Plan[c] : r \in Plan[c][j]
  BY <1>2, PlanFacts
<1>6. PICK k \in DOMAIN Plan[c] : q \in Plan[c][k]
  <2>1. c = ChainOf(q)
    OBVIOUS
  <2> HIDE DEF q, c
  <2>2. QED
    BY <1>2, <2>1, PlanFacts
<1>7. j \in Nat /\ k \in Nat /\ 1..j - 1 \subseteq DOMAIN Plan[c] /\ 1..k - 1 \subseteq DOMAIN Plan[c]
  BY <1>4, PlanFacts
<1> HIDE DEF r, q, c
<1>0. 1 <= j /\ 1 <= k
  <2>1. Plan[c] \in Seq(SUBSET Rts)
    BY <1>4, PlanAssumption
  <2>2. QED
    BY <1>5, <1>6, <2>1
<1>8. ~(j < k)
  <2> SUFFICES ASSUME j < k PROVE FALSE
    OBVIOUS
  <2>1. j \in 1..k - 1
    BY <1>0, <1>7
  <2>2. ask[r].st = "ok"
    BY <1>1, <1>3, <1>4, <1>5, <1>6, <2>1 DEF InOrder
  <2>3. QED
    BY <1>3, <2>2
<1>9. ~(k < j)
  <2> SUFFICES ASSUME k < j PROVE FALSE
    OBVIOUS
  <2>1. k \in 1..j - 1
    BY <1>0, <1>7
  <2>2. ask[q].st = "ok"
    BY <1>1, <1>3, <1>4, <1>5, <1>6, <2>1 DEF InOrder
  <2>3. QED
    BY <1>3, <2>2
<1>10. j = k
  BY <1>7, <1>8, <1>9
<1>11. Together(r, q)
  BY <1>4, <1>5, <1>6, <1>10 DEF Together
<1>12. QED
  BY <1>11 DEF r, q

\* An execution and the context, and two executions, by what they tell.
NearContext(x) ==
    /\ \A q \in Told(ChainOf(exec[x].rt)) \ View(x) : Together(q, exec[x].rt)
    /\ \A q \in View(x) \ Told(ChainOf(exec[x].rt)) : Together(q, exec[x].rt)
Near(x, y) == ChainOf(exec[y].rt) = ChainOf(exec[x].rt) => \A q \in View(y) \ View(x) : Together(q, exec[x].rt)

LEMMA ViewsParts ==
    Views <=> \A x \in DOMAIN exec : Loaded(x) =>
                 NearContext(x) /\ \A y \in DOMAIN exec : Loaded(y) => Near(x, y)
BY DEF Views, NearContext, Near

LEMMA QuietViews == ASSUME Views, Quiet PROVE Views'
<1> SUFFICES ASSUME NEW x \in DOMAIN exec, Loaded(x)'
             PROVE  NearContext(x)' /\ \A y \in DOMAIN exec : Loaded(y)' => Near(x, y)'
  BY DEF Quiet, Views, NearContext, Near
<1>1. Loaded(x) /\ View(x)' = View(x) /\ exec'[x].rt = exec[x].rt
  BY SameView DEF Quiet
<1>2. NearContext(x) /\ \A y \in DOMAIN exec : Loaded(y) => Near(x, y)
  BY <1>1, ViewsParts
<1>3. NearContext(x)'
  BY <1>1, <1>2 DEF NearContext, Quiet, Told
<1>4. ASSUME NEW y \in DOMAIN exec, Loaded(y)' PROVE Near(x, y)'
  <2>1. Loaded(y) /\ View(y)' = View(y) /\ exec'[y].rt = exec[y].rt
    BY <1>4, SameView DEF Quiet
  <2>2. QED
    BY <1>1, <1>2, <2>1 DEF Near
<1>5. QED
  BY <1>3, <1>4

LEMMA LoadedLive == ASSUME NEW x \in DOMAIN exec, Loaded(x) \/ exec[x].pc = "started" PROVE x \in Live
BY DEF Loaded, Live

\* What the others of a chain see, when one of them changes.
LEMMA OthersNear ==
    ASSUME Views, NEW x \in DOMAIN exec, Changes(x),
           NEW y \in DOMAIN exec, NEW z \in DOMAIN exec, y # x, z # x, Loaded(y)', Loaded(z)'
    PROVE  Near(y, z)'
<1>1. Loaded(y) /\ View(y)' = View(y) /\ exec'[y].rt = exec[y].rt
  BY OthersSeen, SameView
<1>2. Loaded(z) /\ View(z)' = View(z) /\ exec'[z].rt = exec[z].rt
  BY OthersSeen, SameView
<1>3. Near(y, z)
  BY <1>1, <1>2, ViewsParts
<1>4. QED
  BY <1>1, <1>2, <1>3 DEF Near

LEMMA LoadViews ==
    ASSUME ContextInv, Sequential, Views, NEW x \in DOMAIN exec, Loads(x) PROVE Views'
<1>1. PICK c : c = ChainOf(exec[x].rt)
  OBVIOUS
<1>2. PICK r : r = exec[x].rt
  OBVIOUS
<1>3. /\ r \in Rts /\ exec'[x].rt = r /\ ChainOf(r) = c /\ View(x)' = Told(c)
      /\ context' = context /\ Changes(x) /\ x \in Live
  BY <1>1, <1>2, LoadSees, LoadedLive DEF Loads, View, Told
<1>4. \A d : Told(d)' = Told(d)
  BY <1>3 DEF Told
<1>5. ASSUME NEW y \in DOMAIN exec, y # x, Loaded(y)'
      PROVE  NearContext(y)' /\ Near(y, x)' /\ Near(x, y)'
  <2>1. Loaded(y) /\ View(y)' = View(y) /\ exec'[y].rt = exec[y].rt
    BY <1>3, <1>5, OthersSeen, SameView
  <2>2. NearContext(y)
    BY <2>1, ViewsParts
  <2>3. NearContext(y)'
    BY <1>3, <2>1, <2>2 DEF NearContext, Told
  <2>4. ASSUME ChainOf(exec[y].rt) = c PROVE Together(exec[y].rt, r)
    BY <1>1, <1>2, <1>3, <2>1, <2>4, LoadedLive, OneGroup
  <2>5. Near(y, x)'
    BY <1>3, <2>1, <2>2 DEF Near, NearContext
  <2>6. Near(x, y)'
    <3> SUFFICES ASSUME ChainOf(exec[y].rt) = c, NEW q \in View(y) \ Told(c) PROVE Together(q, r)
      BY <1>3, <2>1 DEF Near
    <3>1. Together(q, exec[y].rt)
      BY <2>2 DEF NearContext
    <3>2. QED
      BY <2>4, <3>1, TogetherFacts
  <2>7. QED
    BY <2>3, <2>5, <2>6
<1>6. NearContext(x)' /\ Near(x, x)'
  <2>1. Told(c)' = View(x)' /\ ChainOf(exec'[x].rt) = c
    BY <1>3, <1>4
  <2>2. NearContext(x)'
    BY <2>1 DEF NearContext
  <2>3. QED
    BY <2>2 DEF Near
<1>7. ASSUME NEW y \in DOMAIN exec, Loaded(y)', NEW z \in DOMAIN exec, Loaded(z)' PROVE Near(y, z)'
  <2>1. CASE y = x
    BY <1>5, <1>6, <1>7, <2>1
  <2>2. CASE z = x
    BY <1>5, <1>6, <1>7, <2>2
  <2>3. CASE y # x /\ z # x
    BY <1>3, <1>7, <2>3, OthersNear
  <2>4. QED
    BY <2>1, <2>2, <2>3
<1>8. ASSUME NEW y \in DOMAIN exec, Loaded(y)' PROVE NearContext(y)'
  BY <1>5, <1>6, <1>8
<1>9. DOMAIN exec' = DOMAIN exec
  BY <1>3 DEF Changes
<1>10. QED
  BY <1>7, <1>8, <1>9 DEF Views, NearContext, Near

LEMMA WriteViews ==
    ASSUME ContextInv, Sequential, Views, NEW x \in DOMAIN exec, Writes(x) PROVE Views'
<1>1. PICK c : c = ChainOf(exec[x].rt)
  OBVIOUS
<1>2. PICK r : r = exec[x].rt
  OBVIOUS
<1>3. /\ r \in Rts /\ Loaded(x) /\ Told(c)' = View(x) \cup {r} /\ c \in Chains
      /\ \A d \in Chains : d # c => context'[d] = context[d]
  BY <1>1, <1>2, WriteTells
<1>4. Changes(x) /\ ~Loaded(x)' /\ x \in Live
  BY <1>3, LoadedLive DEF Writes, Loaded
<1>5. ASSUME NEW y \in DOMAIN exec, Loaded(y)' PROVE NearContext(y)'
  <2>0. PICK d : d = ChainOf(exec[y].rt)
    OBVIOUS
  <2>1. Loaded(y) /\ View(y)' = View(y) /\ exec'[y].rt = exec[y].rt /\ y # x
    BY <1>4, <1>5, OthersSeen, SameView
  <2>2. NearContext(y) /\ Near(x, y) /\ Near(y, x)
    BY <1>3, <2>1, ViewsParts
  <2>3. CASE d = c
    <3>1. Together(r, exec[y].rt) /\ Together(exec[x].rt, exec[y].rt)
      BY <1>1, <1>2, <1>4, <2>0, <2>1, <2>3, LoadedLive, OneGroup
    <3>2. ASSUME NEW q \in Told(c)' \ View(y) PROVE Together(q, exec[y].rt)
      BY <1>1, <1>3, <2>0, <2>2, <2>3, <3>1, <3>2 DEF Near
    <3>3. ASSUME NEW q \in View(y) \ Told(c)' PROVE Together(q, exec[y].rt)
      <4>1. q \in View(y) \ View(x)
        BY <1>3
      <4>2. Together(q, exec[x].rt)
        BY <1>1, <2>0, <2>2, <2>3, <4>1 DEF Near
      <4>3. QED
        BY <3>1, <4>2, TogetherFacts
    <3>4. QED
      BY <2>0, <2>1, <2>3, <3>2, <3>3 DEF NearContext
  <2>4. CASE d # c
    <3>1. exec[y].rt \in Rts
      BY <2>1 DEF ContextInv, Sound, Loaded
    <3>2. Told(d)' = Told(d)
      BY <1>3, <2>0, <2>4, <3>1, ChainTyped DEF Told
    <3>3. QED
      BY <2>0, <2>1, <2>2, <3>2 DEF NearContext
  <2>5. QED
    BY <2>3, <2>4
<1>6. ASSUME NEW y \in DOMAIN exec, Loaded(y)', NEW z \in DOMAIN exec, Loaded(z)' PROVE Near(y, z)'
  BY <1>4, <1>6, OthersNear
<1>7. DOMAIN exec' = DOMAIN exec
  BY <1>4 DEF Changes
<1>8. QED
  BY <1>5, <1>6, <1>7 DEF Views, NearContext, Near

-----------------------------------------------------------------------------
\* A turn that is written over is of an RT of the same group.
LEMMA WrittenOver ==
    ASSUME ContextInv, KeptInv, Written, Views, NEW x \in DOMAIN exec, Writes(x),
           NEW q \in Told(ChainOf(exec[x].rt)) \ View(x)
    PROVE  OfManyRts(q)
<1> DEFINE r == exec[x].rt
           c == ChainOf(r)
<1>1. r \in Rts \ ToolRts /\ Loaded(x) /\ c \in Chains
  BY WriteTells
<1>2. Together(q, r)
  BY <1>1, ViewsParts DEF NearContext
<1>3. q \in Rts \ ToolRts /\ ChainOf(q) = c
  BY <1>1 DEF KeptInv, PersonaRtsOf
<1>4. q # r
  <2>1. ToWrite(r)
    BY DEF Writes, ToWrite, Working
  <2>2. r \notin Told(c)
    BY <1>1, <2>1 DEF Written, Unwritten
  <2>3. QED
    BY <2>2
<1> HIDE DEF r, c
<1>5. PICK d \in Chains : \E k \in DOMAIN Plan[d] : {q, r} \subseteq Plan[d][k]
  BY <1>2 DEF Together
<1>6. PICK k \in DOMAIN Plan[d] : {q, r} \subseteq Plan[d][k]
  BY <1>5
<1>7. ChainOf(q) = d /\ Plan[d][k] \subseteq Rts
  BY <1>6, PlanFacts
<1> DEFINE G == Plan[d][k] \ ToolRts
<1>8. IsFiniteSet(G) /\ {q, r} \subseteq G
  BY <1>1, <1>3, <1>6, <1>7, PlanAssumption, FS_Subset
<1> HIDE DEF G
<1>9. Cardinality({q, r}) = 2
  <2>1. IsFiniteSet({q}) /\ Cardinality({q}) = 1
    BY FS_Singleton
  <2>2. Cardinality({q} \cup {r}) = Cardinality({q}) + 1
    BY <1>4, <2>1, FS_AddElement
  <2>3. {q} \cup {r} = {q, r}
    OBVIOUS
  <2>4. QED
    BY <2>1, <2>2, <2>3
<1>10. Cardinality({q, r}) <= Cardinality(G) /\ Cardinality(G) \in Nat
  BY <1>8, FS_Subset, FS_CardinalityType
<1>11. Cardinality(G) > 1
  BY <1>9, <1>10
<1>12. QED
  BY <1>6, <1>7, <1>11 DEF OfManyRts, G

\* Until the DRO restarts, no RT is begun again.
LEMMA NotRedone ==
    ASSUME ContextInv, Written, redone = {}, [Next]_vars PROVE redone' = {}
<1>1. CASE Quiet
  BY <1>1 DEF Quiet
<1>2. CASE \E x \in DOMAIN exec : Loads(x)
  <2>1. PICK x \in DOMAIN exec : Loads(x)
    BY <1>2
  <2>2. exec[x].rt \in Rts /\ ToWrite(exec[x].rt)
    BY <2>1, LoadSees DEF Loads, ToWrite, Working
  <2>3. exec[x].rt \notin Told(ChainOf(exec[x].rt))
    BY <2>2 DEF Written, Unwritten
  <2>4. QED
    BY <2>1, <2>3 DEF Loads
<1>3. CASE \E x \in DOMAIN exec : Writes(x)
  BY <1>3 DEF Writes
<1>4. QED
  BY <1>1, <1>2, <1>3, QuietSteps

OverwrittenOk == \A r \in overwritten : OfManyRts(r)

LEMMA InitFirst == Init => FirstInv
<1> SUFFICES ASSUME Init PROVE FirstInv
  OBVIOUS
<1>1. /\ \A r \in Rts : ask[r].st = "idle"
      /\ \A x \in DOMAIN exec : exec[x].pc = "gone"
      /\ redone = {} /\ overwritten = {}
  BY NoExecShape DEF Init, Idle
<1>2. Sequential
  BY <1>1, PlanFacts DEF Sequential, Live
<1>3. Written
  <2>1. ASSUME NEW r \in Rts PROVE r \notin Told(ChainOf(r))
    <3>1. context[ChainOf(r)].items = <<>>
      BY ChainTyped DEF Init, NoContext, Envelope
    <3>2. QED
      BY <3>1, TurnsNone DEF Told, ToSet
  <2>2. QED
    BY <1>1, <2>1 DEF Written, Unwritten, Loaded
<1>4. Views
  BY <1>1 DEF Views, Loaded
<1>5. QED
  BY <1>1, <1>2, <1>3, <1>4 DEF FirstInv

LEMMA NextFirst == AskTyped /\ ContextInv /\ KeptInv /\ FirstInv /\ [Next]_vars => FirstInv'
<1> SUFFICES ASSUME AskTyped, ContextInv, KeptInv, FirstInv, [Next]_vars, ~resumed'
             PROVE  redone' = {} /\ Sequential' /\ Written' /\ Views' /\ OverwrittenOk'
  BY DEF FirstInv, OverwrittenOk
<1>1. ~resumed
  <2>1. Shaped
    BY DEF ContextInv, Shaped
  <2>2. QED
    BY <2>1, Kinds
<1>2. redone = {} /\ Sequential /\ Written /\ Views /\ OverwrittenOk
  BY <1>1 DEF FirstInv, OverwrittenOk
<1>3. redone' = {} /\ Sequential' /\ Written'
  BY <1>2, NotRedone, NextSequential, NextWritten
<1>4. CASE Quiet
  BY <1>2, <1>3, <1>4, QuietViews DEF Quiet, OverwrittenOk
<1>5. CASE \E x \in DOMAIN exec : Loads(x)
  <2>1. PICK x \in DOMAIN exec : Loads(x)
    BY <1>5
  <2>2. Views' /\ overwritten' = overwritten
    BY <1>2, <2>1, LoadViews DEF Loads
  <2>3. QED
    BY <1>2, <1>3, <2>2 DEF OverwrittenOk
<1>6. CASE \E x \in DOMAIN exec : Writes(x)
  <2>1. PICK x \in DOMAIN exec : Writes(x)
    BY <1>6
  <2>2. Views'
    BY <1>2, <2>1, WriteViews
  <2>3. overwritten' = overwritten \cup (Told(ChainOf(exec[x].rt)) \ View(x))
    BY <2>1 DEF Writes
  <2>4. \A q \in Told(ChainOf(exec[x].rt)) \ View(x) : OfManyRts(q)
    BY <1>2, <2>1, WrittenOver
  <2>5. OverwrittenOk'
    BY <1>2, <2>3, <2>4 DEF OverwrittenOk
  <2>6. QED
    BY <1>3, <2>2, <2>5
<1>7. QED
  BY <1>4, <1>5, <1>6, QuietSteps

-----------------------------------------------------------------------------
\* TurnsOnce: a mirror that sends a batch again, a retried call or a second execution tells no
\* turn twice, unless a DRO that restarted began the RT again after its turn was written
\* (state.py, ClaudeTranscriptStore.append; dispatcher.handle).
THEOREM TurnsToldOnce == Spec => []TurnsOnce
<1>1. OnceInv /\ FirstInv => TurnsOnce
  BY DEF OnceInv, FirstInv, TurnsOnce, TwiceIn
<1>2. QED
  BY <1>1, InitTyped, NextTyped, InitContext, NextContext, InitOnce, NextOnce, InitKept, NextKept,
     InitFirst, NextFirst, PTL DEF Spec

\* TurnsKept: the turn of an RT that is done is in the context or was written over by an
\* execution that had not seen it, and until the DRO restarts only RTs of one group do that
\* (dispatcher.handle: the context is read before the call and written after it).
THEOREM TurnsAreKept == Spec => []TurnsKept
<1>1. KeptInv /\ FirstInv => TurnsKept
  BY DEF KeptInv, FirstInv, TurnsKept, InHistory, OfManyRts
<1>2. QED
  BY <1>1, InitTyped, NextTyped, InitContext, NextContext, InitKept, NextKept,
     InitFirst, NextFirst, PTL DEF Spec
=============================================================================
