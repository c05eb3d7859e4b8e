--------------------------- MODULE StepTreeProofs ---------------------------
(***************************************************************************)
(* Invariance proofs for StepTree, for any pipelines that keep to          *)
(* PipelineFiles and any number of chains, RTs, failures and restarts.     *)
(*                                                                         *)
(* First the inductive invariant IInv; then what the definitions of the    *)
(* model return and what each action changes (the lemmas ...Facts and      *)
(* ...Effect); then, one part of IInv after the other, that the steps of   *)
(* the tasks (TaskStep...) and of the worker (WorkerStep...) keep it; and  *)
(* the theorems.                                                           *)
(***************************************************************************)
EXTENDS StepTree, SequenceFacts

(* The inductive invariant. *)

StepIds == UNION {{s.id : s \in AllSteps(p)} : p \in Pipelines}
Values == {"none", "inner", "wrapped"} \cup UNION {{s.result : s \in AllSteps(p)} : p \in Pipelines}
AnyStep == UNION {AllSteps(p) : p \in Pipelines}
Contexts == UNION {[D -> Values] : D \in SUBSET StepIds}

ChainRecord ==
    [pipe : Pipelines, parent : Nat, ancestors : Seq(Pipelines),
     status : {"pending", "active", "done", "failed"},
     drives : Nat, strayed : BOOLEAN, cut : BOOLEAN]
RtRecord ==
    [chain : Nat, step : StepIds, state : {"pending", "in_flight", "done", "failed"},
     input : Contexts, output : Values]
TaskRecord ==
    [drive : Nat, chain : Nat, step : AnyStep,
     pc : {"pop", "push", "repop", "run"}, rt : Nat, ctx : Contexts]
WorkerRecord ==
    [pc : {"select", "start", "steps", "handoff", "finish", "fail", "drain"},
     chain : Nat, again : BOOLEAN, resume : SUBSET Nat, drive : Nat, group : Nat,
     todo : Seq(Pipelines)]

\* Records of their types that refer to chains and RTs there are.
TypeOK ==
    /\ chain \in Seq(ChainRecord)
    /\ rt \in Seq(RtRecord)
    /\ queue \in Seq(Nat)
    /\ w \in WorkerRecord
    /\ tasks \in SUBSET TaskRecord
    /\ ctx \in Contexts
    /\ drives \in Nat /\ faults \in Nat /\ crashes \in Nat

RefsOK ==
    /\ \A c \in ChainIds : chain[c].parent < c
    /\ \A r \in DOMAIN rt : rt[r].chain \in ChainIds
    /\ ToSet(queue) \subseteq DOMAIN rt /\ IsInjective(queue)
    /\ w.resume \subseteq ChainIds /\ w.chain \notin w.resume
    /\ IF w.pc = "select" THEN w.chain = 0 ELSE w.chain \in ChainIds

\* A task runs a step of its chain; once it has an RT, this is an RT of the step.
TasksOK ==
    \A t \in tasks :
        /\ t.chain \in ChainIds
        /\ t.step \in AllSteps(chain[t.chain].pipe)
        /\ t.step.llm \/ t.step.tool
        /\ t.drive \in 1..drives
        /\ t.pc \in {"repop", "run"} =>
              /\ t.rt \in DOMAIN rt
              /\ rt[t.rt].chain = t.chain /\ rt[t.rt].step = t.step.id

\* A drive is of one chain and runs a step once; a task that is not of the drive under way
\* is a stray.
DrivesOK ==
    /\ w.drive \in 0..drives
    /\ (w.pc \in {"steps", "handoff", "finish", "fail"}) <=> (w.drive # 0)
    /\ \A t, u \in tasks : t.drive = u.drive =>
          /\ t.chain = u.chain
          /\ t.step.id = u.step.id => t = u
    /\ \A t \in tasks :
          /\ t.drive = w.drive => t.chain = w.chain
          /\ chain[t.chain].strayed \/ (t.drive = w.drive /\ w.pc = "steps")

\* v is what the steps after s see of it.
Seen(s, v) == v = InContext(s) \/ (s.tool /\ s.result # "object" /\ crashes > 0)

Fits(c, f) == \A s \in AllSteps(chain[c].pipe) : s.id \in DOMAIN f => Seen(s, f[s.id])

\* The outputs of the groups before the task's are in its context.
Complete(t) ==
    \A j, k \in DOMAIN PipeOf(t.chain) :
        (j < k /\ t.step \in StepsAt(t.chain, k)) => \A s \in StepsAt(t.chain, j) : s.id \in DOMAIN t.ctx

\* Only a chain that a restart left is rehydrated.
ResumedOK == w.again \/ w.resume # {} => crashes > 0

\* What an RT records is what its step made.
OutputsOK ==
    \A r \in DOMAIN rt : rt[r].state = "done" =>
        \A s \in AllSteps(chain[rt[r].chain].pipe) : s.id = rt[r].step =>
            rt[r].output = Recorded(s) /\ (s.llm \/ s.tool)

TaskContextsOK == \A t \in tasks : Fits(t.chain, t.ctx) /\ Complete(t)

\* The context of the drive has what its steps made; those of the groups so far that it
\* does not have run.
DriveContextOK ==
    /\ w.drive # 0 => Fits(w.chain, ctx)
    /\ w.pc = "steps" => \A t \in Running : t.step.id \notin DOMAIN ctx
    /\ w.pc = "steps" => \A k \in DOMAIN PipeOf(w.chain) : k <= w.group =>
          \A s \in StepsAt(w.chain, k) : s.id \in DOMAIN ctx \/ \E t \in Running : t.step = s

ContextsOK == ResumedOK /\ OutputsOK /\ TaskContextsOK /\ DriveContextOK

\* The RTs of a chain in the queue.
Entries(c) == {r \in ToSet(queue) : rt[r].chain = c}

DrivenOK ==
    \A c \in ChainIds : ~chain[c].strayed =>
        /\ chain[c].drives <= 1 + crashes
        /\ w.chain # c /\ (c \in w.resume \/ Entries(c) # {}) => chain[c].drives <= crashes
        /\ w.chain = c /\ w.pc = "start" => chain[c].drives <= crashes

RtIds(c) == {s.id : s \in {x \in AllSteps(chain[c].pipe) : x.llm \/ x.tool}}

\* The step has taken its RT out of the queue, for good or to push another.
Taken(c) == {t.step.id : t \in {u \in tasks : u.chain = c /\ u.pc \in {"push", "run"}}}

DoneIds(c) ==
    {id \in StepIds : \E r \in RtsOfChain(c) :
        /\ rt[r].step = id /\ rt[r].state = "done"
        /\ \A q \in RtsOfChain(c) : rt[q].step = id => q <= r}

\* The steps for which a pop is still to come if the chain were resumed, and in this drive.
Due(c) == (RtIds(c) \ DoneIds(c)) \ Taken(c)
DueNow(c) == (RtIds(c) \ DOMAIN ctx) \ Taken(c)

Covered(E, D) == Cardinality(E) <= Cardinality(D)

\* There are no more RTs in the queue than pops to come: nothing is left when all steps
\* have run.
QueuedOK == \A c \in ChainIds : ~chain[c].strayed => Covered(Entries(c), Due(c))

QueuedNowOK ==
    \A c \in ChainIds : c = w.chain /\ ~chain[c].strayed =>
        /\ w.pc = "steps" => Covered(Entries(c), DueNow(c))
        /\ (w.pc = "handoff" \/ HandingOff) => Entries(c) = {}

Over(c) ==
    /\ c \notin w.resume /\ Entries(c) = {}
    /\ w.chain = c => w.pc = "drain"
    /\ chain[c].status \in {"done", "failed"}

SettledOK == w.pc = "drain" => chain[w.chain].status \in {"done", "failed"}

\* A chain that has follow-ups is calling them, or it is over for good.
ChildrenOK ==
    \A a, p \in ChainIds :
        (chain[a].parent = p /\ ~chain[p].cut /\ ~chain[p].strayed) =>
            \/ w.chain = p /\ HandingOff /\ chain[a].status = "pending"
            \/ Over(p)

IInv ==
    /\ TypeOK /\ RefsOK /\ TasksOK /\ DrivesOK /\ ContextsOK /\ InputsComplete
    /\ DrivenOK /\ QueuedOK /\ QueuedNowOK /\ SettledOK /\ ChildrenOK /\ FollowUpOnce

-----------------------------------------------------------------------------
(* The pipelines. *)

\* Positions and steps of a pipeline.
LEMMA StepsFacts ==
    ASSUME NEW p \in Pipelines
    PROVE  /\ StepsOf(p) \in Seq(Seq(AllSteps(p)))
           /\ \A s : s \in AllSteps(p) <=>
                 \E k \in DOMAIN StepsOf(p) : \E i \in DOMAIN StepsOf(p)[k] : s = StepsOf(p)[k][i]
<1> DEFINE n == Len(File[p].groups)
           m(k) == Len(File[p].groups[k])
<1>1. /\ n \in Nat
      /\ \A k \in 1..n : m(k) \in Nat
  BY PipelineFiles
<1> HIDE DEF n, m
<1> DEFINE G == StepsOf(p)
<1>2. G = [k \in 1..n |-> [i \in 1..m(k) |-> Converted(p, File[p].groups[k][i], k)]]
  BY DEF StepsOf, n, m
<1> HIDE DEF G
<1>3. DOMAIN G = 1..n /\ \A k \in 1..n : DOMAIN G[k] = 1..m(k)
  BY <1>2
<1>4. AllSteps(p) = UNION {{G[k][i] : i \in DOMAIN G[k]} : k \in DOMAIN G}
  BY DEF AllSteps, ToSet, G
<1> DEFINE A == AllSteps(p)
<1> HIDE DEF A
<1>5. \A s : s \in A <=> \E k \in DOMAIN G : \E i \in DOMAIN G[k] : s = G[k][i]
  BY <1>4 DEF A
<1>6. ASSUME NEW k \in 1..n PROVE G[k] \in Seq(A)
  <2> DEFINE g == [i \in 1..m(k) |-> Converted(p, File[p].groups[k][i], k)]
  <2>1. G[k] = g
    BY <1>2
  <2>2. \A i \in 1..m(k) : G[k][i] \in A
    BY <1>3, <1>5
  <2>3. \A i \in 1..m(k) : g[i] \in A
    BY <2>1, <2>2
  <2>4. g \in [1..m(k) -> A]
    BY <2>3
  <2>5. QED
    BY <1>1, <2>1, <2>4
<1>7. G \in [1..n -> Seq(A)]
  BY <1>2, <1>6
<1>8. G \in Seq(Seq(A))
  BY <1>1, <1>7
<1>9. QED
  BY <1>5, <1>8 DEF A, G

\* A step id names one step of the pipeline, at one place.
LEMMA OneStepPerId ==
    ASSUME NEW p \in Pipelines
    PROVE  /\ \A a, b \in AllSteps(p) : a.id = b.id => a = b
           /\ \A j, k \in DOMAIN StepsOf(p) :
                 \A a \in ToSet(StepsOf(p)[j]), b \in ToSet(StepsOf(p)[k]) :
                    /\ a.id = b.id => j = k
                    /\ a.id \in b.reads => j < k
           /\ \A k \in DOMAIN StepsOf(p) : ToSet(StepsOf(p)[k]) \subseteq AllSteps(p)
<1> DEFINE G == StepsOf(p)
           A == AllSteps(p)
<1>1. \A s : s \in A <=> \E k \in DOMAIN G : \E i \in DOMAIN G[k] : s = G[k][i]
  BY StepsFacts
<1>2. \A j, k \in DOMAIN G : \A h \in DOMAIN G[j], i \in DOMAIN G[k] :
         /\ G[j][h].id = G[k][i].id => j = k /\ h = i
         /\ G[j][h].id \in G[k][i].reads => j < k
  BY PipelineFiles
<1>3. \A k \in DOMAIN G : ToSet(G[k]) = {G[k][i] : i \in DOMAIN G[k]}
  BY DEF ToSet
<1> HIDE DEF G, A
<1>4. \A a, b \in A : a.id = b.id => a = b
  <2>1. SUFFICES ASSUME NEW a \in A, NEW b \in A, a.id = b.id PROVE a = b
    OBVIOUS
  <2>2. PICK j \in DOMAIN G : \E h \in DOMAIN G[j] : a = G[j][h]
    BY <1>1
  <2>3. PICK h \in DOMAIN G[j] : a = G[j][h]
    BY <2>2
  <2>4. PICK k \in DOMAIN G : \E i \in DOMAIN G[k] : b = G[k][i]
    BY <1>1
  <2>5. PICK i \in DOMAIN G[k] : b = G[k][i]
    BY <2>4
  <2>6. QED
    BY <1>2, <2>1, <2>3, <2>5
<1>5. ASSUME NEW j \in DOMAIN G, NEW k \in DOMAIN G, NEW a \in ToSet(G[j]), NEW b \in ToSet(G[k])
      PROVE  (a.id = b.id => j = k) /\ (a.id \in b.reads => j < k)
  <2>1. PICK h \in DOMAIN G[j] : a = G[j][h]
    BY <1>3
  <2>2. PICK i \in DOMAIN G[k] : b = G[k][i]
    BY <1>3
  <2>3. QED
    BY <1>2, <2>1, <2>2
<1>6. \A k \in DOMAIN G : ToSet(G[k]) \subseteq A
  BY <1>1, <1>3
<1>7. QED
  BY <1>4, <1>5, <1>6 DEF G, A

\* A step is in one of the groups.
LEMMA StepIsSomewhere ==
    ASSUME NEW p \in Pipelines, NEW s \in AllSteps(p)
    PROVE  \E k \in DOMAIN StepsOf(p) : s \in ToSet(StepsOf(p)[k])
BY DEF AllSteps

LEMMA StepsAreFinite ==
    ASSUME NEW p \in Pipelines
    PROVE  IsFiniteSet(AllSteps(p))
<1> DEFINE G == StepsOf(p)
           A == AllSteps(p)
           U == {ToSet(G[k]) : k \in DOMAIN G}
<1>1. G \in Seq(Seq(A))
  BY StepsFacts
<1> HIDE DEF G
<1>2. IsFiniteSet(DOMAIN G)
  <2>1. Len(G) \in Nat /\ DOMAIN G = 1..Len(G)
    BY <1>1
  <2>2. QED
    BY <2>1, FS_Interval
<1>3. ASSUME NEW k \in DOMAIN G PROVE IsFiniteSet(ToSet(G[k]))
  <2> DEFINE g == G[k]
  <2>1. g \in Seq(A)
    BY <1>1
  <2>2. Len(g) \in Nat /\ DOMAIN g = 1..Len(g)
    BY <2>1
  <2> HIDE DEF g
  <2>3. IsFiniteSet(DOMAIN g)
    BY <2>2, FS_Interval
  <2>4. g \in Surjection(DOMAIN g, ToSet(g))
    BY <2>1, <2>2 DEF Surjection, ToSet
  <2>5. QED
    BY <2>3, <2>4, FS_Surjection DEF g
<1>4. IsFiniteSet(U)
  <2> DEFINE f == [k \in DOMAIN G |-> ToSet(G[k])]
  <2>1. f \in Surjection(DOMAIN G, U)
    BY DEF Surjection
  <2>2. QED
    BY <1>2, <2>1, FS_Surjection
<1>5. ASSUME NEW x \in U PROVE IsFiniteSet(x)
  <2>1. PICK k \in DOMAIN G : x = ToSet(G[k])
    OBVIOUS
  <2>2. QED
    BY <1>3, <2>1
<1>6. IsFiniteSet(UNION U)
  <2> HIDE DEF U
  <2>1. QED
    BY <1>4, <1>5, FS_UNION
<1>7. A = UNION U
  BY DEF AllSteps, G
<1>8. QED
  BY <1>6, <1>7

\* What a step's result becomes is a value a context may hold.
LEMMA ValuesOfSteps ==
    ASSUME NEW p \in Pipelines, NEW s \in AllSteps(p)
    PROVE  s.id \in StepIds /\ s.result \in Values /\ InContext(s) \in Values /\ Recorded(s) \in Values
BY DEF StepIds, Values, InContext, Recorded


\* The kinds of a step.
LEMMA KindsOfSteps ==
    ASSUME NEW p \in Pipelines, NEW s \in AllSteps(p)
    PROVE  s.llm \in BOOLEAN /\ s.tool \in BOOLEAN
<1> DEFINE g == File[p].groups
<1>1. g \in Seq(Seq(RawSteps(p))) /\ \A raw \in RawSteps(p) : raw.tool \in BOOLEAN
  BY PipelineFiles
<1>2. PICK k \in DOMAIN StepsOf(p) : \E i \in DOMAIN StepsOf(p)[k] : s = StepsOf(p)[k][i]
  BY StepsFacts
<1>3. PICK i \in DOMAIN StepsOf(p)[k] : s = StepsOf(p)[k][i]
  BY <1>2
<1>4. k \in 1..Len(g) /\ i \in 1..Len(g[k]) /\ s = Converted(p, g[k][i], k)
  BY <1>2, <1>3 DEF StepsOf
<1>5. g[k] \in Seq(RawSteps(p))
  BY <1>1, <1>4
<1>6. g[k][i] \in RawSteps(p)
  BY <1>4, <1>5
<1>7. s.tool = g[k][i].tool /\ s.llm = (g[k][i].instructions # "none")
  BY <1>4 DEF Converted
<1>8. QED
  BY <1>1, <1>6, <1>7

\* The RTs a chain is created with: one for each step that runs on one.
NewRts(c, p) == {NewRt(c, s.id) : s \in {x \in AllSteps(p) : x.llm \/ x.tool}}

LEMMA NewRtsAreRts ==
    ASSUME NEW c \in Nat, NEW p \in Pipelines
    PROVE  NewRts(c, p) \subseteq RtRecord
<1>1. NoNames \in Contexts
  <2>1. NoNames \in [{} -> Values] /\ {} \in SUBSET StepIds
    BY DEF NoNames
  <2>2. QED
    BY <2>1 DEF Contexts
<1>2. "none" \in Values
  BY DEF Values
<1>3. ASSUME NEW s \in AllSteps(p) PROVE NewRt(c, s.id) \in RtRecord
  <2>1. s.id \in StepIds
    BY ValuesOfSteps
  <2>2. QED
    BY <1>1, <1>2, <2>1 DEF NewRt, RtRecord
<1>4. QED
  BY <1>3 DEF NewRts

LEMMA RtsForFacts ==
    ASSUME NEW c \in Nat, NEW p \in Pipelines
    PROVE  /\ RtsFor(c, p) \in Seq(NewRts(c, p))
           /\ IsInjective(RtsFor(c, p))
<1> DEFINE G == StepsOf(p)
           A == AllSteps(p)
           R == NewRts(c, p)
           row(k) == [i \in DOMAIN G[k] |-> RtsOfStep(c, G[k][i])]
           rows == [k \in DOMAIN G |-> FlattenSeq(row(k))]
<1>1. G \in Seq(Seq(A))
  BY StepsFacts
<1>2. \A s : s \in A <=> \E k \in DOMAIN G : \E i \in DOMAIN G[k] : s = G[k][i]
  BY StepsFacts
<1>3. \A j, k \in DOMAIN G : \A h \in DOMAIN G[j], i \in DOMAIN G[k] :
         G[j][h].id = G[k][i].id => j = k /\ h = i
  BY PipelineFiles
<1>4. RtsFor(c, p) = FlattenSeq(rows)
  BY DEF RtsFor
<1> HIDE DEF G, A
<1>5. Len(G) \in Nat /\ DOMAIN G = 1..Len(G)
  BY <1>1
<1>6. ASSUME NEW k \in DOMAIN G, NEW i \in DOMAIN G[k]
      PROVE  /\ RtsOfStep(c, G[k][i]) \in Seq(R)
             /\ IsInjective(RtsOfStep(c, G[k][i]))
             /\ \A x \in ToSet(RtsOfStep(c, G[k][i])) : x = NewRt(c, G[k][i].id)
  <2> DEFINE s == G[k][i]
  <2>1. s \in A
    BY <1>2
  <2> HIDE DEF s
  <2>2. CASE s.llm \/ s.tool
    <3>1. NewRt(c, s.id) \in R
      BY <2>1, <2>2 DEF NewRts, A
    <3>2. RtsOfStep(c, s) = <<NewRt(c, s.id)>>
      BY <2>2 DEF RtsOfStep
    <3>3. QED
      BY <3>1, <3>2 DEF IsInjective, ToSet, s
  <2>3. CASE ~(s.llm \/ s.tool)
    <3>1. RtsOfStep(c, s) = <<>>
      BY <2>3 DEF RtsOfStep
    <3>2. QED
      BY <3>1 DEF IsInjective, ToSet, s
  <2>4. QED
    BY <2>2, <2>3
<1>7. ASSUME NEW k \in DOMAIN G
      PROVE  /\ rows[k] \in Seq(R)
             /\ IsInjective(rows[k])
             /\ \A x \in ToSet(rows[k]) : \E i \in DOMAIN G[k] : x = NewRt(c, G[k][i].id)
  <2> DEFINE g == row(k)
  <2>1. Len(G[k]) \in Nat /\ DOMAIN G[k] = 1..Len(G[k])
    BY <1>1
  <2>2. g \in [1..Len(G[k]) -> Seq(R)]
    BY <1>6, <2>1
  <2>3. g \in Seq(Seq(R)) /\ DOMAIN g = DOMAIN G[k]
    BY <2>1, <2>2
  <2>4. \A i \in DOMAIN g : IsInjective(g[i]) /\ \A x \in ToSet(g[i]) : x = NewRt(c, G[k][i].id)
    BY <1>6
  <2> HIDE DEF g
  <2>5. ASSUME NEW i \in DOMAIN g, NEW j \in DOMAIN g, NEW x, x \in ToSet(g[i]), x \in ToSet(g[j])
        PROVE  i = j
    <3>1. NewRt(c, G[k][i].id) = NewRt(c, G[k][j].id)
      BY <2>4, <2>5
    <3>2. G[k][i].id = G[k][j].id
      BY <3>1 DEF NewRt
    <3>3. QED
      BY <1>3, <2>3, <3>2
  <2>6. IsInjective(FlattenSeq(g))
    BY <2>3, <2>4, <2>5, FlattenDistinct
  <2>7. FlattenSeq(g) \in Seq(R) /\ \A x : x \in ToSet(FlattenSeq(g)) <=> \E i \in DOMAIN g : x \in ToSet(g[i])
    BY <2>3, FlattenFacts
  <2>8. rows[k] = FlattenSeq(g)
    BY DEF g
  <2> HIDE DEF rows
  <2>9. QED
    BY <2>3, <2>4, <2>6, <2>7, <2>8
<1>8. rows \in Seq(Seq(R)) /\ DOMAIN rows = DOMAIN G
  <2>1. rows \in [1..Len(G) -> Seq(R)]
    BY <1>5, <1>7
  <2>2. QED
    BY <1>5, <2>1
<1> HIDE DEF rows
<1>9. ASSUME NEW j \in DOMAIN rows, NEW k \in DOMAIN rows, NEW x, x \in ToSet(rows[j]), x \in ToSet(rows[k])
      PROVE  j = k
  <2>1. PICK h \in DOMAIN G[j] : x = NewRt(c, G[j][h].id)
    BY <1>7, <1>8, <1>9
  <2>2. PICK i \in DOMAIN G[k] : x = NewRt(c, G[k][i].id)
    BY <1>7, <1>8, <1>9
  <2>3. G[j][h].id = G[k][i].id
    BY <2>1, <2>2 DEF NewRt
  <2>4. QED
    BY <1>3, <1>8, <2>3
<1>10. IsInjective(FlattenSeq(rows))
  BY <1>7, <1>8, <1>9, FlattenDistinct
<1>11. FlattenSeq(rows) \in Seq(R)
  BY <1>8, FlattenFacts
<1>12. QED
  BY <1>4, <1>10, <1>11

\* What the guard leaves of an action is calls of pipelines.
LEMMA UnguardedType ==
    ASSUME NEW c, NEW action \in Seq(Pipelines)
    PROVE  Unguarded(c, action) \in Seq(Pipelines)
<1> DEFINE g == [i \in DOMAIN action |-> IF Guarded(c, action[i]) THEN <<>> ELSE <<action[i]>>]
<1>1. Len(action) \in Nat /\ DOMAIN action = 1..Len(action)
  OBVIOUS
<1>2. \A i \in DOMAIN action : g[i] \in Seq(Pipelines)
  OBVIOUS
<1>3. g \in [1..Len(action) -> Seq(Pipelines)]
  BY <1>1, <1>2
<1>4. g \in Seq(Seq(Pipelines))
  BY <1>1, <1>3
<1> HIDE DEF g
<1>5. FlattenSeq(g) \in Seq(Pipelines)
  BY <1>4, FlattenFacts
<1>6. QED
  BY <1>5 DEF Unguarded, g

-----------------------------------------------------------------------------
(* The queue. *)

\* A pop with a chain takes an RT of the chain out of the queue and nothing else, or there
\* is none.
LEMMA PopFacts ==
    ASSUME NEW c, TypeOK, ToSet(queue) \subseteq DOMAIN rt, IsInjective(queue)
    PROVE  /\ Rest(c) \in Seq(Nat) /\ IsInjective(Rest(c))
           /\ \/ Entries(c) = {} /\ Popped(c) = 0 /\ Rest(c) = queue
              \/ /\ Popped(c) \in Entries(c) /\ Popped(c) \in DOMAIN rt /\ Popped(c) # 0
                 /\ ToSet(Rest(c)) = ToSet(queue) \ {Popped(c)}
<1> DEFINE own == RtsOfChain(c)
<1>0. queue \in Seq(Nat) /\ Len(queue) \in Nat /\ DOMAIN queue = 1..Len(queue)
      /\ ToSet(queue) = {queue[i] : i \in 1..Len(queue)}
  BY DEF TypeOK, ToSet
<1>1. CASE ~HasEntry(queue, own)
  <2>1. Popped(c) = 0 /\ Rest(c) = queue
    BY <1>1 DEF Popped, Rest
  <2>2. ASSUME NEW r \in Entries(c) PROVE FALSE
    <3>1. r \in ToSet(queue) /\ r \in own
      BY DEF Entries, RtsOfChain
    <3>2. PICK i \in 1..Len(queue) : queue[i] = r
      BY <1>0, <3>1
    <3>3. QED
      BY <1>1, <3>1, <3>2 DEF HasEntry
  <2>3. QED
    BY <1>0, <2>1, <2>2
<1>2. CASE HasEntry(queue, own)
  <2> DEFINE T == {i \in 1..Len(queue) : queue[i] \in own}
  <2>1. T \subseteq Nat /\ T # {}
    BY <1>0, <1>2 DEF HasEntry
  <2>2. PICK m \in T : \A i \in T : m <= i
    BY <2>1, LeastNumber
  <2>3. IsFirst(m, queue, own)
    BY <1>0, <2>2 DEF IsFirst
  <2> DEFINE i == Place(c)
  <2>4. IsFirst(i, queue, own)
    BY <1>0, <2>3 DEF Place, IsFirst
  <2>5. Popped(c) = queue[i] /\ Rest(c) = RemoveAt(queue, i)
    BY <1>2 DEF Popped, Rest
  <2>6. i \in 1..Len(queue) /\ queue[i] \in own
    BY <2>4 DEF IsFirst
  <2> HIDE DEF i
  <2>11. \A j \in 1..Len(queue) :
            /\ RemoveAt(queue, j) \in Seq(Nat)
            /\ ToSet(RemoveAt(queue, j)) = ToSet(queue) \ {queue[j]}
            /\ IsInjective(RemoveAt(queue, j))
    BY <1>0, RemoveAtSet
  <2>7. /\ Rest(c) \in Seq(Nat) /\ IsInjective(Rest(c))
        /\ ToSet(Rest(c)) = ToSet(queue) \ {queue[i]}
    BY <2>5, <2>6, <2>11
  <2>8. queue[i] \in ToSet(queue) /\ queue[i] \in DOMAIN rt /\ rt[queue[i]].chain = c
    BY <1>0, <2>6 DEF RtsOfChain
  <2>9. queue[i] # 0
    BY <2>8 DEF TypeOK
  <2>10. QED
    BY <2>5, <2>7, <2>8, <2>9 DEF Entries
<1>3. QED
  BY <1>1, <1>2

-----------------------------------------------------------------------------
(* What the steps do to the RTs, the tasks and the chains. *)

Refs == TypeOK /\ RefsOK /\ TasksOK

\* RTs stay, of the chain and the step they were created for.
RtsKept ==
    /\ DOMAIN rt \subseteq DOMAIN rt'
    /\ \A r \in DOMAIN rt : rt'[r].chain = rt[r].chain /\ rt'[r].step = rt[r].step

\* Chains stay, of their pipeline and their parent; what is on record against them stays.
ChainsKept ==
    /\ ChainIds \subseteq ChainIds'
    /\ \A c \in ChainIds :
          /\ chain'[c].pipe = chain[c].pipe /\ chain'[c].parent = chain[c].parent
          /\ chain[c].strayed => chain'[c].strayed
          /\ chain[c].cut => chain'[c].cut

\* A task goes on: same drive, step and context.
GoesOn(t, u) ==
    /\ tasks' = (tasks \ {t}) \cup {u}
    /\ u \in TaskRecord
    /\ u.drive = t.drive /\ u.chain = t.chain /\ u.step = t.step /\ u.ctx = t.ctx

LEMMA ChainFacts ==
    ASSUME TypeOK, NEW c \in ChainIds
    PROVE  chain[c] \in ChainRecord /\ c \in Nat \ {0} /\ chain[c].pipe \in Pipelines
<1>1. chain \in Seq(ChainRecord) /\ c \in DOMAIN chain
  BY DEF TypeOK, ChainIds
<1>2. chain[c] \in ChainRecord /\ c \in Nat \ {0}
  BY <1>1
<1>3. QED
  BY <1>2 DEF ChainRecord

LEMMA TaskFacts ==
    ASSUME Refs, NEW t \in tasks
    PROVE  /\ t \in TaskRecord /\ t.chain \in ChainIds /\ t.drive \in 1..drives
           /\ chain[t.chain].pipe \in Pipelines
           /\ t.step \in AllSteps(chain[t.chain].pipe) /\ t.step.id \in StepIds
           /\ t.ctx \in Contexts
<1>1. t \in TaskRecord /\ t.chain \in ChainIds /\ t.drive \in 1..drives
      /\ t.step \in AllSteps(chain[t.chain].pipe)
  BY DEF Refs, TypeOK, TasksOK
<1>2. chain[t.chain].pipe \in Pipelines
  BY <1>1, ChainFacts DEF Refs
<1>3. t.ctx \in Contexts
  BY <1>1 DEF TaskRecord
<1>4. QED
  BY <1>1, <1>2, <1>3, ValuesOfSteps

LEMMA SubstitutedType ==
    ASSUME Refs, NEW t \in tasks
    PROVE  Substituted(t) \in Contexts
<1>1. PICK D \in SUBSET StepIds : t.ctx \in [D -> Values]
  BY TaskFacts DEF Contexts
<1> DEFINE E == t.step.reads \cap DOMAIN t.ctx
<1>2. E \in SUBSET StepIds
  BY <1>1
<1>3. Substituted(t) \in [E -> Values]
  BY <1>1 DEF Substituted
<1>4. QED
  BY <1>2, <1>3 DEF Contexts

\* BeginRt: the RT is the task's and has its input.
LEMMA BeginFacts ==
    ASSUME Refs, NEW t \in tasks, NEW r \in DOMAIN rt, BeginRt(t, r)
    PROVE  /\ rt' \in Seq(RtRecord) /\ DOMAIN rt' = DOMAIN rt
           /\ \A q \in DOMAIN rt : q # r => rt'[q] = rt[q]
           /\ rt'[r].chain = rt[r].chain /\ rt'[r].step = rt[r].step
           /\ rt'[r].state = "in_flight" /\ rt'[r].input = Substituted(t)
           /\ \E u : GoesOn(t, u) /\ u.pc = "run" /\ u.rt = r
<1>1. rt \in Seq(RtRecord) /\ Len(rt) \in Nat /\ DOMAIN rt = 1..Len(rt)
  BY DEF Refs, TypeOK
<1> DEFINE in == Substituted(t)
           old == rt[r]
           v == [old EXCEPT !.state = "in_flight", !.input = in]
<1>2. old \in RtRecord /\ in \in Contexts
  BY <1>1, SubstitutedType
<1> HIDE DEF in, old
<1>3. /\ v.chain = old.chain /\ v.step = old.step /\ v.state = "in_flight" /\ v.input = in
      /\ v \in RtRecord
  BY <1>2 DEF RtRecord
<1>4. rt'[r] = v
  BY <1>1 DEF BeginRt, in, old
<1>5. rt' = [rt EXCEPT ![r] = v]
  BY DEF BeginRt, in, old
<1> HIDE DEF v
<1>6. rt' \in Seq(RtRecord) /\ DOMAIN rt' = DOMAIN rt
  BY <1>1, <1>3, <1>5
<1>7. rt'[r] = v /\ \A q \in DOMAIN rt : q # r => rt'[q] = rt[q]
  BY <1>1, <1>5
<1> DEFINE u == [t EXCEPT !.pc = "run", !.rt = r]
<1>8. t \in TaskRecord
  BY TaskFacts
<1>9. r \in Nat
  BY <1>1
<1>10. /\ u.drive = t.drive /\ u.chain = t.chain /\ u.step = t.step /\ u.ctx = t.ctx
       /\ u.pc = "run" /\ u.rt = r
       /\ u \in TaskRecord
  BY <1>8, <1>9 DEF TaskRecord
<1>12. tasks' = (tasks \ {t}) \cup {u}
  BY DEF BeginRt, Move
<1>13. GoesOn(t, u) /\ u.pc = "run" /\ u.rt = r
  BY <1>10, <1>12 DEF GoesOn
<1>14. QED
  <2> HIDE DEF u
  <2>1. QED
    BY <1>3, <1>4, <1>6, <1>7, <1>13 DEF in, old

LEMMA PopEffect ==
    ASSUME Refs, NEW t \in tasks, PopStepRt(t)
    PROVE  /\ t.pc = "pop"
           /\ queue' = Rest(t.chain)
           /\ UNCHANGED <<chain, w, ctx, drives, faults, crashes>>
           /\ rt' \in Seq(RtRecord) /\ DOMAIN rt' = DOMAIN rt
           /\ \E u : /\ GoesOn(t, u)
                     /\ \/ u.pc = "push" /\ rt' = rt
                        \/ LET r == Popped(t.chain) IN
                           /\ u.pc = "run" /\ u.rt = r /\ r \in Entries(t.chain)
                           /\ rt[r].chain = t.chain /\ rt[r].step = t.step.id
                           /\ rt'[r].chain = rt[r].chain /\ rt'[r].step = rt[r].step
                           /\ rt[r].state # "done" /\ rt'[r].state = "in_flight"
                           /\ rt'[r].input = Substituted(t)
                           /\ \A q \in DOMAIN rt : q # r => rt'[q] = rt[q]
<1> DEFINE r == Popped(t.chain)
<1>0. ToSet(queue) \subseteq DOMAIN rt /\ IsInjective(queue) /\ TypeOK
  BY DEF Refs, RefsOK
<1>1. /\ t.pc = "pop" /\ queue' = Rest(t.chain)
      /\ UNCHANGED <<chain, w, ctx, drives, faults, crashes>>
      /\ IF Serves(t, r) THEN BeginRt(t, r) ELSE Move(t, [t EXCEPT !.pc = "push"]) /\ UNCHANGED rt
  BY DEF PopStepRt, bounds
<1>2. r = 0 \/ (r \in Entries(t.chain) /\ r \in DOMAIN rt)
  BY <1>0, PopFacts
<1>3. CASE Serves(t, r)
  <2>1. /\ r \in DOMAIN rt /\ r \in Entries(t.chain) /\ rt[r].chain = t.chain
        /\ rt[r].step = t.step.id /\ rt[r].state # "done"
    BY <1>2, <1>3 DEF Serves, Entries
  <2>2. BeginRt(t, r)
    BY <1>1, <1>3
  <2> HIDE DEF r
  <2>3. /\ rt' \in Seq(RtRecord) /\ DOMAIN rt' = DOMAIN rt
        /\ \A q \in DOMAIN rt : q # r => rt'[q] = rt[q]
        /\ rt'[r].chain = rt[r].chain /\ rt'[r].step = rt[r].step
        /\ rt'[r].state = "in_flight" /\ rt'[r].input = Substituted(t)
        /\ \E u : GoesOn(t, u) /\ u.pc = "run" /\ u.rt = r
    BY <2>1, <2>2, BeginFacts
  <2>4. PICK u : GoesOn(t, u) /\ u.pc = "run" /\ u.rt = r
    BY <2>3
  <2>5. QED
    BY <1>1, <2>1, <2>3, <2>4 DEF r
<1>4. CASE ~Serves(t, r)
  <2>1. tasks' = (tasks \ {t}) \cup {[t EXCEPT !.pc = "push"]} /\ rt' = rt
    BY <1>1, <1>4 DEF Move
  <2> DEFINE u == [t EXCEPT !.pc = "push"]
  <2>2. t \in TaskRecord
    BY TaskFacts
  <2>3. u = [drive |-> t.drive, chain |-> t.chain, step |-> t.step, pc |-> "push", rt |-> t.rt, ctx |-> t.ctx]
    BY <2>2 DEF TaskRecord
  <2>4. u \in TaskRecord
    BY <2>2, <2>3 DEF TaskRecord
  <2>5. GoesOn(t, u) /\ u.pc = "push"
    BY <2>1, <2>3, <2>4 DEF GoesOn
  <2>6. rt' \in Seq(RtRecord)
    BY <2>1 DEF Refs, TypeOK
  <2> HIDE DEF u
  <2>7. QED
    BY <1>1, <2>1, <2>5, <2>6
<1>5. QED
  BY <1>3, <1>4

LEMMA PushEffect ==
    ASSUME Refs, NEW t \in tasks, PushStepRt(t)
    PROVE  LET n == Len(rt) + 1 IN
           /\ t.pc = "push"
           /\ UNCHANGED <<chain, w, ctx, drives, faults, crashes>>
           /\ rt' \in Seq(RtRecord) /\ DOMAIN rt' = DOMAIN rt \cup {n} /\ n \notin DOMAIN rt
           /\ \A q \in DOMAIN rt : rt'[q] = rt[q]
           /\ rt'[n].chain = t.chain /\ rt'[n].step = t.step.id /\ rt'[n].state = "pending"
           /\ queue' \in Seq(Nat) /\ ToSet(queue') = ToSet(queue) \cup {n} /\ IsInjective(queue')
           /\ \E u : GoesOn(t, u) /\ u.pc = "repop" /\ u.rt = n
<1> DEFINE n == Len(rt) + 1
           new == NewRt(t.chain, t.step.id)
<1>1. rt \in Seq(RtRecord) /\ Len(rt) \in Nat /\ DOMAIN rt = 1..Len(rt)
  BY DEF Refs, TypeOK
<1>2. /\ t.pc = "push" /\ UNCHANGED <<chain, w, ctx, drives, faults, crashes>>
      /\ rt' = Append(rt, new) /\ queue' = Append(queue, Len(rt'))
      /\ tasks' = (tasks \ {t}) \cup {[t EXCEPT !.pc = "repop", !.rt = Len(rt')]}
  BY DEF PushStepRt, bounds, Move
<1>3. new \in RtRecord /\ new.chain = t.chain /\ new.step = t.step.id /\ new.state = "pending"
  <2>1. NoNames \in Contexts
    <3>1. NoNames \in [{} -> Values] /\ {} \in SUBSET StepIds
      BY DEF NoNames
    <3>2. QED
      BY <3>1 DEF Contexts
  <2>2. t.chain \in Nat /\ t.step.id \in StepIds
    BY TaskFacts DEF TaskRecord
  <2>3. QED
    BY <2>1, <2>2 DEF NewRt, RtRecord, Values
<1> HIDE DEF new
<1>4. /\ rt' \in Seq(RtRecord) /\ Len(rt') = n /\ DOMAIN rt' = DOMAIN rt \cup {n} /\ n \notin DOMAIN rt
      /\ rt'[n] = new /\ \A q \in DOMAIN rt : rt'[q] = rt[q]
  <2>1. rt' \in Seq(RtRecord) /\ Len(rt') = n
    BY <1>1, <1>2, <1>3
  <2>2. DOMAIN rt' = 1..n
    BY <2>1
  <2>3. 1..n = 1..Len(rt) \cup {n} /\ n \notin 1..Len(rt)
    BY <1>1
  <2>4. rt'[n] = new /\ \A q \in 1..Len(rt) : rt'[q] = rt[q]
    BY <1>1, <1>2, <1>3, AppendProperties
  <2>5. QED
    BY <1>1, <2>1, <2>2, <2>3, <2>4
<1>5. n \notin ToSet(queue) /\ IsInjective(queue) /\ queue \in Seq(Nat)
  BY <1>4 DEF Refs, RefsOK, TypeOK
<1>6. n \in Nat
  BY <1>1
<1>7. queue' = Append(queue, n)
  BY <1>2, <1>4
<1> DEFINE u == [t EXCEPT !.pc = "repop", !.rt = n]
<1>8. tasks' = (tasks \ {t}) \cup {u}
  BY <1>2, <1>4
<1> HIDE DEF n
<1>9. queue' \in Seq(Nat) /\ ToSet(queue') = ToSet(queue) \cup {n} /\ IsInjective(queue')
  <2> DEFINE b == <<n>>
  <2>1. queue' = queue \o b
    BY <1>5, <1>6, <1>7, AppendIsConcat
  <2>2. b \in Seq(Nat) /\ ToSet(b) = {n} /\ IsInjective(b)
    BY <1>6 DEF ToSet, IsInjective
  <2> HIDE DEF b
  <2>3. queue \o b \in Seq(Nat) /\ ToSet(queue \o b) = ToSet(queue) \cup {n}
    BY <1>5, <2>2, ToSetConcat
  <2>4. IsInjective(queue \o b)
    BY <1>5, <2>2, DistinctConcat
  <2>5. QED
    BY <2>1, <2>3, <2>4
<1>10. t \in TaskRecord
  BY TaskFacts
<1>11. /\ u.drive = t.drive /\ u.chain = t.chain /\ u.step = t.step /\ u.ctx = t.ctx
       /\ u.pc = "repop" /\ u.rt = n
       /\ u \in TaskRecord
  BY <1>6, <1>10 DEF TaskRecord
<1>13. GoesOn(t, u) /\ u.pc = "repop" /\ u.rt = n
  BY <1>8, <1>11 DEF GoesOn
<1> HIDE DEF u
<1>14. QED
  BY <1>2, <1>3, <1>4, <1>9, <1>13 DEF n

LEMMA RepopEffect ==
    ASSUME Refs, NEW t \in tasks, RepopStepRt(t)
    PROVE  /\ t.pc = "repop"
           /\ queue' = Rest(t.chain)
           /\ UNCHANGED <<chain, w, ctx, drives, faults, crashes>>
           /\ rt' \in Seq(RtRecord) /\ DOMAIN rt' = DOMAIN rt
           /\ \E u : /\ GoesOn(t, u)
                     /\ LET r == t.rt IN
                        /\ u.pc = "run" /\ u.rt = r /\ r \in DOMAIN rt
                        /\ rt[r].chain = t.chain /\ rt[r].step = t.step.id
                        /\ rt'[r].chain = rt[r].chain /\ rt'[r].step = rt[r].step
                        /\ rt'[r].state = "in_flight" /\ rt'[r].input = Substituted(t)
                        /\ \A q \in DOMAIN rt : q # r => rt'[q] = rt[q]
<1> DEFINE r == t.rt
<1>1. /\ t.pc = "repop" /\ queue' = Rest(t.chain)
      /\ UNCHANGED <<chain, w, ctx, drives, faults, crashes>>
      /\ BeginRt(t, r)
  BY DEF RepopStepRt, bounds
<1>2. r \in DOMAIN rt /\ rt[r].chain = t.chain /\ rt[r].step = t.step.id
  BY <1>1 DEF Refs, TasksOK
<1> HIDE DEF r
<1>3. /\ rt' \in Seq(RtRecord) /\ DOMAIN rt' = DOMAIN rt
      /\ \A q \in DOMAIN rt : q # r => rt'[q] = rt[q]
      /\ rt'[r].chain = rt[r].chain /\ rt'[r].step = rt[r].step
      /\ rt'[r].state = "in_flight" /\ rt'[r].input = Substituted(t)
      /\ \E u : GoesOn(t, u) /\ u.pc = "run" /\ u.rt = r
  BY <1>1, <1>2, BeginFacts
<1>4. PICK u : GoesOn(t, u) /\ u.pc = "run" /\ u.rt = r
  BY <1>3
<1>5. QED
  BY <1>1, <1>2, <1>3, <1>4 DEF r

LEMMA WithOutputFacts ==
    ASSUME NEW p \in Pipelines, NEW s \in AllSteps(p), NEW f \in Contexts
    PROVE  LET g == WithOutput(f, s) IN
           /\ g \in Contexts
           /\ DOMAIN g = DOMAIN f \cup {s.id}
           /\ g[s.id] = InContext(s)
           /\ \A id \in DOMAIN f : id # s.id => g[id] = f[id]
<1> DEFINE i == s.id
           v == InContext(s)
           g == WithOutput(f, s)
<1>1. i \in StepIds /\ v \in Values
  BY ValuesOfSteps
<1>2. PICK D \in SUBSET StepIds : f \in [D -> Values]
  BY DEF Contexts
<1>3. g = [x \in D \cup {i} |-> IF x = i THEN v ELSE f[x]]
  BY <1>2 DEF WithOutput
<1> HIDE DEF i, v, g
<1>4. D \cup {i} \in SUBSET StepIds /\ g \in [D \cup {i} -> Values]
  BY <1>1, <1>2, <1>3
<1>5. g \in Contexts
  BY <1>4 DEF Contexts
<1>6. DOMAIN g = DOMAIN f \cup {i} /\ g[i] = v /\ \A id \in DOMAIN f : id # i => g[id] = f[id]
  BY <1>2, <1>3
<1>7. QED
  BY <1>5, <1>6 DEF i, v, g

\* v is u after t's output has reached it.
Reached(t, u, v) ==
    /\ v \in TaskRecord
    /\ v.drive = u.drive /\ v.chain = u.chain /\ v.step = u.step /\ v.pc = u.pc /\ v.rt = u.rt
    /\ v.ctx = IF u.drive = t.drive THEN WithOutput(u.ctx, t.step) ELSE u.ctx

LEMMA CompletedEffect ==
    ASSUME Refs, NEW t \in tasks, Completed(t)
    PROVE  LET r == t.rt IN
           /\ t.pc = "run"
           /\ UNCHANGED <<chain, queue, w, drives, faults, crashes>>
           /\ r \in DOMAIN rt /\ rt[r].chain = t.chain /\ rt[r].step = t.step.id
           /\ rt' \in Seq(RtRecord) /\ DOMAIN rt' = DOMAIN rt
           /\ \A q \in DOMAIN rt : q # r => rt'[q] = rt[q]
           /\ rt'[r].chain = rt[r].chain /\ rt'[r].step = rt[r].step /\ rt'[r].input = rt[r].input
           /\ rt'[r].state = "done" /\ rt'[r].output = Recorded(t.step)
           /\ \A v \in tasks' : \E u \in tasks \ {t} : Reached(t, u, v)
           /\ \A u \in tasks \ {t} : \E v \in tasks' : Reached(t, u, v)
           /\ ctx' = IF t.drive = w.drive THEN WithOutput(ctx, t.step) ELSE ctx
<1> DEFINE r == t.rt
           o == Recorded(t.step)
           old == rt[r]
           new == [old EXCEPT !.state = "done", !.output = o]
           next(u) == [u EXCEPT !.ctx = IF u.drive = t.drive THEN WithOutput(u.ctx, t.step) ELSE u.ctx]
<1>1. /\ t.pc = "run" /\ UNCHANGED <<chain, queue, w, drives, faults, crashes>>
      /\ ctx' = IF t.drive = w.drive THEN WithOutput(ctx, t.step) ELSE ctx
      /\ tasks' = {next(u) : u \in tasks \ {t}}
      /\ rt' = [rt EXCEPT ![r] = new]
  BY DEF Completed, bounds
<1>2. r \in DOMAIN rt /\ rt[r].chain = t.chain /\ rt[r].step = t.step.id
  BY <1>1 DEF Refs, TasksOK
<1>3. rt \in Seq(RtRecord) /\ Len(rt) \in Nat /\ DOMAIN rt = 1..Len(rt)
  BY DEF Refs, TypeOK
<1>4. old \in RtRecord /\ o \in Values
  BY <1>2, <1>3, TaskFacts, ValuesOfSteps
<1> HIDE DEF o, old
<1>5. /\ new.chain = old.chain /\ new.step = old.step /\ new.input = old.input
      /\ new.state = "done" /\ new.output = o
      /\ new \in RtRecord
  BY <1>4 DEF RtRecord
<1> HIDE DEF new
<1>6. rt' \in Seq(RtRecord) /\ DOMAIN rt' = DOMAIN rt
      /\ rt'[r] = new /\ \A q \in DOMAIN rt : q # r => rt'[q] = rt[q]
  BY <1>1, <1>2, <1>3, <1>5
<1>7. ASSUME NEW u \in tasks PROVE Reached(t, u, next(u))
  <2>1. u \in TaskRecord /\ u.ctx \in Contexts
    BY TaskFacts
  <2> DEFINE c == IF u.drive = t.drive THEN WithOutput(u.ctx, t.step) ELSE u.ctx
  <2>2. c \in Contexts
    BY <2>1, TaskFacts, WithOutputFacts
  <2>3. next(u) = [u EXCEPT !.ctx = c]
    OBVIOUS
  <2> HIDE DEF c, next
  <2> DEFINE v == [u EXCEPT !.ctx = c]
  <2>4. /\ v.drive = u.drive /\ v.chain = u.chain /\ v.step = u.step /\ v.pc = u.pc /\ v.rt = u.rt
        /\ v.ctx = c
        /\ v \in TaskRecord
    BY <2>1, <2>2 DEF TaskRecord
  <2>5. QED
    BY <2>3, <2>4 DEF Reached, c
<1> HIDE DEF next
<1>8. /\ \A v \in tasks' : \E u \in tasks \ {t} : Reached(t, u, v)
      /\ \A u \in tasks \ {t} : \E v \in tasks' : Reached(t, u, v)
  BY <1>1, <1>7
<1>9. QED
  BY <1>1, <1>2, <1>5, <1>6, <1>8 DEF o, old

\* The strays a drive leaves are on record against its chain.
LEMMA StrayedFacts ==
    ASSUME TypeOK, NEW c \in ChainIds, NEW d, chain' = Strayed(c, d)
    PROVE  /\ chain' \in Seq(ChainRecord) /\ ChainIds' = ChainIds
           /\ \A k \in ChainIds : k # c => chain'[k] = chain[k]
           /\ chain'[c].pipe = chain[c].pipe /\ chain'[c].parent = chain[c].parent
           /\ chain'[c].status = chain[c].status /\ chain'[c].drives = chain[c].drives
           /\ chain'[c].cut = chain[c].cut
           /\ chain'[c].strayed <=> chain[c].strayed \/ \E u \in tasks' : u.drive = d
<1> DEFINE old == chain[c]
           b == old.strayed \/ \E u \in tasks' : u.drive = d
           new == [old EXCEPT !.strayed = b]
<1>1. old \in ChainRecord
  BY ChainFacts
<1>2. chain \in Seq(ChainRecord) /\ Len(chain) \in Nat /\ DOMAIN chain = 1..Len(chain)
  BY DEF TypeOK
<1>3. chain' = [chain EXCEPT ![c] = new]
  BY DEF Strayed
<1>4. b \in BOOLEAN
  OBVIOUS
<1> HIDE DEF old, b
<1>5. /\ new.pipe = old.pipe /\ new.parent = old.parent /\ new.status = old.status
      /\ new.drives = old.drives /\ new.cut = old.cut /\ new.strayed = b
      /\ new \in ChainRecord
  BY <1>1, <1>4 DEF ChainRecord
<1> HIDE DEF new
<1>6. chain' \in Seq(ChainRecord) /\ ChainIds' = ChainIds
      /\ chain'[c] = new /\ \A k \in ChainIds : k # c => chain'[k] = chain[k]
  BY <1>2, <1>3, <1>5 DEF ChainIds
<1>7. QED
  BY <1>5, <1>6 DEF old, b

LEMMA FailsEffect ==
    ASSUME Refs, NEW t \in tasks, StepFails(t)
    PROVE  /\ tasks' = tasks \ {t}
           /\ UNCHANGED <<queue, ctx, drives, crashes>> /\ faults' \in Nat
           /\ rt' \in Seq(RtRecord) /\ DOMAIN rt' = DOMAIN rt
           /\ \A q \in DOMAIN rt :
                 /\ rt'[q].chain = rt[q].chain /\ rt'[q].step = rt[q].step
                 /\ rt'[q].input = rt[q].input
                 /\ rt'[q] = rt[q] \/ rt'[q].state = "failed"
           /\ IF t.drive = w.drive /\ w.pc = "steps"
              THEN /\ w' = [w EXCEPT !.pc = "fail", !.group = 0]
                   /\ chain' = Strayed(t.chain, t.drive)
              ELSE UNCHANGED <<w, chain>>
<1>1. /\ tasks' = tasks \ {t}
      /\ UNCHANGED <<queue, ctx, drives, crashes>>
      /\ faults' = faults + 1
      /\ rt' = IF t.pc = "run" THEN [rt EXCEPT ![t.rt].state = "failed"] ELSE rt
      /\ IF t.drive = w.drive /\ w.pc = "steps"
         THEN /\ w' = [w EXCEPT !.pc = "fail", !.group = 0]
              /\ chain' = Strayed(t.chain, t.drive)
         ELSE UNCHANGED <<w, chain>>
  BY DEF StepFails
<1>2. faults' \in Nat
  BY <1>1 DEF Refs, TypeOK
<1>3. rt \in Seq(RtRecord) /\ Len(rt) \in Nat /\ DOMAIN rt = 1..Len(rt)
  BY DEF Refs, TypeOK
<1>4. CASE t.pc # "run"
  BY <1>1, <1>2, <1>3, <1>4
<1>5. CASE t.pc = "run"
  <2> DEFINE r == t.rt
             old == rt[r]
             new == [old EXCEPT !.state = "failed"]
  <2>1. r \in DOMAIN rt
    BY <1>5 DEF Refs, TasksOK
  <2>2. old \in RtRecord
    BY <1>3, <2>1
  <2>3. rt' = [rt EXCEPT ![r] = new]
    BY <1>1, <1>5
  <2> HIDE DEF old
  <2>4. /\ new.chain = old.chain /\ new.step = old.step /\ new.input = old.input
        /\ new.state = "failed" /\ new \in RtRecord
    BY <2>2 DEF RtRecord
  <2> HIDE DEF new
  <2>5. rt' \in Seq(RtRecord) /\ DOMAIN rt' = DOMAIN rt
        /\ rt'[r] = new /\ \A q \in DOMAIN rt : q # r => rt'[q] = rt[q]
    BY <1>3, <2>1, <2>3, <2>4
  <2>6. \A q \in DOMAIN rt :
                 /\ rt'[q].chain = rt[q].chain /\ rt'[q].step = rt[q].step
                 /\ rt'[q].input = rt[q].input
                 /\ rt'[q] = rt[q] \/ rt'[q].state = "failed"
    BY <2>4, <2>5 DEF old
  <2>7. QED
    BY <1>1, <1>2, <2>5, <2>6
<1>6. QED
  BY <1>4, <1>5

-----------------------------------------------------------------------------
(* What the worker does. *)

\* A set of places has a last one.
LEMMA GreatestNumber ==
    ASSUME NEW n \in Nat, NEW S \in SUBSET (1..n), S # {}
    PROVE  \E m \in S : \A q \in S : q <= m
<1> DEFINE D == {n - q : q \in S}
<1>1. D \in SUBSET Nat /\ D # {}
  <2>1. \A q \in S : n - q \in Nat
    OBVIOUS
  <2>2. QED
    BY <2>1
<1>2. PICK d \in D : \A e \in D : d <= e
  <2> HIDE DEF D
  <2>1. QED
    BY <1>1, LeastNumber
<1>3. PICK m \in S : d = n - m
  BY <1>2
<1>4. ASSUME NEW q \in S PROVE q <= m
  <2>1. n - q \in D
    OBVIOUS
  <2>2. n - m <= n - q
    BY <1>2, <1>3, <2>1
  <2>3. QED
    BY <2>2
<1>5. QED
  BY <1>4

LEMMA WorkerFacts ==
    ASSUME Refs
    PROVE  /\ w \in WorkerRecord
           /\ w.pc # "select" => w.chain \in ChainIds /\ chain[w.chain].pipe \in Pipelines
<1>1. w \in WorkerRecord /\ (w.pc # "select" => w.chain \in ChainIds) /\ TypeOK
  BY DEF Refs, TypeOK, RefsOK
<1>2. QED
  BY <1>1, ChainFacts

LEMMA LastRtFacts ==
    ASSUME Refs, NEW c, NEW id, \E r \in DOMAIN rt : rt[r].chain = c /\ rt[r].step = id
    PROVE  LET m == LastRt(c, id) IN
           /\ m \in RtsOfChain(c) /\ rt[m].step = id
           /\ \A q \in RtsOfChain(c) : rt[q].step = id => q <= m
<1> DEFINE S == {r \in DOMAIN rt : rt[r].chain = c /\ rt[r].step = id}
<1>1. Len(rt) \in Nat /\ DOMAIN rt = 1..Len(rt)
  BY DEF Refs, TypeOK
<1>2. S \in SUBSET (1..Len(rt)) /\ S # {}
  BY <1>1
<1>3. \E m \in S : \A q \in S : q <= m
  <2> HIDE DEF S
  <2>1. QED
    BY <1>1, <1>2, GreatestNumber
<1>4. LastRt(c, id) \in S /\ \A q \in S : q <= LastRt(c, id)
  BY <1>3 DEF LastRt
<1>5. QED
  BY <1>4 DEF RtsOfChain

\* What is restored is the output of the step's last RT, unwrapped; and the step is done.
LEMMA RehydratedFacts ==
    ASSUME Refs, NEW c \in ChainIds
    PROVE  /\ Rehydrated(c) \in Contexts
           /\ DOMAIN Rehydrated(c) \subseteq DoneIds(c)
           /\ \A id \in DOMAIN Rehydrated(c) : \E r \in RtsOfChain(c) :
                 /\ rt[r].step = id /\ rt[r].state = "done"
                 /\ Rehydrated(c)[id] =
                      IF rt[r].output = "structured" THEN "inner" ELSE rt[r].output
<1> DEFINE p == chain[c].pipe
           D == {s.id : s \in {x \in AllSteps(p) : WasDone(c, x)}}
           v(id) == LET out == rt[LastRt(c, id)].output
                    IN  IF out = "structured" THEN "inner" ELSE out
<1>1. Rehydrated(c) = [id \in D |-> v(id)]
  BY DEF Rehydrated
<1>2. p \in Pipelines
  BY ChainFacts DEF Refs
<1>3. ASSUME NEW id \in D
      PROVE  /\ id \in StepIds /\ id \in DoneIds(c) /\ v(id) \in Values
             /\ LastRt(c, id) \in RtsOfChain(c)
             /\ rt[LastRt(c, id)].step = id /\ rt[LastRt(c, id)].state = "done"
  <2>1. PICK s \in AllSteps(p) : WasDone(c, s) /\ id = s.id
    OBVIOUS
  <2>2. id \in StepIds
    BY <1>2, <2>1, ValuesOfSteps
  <2> DEFINE m == LastRt(c, id)
  <2>3. (\E r \in DOMAIN rt : rt[r].chain = c /\ rt[r].step = id) /\ rt[m].state = "done"
    BY <2>1 DEF WasDone
  <2>4. /\ m \in RtsOfChain(c) /\ rt[m].step = id
        /\ \A q \in RtsOfChain(c) : rt[q].step = id => q <= m
    BY <2>3, LastRtFacts
  <2>5. id \in DoneIds(c)
    BY <2>2, <2>3, <2>4 DEF DoneIds
  <2>6. rt[m] \in RtRecord
    BY <2>4 DEF RtsOfChain, Refs, TypeOK
  <2>7. rt[m].output \in Values
    BY <2>6 DEF RtRecord
  <2>8. "inner" \in Values
    BY DEF Values
  <2>9. QED
    BY <2>2, <2>3, <2>4, <2>5, <2>7, <2>8
<1>4. D \in SUBSET StepIds
  BY <1>3
<1> HIDE DEF D
<1>5. Rehydrated(c) \in Contexts
  <2> HIDE DEF v
  <2>1. [id \in D |-> v(id)] \in [D -> Values]
    BY <1>3
  <2>2. QED
    BY <1>1, <1>4, <2>1 DEF Contexts
<1>6. DOMAIN Rehydrated(c) = D /\ \A id \in D : Rehydrated(c)[id] = v(id)
  BY <1>1
<1>7. QED
  BY <1>3, <1>5, <1>6

LEMMA SelectEffect ==
    ASSUME Refs, Select
    PROVE  /\ UNCHANGED <<chain, rt, queue, tasks, ctx, drives, faults, crashes>>
           /\ w.pc = "select" /\ w' \in WorkerRecord /\ w'.pc = "start" /\ w'.drive = w.drive
           /\ w'.chain \notin w'.resume
           /\ \/ w'.chain \in w.resume /\ w'.again = TRUE /\ w'.resume = w.resume \ {w'.chain}
              \/ /\ w'.again = FALSE /\ w'.resume = w.resume /\ w.resume = {}
                 /\ w'.chain \in ChainIds /\ Entries(w'.chain) # {}
<1>1. UNCHANGED <<chain, rt, queue, tasks, ctx, drives, faults, crashes>> /\ w.pc = "select"
  BY DEF Select, bounds
<1>2. w \in WorkerRecord /\ w.resume \subseteq ChainIds /\ ChainIds \subseteq Nat
  BY DEF Refs, TypeOK, RefsOK, ChainIds
<1>3. CASE \E c \in w.resume :
             w' = [w EXCEPT !.pc = "start", !.chain = c, !.again = TRUE, !.resume = @ \ {c}]
  <2>1. PICK c \in w.resume :
             w' = [w EXCEPT !.pc = "start", !.chain = c, !.again = TRUE, !.resume = w.resume \ {c}]
    BY <1>3
  <2> DEFINE R == w.resume \ {c}
  <2>2. c \in Nat /\ R \in SUBSET Nat /\ c \notin R
    BY <1>2
  <2>3. w' = [w EXCEPT !.pc = "start", !.chain = c, !.again = TRUE, !.resume = R]
    BY <2>1
  <2> HIDE DEF R
  <2>4. /\ w' \in WorkerRecord
        /\ w'.pc = "start" /\ w'.drive = w.drive /\ w'.chain = c /\ w'.again = TRUE /\ w'.resume = R
    BY <1>2, <2>2, <2>3 DEF WorkerRecord
  <2>5. QED
    BY <1>1, <2>2, <2>4 DEF R
<1>4. CASE /\ w.resume = {} /\ queue # <<>>
           /\ w' = [w EXCEPT !.pc = "start", !.chain = rt[Head(queue)].chain, !.again = FALSE]
  <2> DEFINE r == Head(queue)
             c == rt[r].chain
  <2>1. queue \in Seq(Nat) /\ ToSet(queue) \subseteq DOMAIN rt
        /\ \A q \in DOMAIN rt : rt[q].chain \in ChainIds
    BY DEF Refs, TypeOK, RefsOK
  <2>2. r \in ToSet(queue)
    BY <1>4, <2>1 DEF ToSet
  <2>3. r \in DOMAIN rt /\ c \in ChainIds /\ c \in Nat
    BY <1>2, <2>1, <2>2
  <2>4. r \in Entries(c)
    BY <2>2 DEF Entries
  <2>5. w' = [w EXCEPT !.pc = "start", !.chain = c, !.again = FALSE]
    BY <1>4
  <2> HIDE DEF c
  <2>6. /\ w' \in WorkerRecord
        /\ w'.pc = "start" /\ w'.drive = w.drive /\ w'.chain = c /\ w'.again = FALSE
        /\ w'.resume = w.resume
    BY <1>2, <2>3, <2>5 DEF WorkerRecord
  <2>7. QED
    BY <1>1, <1>4, <2>3, <2>4, <2>6
<1>5. QED
  BY <1>3, <1>4 DEF Select

LEMMA StartEffect ==
    ASSUME Refs, DrivesOK, Start
    PROVE  LET c == w.chain IN
           /\ UNCHANGED <<rt, queue, tasks, faults, crashes>>
           /\ w.pc = "start" /\ c \in ChainIds
           /\ w' \in WorkerRecord /\ w'.pc = "steps" /\ w'.drive = drives + 1 /\ w'.group = 0
           /\ w'.chain = c /\ w'.resume = w.resume /\ w'.again = w.again
           /\ drives' = drives + 1
           /\ ctx' \in Contexts
           /\ ctx' = IF w.again THEN Rehydrated(c) ELSE NoNames
           /\ chain' \in Seq(ChainRecord) /\ ChainIds' = ChainIds
           /\ \A k \in ChainIds : k # c => chain'[k] = chain[k]
           /\ chain'[c].pipe = chain[c].pipe /\ chain'[c].parent = chain[c].parent
           /\ chain'[c].drives = chain[c].drives + 1
           /\ chain'[c].strayed = chain[c].strayed /\ chain'[c].cut = chain[c].cut
<1> DEFINE c == w.chain
           old == chain[c]
           n == old.drives + 1
           new == [old EXCEPT !.status = "active", !.drives = n]
<1>1. /\ UNCHANGED <<rt, queue, tasks, faults, crashes>> /\ w.pc = "start"
      /\ drives' = drives + 1
      /\ ctx' = IF w.again THEN Rehydrated(c) ELSE NoNames
      /\ w' = [w EXCEPT !.pc = "steps", !.drive = drives + 1, !.group = 0]
      /\ chain' = [chain EXCEPT ![c] = new]
  BY DEF Start, bounds
<1>2. c \in ChainIds /\ w \in WorkerRecord
  BY <1>1, WorkerFacts
<1>3. chain \in Seq(ChainRecord) /\ Len(chain) \in Nat /\ ChainIds = 1..Len(chain) /\ drives \in Nat
  BY DEF Refs, TypeOK, ChainIds
<1>4. old \in ChainRecord
  BY <1>2, <1>3
<1>5. n \in Nat
  BY <1>4 DEF ChainRecord
<1> HIDE DEF n, old
<1>6. /\ new.pipe = old.pipe /\ new.parent = old.parent /\ new.drives = n
      /\ new.strayed = old.strayed /\ new.cut = old.cut /\ new \in ChainRecord
  BY <1>4, <1>5 DEF ChainRecord
<1> HIDE DEF new, c
<1>7. chain' \in Seq(ChainRecord) /\ ChainIds' = ChainIds
      /\ chain'[c] = new /\ \A k \in ChainIds : k # c => chain'[k] = chain[k]
  BY <1>1, <1>2, <1>3, <1>6 DEF ChainIds
<1>8. drives + 1 \in Nat
  BY <1>3
<1>9. /\ w' \in WorkerRecord /\ w'.pc = "steps" /\ w'.drive = drives + 1 /\ w'.group = 0
      /\ w'.chain = w.chain /\ w'.resume = w.resume /\ w'.again = w.again
  BY <1>1, <1>2, <1>8 DEF WorkerRecord
<1>10. ctx' \in Contexts
  <2>1. Rehydrated(c) \in Contexts
    BY <1>2, RehydratedFacts
  <2>2. NoNames \in [{} -> Values]
    BY DEF NoNames
  <2>3. NoNames \in Contexts
    BY <2>2 DEF Contexts
  <2>4. QED
    BY <1>1, <2>1, <2>3
<1>11. QED
  BY <1>1, <1>2, <1>6, <1>7, <1>9, <1>10 DEF c, old, n
\* A task that a group begins.
Fresh(t, c, k) ==
    /\ t \in TaskRecord
    /\ t.drive = w.drive /\ t.chain = c /\ t.pc = "pop" /\ t.ctx = ctx
    /\ t.step \in StepsAt(c, k) /\ t.step.id \notin DOMAIN ctx /\ t.step.llm # t.step.tool

LEMMA BegunFacts ==
    ASSUME Refs, NEW c \in ChainIds, NEW k \in DOMAIN PipeOf(c), w.drive \in Nat
    PROVE  /\ \A t \in Begun(c, k, ctx, w.drive) : Fresh(t, c, k)
           /\ \A s \in StepsAt(c, k) :
                 s.id \notin DOMAIN ctx /\ s.llm # s.tool =>
                    \E t \in Begun(c, k, ctx, w.drive) : t.step = s
           /\ \A t, u \in Begun(c, k, ctx, w.drive) : t.step = u.step => t = u
<1> DEFINE d == w.drive
           f == ctx
           task(s) == [drive |-> d, chain |-> c, step |-> s, pc |-> "pop", rt |-> 0, ctx |-> f]
           S == {x \in StepsAt(c, k) : x.id \notin DOMAIN f /\ (x.llm # x.tool)}
<1>1. Begun(c, k, ctx, w.drive) = {task(s) : s \in S}
  BY DEF Begun
<1>2. ctx \in Contexts /\ c \in Nat /\ chain[c].pipe \in Pipelines
  BY ChainFacts DEF Refs, TypeOK
<1>3. StepsAt(c, k) \subseteq AllSteps(chain[c].pipe)
  BY <1>2, OneStepPerId DEF StepsAt, PipeOf
<1>4. S \subseteq AnyStep
  BY <1>2, <1>3 DEF AnyStep
<1> HIDE DEF d, f
<1>5. ASSUME NEW s \in S
      PROVE  /\ task(s) \in TaskRecord
             /\ task(s).drive = d /\ task(s).chain = c /\ task(s).pc = "pop" /\ task(s).ctx = f
             /\ task(s).step = s
  BY <1>2, <1>4 DEF TaskRecord, d, f
<1>6. \A t \in {task(s) : s \in S} : Fresh(t, c, k)
  <2> HIDE DEF task
  <2>1. \A s \in S : Fresh(task(s), c, k)
    BY <1>5 DEF Fresh, d, f
  <2>2. QED
    BY <2>1
<1>7. \A t, u \in {task(s) : s \in S} : t.step = u.step => t = u
  <2> HIDE DEF task, S
  <2>1. QED
    BY <1>5
<1>8. \A s \in S : \E t \in {task(q) : q \in S} : t.step = s
  <2> HIDE DEF task, S
  <2>1. QED
    BY <1>5
<1>9. QED
  BY <1>1, <1>6, <1>7, <1>8 DEF f

\* The steps are over, or those of the next group begin; a malformed one ends the drive.
LEMMA NextGroupEffect ==
    ASSUME Refs, DrivesOK, NextGroup
    PROVE  LET c == w.chain
               k == w.group + 1
           IN
           /\ UNCHANGED <<rt, queue, ctx, drives, faults, crashes>>
           /\ w.pc = "steps" /\ c \in ChainIds /\ Running = {} /\ w.group \in Nat
           /\ w' \in WorkerRecord /\ w'.drive = w.drive /\ w'.chain = c
           /\ w'.resume = w.resume /\ w'.again = w.again
           /\ \/ /\ k \notin DOMAIN PipeOf(c) /\ w'.pc = "handoff" /\ w'.group = 0
                 /\ UNCHANGED <<chain, tasks>>
              \/ /\ k \in DOMAIN PipeOf(c)
                 /\ tasks' = tasks \cup Begun(c, k, ctx, w.drive)
                 /\ \A t \in Begun(c, k, ctx, w.drive) : Fresh(t, c, k)
                 /\ \A t, u \in Begun(c, k, ctx, w.drive) : t.step = u.step => t = u
                 /\ \/ w'.pc = "fail" /\ w'.group = 0 /\ chain' = Strayed(c, w.drive)
                    \/ /\ w'.pc = "steps" /\ w'.group = k /\ UNCHANGED chain
                       /\ \A s \in StepsAt(c, k) : s.id \notin DOMAIN ctx =>
                             \E t \in Begun(c, k, ctx, w.drive) : t.step = s
<1> DEFINE c == w.chain
           k == w.group + 1
<1>1. /\ UNCHANGED <<rt, queue, ctx, drives, faults, crashes>>
      /\ w.pc = "steps" /\ Running = {}
      /\ IF k > Len(PipeOf(c))
         THEN w' = [w EXCEPT !.pc = "handoff", !.group = 0] /\ UNCHANGED <<chain, tasks>>
         ELSE /\ tasks' = tasks \cup Begun(c, k, ctx, w.drive)
              /\ IF Malformed(c, k, ctx)
                 THEN /\ w' = [w EXCEPT !.pc = "fail", !.group = 0]
                      /\ chain' = Strayed(c, w.drive)
                 ELSE w' = [w EXCEPT !.group = k] /\ UNCHANGED chain
  BY DEF NextGroup, GroupOver, bounds
<1>2. c \in ChainIds /\ w \in WorkerRecord /\ chain[c].pipe \in Pipelines
  BY <1>1, WorkerFacts
<1>3. w.group \in Nat /\ k \in Nat /\ k >= 1 /\ w.drive \in Nat
  BY <1>2 DEF WorkerRecord
<1>4. PipeOf(c) \in Seq(Seq(AllSteps(chain[c].pipe)))
  BY <1>2, StepsFacts DEF PipeOf
<1> HIDE DEF k
<1>5. CASE k > Len(PipeOf(c))
  <2>1. k \notin DOMAIN PipeOf(c)
    BY <1>3, <1>4, <1>5
  <2>2. w' = [w EXCEPT !.pc = "handoff", !.group = 0]
    BY <1>1, <1>5
  <2>3. /\ w' \in WorkerRecord /\ w'.drive = w.drive /\ w'.chain = w.chain
        /\ w'.resume = w.resume /\ w'.again = w.again /\ w'.pc = "handoff" /\ w'.group = 0
    BY <1>2, <2>2 DEF WorkerRecord
  <2>4. QED
    BY <1>1, <1>2, <1>3, <1>5, <2>1, <2>3 DEF k
<1>6. CASE ~(k > Len(PipeOf(c)))
  <2>1. k \in DOMAIN PipeOf(c)
    BY <1>3, <1>4, <1>6
  <2>2. /\ \A t \in Begun(c, k, ctx, w.drive) : Fresh(t, c, k)
        /\ \A s \in StepsAt(c, k) :
              s.id \notin DOMAIN ctx /\ s.llm # s.tool =>
                 \E t \in Begun(c, k, ctx, w.drive) : t.step = s
        /\ \A t, u \in Begun(c, k, ctx, w.drive) : t.step = u.step => t = u
    BY <1>2, <1>3, <2>1, BegunFacts
  <2>3. CASE Malformed(c, k, ctx)
    <3>1. w' = [w EXCEPT !.pc = "fail", !.group = 0]
      BY <1>1, <1>6, <2>3
    <3>2. /\ w' \in WorkerRecord /\ w'.drive = w.drive /\ w'.chain = w.chain
          /\ w'.resume = w.resume /\ w'.again = w.again /\ w'.pc = "fail" /\ w'.group = 0
      BY <1>2, <3>1 DEF WorkerRecord
    <3>3. QED
      BY <1>1, <1>2, <1>3, <1>6, <2>1, <2>2, <2>3, <3>2 DEF k
  <2>4. CASE ~Malformed(c, k, ctx)
    <3>1. w' = [w EXCEPT !.group = k]
      BY <1>1, <1>6, <2>4
    <3>2. /\ w' \in WorkerRecord /\ w'.drive = w.drive /\ w'.chain = w.chain
          /\ w'.resume = w.resume /\ w'.again = w.again /\ w'.pc = w.pc /\ w'.group = k
      BY <1>2, <1>3, <3>1 DEF WorkerRecord
    <3>3. \A s \in StepsAt(c, k) : s.id \notin DOMAIN ctx =>
             \E t \in Begun(c, k, ctx, w.drive) : t.step = s
      BY <2>2, <2>4 DEF Malformed
    <3>4. QED
      BY <1>1, <1>2, <1>3, <1>6, <2>1, <2>2, <2>4, <3>2, <3>3 DEF k
  <2>5. QED
    BY <2>3, <2>4
<1>7. QED
  BY <1>5, <1>6

LEMMA ResolveEffect ==
    ASSUME Refs, Resolve
    PROVE  /\ UNCHANGED <<chain, rt, queue, tasks, ctx, drives, crashes>> /\ faults' \in Nat
           /\ w.pc = "handoff"
           /\ w' \in WorkerRecord /\ w'.drive = w.drive /\ w'.chain = w.chain
           /\ w'.resume = w.resume /\ w'.again = w.again
           /\ \/ w'.pc = "finish" /\ w'.group = 0
              \/ w'.pc = "handoff" /\ w'.group = 1
              \/ w'.pc = "fail" /\ w'.group = 0
<1> DEFINE c == w.chain
           actions == File[chain[c].pipe].actions
<1>1. /\ UNCHANGED <<chain, rt, queue, tasks, ctx, drives, crashes>>
      /\ w.pc = "handoff" /\ w.group = 0
      /\ \/ w' = [w EXCEPT !.pc = "finish"]
         \/ \E i \in ActionsOpen(c) : w' = [w EXCEPT !.group = 1, !.todo = Unguarded(c, actions[i])]
         \/ w' = [w EXCEPT !.pc = "fail"]
  BY DEF Resolve
<1>2. w \in WorkerRecord /\ c \in ChainIds /\ chain[c].pipe \in Pipelines
  BY <1>1, WorkerFacts
<1>3. faults' \in Nat
  <2>1. faults' = faults \/ faults' = faults + 1
    BY DEF Resolve
  <2>2. faults \in Nat
    BY DEF Refs, TypeOK
  <2>3. QED
    BY <2>1, <2>2
<1>4. CASE w' = [w EXCEPT !.pc = "finish"]
  <2>1. /\ w' \in WorkerRecord /\ w'.drive = w.drive /\ w'.chain = w.chain
        /\ w'.resume = w.resume /\ w'.again = w.again /\ w'.pc = "finish" /\ w'.group = w.group
    BY <1>2, <1>4 DEF WorkerRecord
  <2>2. QED
    BY <1>1, <1>3, <2>1
<1>5. CASE w' = [w EXCEPT !.pc = "fail"]
  <2>1. /\ w' \in WorkerRecord /\ w'.drive = w.drive /\ w'.chain = w.chain
        /\ w'.resume = w.resume /\ w'.again = w.again /\ w'.pc = "fail" /\ w'.group = w.group
    BY <1>2, <1>5 DEF WorkerRecord
  <2>2. QED
    BY <1>1, <1>3, <2>1
<1>6. CASE \E i \in ActionsOpen(c) : w' = [w EXCEPT !.group = 1, !.todo = Unguarded(c, actions[i])]
  <2>1. PICK i \in ActionsOpen(c) : w' = [w EXCEPT !.group = 1, !.todo = Unguarded(c, actions[i])]
    BY <1>6
  <2>2. i \in DOMAIN actions
    BY <2>1 DEF ActionsOpen
  <2>3. actions[i] \in Seq(Pipelines)
    BY <1>2, <2>2, PipelineFiles
  <2> DEFINE todo == Unguarded(c, actions[i])
  <2>4. todo \in Seq(Pipelines)
    BY <2>3, UnguardedType
  <2>5. w' = [w EXCEPT !.group = 1, !.todo = todo]
    BY <2>1
  <2> HIDE DEF todo
  <2>6. /\ w' \in WorkerRecord /\ w'.drive = w.drive /\ w'.chain = w.chain
        /\ w'.resume = w.resume /\ w'.again = w.again /\ w'.pc = w.pc /\ w'.group = 1
    BY <1>2, <2>4, <2>5 DEF WorkerRecord
  <2>7. QED
    BY <1>1, <1>3, <2>6
<1>7. QED
  BY <1>1, <1>4, <1>5, <1>6
\* c has called q: the chain id and its RTs, which follow the n there are, are new.
Called(c, q, id, n, rts) ==
    /\ Waiting(q) = {}
    /\ rts \in Seq(NewRts(id, q)) /\ IsInjective(rts)
    /\ chain' \in Seq(ChainRecord)
    /\ id \notin ChainIds /\ ChainIds' = ChainIds \cup {id} /\ id \in Nat
    /\ \A k \in ChainIds : chain'[k] = chain[k] /\ k < id
    /\ chain'[id].pipe = q /\ chain'[id].parent = c
    /\ chain'[id].status = "pending" /\ chain'[id].drives = 0
    /\ chain'[id].strayed = FALSE /\ chain'[id].cut = FALSE
    /\ rt' \in Seq(RtRecord)
    /\ DOMAIN rt' = DOMAIN rt \cup (n + 1)..(n + Len(rts))
    /\ \A r \in DOMAIN rt : rt'[r] = rt[r] /\ r <= n
    /\ \A i \in 1..Len(rts) :
          rt'[n + i] = rts[i] /\ rts[i].chain = id /\ rts[i].state = "pending"
    /\ n \in Nat
    /\ queue' \in Seq(Nat) /\ IsInjective(queue')
    /\ ToSet(queue') = ToSet(queue) \cup (n + 1)..(n + Len(rts))

\* A follow-up is refused or absorbed, or its chain and RTs are created.
LEMMA HandOffEffect ==
    ASSUME Refs, HandOff
    PROVE  LET c == w.chain
               id == Len(chain) + 1
               n == Len(rt)
           IN
           /\ UNCHANGED <<tasks, ctx, drives, faults, crashes>>
           /\ w.pc = "handoff" /\ w.group = 1 /\ c \in ChainIds
           /\ w' \in WorkerRecord /\ w'.drive = w.drive /\ w'.chain = c
           /\ w'.resume = w.resume /\ w'.again = w.again /\ w'.group = 1
           /\ w'.pc \in {"handoff", "fail"}
           /\ \/ UNCHANGED <<chain, rt, queue>>
              \/ \E q \in Pipelines : Called(c, q, id, n, RtsFor(id, q))
<1> DEFINE c == w.chain
           q == Head(w.todo)
           id == Len(chain) + 1
           n == Len(rt)
           rts == RtsFor(id, q)
           new == NewChain(q, c, Append(chain[c].ancestors, chain[c].pipe))
           places == Places(n, rts)
<1>1. /\ UNCHANGED <<tasks, ctx, drives, faults, crashes>>
      /\ w.pc = "handoff" /\ w.group = 1 /\ w.todo # <<>>
      /\ \/ w' = [w EXCEPT !.pc = "fail", !.todo = <<>>] /\ UNCHANGED <<chain, rt, queue>>
         \/ w' = [w EXCEPT !.todo = Tail(w.todo)] /\ UNCHANGED <<chain, rt, queue>>
         \/ /\ w' = [w EXCEPT !.todo = Tail(w.todo)] /\ Waiting(q) = {}
            /\ chain' = Append(chain, new) /\ rt' = rt \o rts /\ queue' = queue \o places
  BY DEF HandOff, bounds
<1>2. w \in WorkerRecord /\ c \in ChainIds /\ chain[c] \in ChainRecord /\ chain[c].pipe \in Pipelines
  BY <1>1, WorkerFacts, ChainFacts DEF Refs
<1>3. w.todo \in Seq(Pipelines) /\ w.todo # <<>>
  BY <1>1, <1>2 DEF WorkerRecord
<1>4. q \in Pipelines /\ Tail(w.todo) \in Seq(Pipelines)
  BY <1>3
<1> DEFINE rest == Tail(w.todo)
           Still == /\ w' \in WorkerRecord /\ w'.drive = w.drive /\ w'.chain = c
                    /\ w'.resume = w.resume /\ w'.again = w.again /\ w'.group = 1
                    /\ w'.pc \in {"handoff", "fail"}
<1>5. CASE w' = [w EXCEPT !.pc = "fail", !.todo = <<>>] /\ UNCHANGED <<chain, rt, queue>>
  <2>1. <<>> \in Seq(Pipelines)
    OBVIOUS
  <2> HIDE DEF q, id, n, rts, new, places, rest
  <2>2. Still
    BY <1>1, <1>2, <1>5, <2>1 DEF WorkerRecord
  <2>3. QED
    BY <1>1, <1>2, <1>5, <2>2
<1>6. ASSUME w' = [w EXCEPT !.todo = Tail(w.todo)]
      PROVE  Still
  <2>1. w' = [w EXCEPT !.todo = rest] /\ rest \in Seq(Pipelines)
    BY <1>4, <1>6
  <2> HIDE DEF q, id, n, rts, new, places, rest
  <2>2. QED
    BY <1>1, <1>2, <2>1 DEF WorkerRecord
<1>7. CASE w' = [w EXCEPT !.todo = Tail(w.todo)] /\ UNCHANGED <<chain, rt, queue>>
  <2> HIDE DEF q, id, n, rts, new, places, rest
  <2>3. QED
    BY <1>1, <1>2, <1>6, <1>7
<1>8. CASE /\ w' = [w EXCEPT !.todo = Tail(w.todo)] /\ Waiting(q) = {}
           /\ chain' = Append(chain, new) /\ rt' = rt \o rts /\ queue' = queue \o places
  <2>1. /\ chain \in Seq(ChainRecord) /\ Len(chain) \in Nat /\ ChainIds = 1..Len(chain)
        /\ rt \in Seq(RtRecord) /\ n \in Nat /\ DOMAIN rt = 1..n
        /\ queue \in Seq(Nat) /\ ToSet(queue) \subseteq DOMAIN rt /\ IsInjective(queue)
    BY DEF Refs, TypeOK, RefsOK, ChainIds
  <2>2. id \in Nat
    BY <2>1
  <2>3. rts \in Seq(NewRts(id, q)) /\ IsInjective(rts) /\ NewRts(id, q) \subseteq RtRecord
    BY <1>4, <2>2, RtsForFacts, NewRtsAreRts
  <2>4. rts \in Seq(RtRecord)
    <3> HIDE DEF rts
    <3>1. QED
      BY <2>3
  <2>5. new \in ChainRecord
    <3> DEFINE anc == Append(chain[c].ancestors, chain[c].pipe)
    <3>1. anc \in Seq(Pipelines)
      BY <1>2 DEF ChainRecord
    <3>2. c \in Nat
      BY <1>2, <2>1
    <3> HIDE DEF anc, q, c
    <3>3. NewChain(q, c, anc) \in ChainRecord
      BY <1>4, <3>1, <3>2 DEF NewChain, ChainRecord
    <3>4. QED
      BY <3>3 DEF anc, q, c
  <2>6. /\ new.pipe = q /\ new.parent = c /\ new.status = "pending" /\ new.drives = 0
        /\ new.strayed = FALSE /\ new.cut = FALSE
    BY DEF NewChain
  <2> HIDE DEF new, q, c
  <2>7. /\ chain' \in Seq(ChainRecord) /\ ChainIds' = ChainIds \cup {id} /\ id \notin ChainIds
        /\ chain'[id] = new /\ \A k \in ChainIds : chain'[k] = chain[k] /\ k < id
    <3>1. /\ chain' \in Seq(ChainRecord) /\ Len(chain') = Len(chain) + 1
          /\ chain'[Len(chain) + 1] = new /\ \A k \in 1..Len(chain) : chain'[k] = chain[k]
      BY <1>8, <2>1, <2>5, AppendProperties
    <3>2. ChainIds' = 1..(Len(chain) + 1)
      BY <3>1 DEF ChainIds
    <3>3. QED
      BY <2>1, <3>1, <3>2
  <2>8. \A i \in 1..Len(rts) : rts[i].chain = id /\ rts[i].state = "pending"
    <3>1. \A x \in NewRts(id, q) : x.chain = id /\ x.state = "pending"
      BY DEF NewRts, NewRt
    <3> HIDE DEF rts
    <3>2. QED
      BY <2>3, <3>1
  <2> HIDE DEF rts, id
  <2>9. Len(rts) \in Nat
    BY <2>4
  <2>10. /\ rt' \in Seq(RtRecord) /\ Len(rt') = n + Len(rts)
         /\ \A r \in 1..n : rt'[r] = rt[r]
         /\ \A i \in 1..Len(rts) : rt'[n + i] = rts[i]
    BY <1>8, <2>1, <2>4 DEF n
  <2>11. DOMAIN rt' = DOMAIN rt \cup (n + 1)..(n + Len(rts))
    <3>1. DOMAIN rt' = 1..(n + Len(rts))
      BY <2>10
    <3> HIDE DEF n
    <3>2. QED
      BY <2>1, <2>9, <3>1
  <2> HIDE DEF n
  <2>12. /\ places \in Seq(Nat) /\ Len(places) = Len(rts) /\ DOMAIN places = 1..Len(rts)
         /\ \A i \in 1..Len(rts) : places[i] = n + i
    <3>1. places = [i \in 1..Len(rts) |-> n + i]
      BY DEF Places
    <3> HIDE DEF places
    <3>2. QED
      BY <2>1, <2>9, <3>1
  <2> HIDE DEF places
  <2>13. ToSet(places) = (n + 1)..(n + Len(rts))
    <3>1. ToSet(places) = {places[i] : i \in 1..Len(rts)}
      BY <2>12 DEF ToSet
    <3>2. \A x \in ToSet(places) : x \in (n + 1)..(n + Len(rts))
      BY <2>1, <2>9, <2>12, <3>1
    <3>3. ASSUME NEW x \in (n + 1)..(n + Len(rts)) PROVE x \in ToSet(places)
      <4>1. x - n \in 1..Len(rts) /\ n + (x - n) = x
        BY <2>1, <2>9
      <4>2. QED
        BY <2>12, <3>1, <4>1
    <3>4. QED
      BY <3>2, <3>3
  <2>14. IsInjective(places)
    BY <2>1, <2>12 DEF IsInjective
  <2>15. ToSet(queue) \cap ToSet(places) = {}
    BY <2>1, <2>13
  <2>16. queue' \in Seq(Nat) /\ ToSet(queue') = ToSet(queue) \cup ToSet(places) /\ IsInjective(queue')
    <3>1. ToSet(queue \o places) = ToSet(queue) \cup ToSet(places)
      BY <2>1, <2>12, ToSetConcat
    <3>2. IsInjective(queue \o places)
      BY <2>1, <2>12, <2>14, <2>15, DistinctConcat
    <3>3. queue \o places \in Seq(Nat)
      BY <2>1, <2>12
    <3>4. queue' = queue \o places
      BY <1>8
    <3>5. QED
      BY <3>1, <3>2, <3>3, <3>4
  <2>17. Still
    BY <1>6, <1>8
  <2>18. q \in Pipelines /\ Waiting(q) = {}
    BY <1>4, <1>8
  <2>19. /\ UNCHANGED <<tasks, ctx, drives, faults, crashes>>
         /\ w.pc = "handoff" /\ w.group = 1 /\ c \in ChainIds /\ Still
         /\ \A k \in ChainIds : chain'[k] = chain[k] /\ k < id
         /\ \A r \in DOMAIN rt : rt'[r] = rt[r] /\ r <= n
         /\ \A i \in 1..Len(rts) :
               rt'[n + i] = rts[i] /\ rts[i].chain = id /\ rts[i].state = "pending"
         /\ chain'[id].pipe = q /\ chain'[id].parent = c
         /\ chain'[id].status = "pending" /\ chain'[id].drives = 0
         /\ chain'[id].strayed = FALSE /\ chain'[id].cut = FALSE
    BY <1>1, <1>2, <2>1, <2>6, <2>7, <2>8, <2>10, <2>17
  <2>20. Called(c, q, id, n, rts)
    <3>1. ToSet(queue') = ToSet(queue) \cup (n + 1)..(n + Len(rts))
      BY <2>13, <2>16
    <3>2. n \in Nat /\ id \in Nat
      BY <2>1, <2>2
    <3>3. queue' \in Seq(Nat) /\ IsInjective(queue')
      BY <2>16
    <3>4. rt' \in Seq(RtRecord)
      BY <2>10
    <3>5. rts \in Seq(NewRts(id, q)) /\ IsInjective(rts)
      BY <2>3
    <3> HIDE DEF Still
    <3>6. QED
      BY <2>7, <2>11, <2>18, <2>19, <3>1, <3>2, <3>3, <3>4, <3>5, Zenon DEF Called
  <2>21. Called(c, q, id, n, RtsFor(id, q))
    BY <2>20 DEF rts
  <2>22. QED
    BY <2>18, <2>19, <2>21 DEF c, id, n
<1>9. QED
  <2> HIDE DEF q, id, n, rts, new, places
  <2>1. QED
    BY <1>1, <1>5, <1>7, <1>8

LEMMA HandedOffEffect ==
    ASSUME Refs, HandedOff
    PROVE  /\ UNCHANGED <<chain, rt, queue, tasks, ctx, drives, faults, crashes>>
           /\ w.pc = "handoff" /\ w.group = 1
           /\ w' \in WorkerRecord /\ w'.drive = w.drive /\ w'.chain = w.chain
           /\ w'.resume = w.resume /\ w'.again = w.again /\ w'.group = 1 /\ w'.pc = "finish"
<1>1. /\ UNCHANGED <<chain, rt, queue, tasks, ctx, drives, faults, crashes>>
      /\ w.pc = "handoff" /\ w.group = 1 /\ w' = [w EXCEPT !.pc = "finish"]
  BY DEF HandedOff, bounds
<1>2. w \in WorkerRecord
  BY WorkerFacts
<1>3. QED
  BY <1>1, <1>2 DEF WorkerRecord

LEMMA SettleEffect ==
    ASSUME Refs, Settle
    PROVE  LET c == w.chain IN
           /\ UNCHANGED <<rt, queue, tasks, ctx, drives, faults, crashes>>
           /\ w.pc \in {"finish", "fail"} /\ c \in ChainIds
           /\ w' \in WorkerRecord /\ w'.drive = 0 /\ w'.chain = c
           /\ w'.resume = w.resume /\ w'.again = w.again /\ w'.group = 0 /\ w'.pc = "drain"
           /\ chain' \in Seq(ChainRecord) /\ ChainIds' = ChainIds
           /\ \A k \in ChainIds : k # c => chain'[k] = chain[k]
           /\ chain'[c].pipe = chain[c].pipe /\ chain'[c].parent = chain[c].parent
           /\ chain'[c].drives = chain[c].drives
           /\ chain'[c].strayed = chain[c].strayed /\ chain'[c].cut = chain[c].cut
           /\ chain'[c].status \in {"done", "failed"}
<1> DEFINE c == w.chain
           st == IF w.pc = "finish" THEN "done" ELSE "failed"
           old == chain[c]
           new == [old EXCEPT !.status = st]
<1>1. /\ UNCHANGED <<rt, queue, tasks, ctx, drives, faults, crashes>>
      /\ w.pc \in {"finish", "fail"}
      /\ chain' = [chain EXCEPT ![c] = new]
      /\ w' = [w EXCEPT !.pc = "drain", !.group = 0, !.todo = <<>>, !.drive = 0]
  BY DEF Settle, bounds
<1>2. w \in WorkerRecord /\ c \in ChainIds /\ old \in ChainRecord
  BY <1>1, WorkerFacts, ChainFacts DEF Refs
<1>3. chain \in Seq(ChainRecord) /\ ChainIds = 1..Len(chain)
  BY DEF Refs, TypeOK, ChainIds
<1>4. st \in {"done", "failed"}
  OBVIOUS
<1> HIDE DEF st, old
<1>5. /\ new.pipe = old.pipe /\ new.parent = old.parent /\ new.drives = old.drives
      /\ new.strayed = old.strayed /\ new.cut = old.cut /\ new.status = st /\ new \in ChainRecord
  BY <1>2, <1>4 DEF ChainRecord
<1> HIDE DEF new
<1>6. chain' \in Seq(ChainRecord) /\ ChainIds' = ChainIds
      /\ chain'[c] = new /\ \A k \in ChainIds : k # c => chain'[k] = chain[k]
  BY <1>1, <1>2, <1>3, <1>5 DEF ChainIds
<1>7. <<>> \in Seq(Pipelines)
  OBVIOUS
<1>8. /\ w' \in WorkerRecord /\ w'.drive = 0 /\ w'.chain = c
      /\ w'.resume = w.resume /\ w'.again = w.again /\ w'.group = 0 /\ w'.pc = "drain"
  BY <1>1, <1>2, <1>7 DEF WorkerRecord
<1>9. QED
  BY <1>1, <1>2, <1>4, <1>5, <1>6, <1>8 DEF old

LEMMA DrainEffect ==
    ASSUME Refs, Drain
    PROVE  LET c == w.chain
               r == Popped(w.chain)
           IN
           /\ UNCHANGED <<chain, tasks, drives, faults, crashes>>
           /\ w.pc = "drain" /\ c \in ChainIds
           /\ \/ /\ Entries(c) = {} /\ ctx' \in Contexts /\ UNCHANGED <<rt, queue>>
                 /\ w' \in WorkerRecord /\ w'.drive = w.drive /\ w'.chain = 0
                 /\ w'.resume = w.resume /\ w'.again = w.again /\ w'.pc = "select"
              \/ /\ UNCHANGED <<w, ctx>>
                 /\ r \in Entries(c) /\ r \in DOMAIN rt
                 /\ queue' \in Seq(Nat) /\ IsInjective(queue')
                 /\ ToSet(queue') = ToSet(queue) \ {r}
                 /\ rt' \in Seq(RtRecord) /\ DOMAIN rt' = DOMAIN rt
                 /\ \A q \in DOMAIN rt : q # r => rt'[q] = rt[q]
                 /\ rt'[r].chain = rt[r].chain /\ rt'[r].step = rt[r].step
                 /\ rt'[r].input = rt[r].input /\ rt'[r].state = "failed"
<1> DEFINE c == w.chain
           r == Popped(w.chain)
           old == rt[r]
           new == [old EXCEPT !.state = "failed"]
<1>1. /\ UNCHANGED <<chain, tasks, drives, faults, crashes>>
      /\ w.pc = "drain"
      /\ IF r = 0
         THEN w' = [w EXCEPT !.pc = "select", !.chain = 0] /\ ctx' = NoNames /\ UNCHANGED <<rt, queue>>
         ELSE queue' = Rest(c) /\ rt' = [rt EXCEPT ![r] = new] /\ UNCHANGED <<w, ctx>>
  BY DEF Drain, NoneLeft, bounds
<1>2. w \in WorkerRecord /\ c \in ChainIds
  BY <1>1, WorkerFacts
<1>3. /\ Rest(c) \in Seq(Nat) /\ IsInjective(Rest(c))
      /\ \/ Entries(c) = {} /\ r = 0 /\ Rest(c) = queue
         \/ /\ r \in Entries(c) /\ r \in DOMAIN rt /\ r # 0
            /\ ToSet(Rest(c)) = ToSet(queue) \ {r}
  BY PopFacts DEF Refs, RefsOK
<1>4. CASE r = 0
  <2>1. Entries(c) = {}
    BY <1>3, <1>4
  <2>2. w' = [w EXCEPT !.pc = "select", !.chain = 0]
    BY <1>1, <1>4
  <2>3. /\ w' \in WorkerRecord /\ w'.drive = w.drive /\ w'.chain = 0
        /\ w'.resume = w.resume /\ w'.again = w.again /\ w'.pc = "select"
    BY <1>2, <2>2 DEF WorkerRecord
  <2>4. NoNames \in [{} -> Values]
    BY DEF NoNames
  <2>5. ctx' \in Contexts
    BY <1>1, <1>4, <2>4 DEF Contexts
  <2>6. QED
    BY <1>1, <1>2, <1>4, <2>1, <2>3, <2>5
<1>5. CASE r # 0
  <2>1. r \in Entries(c) /\ r \in DOMAIN rt /\ ToSet(Rest(c)) = ToSet(queue) \ {r}
    BY <1>3, <1>5
  <2>2. rt \in Seq(RtRecord)
    BY DEF Refs, TypeOK
  <2>3. old \in RtRecord
    BY <2>1, <2>2
  <2>4. queue' = Rest(c) /\ rt' = [rt EXCEPT ![r] = new] /\ UNCHANGED <<w, ctx>>
    BY <1>1, <1>5
  <2> HIDE DEF old
  <2>5. /\ new.chain = old.chain /\ new.step = old.step /\ new.input = old.input
        /\ new.state = "failed" /\ new \in RtRecord
    BY <2>3 DEF RtRecord
  <2> HIDE DEF new, r
  <2>6. rt' \in Seq(RtRecord) /\ DOMAIN rt' = DOMAIN rt
        /\ rt'[r] = new /\ \A q \in DOMAIN rt : q # r => rt'[q] = rt[q]
    BY <2>1, <2>2, <2>4, <2>5
  <2>7. QED
    BY <1>1, <1>2, <1>3, <2>1, <2>4, <2>5, <2>6 DEF old, r
<1>6. QED
  BY <1>4, <1>5

LEMMA RestartEffect ==
    ASSUME Refs, Restart
    PROVE  /\ UNCHANGED <<rt, queue, drives, faults>>
           /\ crashes' = crashes + 1 /\ tasks' = {} /\ ctx' \in Contexts
           /\ w' \in WorkerRecord /\ w'.pc = "select" /\ w'.chain = 0 /\ w'.drive = 0
           /\ w'.again = FALSE /\ w'.resume = Unfinished
           /\ chain' \in Seq(ChainRecord) /\ ChainIds' = ChainIds
           /\ \A c \in ChainIds :
                 /\ chain'[c].pipe = chain[c].pipe /\ chain'[c].parent = chain[c].parent
                 /\ chain'[c].status = chain[c].status /\ chain'[c].drives = chain[c].drives
                 /\ chain'[c].strayed = chain[c].strayed
                 /\ chain'[c].cut = (chain[c].cut \/ (c = w.chain /\ HandingOff))
<1> DEFINE b(c) == chain[c].cut \/ (c = w.chain /\ HandingOff)
           new(c) == [chain[c] EXCEPT !.cut = b(c)]
<1>1. /\ UNCHANGED <<rt, queue, drives, faults>>
      /\ crashes' = crashes + 1 /\ tasks' = {} /\ ctx' = NoNames
      /\ w' = [Free EXCEPT !.resume = Unfinished]
      /\ chain' = [c \in ChainIds |-> new(c)]
  BY DEF Restart
<1>2. chain \in Seq(ChainRecord) /\ Len(chain) \in Nat /\ ChainIds = 1..Len(chain)
  BY DEF Refs, TypeOK, ChainIds
<1>3. ASSUME NEW c \in ChainIds
      PROVE  /\ new(c).pipe = chain[c].pipe /\ new(c).parent = chain[c].parent
             /\ new(c).status = chain[c].status /\ new(c).drives = chain[c].drives
             /\ new(c).strayed = chain[c].strayed
             /\ new(c).cut = b(c) /\ new(c) \in ChainRecord
  <2>1. chain[c] \in ChainRecord /\ b(c) \in BOOLEAN
    <3>1. chain[c] \in ChainRecord
      BY <1>2
    <3>2. QED
      BY <3>1 DEF ChainRecord
  <2> DEFINE old == chain[c]
             v == b(c)
  <2> HIDE DEF old, v, b
  <2>2. LET n == [old EXCEPT !.cut = v] IN
        /\ n.pipe = old.pipe /\ n.parent = old.parent
        /\ n.status = old.status /\ n.drives = old.drives
        /\ n.strayed = old.strayed /\ n.cut = v /\ n \in ChainRecord
    BY <2>1 DEF ChainRecord, old, v
  <2>3. QED
    BY <2>2 DEF old, v
<1> HIDE DEF new
<1>4. chain' \in Seq(ChainRecord) /\ ChainIds' = ChainIds
      /\ \A c \in ChainIds : chain'[c] = new(c)
  <2>1. chain' = [c \in 1..Len(chain) |-> new(c)]
    BY <1>1, <1>2
  <2>2. \A c \in 1..Len(chain) : new(c) \in ChainRecord
    BY <1>2, <1>3
  <2>3. DOMAIN chain' = 1..Len(chain)
    BY <2>1
  <2>4. chain' \in Seq(ChainRecord)
    BY <1>2, <2>1, <2>2
  <2>5. ChainIds' = ChainIds
    BY <1>2, <2>3 DEF ChainIds
  <2>6. QED
    BY <1>1, <2>4, <2>5
<1>5. /\ w' \in WorkerRecord /\ w'.pc = "select" /\ w'.chain = 0 /\ w'.drive = 0
      /\ w'.again = FALSE /\ w'.resume = Unfinished
  <2>1. Unfinished \in SUBSET Nat
    BY <1>2 DEF Unfinished
  <2>2. <<>> \in Seq(Pipelines)
    OBVIOUS
  <2> DEFINE U == Unfinished
  <2>3. w' = [Free EXCEPT !.resume = U]
    BY <1>1
  <2> HIDE DEF U
  <2>4. w' = [pc |-> "select", chain |-> 0, again |-> FALSE, resume |-> U, drive |-> 0,
              group |-> 0, todo |-> <<>>]
    BY <2>3 DEF Free
  <2>5. QED
    BY <2>1, <2>2, <2>4 DEF WorkerRecord, U
<1>6. ctx' \in Contexts
  <2>1. NoNames \in [{} -> Values]
    BY DEF NoNames
  <2>2. QED
    BY <1>1, <2>1 DEF Contexts
<1>7. QED
  BY <1>1, <1>3, <1>4, <1>5, <1>6
-----------------------------------------------------------------------------
(* Types and references are kept. *)

\* What every step keeps.
Kept ==
    /\ TypeOK' /\ RtsKept /\ ChainsKept
    /\ drives <= drives' /\ crashes <= crashes'

LEMMA TaskStepKeeps ==
    ASSUME Refs, NEW t \in tasks,
           PopStepRt(t) \/ PushStepRt(t) \/ RepopStepRt(t) \/ Completed(t) \/ StepFails(t)
    PROVE  Kept
<1>1. TypeOK /\ ToSet(queue) \subseteq DOMAIN rt /\ IsInjective(queue) /\ t.chain \in ChainIds
  BY TaskFacts DEF Refs, RefsOK
<1>2. /\ chain \in Seq(ChainRecord) /\ queue \in Seq(Nat) /\ w \in WorkerRecord
      /\ tasks \in SUBSET TaskRecord /\ ctx \in Contexts
      /\ drives \in Nat /\ faults \in Nat /\ crashes \in Nat
  BY <1>1 DEF TypeOK
<1>3. Rest(t.chain) \in Seq(Nat)
  BY <1>1, PopFacts
<1>4. ASSUME UNCHANGED chain PROVE ChainsKept
  BY <1>4 DEF ChainsKept, ChainIds
<1>5. CASE PopStepRt(t)
  <2>1. /\ UNCHANGED <<chain, w, ctx, drives, faults, crashes>> /\ queue' = Rest(t.chain)
        /\ rt' \in Seq(RtRecord)
    BY <1>5, PopEffect
  <2>2. tasks' \in SUBSET TaskRecord
    <3>1. \E u : GoesOn(t, u)
      BY <1>5, PopEffect
    <3>2. QED
      BY <1>2, <3>1 DEF GoesOn
  <2>3. RtsKept
    BY <1>5, PopEffect DEF RtsKept
  <2>4. QED
    BY <1>2, <1>3, <1>4, <2>1, <2>2, <2>3 DEF Kept, TypeOK
<1>6. CASE PushStepRt(t)
  <2>1. /\ UNCHANGED <<chain, w, ctx, drives, faults, crashes>> /\ queue' \in Seq(Nat)
        /\ rt' \in Seq(RtRecord)
    BY <1>6, PushEffect
  <2>2. tasks' \in SUBSET TaskRecord
    <3>1. \E u : GoesOn(t, u)
      BY <1>6, PushEffect
    <3>2. QED
      BY <1>2, <3>1 DEF GoesOn
  <2>3. RtsKept
    BY <1>6, PushEffect DEF RtsKept
  <2>4. QED
    BY <1>2, <1>3, <1>4, <2>1, <2>2, <2>3 DEF Kept, TypeOK
<1>7. CASE RepopStepRt(t)
  <2>1. /\ UNCHANGED <<chain, w, ctx, drives, faults, crashes>> /\ queue' = Rest(t.chain)
        /\ rt' \in Seq(RtRecord)
    BY <1>7, RepopEffect
  <2>2. tasks' \in SUBSET TaskRecord
    <3>1. \E u : GoesOn(t, u)
      BY <1>7, RepopEffect
    <3>2. QED
      BY <1>2, <3>1 DEF GoesOn
  <2>3. RtsKept
    BY <1>7, RepopEffect DEF RtsKept
  <2>4. QED
    BY <1>2, <1>3, <1>4, <2>1, <2>2, <2>3 DEF Kept, TypeOK
<1>8. CASE Completed(t)
  <2>1. /\ UNCHANGED <<chain, queue, w, drives, faults, crashes>>
        /\ rt' \in Seq(RtRecord)
        /\ \A v \in tasks' : \E u \in tasks \ {t} : Reached(t, u, v)
        /\ ctx' = IF t.drive = w.drive THEN WithOutput(ctx, t.step) ELSE ctx
    BY <1>8, CompletedEffect
  <2>2. tasks' \in SUBSET TaskRecord
    BY <2>1 DEF Reached
  <2>3. RtsKept
    BY <1>8, CompletedEffect DEF RtsKept
  <2>4. ctx' \in Contexts
    BY <1>2, <2>1, TaskFacts, WithOutputFacts
  <2>5. QED
    BY <1>2, <1>4, <2>1, <2>2, <2>3, <2>4 DEF Kept, TypeOK
<1>9. CASE StepFails(t)
  <2>1. /\ UNCHANGED <<queue, ctx, drives, crashes>> /\ faults' \in Nat
        /\ rt' \in Seq(RtRecord) /\ tasks' = tasks \ {t}
    BY <1>9, FailsEffect
  <2>2. RtsKept
    BY <1>9, FailsEffect DEF RtsKept
  <2>3. w' \in WorkerRecord /\ chain' \in Seq(ChainRecord) /\ ChainsKept
    <3>1. CASE t.drive = w.drive /\ w.pc = "steps"
      <4>1. w' = [w EXCEPT !.pc = "fail", !.group = 0] /\ chain' = Strayed(t.chain, t.drive)
        BY <1>9, <3>1, FailsEffect
      <4>2. w' \in WorkerRecord
        BY <1>2, <4>1 DEF WorkerRecord
      <4>3. chain' \in Seq(ChainRecord) /\ ChainsKept
        BY <1>1, <4>1, StrayedFacts DEF ChainsKept
      <4>4. QED
        BY <4>2, <4>3
    <3>2. CASE ~(t.drive = w.drive /\ w.pc = "steps")
      <4>1. UNCHANGED <<w, chain>>
        BY <1>9, <3>2, FailsEffect
      <4>2. QED
        BY <1>2, <1>4, <4>1
    <3>3. QED
      BY <3>1, <3>2
  <2>4. QED
    BY <1>2, <2>1, <2>2, <2>3 DEF Kept, TypeOK
<1>10. QED
  BY <1>5, <1>6, <1>7, <1>8, <1>9

LEMMA WorkerStepKeeps ==
    ASSUME Refs, DrivesOK,
           \/ Select \/ Start \/ NextGroup \/ Resolve \/ HandOff \/ HandedOff \/ Settle
           \/ Drain \/ Restart \/ UNCHANGED vars
    PROVE  Kept
<1>1. /\ chain \in Seq(ChainRecord) /\ rt \in Seq(RtRecord) /\ queue \in Seq(Nat)
      /\ w \in WorkerRecord
      /\ tasks \in SUBSET TaskRecord /\ ctx \in Contexts
      /\ drives \in Nat /\ faults \in Nat /\ crashes \in Nat
      /\ TypeOK
  BY DEF Refs, TypeOK
<1>2. ASSUME UNCHANGED chain PROVE ChainsKept
  BY <1>2 DEF ChainsKept, ChainIds
<1>3. ASSUME UNCHANGED rt PROVE RtsKept
  BY <1>3 DEF RtsKept
<1>4. CASE Select
  BY <1>1, <1>2, <1>3, <1>4, SelectEffect DEF Kept, TypeOK
<1>5. CASE Start
  <2>1. ChainsKept
    BY <1>5, StartEffect DEF ChainsKept
  <2>2. drives + 1 \in Nat /\ drives <= drives + 1
    BY <1>1
  <2>3. QED
    BY <1>1, <1>3, <1>5, <2>1, <2>2, StartEffect DEF Kept, TypeOK
<1>6. CASE NextGroup
  <2>1. /\ UNCHANGED <<rt, queue, ctx, drives, faults, crashes>> /\ w' \in WorkerRecord
        /\ w.chain \in ChainIds
    BY <1>6, NextGroupEffect
  <2>2. tasks' \in SUBSET TaskRecord
    BY <1>1, <1>6, NextGroupEffect DEF Fresh
  <2>3. UNCHANGED chain \/ chain' = Strayed(w.chain, w.drive)
    BY <1>6, NextGroupEffect
  <2>4. chain' \in Seq(ChainRecord) /\ ChainsKept
    BY <1>1, <1>2, <2>1, <2>3, StrayedFacts DEF ChainsKept
  <2>5. QED
    BY <1>1, <1>3, <2>1, <2>2, <2>4 DEF Kept, TypeOK
<1>7. CASE Resolve
  BY <1>1, <1>2, <1>3, <1>7, ResolveEffect DEF Kept, TypeOK
<1>8. CASE HandOff
  <2>1. UNCHANGED <<tasks, ctx, drives, faults, crashes>> /\ w' \in WorkerRecord
    BY <1>8, HandOffEffect
  <2>2. CASE UNCHANGED <<chain, rt, queue>>
    BY <1>1, <1>2, <1>3, <2>1, <2>2 DEF Kept, TypeOK
  <2>3. CASE ~UNCHANGED <<chain, rt, queue>>
    <3>1. PICK q \in Pipelines : Called(w.chain, q, Len(chain) + 1, Len(rt), RtsFor(Len(chain) + 1, q))
      BY <1>8, <2>3, HandOffEffect
    <3>2. chain' \in Seq(ChainRecord) /\ rt' \in Seq(RtRecord) /\ queue' \in Seq(Nat)
      BY <3>1 DEF Called
    <3>3. ChainsKept
      BY <3>1 DEF Called, ChainsKept
    <3>4. RtsKept
      BY <3>1 DEF Called, RtsKept
    <3>5. QED
      BY <1>1, <2>1, <3>2, <3>3, <3>4 DEF Kept, TypeOK
  <2>4. QED
    BY <2>2, <2>3
<1>9. CASE HandedOff
  BY <1>1, <1>2, <1>3, <1>9, HandedOffEffect DEF Kept, TypeOK
<1>10. CASE Settle
  <2>1. ChainsKept
    BY <1>10, SettleEffect DEF ChainsKept
  <2>2. QED
    BY <1>1, <1>3, <1>10, <2>1, SettleEffect DEF Kept, TypeOK
<1>11. CASE Drain
  <2>1. UNCHANGED <<chain, tasks, drives, faults, crashes>> /\ w' \in WorkerRecord /\ ctx' \in Contexts
    BY <1>1, <1>11, DrainEffect
  <2>2. queue' \in Seq(Nat) /\ rt' \in Seq(RtRecord) /\ RtsKept
    BY <1>1, <1>11, DrainEffect DEF RtsKept
  <2>3. QED
    BY <1>1, <1>2, <2>1, <2>2 DEF Kept, TypeOK
<1>12. CASE Restart
  <2>1. ChainsKept
    BY <1>12, RestartEffect DEF ChainsKept
  <2>2. crashes + 1 \in Nat /\ crashes <= crashes + 1
    BY <1>1
  <2>3. QED
    BY <1>1, <1>3, <1>12, <2>1, <2>2, RestartEffect DEF Kept, TypeOK
<1>13. CASE UNCHANGED vars
  BY <1>1, <1>2, <1>3, <1>13 DEF Kept, TypeOK, vars
<1>14. QED
  BY <1>4, <1>5, <1>6, <1>7, <1>8, <1>9, <1>10, <1>11, <1>12, <1>13
\* v is the task u, further on.
Heir(u, v) == v.drive = u.drive /\ v.chain = u.chain /\ v.step = u.step

\* The RT of the task v, if it has one, is its own in the next state.
HasOwn(v) ==
    v.pc \in {"repop", "run"} =>
        v.rt \in DOMAIN rt' /\ rt'[v.rt].chain = v.chain /\ rt'[v.rt].step = v.step.id

LEMMA TaskKeepsOwn ==
    ASSUME Refs, RtsKept, NEW u \in tasks
    PROVE  HasOwn(u)
BY DEF Refs, TasksOK, RtsKept, HasOwn

\* Two records of a task with the same fields are the same.
LEMMA SameTask ==
    ASSUME NEW a \in TaskRecord, NEW b \in TaskRecord,
           a.drive = b.drive, a.chain = b.chain, a.step = b.step, a.pc = b.pc, a.rt = b.rt, a.ctx = b.ctx
    PROVE  a = b
BY DEF TaskRecord

LEMMA TaskStepHeirs ==
    ASSUME Refs, DrivesOK, NEW t \in tasks,
           PopStepRt(t) \/ PushStepRt(t) \/ RepopStepRt(t) \/ Completed(t) \/ StepFails(t)
    PROVE  /\ \A v \in tasks' : HasOwn(v) /\ \E u \in tasks : Heir(u, v)
           /\ \A v1, v2 \in tasks' :
                 v1.drive = v2.drive /\ v1.step.id = v2.step.id => v1 = v2
           /\ drives' = drives
<1>1. RtsKept /\ \A u \in tasks : HasOwn(u)
  BY TaskStepKeeps, TaskKeepsOwn DEF Kept
<1>2. \A u1, u2 \in tasks : u1.drive = u2.drive /\ u1.step.id = u2.step.id => u1 = u2
  BY DEF DrivesOK
<1>3. ASSUME NEW u, GoesOn(t, u), HasOwn(u)
      PROVE  /\ \A v \in tasks' : HasOwn(v) /\ \E x \in tasks : Heir(x, v)
             /\ \A v1, v2 \in tasks' :
                   v1.drive = v2.drive /\ v1.step.id = v2.step.id => v1 = v2
  <2>1. tasks' = (tasks \ {t}) \cup {u} /\ Heir(t, u)
    BY <1>3 DEF GoesOn, Heir
  <2>2. \A x \in tasks : Heir(x, x)
    BY DEF Heir
  <2>3. \A v \in tasks' : HasOwn(v) /\ \E x \in tasks : Heir(x, v)
    BY <1>1, <1>3, <2>1, <2>2
  <2>4. ASSUME NEW v1 \in tasks', NEW v2 \in tasks',
               v1.drive = v2.drive, v1.step.id = v2.step.id
        PROVE  v1 = v2
    <3>1. CASE v1 \in tasks \ {t} /\ v2 \in tasks \ {t}
      BY <1>2, <2>4, <3>1
    <3>2. CASE v1 = u /\ v2 \in tasks \ {t}
      BY <1>2, <2>1, <2>4, <3>2 DEF Heir
    <3>3. CASE v2 = u /\ v1 \in tasks \ {t}
      BY <1>2, <2>1, <2>4, <3>3 DEF Heir
    <3>4. QED
      BY <2>1, <3>1, <3>2, <3>3
  <2>5. QED
    BY <2>3, <2>4
<1>4. CASE PopStepRt(t)
  <2>1. PICK u : GoesOn(t, u) /\ HasOwn(u)
    <3>1. DOMAIN rt' = DOMAIN rt
      BY <1>4, PopEffect
    <3>2. PICK u : /\ GoesOn(t, u)
                   /\ \/ u.pc = "push"
                      \/ LET r == Popped(t.chain) IN
                         /\ u.rt = r /\ r \in Entries(t.chain)
                         /\ rt[r].chain = t.chain /\ rt[r].step = t.step.id
                         /\ rt'[r].chain = rt[r].chain /\ rt'[r].step = rt[r].step
      BY <1>4, PopEffect
    <3>3. CASE u.pc = "push"
      BY <3>2, <3>3 DEF HasOwn
    <3>4. CASE u.pc # "push"
      <4>1. /\ u.rt \in Entries(t.chain)
            /\ rt'[u.rt].chain = t.chain /\ rt'[u.rt].step = t.step.id
        BY <3>2, <3>4
      <4>2. u.rt \in DOMAIN rt
        BY <4>1 DEF Entries, Refs, RefsOK
      <4>3. QED
        BY <3>1, <3>2, <4>1, <4>2 DEF GoesOn, HasOwn
    <3>5. QED
      BY <3>3, <3>4
  <2>2. QED
    BY <1>3, <1>4, <2>1, PopEffect
<1>5. CASE PushStepRt(t)
  <2>1. PICK u : GoesOn(t, u) /\ HasOwn(u)
    <3>1. \E u : /\ GoesOn(t, u)
                 /\ u.rt \in DOMAIN rt' /\ rt'[u.rt].chain = t.chain /\ rt'[u.rt].step = t.step.id
      BY <1>5, PushEffect
    <3>2. QED
      BY <3>1 DEF GoesOn, HasOwn
  <2>2. QED
    BY <1>3, <1>5, <2>1, PushEffect
<1>6. CASE RepopStepRt(t)
  <2>1. PICK u : GoesOn(t, u) /\ HasOwn(u)
    <3>1. \E u : /\ GoesOn(t, u)
                 /\ u.rt \in DOMAIN rt' /\ rt'[u.rt].chain = t.chain /\ rt'[u.rt].step = t.step.id
      BY <1>6, RepopEffect
    <3>2. QED
      BY <3>1 DEF GoesOn, HasOwn
  <2>2. QED
    BY <1>3, <1>6, <2>1, RepopEffect
<1>7. CASE Completed(t)
  <2>1. \A v \in tasks' : \E u \in tasks \ {t} : Reached(t, u, v)
    BY <1>7, CompletedEffect
  <2>2. ASSUME NEW v \in tasks', NEW u \in tasks, Reached(t, u, v)
        PROVE  HasOwn(v) /\ Heir(u, v)
    BY <1>1, <2>2 DEF Reached, HasOwn, Heir
  <2>3. ASSUME NEW v1 \in tasks', NEW v2 \in tasks',
               v1.drive = v2.drive, v1.step.id = v2.step.id
        PROVE  v1 = v2
    <3>1. PICK u1 \in tasks : Reached(t, u1, v1)
      BY <2>1
    <3>2. PICK u2 \in tasks : Reached(t, u2, v2)
      BY <2>1
    <3>3. u1 = u2
      BY <1>2, <2>3, <3>1, <3>2 DEF Reached
    <3>4. QED
      BY <3>1, <3>2, <3>3, SameTask DEF Reached
  <2>4. \A v \in tasks' : HasOwn(v) /\ \E u \in tasks : Heir(u, v)
    BY <2>1, <2>2
  <2>5. QED
    BY <1>7, <2>3, <2>4, CompletedEffect
<1>8. CASE StepFails(t)
  <2>1. tasks' = tasks \ {t} /\ drives' = drives
    BY <1>8, FailsEffect
  <2>2. \A x \in tasks : Heir(x, x)
    BY DEF Heir
  <2>3. QED
    BY <1>1, <1>2, <2>1, <2>2
<1>9. QED
  BY <1>4, <1>5, <1>6, <1>7, <1>8

LEMMA TasksAreKept ==
    ASSUME Refs, Kept,
           \A v \in tasks' :
              \/ HasOwn(v) /\ \E u \in tasks : Heir(u, v)
              \/ /\ v.pc = "pop" /\ v.chain \in ChainIds /\ (v.step.llm \/ v.step.tool)
                 /\ v.step \in AllSteps(chain[v.chain].pipe) /\ v.drive \in 1..drives'
    PROVE  TasksOK'
<1>1. drives \in Nat /\ drives' \in Nat /\ drives <= drives' /\ ChainIds \subseteq ChainIds'
      /\ \A c \in ChainIds : chain'[c].pipe = chain[c].pipe
  BY DEF Kept, Refs, TypeOK, ChainsKept
<1>2. SUFFICES ASSUME NEW v \in tasks'
               PROVE  /\ v.chain \in ChainIds'
                      /\ v.step \in AllSteps(chain'[v.chain].pipe)
                      /\ v.step.llm \/ v.step.tool
                      /\ v.drive \in 1..drives'
                      /\ v.pc \in {"repop", "run"} =>
                            /\ v.rt \in DOMAIN rt'
                            /\ rt'[v.rt].chain = v.chain /\ rt'[v.rt].step = v.step.id
  BY DEF TasksOK
<1>3. CASE HasOwn(v) /\ \E u \in tasks : Heir(u, v)
  <2>1. PICK u \in tasks : Heir(u, v)
    BY <1>3
  <2>2. /\ u.chain \in ChainIds /\ u.step \in AllSteps(chain[u.chain].pipe)
        /\ u.step.llm \/ u.step.tool
        /\ u.drive \in 1..drives
    BY DEF Refs, TasksOK
  <2>3. QED
    BY <1>1, <1>3, <2>1, <2>2 DEF Heir, HasOwn
<1>4. CASE /\ v.pc = "pop" /\ v.chain \in ChainIds /\ (v.step.llm \/ v.step.tool)
           /\ v.step \in AllSteps(chain[v.chain].pipe) /\ v.drive \in 1..drives'
  BY <1>1, <1>4
<1>5. QED
  BY <1>3, <1>4

LEMMA WorkerStepTasks ==
    ASSUME Refs, DrivesOK,
           \/ Select \/ Start \/ NextGroup \/ Resolve \/ HandOff \/ HandedOff \/ Settle
           \/ Drain \/ Restart \/ UNCHANGED vars
    PROVE  TasksOK'
<1>1. Kept
  BY WorkerStepKeeps
<1>2. \A u \in tasks : HasOwn(u) /\ Heir(u, u)
  BY <1>1, TaskKeepsOwn DEF Kept, Heir
<1>3. CASE tasks' \subseteq tasks
  BY <1>1, <1>2, <1>3, TasksAreKept
<1>4. CASE NextGroup
  <2> DEFINE c == w.chain
             k == w.group + 1
  <2>1. CASE UNCHANGED tasks
    BY <1>3, <2>1
  <2>2. CASE ~UNCHANGED tasks
    <3>1. /\ k \in DOMAIN PipeOf(c) /\ c \in ChainIds
          /\ tasks' = tasks \cup Begun(c, k, ctx, w.drive)
          /\ \A t \in Begun(c, k, ctx, w.drive) : Fresh(t, c, k)
          /\ drives' = drives /\ w.pc = "steps"
      BY <1>4, <2>2, NextGroupEffect
    <3>2. chain[c].pipe \in Pipelines
      BY <3>1, ChainFacts DEF Refs
    <3>3. StepsAt(c, k) \subseteq AllSteps(chain[c].pipe)
      BY <3>1, <3>2, OneStepPerId DEF StepsAt, PipeOf
    <3>4. w.drive \in 1..drives
      <4>1. w.drive \in 0..drives /\ w.drive # 0
        BY <3>1 DEF DrivesOK
      <4>2. QED
        BY <4>1
    <3>5. ASSUME NEW v \in Begun(c, k, ctx, w.drive)
          PROVE  /\ v.pc = "pop" /\ v.chain \in ChainIds /\ (v.step.llm \/ v.step.tool)
                 /\ v.step \in AllSteps(chain[v.chain].pipe) /\ v.drive \in 1..drives'
      <4>1. /\ v.drive = w.drive /\ v.chain = c /\ v.pc = "pop"
            /\ v.step \in StepsAt(c, k) /\ v.step.llm # v.step.tool
        BY <3>1 DEF Fresh
      <4>2. v.step.llm \/ v.step.tool
        BY <3>2, <3>3, <4>1, KindsOfSteps
      <4>3. QED
        BY <3>1, <3>3, <3>4, <4>1, <4>2
    <3>6. QED
      BY <1>1, <1>2, <3>1, <3>5, TasksAreKept
  <2>3. QED
    BY <2>1, <2>2
<1>5. QED
  BY <1>3, <1>4, SelectEffect, StartEffect, ResolveEffect, HandOffEffect, HandedOffEffect,
     SettleEffect, DrainEffect, RestartEffect DEF vars
LEMMA RefsAreKept ==
    ASSUME Refs, Kept, ChainIds' = ChainIds,
           \A r \in DOMAIN rt' : r \in DOMAIN rt \/ rt'[r].chain \in ChainIds,
           ToSet(queue') \subseteq DOMAIN rt', IsInjective(queue'),
           w'.resume \subseteq ChainIds, w'.chain \notin w'.resume,
           IF w'.pc = "select" THEN w'.chain = 0 ELSE w'.chain \in ChainIds
    PROVE  RefsOK'
<1>1. /\ \A c \in ChainIds : chain[c].parent < c
      /\ \A r \in DOMAIN rt : rt[r].chain \in ChainIds
  BY DEF Refs, RefsOK
<1>2. \A c \in ChainIds : chain'[c].parent = chain[c].parent
  BY DEF Kept, ChainsKept
<1>3. \A r \in DOMAIN rt : rt'[r].chain = rt[r].chain
  BY DEF Kept, RtsKept
<1>4. QED
  BY <1>1, <1>2, <1>3 DEF RefsOK

LEMMA TaskStepRefs ==
    ASSUME Refs, NEW t \in tasks,
           PopStepRt(t) \/ PushStepRt(t) \/ RepopStepRt(t) \/ Completed(t) \/ StepFails(t)
    PROVE  RefsOK'
<1>1. Kept
  BY TaskStepKeeps
<1>2. /\ w.resume \subseteq ChainIds /\ w.chain \notin w.resume
      /\ IF w.pc = "select" THEN w.chain = 0 ELSE w.chain \in ChainIds
      /\ ToSet(queue) \subseteq DOMAIN rt /\ IsInjective(queue) /\ TypeOK /\ w \in WorkerRecord
      /\ t.chain \in ChainIds
  BY TaskFacts DEF Refs, RefsOK, TypeOK
<1>3. IsInjective(Rest(t.chain)) /\ ToSet(Rest(t.chain)) \subseteq DOMAIN rt
  BY <1>2, PopFacts
<1>4. ASSUME UNCHANGED chain PROVE ChainIds' = ChainIds
  BY <1>4 DEF ChainIds
<1>5. CASE PopStepRt(t)
  <2>1. UNCHANGED <<chain, w>> /\ queue' = Rest(t.chain) /\ DOMAIN rt' = DOMAIN rt
    BY <1>5, PopEffect
  <2>2. QED
    BY <1>1, <1>2, <1>3, <1>4, <2>1, RefsAreKept
<1>6. CASE PushStepRt(t)
  <2> DEFINE n == Len(rt) + 1
  <2>1. /\ UNCHANGED <<chain, w>> /\ DOMAIN rt' = DOMAIN rt \cup {n} /\ rt'[n].chain = t.chain
        /\ ToSet(queue') = ToSet(queue) \cup {n} /\ IsInjective(queue')
    BY <1>6, PushEffect
  <2> HIDE DEF n
  <2>2. QED
    BY <1>1, <1>2, <1>4, <2>1, RefsAreKept
<1>7. CASE RepopStepRt(t)
  <2>1. UNCHANGED <<chain, w>> /\ queue' = Rest(t.chain) /\ DOMAIN rt' = DOMAIN rt
    BY <1>7, RepopEffect
  <2>2. QED
    BY <1>1, <1>2, <1>3, <1>4, <2>1, RefsAreKept
<1>8. CASE Completed(t)
  <2>1. UNCHANGED <<chain, w, queue>> /\ DOMAIN rt' = DOMAIN rt
    BY <1>8, CompletedEffect
  <2>2. QED
    BY <1>1, <1>2, <1>4, <2>1, RefsAreKept
<1>9. CASE StepFails(t)
  <2>1. queue' = queue /\ DOMAIN rt' = DOMAIN rt
    BY <1>9, FailsEffect
  <2>2. CASE t.drive = w.drive /\ w.pc = "steps"
    <3>1. w' = [w EXCEPT !.pc = "fail", !.group = 0] /\ chain' = Strayed(t.chain, t.drive)
      BY <1>9, <2>2, FailsEffect
    <3>2. w'.pc = "fail" /\ w'.resume = w.resume /\ w'.chain = w.chain
      BY <1>2, <3>1 DEF WorkerRecord
    <3>3. ChainIds' = ChainIds
      BY <1>2, <3>1, StrayedFacts
    <3>4. QED
      BY <1>1, <1>2, <2>1, <2>2, <3>2, <3>3, RefsAreKept
  <2>3. CASE ~(t.drive = w.drive /\ w.pc = "steps")
    <3>1. UNCHANGED <<w, chain>>
      BY <1>9, <2>3, FailsEffect
    <3>2. QED
      BY <1>1, <1>2, <1>4, <2>1, <3>1, RefsAreKept
  <2>4. QED
    BY <2>2, <2>3
<1>10. QED
  BY <1>5, <1>6, <1>7, <1>8, <1>9

LEMMA WorkerStepRefs ==
    ASSUME Refs, DrivesOK,
           \/ Select \/ Start \/ NextGroup \/ Resolve \/ HandOff \/ HandedOff \/ Settle
           \/ Drain \/ Restart \/ UNCHANGED vars
    PROVE  RefsOK'
<1>1. Kept
  BY WorkerStepKeeps
<1>2. /\ w.resume \subseteq ChainIds /\ w.chain \notin w.resume
      /\ IF w.pc = "select" THEN w.chain = 0 ELSE w.chain \in ChainIds
      /\ ToSet(queue) \subseteq DOMAIN rt /\ IsInjective(queue) /\ TypeOK /\ w \in WorkerRecord
      /\ 0 \notin ChainIds
  BY ChainFacts DEF Refs, RefsOK, TypeOK
<1>3. ASSUME UNCHANGED chain PROVE ChainIds' = ChainIds
  BY <1>3 DEF ChainIds
<1>4. CASE Select
  <2>1. /\ UNCHANGED <<chain, rt, queue>> /\ w'.pc = "start" /\ w'.chain \notin w'.resume
        /\ w'.resume \subseteq w.resume /\ w'.chain \in ChainIds
    BY <1>2, <1>4, SelectEffect
  <2>2. QED
    BY <1>1, <1>2, <1>3, <2>1, RefsAreKept
<1>5. CASE Start
  <2>1. /\ UNCHANGED <<rt, queue>> /\ w'.pc = "steps" /\ w'.chain = w.chain
        /\ w'.resume = w.resume /\ w.chain \in ChainIds /\ ChainIds' = ChainIds
    BY <1>5, StartEffect
  <2>2. QED
    BY <1>1, <1>2, <2>1, RefsAreKept
<1>6. CASE NextGroup
  <2>1. /\ UNCHANGED <<rt, queue>> /\ w'.pc # "select" /\ w'.chain = w.chain
        /\ w'.resume = w.resume /\ w.chain \in ChainIds
        /\ UNCHANGED chain \/ chain' = Strayed(w.chain, w.drive)
    BY <1>6, NextGroupEffect
  <2>2. ChainIds' = ChainIds
    BY <1>2, <1>3, <2>1, StrayedFacts
  <2>3. QED
    BY <1>1, <1>2, <2>1, <2>2, RefsAreKept
<1>7. CASE Resolve
  <2>1. /\ UNCHANGED <<chain, rt, queue>> /\ w'.pc # "select" /\ w.pc # "select"
        /\ w'.chain = w.chain /\ w'.resume = w.resume
    BY <1>7, ResolveEffect
  <2>2. QED
    BY <1>1, <1>2, <1>3, <2>1, RefsAreKept
<1>8. CASE HandOff
  <2>1. /\ w'.pc # "select" /\ w.pc # "select" /\ w'.chain = w.chain /\ w'.resume = w.resume
        /\ w.chain \in ChainIds
    BY <1>8, HandOffEffect
  <2>2. CASE UNCHANGED <<chain, rt, queue>>
    BY <1>1, <1>2, <1>3, <2>1, <2>2, RefsAreKept
  <2>3. CASE ~UNCHANGED <<chain, rt, queue>>
    <3> DEFINE id == Len(chain) + 1
               n == Len(rt)
    <3>1. PICK q \in Pipelines : Called(w.chain, q, id, n, RtsFor(id, q))
      BY <1>8, <2>3, HandOffEffect
    <3> DEFINE m == Len(RtsFor(id, q))
    <3>2. /\ id \notin ChainIds /\ ChainIds' = ChainIds \cup {id}
          /\ \A k \in ChainIds : chain'[k] = chain[k] /\ k < id
          /\ chain'[id].parent = w.chain
          /\ DOMAIN rt' = DOMAIN rt \cup (n + 1)..(n + m)
          /\ \A r \in DOMAIN rt : rt'[r] = rt[r]
          /\ \A i \in 1..m : rt'[n + i].chain = id
          /\ IsInjective(queue')
          /\ ToSet(queue') = ToSet(queue) \cup (n + 1)..(n + m)
      BY <3>1 DEF Called
    <3>3. n \in Nat /\ m \in Nat
      <4>1. rt \in Seq(RtRecord) /\ RtsFor(id, q) \in Seq(NewRts(id, q))
        BY <3>1 DEF Called, Refs, TypeOK
      <4>2. QED
        BY <4>1
    <3>4. /\ \A c \in ChainIds : chain[c].parent < c
          /\ \A r \in DOMAIN rt : rt[r].chain \in ChainIds
      BY DEF Refs, RefsOK
    <3> HIDE DEF id, n, m
    <3>5. \A r \in (n + 1)..(n + m) : rt'[r].chain = id
      <4>1. ASSUME NEW r \in (n + 1)..(n + m) PROVE rt'[r].chain = id
        <5>1. r - n \in 1..m /\ r = n + (r - n)
          BY <3>3
        <5>2. QED
          BY <3>2, <5>1
      <4>2. QED
        BY <4>1
    <3>6. \A c \in ChainIds' : chain'[c].parent < c
      BY <2>1, <3>2, <3>4
    <3>7. \A r \in DOMAIN rt' : rt'[r].chain \in ChainIds'
      BY <3>2, <3>4, <3>5
    <3>8. ToSet(queue') \subseteq DOMAIN rt'
      BY <1>2, <3>2
    <3>9. w'.resume \subseteq ChainIds' /\ w'.chain \notin w'.resume /\ w'.chain \in ChainIds'
      BY <1>2, <2>1, <3>2
    <3>10. QED
      BY <2>1, <3>2, <3>6, <3>7, <3>8, <3>9 DEF RefsOK
  <2>4. QED
    BY <2>2, <2>3
<1>9. CASE HandedOff
  <2>1. /\ UNCHANGED <<chain, rt, queue>> /\ w'.pc # "select" /\ w.pc # "select"
        /\ w'.chain = w.chain /\ w'.resume = w.resume
    BY <1>9, HandedOffEffect
  <2>2. QED
    BY <1>1, <1>2, <1>3, <2>1, RefsAreKept
<1>10. CASE Settle
  <2>1. /\ UNCHANGED <<rt, queue>> /\ w'.pc # "select" /\ w.pc # "select" /\ ChainIds' = ChainIds
        /\ w'.chain = w.chain /\ w'.resume = w.resume
    BY <1>10, SettleEffect
  <2>2. QED
    BY <1>1, <1>2, <2>1, RefsAreKept
<1>11. CASE Drain
  <2>1. /\ UNCHANGED chain /\ w.pc = "drain" /\ w'.resume = w.resume
        /\ \/ w'.chain = 0 /\ w'.pc = "select" /\ UNCHANGED <<rt, queue>>
           \/ /\ w' = w /\ IsInjective(queue') /\ DOMAIN rt' = DOMAIN rt
              /\ ToSet(queue') \subseteq ToSet(queue)
    BY <1>11, DrainEffect
  <2>2. QED
    BY <1>1, <1>2, <1>3, <2>1, RefsAreKept
<1>12. CASE Restart
  <2>1. /\ UNCHANGED <<rt, queue>> /\ ChainIds' = ChainIds
        /\ w'.pc = "select" /\ w'.chain = 0 /\ w'.resume = Unfinished
    BY <1>12, RestartEffect
  <2>2. Unfinished \subseteq ChainIds
    BY DEF Unfinished
  <2>3. QED
    BY <1>1, <1>2, <2>1, <2>2, RefsAreKept
<1>13. CASE UNCHANGED vars
  BY <1>1, <1>2, <1>3, <1>13, RefsAreKept DEF vars
<1>14. QED
  BY <1>4, <1>5, <1>6, <1>7, <1>8, <1>9, <1>10, <1>11, <1>12, <1>13
-----------------------------------------------------------------------------
(* Drives. *)

LEMMA FailsWorker ==
    ASSUME Refs, NEW t \in tasks, StepFails(t)
    PROVE  /\ w'.chain = w.chain /\ w'.drive = w.drive /\ w'.resume = w.resume
           /\ w'.again = w.again
           /\ \/ UNCHANGED <<w, chain>> /\ ~(t.drive = w.drive /\ w.pc = "steps")
              \/ /\ t.drive = w.drive /\ w.pc = "steps" /\ w'.pc = "fail" /\ w'.group = 0
                 /\ chain' = Strayed(t.chain, t.drive)
                 /\ ChainIds' = ChainIds
                 /\ \A k \in ChainIds :
                       /\ chain'[k].pipe = chain[k].pipe /\ chain'[k].parent = chain[k].parent
                       /\ chain'[k].status = chain[k].status /\ chain'[k].drives = chain[k].drives
                       /\ chain'[k].cut = chain[k].cut
                       /\ chain[k].strayed => chain'[k].strayed
                 /\ (\E u \in tasks' : u.drive = t.drive) => chain'[t.chain].strayed
<1>1. w \in WorkerRecord /\ TypeOK /\ t.chain \in ChainIds
  BY TaskFacts, WorkerFacts DEF Refs
<1>2. CASE t.drive = w.drive /\ w.pc = "steps"
  <2>1. w' = [w EXCEPT !.pc = "fail", !.group = 0] /\ chain' = Strayed(t.chain, t.drive)
    BY <1>2, FailsEffect
  <2>2. /\ w'.chain = w.chain /\ w'.drive = w.drive /\ w'.resume = w.resume
        /\ w'.again = w.again /\ w'.pc = "fail" /\ w'.group = 0
    BY <1>1, <2>1 DEF WorkerRecord
  <2>3. /\ ChainIds' = ChainIds
        /\ \A k \in ChainIds : k # t.chain => chain'[k] = chain[k]
        /\ chain'[t.chain].pipe = chain[t.chain].pipe /\ chain'[t.chain].parent = chain[t.chain].parent
        /\ chain'[t.chain].status = chain[t.chain].status
        /\ chain'[t.chain].drives = chain[t.chain].drives
        /\ chain'[t.chain].cut = chain[t.chain].cut
        /\ chain'[t.chain].strayed <=> chain[t.chain].strayed \/ \E u \in tasks' : u.drive = t.drive
    BY <1>1, <2>1, StrayedFacts
  <2>4. QED
    BY <1>2, <2>1, <2>2, <2>3
<1>3. CASE ~(t.drive = w.drive /\ w.pc = "steps")
  BY <1>3, FailsEffect
<1>4. QED
  BY <1>2, <1>3

LEMMA TaskStepDrives ==
    ASSUME Refs, DrivesOK, NEW t \in tasks,
           PopStepRt(t) \/ PushStepRt(t) \/ RepopStepRt(t) \/ Completed(t) \/ StepFails(t)
    PROVE  DrivesOK'
<1>1. /\ \A v \in tasks' : \E u \in tasks : Heir(u, v)
      /\ \A v1, v2 \in tasks' : v1.drive = v2.drive /\ v1.step.id = v2.step.id => v1 = v2
      /\ drives' = drives
  BY TaskStepHeirs
<1>2. /\ w.drive \in 0..drives
      /\ (w.pc \in {"steps", "handoff", "finish", "fail"}) <=> (w.drive # 0)
      /\ \A x, y \in tasks : x.drive = y.drive => x.chain = y.chain
      /\ \A x \in tasks :
            /\ x.drive = w.drive => x.chain = w.chain
            /\ chain[x.chain].strayed \/ (x.drive = w.drive /\ w.pc = "steps")
      /\ \A x \in tasks : x.chain \in ChainIds
  BY DEF DrivesOK, Refs, TasksOK
<1>3. \A v1, v2 \in tasks' : v1.drive = v2.drive => v1.chain = v2.chain
  BY <1>1, <1>2 DEF Heir
<1>4. CASE UNCHANGED <<chain, w>>
  <2>1. \A v \in tasks' :
            /\ v.drive = w'.drive => v.chain = w'.chain
            /\ chain'[v.chain].strayed \/ (v.drive = w'.drive /\ w'.pc = "steps")
    BY <1>1, <1>2, <1>4 DEF Heir
  <2>2. QED
    BY <1>1, <1>2, <1>3, <1>4, <2>1 DEF DrivesOK
<1>5. CASE StepFails(t) /\ ~UNCHANGED <<chain, w>>
  <2>1. /\ w'.chain = w.chain /\ w'.drive = w.drive
        /\ t.drive = w.drive /\ w.pc = "steps" /\ w'.pc = "fail"
        /\ \A k \in ChainIds : chain[k].strayed => chain'[k].strayed
        /\ (\E u \in tasks' : u.drive = t.drive) => chain'[t.chain].strayed
    BY <1>5, FailsWorker
  <2>2. ASSUME NEW v \in tasks'
        PROVE  /\ v.drive = w'.drive => v.chain = w'.chain
               /\ chain'[v.chain].strayed
    <3>1. PICK u \in tasks : Heir(u, v)
      BY <1>1
    <3>2. u.drive = w.drive => v.chain = t.chain /\ v.drive = t.drive
      BY <1>2, <2>1, <3>1 DEF Heir
    <3>3. v.chain \in ChainIds /\ (chain[v.chain].strayed \/ u.drive = w.drive)
      BY <1>2, <3>1 DEF Heir
    <3>4. chain'[v.chain].strayed
      BY <2>1, <3>2, <3>3
    <3>5. QED
      BY <1>2, <2>1, <3>1, <3>4 DEF Heir
  <2>3. QED
    BY <1>1, <1>2, <1>3, <2>1, <2>2 DEF DrivesOK
<1>6. QED
  BY <1>4, <1>5, PopEffect, PushEffect, RepopEffect, CompletedEffect

LEMMA WorkerStepDrives ==
    ASSUME Refs, DrivesOK,
           \/ Select \/ Start \/ NextGroup \/ Resolve \/ HandOff \/ HandedOff \/ Settle
           \/ Drain \/ Restart \/ UNCHANGED vars
    PROVE  DrivesOK'
<1>1. Kept
  BY WorkerStepKeeps
<1>2. /\ w.drive \in 0..drives
      /\ (w.pc \in {"steps", "handoff", "finish", "fail"}) <=> (w.drive # 0)
      /\ \A x, y \in tasks : x.drive = y.drive => x.chain = y.chain
      /\ \A x, y \in tasks : x.drive = y.drive /\ x.step.id = y.step.id => x = y
      /\ \A x \in tasks :
            /\ x.drive = w.drive => x.chain = w.chain
            /\ chain[x.chain].strayed \/ (x.drive = w.drive /\ w.pc = "steps")
      /\ \A x \in tasks : x.chain \in ChainIds /\ x.drive \in 1..drives
      /\ drives \in Nat
  BY DEF DrivesOK, Refs, TasksOK, TypeOK
<1>3. \A c \in ChainIds : chain[c].strayed => chain'[c].strayed
  BY <1>1 DEF Kept, ChainsKept
<1>4. ASSUME tasks' = tasks, drives' = drives, w'.drive = w.drive,
             w'.drive # 0 => w'.chain = w.chain,
             (w'.pc \in {"steps", "handoff", "finish", "fail"}) <=> (w'.drive # 0),
             w.pc # "steps"
      PROVE  DrivesOK'
  BY <1>2, <1>3, <1>4 DEF DrivesOK
<1>5. CASE Select
  BY <1>2, <1>4, <1>5, SelectEffect
<1>6. CASE Start
  <2>1. /\ tasks' = tasks /\ drives' = drives + 1 /\ w'.drive = drives + 1 /\ w'.pc = "steps"
        /\ w.pc = "start"
    BY <1>6, StartEffect
  <2>2. \A x \in tasks : x.drive # drives + 1 /\ chain'[x.chain].strayed
    BY <1>2, <1>3, <2>1
  <2>3. w'.drive \in 0..drives' /\ w'.drive # 0
    BY <1>2, <2>1
  <2>4. QED
    BY <1>2, <2>1, <2>2, <2>3 DEF DrivesOK
<1>7. CASE NextGroup
  <2> DEFINE c == w.chain
             k == w.group + 1
             B == Begun(c, k, ctx, w.drive)
  <2>1. /\ w.pc = "steps" /\ c \in ChainIds /\ Running = {} /\ drives' = drives
        /\ w'.drive = w.drive /\ w'.chain = c
    BY <1>7, NextGroupEffect
  <2>2. \A x \in tasks : x.drive # w.drive /\ chain[x.chain].strayed /\ chain'[x.chain].strayed
    BY <1>2, <1>3, <2>1 DEF Running
  <2>3. CASE UNCHANGED <<chain, tasks>> /\ w'.pc = "handoff"
    BY <1>2, <2>1, <2>2, <2>3 DEF DrivesOK
  <2>4. CASE ~(UNCHANGED <<chain, tasks>> /\ w'.pc = "handoff")
    <3>1. /\ k \in DOMAIN PipeOf(c)
          /\ tasks' = tasks \cup B
          /\ \A t \in B : Fresh(t, c, k)
          /\ \A t, u \in B : t.step = u.step => t = u
      BY <1>7, <2>4, NextGroupEffect
    <3>2. chain[c].pipe \in Pipelines
      BY <2>1, ChainFacts DEF Refs
    <3>3. \A a, b \in StepsAt(c, k) : a.id = b.id => a = b
      BY <3>1, <3>2, OneStepPerId DEF StepsAt, PipeOf
    <3>4. \A t \in B : t.drive = w.drive /\ t.chain = c /\ t.step \in StepsAt(c, k)
      BY <3>1 DEF Fresh
    <3> HIDE DEF B, k
    <3>5. \A x, y \in tasks' : x.drive = y.drive => x.chain = y.chain
      BY <1>2, <2>2, <3>1, <3>4
    <3>6. \A x, y \in tasks' : x.drive = y.drive /\ x.step.id = y.step.id => x = y
      BY <1>2, <2>2, <3>1, <3>3, <3>4
    <3>7. \A x \in tasks' : x.drive = w'.drive => x.chain = w'.chain
      BY <2>1, <2>2, <3>1, <3>4
    <3>8. w'.pc = "steps" \/ (w'.pc = "fail" /\ chain' = Strayed(c, w.drive))
      BY <1>7, <2>4, NextGroupEffect
    <3>9. \A x \in tasks' : chain'[x.chain].strayed \/ (x.drive = w'.drive /\ w'.pc = "steps")
      <4>1. CASE w'.pc = "steps"
        BY <2>1, <2>2, <3>1, <3>4, <4>1
      <4>2. CASE w'.pc # "steps"
        <5>1. chain'[c].strayed <=> chain[c].strayed \/ \E u \in tasks' : u.drive = w.drive
          BY <2>1, <3>8, <4>2, StrayedFacts DEF Refs
        <5>2. QED
          BY <2>2, <3>1, <3>4, <5>1
      <4>3. QED
        BY <4>1, <4>2
    <3>10. w'.drive \in 0..drives' /\ ((w'.pc \in {"steps", "handoff", "finish", "fail"}) <=> (w'.drive # 0))
      BY <1>2, <2>1, <3>8
    <3>11. QED
      BY <3>5, <3>6, <3>7, <3>9, <3>10 DEF DrivesOK
  <2>5. QED
    BY <2>3, <2>4
<1>8. CASE Resolve
  BY <1>2, <1>4, <1>8, ResolveEffect
<1>9. CASE HandOff
  <2>1. /\ tasks' = tasks /\ drives' = drives /\ w'.drive = w.drive /\ w'.chain = w.chain
        /\ w.pc = "handoff" /\ w'.pc \in {"handoff", "fail"}
    BY <1>9, HandOffEffect
  <2>2. QED
    BY <1>2, <1>4, <2>1
<1>10. CASE HandedOff
  BY <1>2, <1>4, <1>10, HandedOffEffect
<1>11. CASE Settle
  <2>1. /\ tasks' = tasks /\ drives' = drives /\ w'.drive = 0 /\ w'.pc = "drain"
        /\ w.pc # "steps"
    BY <1>11, SettleEffect
  <2>2. \A x \in tasks : chain'[x.chain].strayed /\ x.drive # 0
    BY <1>2, <1>3, <2>1
  <2>3. 0 \in 0..drives
    BY <1>2
  <2>4. QED
    BY <1>2, <2>1, <2>2, <2>3 DEF DrivesOK
<1>12. CASE Drain
  <2>1. /\ tasks' = tasks /\ drives' = drives /\ w'.drive = w.drive /\ w.pc = "drain"
        /\ w'.pc \in {"drain", "select"}
    BY <1>12, DrainEffect
  <2>2. QED
    BY <1>2, <1>4, <2>1
<1>13. CASE Restart
  <2>1. /\ tasks' = {} /\ drives' = drives /\ w'.drive = 0 /\ w'.pc = "select"
    BY <1>13, RestartEffect
  <2>2. 0 \in 0..drives
    BY <1>2
  <2>3. QED
    BY <2>1, <2>2 DEF DrivesOK
<1>14. CASE UNCHANGED vars
  BY <1>14 DEF vars, DrivesOK
<1>15. QED
  BY <1>5, <1>6, <1>7, <1>8, <1>9, <1>10, <1>11, <1>12, <1>13, <1>14
-----------------------------------------------------------------------------
(* Outputs and contexts. *)

LEMMA OutputsAreKept ==
    ASSUME Refs, Kept, OutputsOK,
           \A r \in DOMAIN rt' : rt'[r].state = "done" =>
              \/ r \in DOMAIN rt /\ rt[r].state = "done" /\ rt'[r].output = rt[r].output
              \/ \E t \in tasks :
                    /\ rt'[r].chain = t.chain /\ rt'[r].step = t.step.id
                    /\ rt'[r].output = Recorded(t.step)
    PROVE  OutputsOK'
<1>1. SUFFICES ASSUME NEW r \in DOMAIN rt', rt'[r].state = "done",
                      NEW s \in AllSteps(chain'[rt'[r].chain].pipe), s.id = rt'[r].step
               PROVE  rt'[r].output = Recorded(s) /\ (s.llm \/ s.tool)
  BY DEF OutputsOK
<1>2. /\ \A q \in DOMAIN rt : rt'[q].chain = rt[q].chain /\ rt'[q].step = rt[q].step
      /\ \A c \in ChainIds : chain'[c].pipe = chain[c].pipe
  BY DEF Kept, RtsKept, ChainsKept
<1>3. CASE r \in DOMAIN rt /\ rt[r].state = "done" /\ rt'[r].output = rt[r].output
  <2>1. rt[r].chain \in ChainIds
    BY <1>3 DEF Refs, RefsOK
  <2>2. QED
    BY <1>1, <1>2, <1>3, <2>1 DEF OutputsOK
<1>4. CASE \E t \in tasks :
              /\ rt'[r].chain = t.chain /\ rt'[r].step = t.step.id
              /\ rt'[r].output = Recorded(t.step)
  <2>1. PICK t \in tasks :
              /\ rt'[r].chain = t.chain /\ rt'[r].step = t.step.id
              /\ rt'[r].output = Recorded(t.step)
    BY <1>4
  <2>2. /\ t.chain \in ChainIds /\ t.step \in AllSteps(chain[t.chain].pipe)
        /\ chain[t.chain].pipe \in Pipelines
    BY TaskFacts
  <2>3. s = t.step
    BY <1>1, <1>2, <2>1, <2>2, OneStepPerId
  <2>4. QED
    BY <2>1, <2>3 DEF Refs, TasksOK
<1>5. QED
  BY <1>1, <1>3, <1>4

LEMMA TaskStepOutputs ==
    ASSUME Refs, OutputsOK, NEW t \in tasks,
           PopStepRt(t) \/ PushStepRt(t) \/ RepopStepRt(t) \/ Completed(t) \/ StepFails(t)
    PROVE  OutputsOK'
<1>1. Kept
  BY TaskStepKeeps
<1>2. CASE PopStepRt(t)
  <2>1. DOMAIN rt' = DOMAIN rt
    BY <1>2, PopEffect
  <2>2. \A q \in DOMAIN rt : rt'[q] = rt[q] \/ rt'[q].state = "in_flight"
    BY <1>2, PopEffect
  <2>3. QED
    BY <1>1, <2>1, <2>2, OutputsAreKept
<1>3. CASE PushStepRt(t)
  <2> DEFINE n == Len(rt) + 1
  <2>1. DOMAIN rt' = DOMAIN rt \cup {n} /\ rt'[n].state = "pending"
        /\ \A q \in DOMAIN rt : rt'[q] = rt[q]
    BY <1>3, PushEffect
  <2> HIDE DEF n
  <2>2. QED
    BY <1>1, <2>1, OutputsAreKept
<1>4. CASE RepopStepRt(t)
  <2>1. DOMAIN rt' = DOMAIN rt
    BY <1>4, RepopEffect
  <2>2. \A q \in DOMAIN rt : rt'[q] = rt[q] \/ rt'[q].state = "in_flight"
    BY <1>4, RepopEffect
  <2>3. QED
    BY <1>1, <2>1, <2>2, OutputsAreKept
<1>5. CASE Completed(t)
  <2>1. /\ DOMAIN rt' = DOMAIN rt /\ \A q \in DOMAIN rt : q # t.rt => rt'[q] = rt[q]
        /\ rt'[t.rt].chain = t.chain /\ rt'[t.rt].step = t.step.id
        /\ rt'[t.rt].output = Recorded(t.step)
    BY <1>5, CompletedEffect
  <2>2. QED
    BY <1>1, <2>1, OutputsAreKept
<1>6. CASE StepFails(t)
  <2>1. DOMAIN rt' = DOMAIN rt /\ \A q \in DOMAIN rt : rt'[q] = rt[q] \/ rt'[q].state = "failed"
    BY <1>6, FailsEffect
  <2>2. QED
    BY <1>1, <2>1, OutputsAreKept
<1>7. QED
  BY <1>2, <1>3, <1>4, <1>5, <1>6

LEMMA WorkerStepOutputs ==
    ASSUME Refs, DrivesOK, OutputsOK,
           \/ Select \/ Start \/ NextGroup \/ Resolve \/ HandOff \/ HandedOff \/ Settle
           \/ Drain \/ Restart \/ UNCHANGED vars
    PROVE  OutputsOK'
<1>1. Kept
  BY WorkerStepKeeps
<1>2. CASE UNCHANGED rt
  BY <1>1, <1>2, OutputsAreKept
<1>3. CASE Drain
  <2>1. rt' = rt \/ (DOMAIN rt' = DOMAIN rt /\ \A q \in DOMAIN rt : rt'[q] = rt[q] \/ rt'[q].state = "failed")
    BY <1>3, DrainEffect
  <2>2. QED
    BY <1>1, <2>1, OutputsAreKept
<1>4. CASE HandOff /\ ~UNCHANGED rt
  <2> DEFINE id == Len(chain) + 1
             n == Len(rt)
  <2>1. PICK q \in Pipelines : Called(w.chain, q, id, n, RtsFor(id, q))
    BY <1>4, HandOffEffect
  <2> DEFINE m == Len(RtsFor(id, q))
  <2>2. /\ DOMAIN rt' = DOMAIN rt \cup (n + 1)..(n + m)
        /\ \A r \in DOMAIN rt : rt'[r] = rt[r]
        /\ \A i \in 1..m : rt'[n + i].state = "pending"
    BY <2>1 DEF Called
  <2>3. n \in Nat /\ m \in Nat
    <3>1. rt \in Seq(RtRecord) /\ RtsFor(id, q) \in Seq(NewRts(id, q))
      BY <2>1 DEF Called, Refs, TypeOK
    <3>2. QED
      BY <3>1
  <2> HIDE DEF id, n, m
  <2>4. ASSUME NEW r \in (n + 1)..(n + m) PROVE rt'[r].state = "pending"
    <3>1. r - n \in 1..m /\ r = n + (r - n)
      BY <2>3
    <3>2. QED
      BY <2>2, <3>1
  <2>5. QED
    BY <1>1, <2>2, <2>4, OutputsAreKept
<1>5. QED
  BY <1>2, <1>3, <1>4, SelectEffect, StartEffect, NextGroupEffect, ResolveEffect, HandedOffEffect,
     SettleEffect, RestartEffect DEF vars

\* f fits the chain c in the next state.
FitsNext(c, f) ==
    \A s \in AllSteps(chain'[c].pipe) : s.id \in DOMAIN f =>
        f[s.id] = InContext(s) \/ (s.tool /\ s.result # "object" /\ crashes' > 0)

LEMMA FitsKept ==
    ASSUME Refs, Kept, NEW c \in ChainIds, NEW f, Fits(c, f)
    PROVE  Fits(c, f)' /\ FitsNext(c, f)
<1>1. chain'[c].pipe = chain[c].pipe /\ (crashes > 0 => crashes' > 0)
  BY DEF Kept, ChainsKept, Refs, TypeOK
<1>2. QED
  BY <1>1 DEF Fits, Seen, FitsNext

LEMMA CompleteKept ==
    ASSUME Refs, Kept, NEW u \in tasks, NEW v, Heir(u, v), DOMAIN u.ctx \subseteq DOMAIN v.ctx,
           Complete(u)
    PROVE  Complete(v)'
<1>1. v.chain = u.chain /\ v.step = u.step /\ u.chain \in ChainIds
  BY TaskFacts DEF Heir
<1>2. chain'[u.chain].pipe = chain[u.chain].pipe
  BY <1>1 DEF Kept, ChainsKept
<1>3. QED
  BY <1>1, <1>2 DEF Complete, PipeOf, StepsAt

\* A context to which a step's output is added fits the chain.
LEMMA FitsWithOutput ==
    ASSUME Refs, NEW t \in tasks, NEW f \in Contexts, Fits(t.chain, f)
    PROVE  Fits(t.chain, WithOutput(f, t.step))
<1> DEFINE p == chain[t.chain].pipe
           g == WithOutput(f, t.step)
<1>1. p \in Pipelines /\ t.step \in AllSteps(p)
  BY TaskFacts
<1>2. /\ DOMAIN g = DOMAIN f \cup {t.step.id} /\ g[t.step.id] = InContext(t.step)
      /\ \A id \in DOMAIN f : id # t.step.id => g[id] = f[id]
  BY <1>1, WithOutputFacts
<1> HIDE DEF g
<1>3. ASSUME NEW s \in AllSteps(p), s.id \in DOMAIN g PROVE Seen(s, g[s.id])
  <2>1. CASE s.id = t.step.id
    <3>1. s = t.step
      BY <1>1, <2>1, OneStepPerId
    <3>2. QED
      BY <1>2, <3>1 DEF Seen
  <2>2. CASE s.id # t.step.id
    BY <1>2, <1>3, <2>2 DEF Fits
  <2>3. QED
    BY <2>1, <2>2
<1>4. QED
  BY <1>3 DEF Fits, g

\* Where the context of a task comes from.
LEMMA TaskStepContextOf ==
    ASSUME Refs, DrivesOK, NEW t \in tasks,
           PopStepRt(t) \/ PushStepRt(t) \/ RepopStepRt(t) \/ Completed(t) \/ StepFails(t)
    PROVE  /\ \A v \in tasks' : \E u \in tasks :
                 /\ Heir(u, v)
                 /\ \/ v.ctx = u.ctx
                    \/ u.chain = t.chain /\ v.ctx = WithOutput(u.ctx, t.step)
           /\ \/ ctx' = ctx
              \/ t.drive = w.drive /\ ctx' = WithOutput(ctx, t.step)
<1>1. ASSUME NEW u, GoesOn(t, u), ctx' = ctx
      PROVE  \A v \in tasks' : \E x \in tasks : Heir(x, v) /\ v.ctx = x.ctx
  BY <1>1 DEF GoesOn, Heir
<1>2. CASE PopStepRt(t)
  <2>1. (\E u : GoesOn(t, u)) /\ ctx' = ctx
    BY <1>2, PopEffect
  <2>2. QED
    BY <1>1, <2>1
<1>3. CASE PushStepRt(t)
  <2>1. (\E u : GoesOn(t, u)) /\ ctx' = ctx
    BY <1>3, PushEffect
  <2>2. QED
    BY <1>1, <2>1
<1>4. CASE RepopStepRt(t)
  <2>1. (\E u : GoesOn(t, u)) /\ ctx' = ctx
    BY <1>4, RepopEffect
  <2>2. QED
    BY <1>1, <2>1
<1>5. CASE Completed(t)
  <2>1. /\ \A v \in tasks' : \E u \in tasks \ {t} : Reached(t, u, v)
        /\ ctx' = IF t.drive = w.drive THEN WithOutput(ctx, t.step) ELSE ctx
    BY <1>5, CompletedEffect
  <2>2. \A u \in tasks : u.drive = t.drive => u.chain = t.chain
    BY DEF DrivesOK
  <2>3. ASSUME NEW v \in tasks'
        PROVE  \E u \in tasks :
                 /\ Heir(u, v)
                 /\ \/ v.ctx = u.ctx
                    \/ u.chain = t.chain /\ v.ctx = WithOutput(u.ctx, t.step)
    <3>1. PICK u \in tasks : Reached(t, u, v)
      BY <2>1
    <3>2. Heir(u, v)
      BY <3>1 DEF Reached, Heir
    <3>3. v.ctx = u.ctx \/ (u.chain = t.chain /\ v.ctx = WithOutput(u.ctx, t.step))
      BY <2>2, <3>1 DEF Reached
    <3>4. QED
      BY <3>2, <3>3
  <2>4. QED
    BY <2>1, <2>3
<1>6. CASE StepFails(t)
  <2>1. tasks' = tasks \ {t} /\ ctx' = ctx
    BY <1>6, FailsEffect
  <2>2. QED
    BY <2>1 DEF Heir
<1>7. QED
  BY <1>2, <1>3, <1>4, <1>5, <1>6

LEMMA TaskStepTaskContexts ==
    ASSUME Refs, DrivesOK, TaskContextsOK, NEW t \in tasks,
           PopStepRt(t) \/ PushStepRt(t) \/ RepopStepRt(t) \/ Completed(t) \/ StepFails(t)
    PROVE  TaskContextsOK'
<1>1. Kept
  BY TaskStepKeeps
<1>2. SUFFICES ASSUME NEW v \in tasks' PROVE Fits(v.chain, v.ctx)' /\ Complete(v)'
  BY DEF TaskContextsOK
<1>3. PICK u \in tasks :
         /\ Heir(u, v)
         /\ \/ v.ctx = u.ctx
            \/ u.chain = t.chain /\ v.ctx = WithOutput(u.ctx, t.step)
  BY TaskStepContextOf
<1>4. /\ u.chain \in ChainIds /\ u.ctx \in Contexts /\ Fits(u.chain, u.ctx) /\ Complete(u)
      /\ chain[t.chain].pipe \in Pipelines /\ t.step \in AllSteps(chain[t.chain].pipe)
  BY TaskFacts DEF TaskContextsOK
<1>5. Fits(u.chain, v.ctx) /\ DOMAIN u.ctx \subseteq DOMAIN v.ctx
  <2>1. CASE v.ctx = u.ctx
    BY <1>4, <2>1
  <2>2. CASE u.chain = t.chain /\ v.ctx = WithOutput(u.ctx, t.step)
    BY <1>4, <2>2, FitsWithOutput, WithOutputFacts
  <2>3. QED
    BY <1>3, <2>1, <2>2
<1>6. Complete(v)'
  BY <1>1, <1>3, <1>4, <1>5, CompleteKept
<1>7. v.chain = u.chain
  BY <1>3 DEF Heir
<1>8. Fits(v.chain, v.ctx)'
  BY <1>1, <1>4, <1>5, <1>7, FitsKept
<1>9. QED
  BY <1>6, <1>8
\* The worker's step leaves the tasks, or begins those of the next group.
LEMMA WorkerStepTaskContexts ==
    ASSUME Refs, DrivesOK, TaskContextsOK, DriveContextOK,
           \/ Select \/ Start \/ NextGroup \/ Resolve \/ HandOff \/ HandedOff \/ Settle
           \/ Drain \/ Restart \/ UNCHANGED vars
    PROVE  TaskContextsOK'
<1>1. Kept
  BY WorkerStepKeeps
<1>2. ASSUME NEW v \in tasks PROVE Fits(v.chain, v.ctx)' /\ Complete(v)'
  <2>1. v.chain \in ChainIds /\ Fits(v.chain, v.ctx) /\ Complete(v) /\ Heir(v, v)
    BY TaskFacts DEF TaskContextsOK, Heir
  <2>2. QED
    BY <1>1, <2>1, CompleteKept, FitsKept
<1>3. CASE tasks' \subseteq tasks
  BY <1>2, <1>3 DEF TaskContextsOK
<1>4. CASE NextGroup
  <2> DEFINE c == w.chain
             k == w.group + 1
             p == chain[c].pipe
             B == Begun(c, k, ctx, w.drive)
  <2>1. CASE UNCHANGED tasks
    BY <1>3, <2>1
  <2>2. CASE ~UNCHANGED tasks
    <3>1. /\ k \in DOMAIN PipeOf(c) /\ c \in ChainIds /\ w.pc = "steps" /\ w.group \in Nat
          /\ tasks' = tasks \cup B /\ Running = {}
          /\ \A t \in B : Fresh(t, c, k)
      BY <1>4, <2>2, NextGroupEffect
    <3>2. p \in Pipelines /\ chain'[c].pipe = p
      BY <1>1, <3>1, ChainFacts DEF Refs, Kept, ChainsKept
    <3>3. w.drive # 0
      BY <3>1 DEF DrivesOK
    <3>4. Fits(c, ctx)
      BY <3>3 DEF DriveContextOK
    <3>5. \A j \in DOMAIN PipeOf(c) : j <= w.group => \A s \in StepsAt(c, j) : s.id \in DOMAIN ctx
      BY <3>1 DEF DriveContextOK
    <3>6. DOMAIN PipeOf(c) \subseteq Nat
      <4>1. PipeOf(c) \in Seq(Seq(AllSteps(p)))
        BY <3>2, StepsFacts DEF PipeOf
      <4>2. QED
        BY <4>1
    <3>7. ASSUME NEW v \in B PROVE Fits(v.chain, v.ctx)' /\ Complete(v)'
      <4>1. v.chain = c /\ v.ctx = ctx /\ v.step \in StepsAt(c, k)
        BY <3>1, <3>7 DEF Fresh
      <4>2. Fits(v.chain, v.ctx)'
        BY <1>1, <3>1, <3>4, <4>1, FitsKept
      <4>3. ASSUME NEW j \in DOMAIN PipeOf(c), NEW i \in DOMAIN PipeOf(c), j < i,
                   v.step \in StepsAt(c, i), NEW s \in StepsAt(c, j)
            PROVE  s.id \in DOMAIN v.ctx
        <5>1. i = k
          BY <3>1, <3>2, <4>1, <4>3, OneStepPerId DEF StepsAt, PipeOf
        <5>2. j <= w.group
          BY <3>1, <3>6, <4>3, <5>1
        <5>3. QED
          BY <3>5, <4>1, <4>3, <5>2
      <4>4. Complete(v)
        BY <4>1, <4>3 DEF Complete
      <4>5. Complete(v)'
        BY <3>2, <4>1, <4>4 DEF Complete, PipeOf, StepsAt
      <4>6. QED
        BY <4>2, <4>5
    <3>8. QED
      BY <1>2, <3>1, <3>7 DEF TaskContextsOK
  <2>3. QED
    BY <2>1, <2>2
<1>5. QED
  BY <1>3, <1>4, SelectEffect, StartEffect, ResolveEffect, HandOffEffect, HandedOffEffect,
     SettleEffect, DrainEffect, RestartEffect DEF vars

LEMMA ResumedKept ==
    ASSUME Refs, DrivesOK, ResumedOK, Next \/ UNCHANGED vars
    PROVE  ResumedOK'
<1>1. crashes \in Nat
  BY DEF Refs, TypeOK
<1>2. CASE w'.again = w.again /\ w'.resume = w.resume /\ crashes' = crashes
  BY <1>2 DEF ResumedOK
<1>3. ASSUME NEW t \in tasks,
             PopStepRt(t) \/ PushStepRt(t) \/ RepopStepRt(t) \/ Completed(t) \/ StepFails(t)
      PROVE  w'.again = w.again /\ w'.resume = w.resume /\ crashes' = crashes
  BY <1>3, PopEffect, PushEffect, RepopEffect, CompletedEffect, FailsEffect, FailsWorker
<1>4. CASE Select
  <2>1. /\ crashes' = crashes
        /\ \/ w'.chain \in w.resume
           \/ w'.again = FALSE /\ w'.resume = w.resume /\ w.resume = {}
    BY <1>4, SelectEffect
  <2>2. QED
    BY <2>1 DEF ResumedOK
<1>5. CASE Drain
  <2>1. w'.again = w.again /\ w'.resume = w.resume /\ crashes' = crashes
    BY <1>5, DrainEffect
  <2>2. QED
    BY <1>2, <2>1
<1>6. CASE Restart
  <2>1. crashes' = crashes + 1
    BY <1>6, RestartEffect
  <2>2. QED
    BY <1>1, <2>1 DEF ResumedOK
<1>7. QED
  BY <1>2, <1>3, <1>4, <1>5, <1>6, StartEffect, NextGroupEffect, ResolveEffect, HandOffEffect,
     HandedOffEffect, SettleEffect DEF Next, vars, StepDone, ToolDone

\* What a restart restores fits the chain.
LEMMA RehydratedFits ==
    ASSUME Refs, OutputsOK, NEW c \in ChainIds, crashes > 0
    PROVE  Fits(c, Rehydrated(c))
<1> DEFINE p == chain[c].pipe
           f == Rehydrated(c)
<1>1. p \in Pipelines
  BY ChainFacts DEF Refs
<1>2. ASSUME NEW s \in AllSteps(p), s.id \in DOMAIN f
      PROVE  Seen(s, f[s.id])
  <2>1. PICK r \in RtsOfChain(c) :
           /\ rt[r].step = s.id /\ rt[r].state = "done"
           /\ f[s.id] = IF rt[r].output = "structured" THEN "inner" ELSE rt[r].output
    BY <1>2, RehydratedFacts
  <2>2. r \in DOMAIN rt /\ rt[r].chain = c
    BY DEF RtsOfChain
  <2>3. rt[r].output = Recorded(s) /\ (s.llm \/ s.tool)
    BY <2>1, <2>2 DEF OutputsOK
  <2>4. s.llm \in BOOLEAN /\ s.tool \in BOOLEAN
    BY <1>1, KindsOfSteps
  <2>5. QED
    BY <2>1, <2>3, <2>4 DEF Seen, Recorded, InContext
<1>3. QED
  BY <1>2 DEF Fits

\* What becomes of a task.
LEMMA TaskStepForward ==
    ASSUME Refs, NEW t \in tasks,
           PopStepRt(t) \/ PushStepRt(t) \/ RepopStepRt(t) \/ Completed(t) \/ StepFails(t)
    PROVE  \A u \in tasks :
              \/ \E v \in tasks' : Heir(u, v)
              \/ u = t /\ (Completed(t) \/ StepFails(t))
<1>1. ASSUME NEW y, GoesOn(t, y)
      PROVE  \A u \in tasks : \E v \in tasks' : Heir(u, v)
  BY <1>1 DEF GoesOn, Heir
<1>2. CASE PopStepRt(t)
  <2>1. \E y : GoesOn(t, y)
    BY <1>2, PopEffect
  <2>2. QED
    BY <1>1, <2>1
<1>3. CASE PushStepRt(t)
  <2>1. \E y : GoesOn(t, y)
    BY <1>3, PushEffect
  <2>2. QED
    BY <1>1, <2>1
<1>4. CASE RepopStepRt(t)
  <2>1. \E y : GoesOn(t, y)
    BY <1>4, RepopEffect
  <2>2. QED
    BY <1>1, <2>1
<1>5. CASE Completed(t)
  <2>1. \A u \in tasks \ {t} : \E v \in tasks' : Reached(t, u, v)
    BY <1>5, CompletedEffect
  <2>2. QED
    BY <1>5, <2>1 DEF Reached, Heir
<1>6. CASE StepFails(t)
  <2>1. tasks' = tasks \ {t}
    BY <1>6, FailsEffect
  <2>2. QED
    BY <1>6, <2>1 DEF Heir
<1>7. QED
  BY <1>2, <1>3, <1>4, <1>5, <1>6

LEMMA TaskStepDriveContext ==
    ASSUME Refs, DrivesOK, DriveContextOK, NEW t \in tasks,
           PopStepRt(t) \/ PushStepRt(t) \/ RepopStepRt(t) \/ Completed(t) \/ StepFails(t)
    PROVE  DriveContextOK'
<1>1. Kept
  BY TaskStepKeeps
<1>2. /\ w'.chain = w.chain /\ w'.drive = w.drive
      /\ w'.pc = "steps" => UNCHANGED <<chain, w>> /\ ~(StepFails(t) /\ t.drive = w.drive)
  BY PopEffect, PushEffect, RepopEffect, CompletedEffect, FailsWorker
<1>3. ctx \in Contexts /\ w.drive \in Nat /\ (w.drive # 0 => w.chain \in ChainIds)
  BY WorkerFacts DEF Refs, TypeOK, DrivesOK, WorkerRecord
<1>4. \A x \in tasks : x.drive = w.drive => x.chain = w.chain
  BY DEF DrivesOK
<1>5. ctx' = ctx \/ (t.drive = w.drive /\ ctx' = WithOutput(ctx, t.step))
  BY TaskStepContextOf
<1>6. chain[t.chain].pipe \in Pipelines /\ t.step \in AllSteps(chain[t.chain].pipe)
  BY TaskFacts
<1>7. \/ ctx' = ctx
      \/ t.drive = w.drive /\ DOMAIN ctx' = DOMAIN ctx \cup {t.step.id}
  BY <1>3, <1>5, <1>6, WithOutputFacts
<1>8. w'.drive # 0 => FitsNext(w'.chain, ctx')
  <2> SUFFICES ASSUME w.drive # 0 PROVE FitsNext(w.chain, ctx')
    BY <1>2
  <2>1. Fits(w.chain, ctx)
    BY DEF DriveContextOK
  <2>2. CASE ctx' = ctx
    BY <1>1, <1>3, <2>1, <2>2, FitsKept
  <2>3. CASE t.drive = w.drive /\ ctx' = WithOutput(ctx, t.step)
    <3> DEFINE f == WithOutput(ctx, t.step)
    <3>1. Fits(w.chain, f)
      BY <1>3, <1>4, <2>1, <2>3, FitsWithOutput
    <3> HIDE DEF f
    <3>2. FitsNext(w.chain, f)
      BY <1>1, <1>3, <3>1, FitsKept
    <3>3. QED
      BY <2>3, <3>2 DEF f
  <2>4. QED
    BY <1>5, <2>2, <2>3
<1>9. ASSUME w'.pc = "steps"
      PROVE  /\ \A v \in tasks' : v.drive = w.drive => v.step.id \notin DOMAIN ctx'
             /\ \A k \in DOMAIN PipeOf(w.chain) : k <= w.group =>
                   \A s \in StepsAt(w.chain, k) :
                      s.id \in DOMAIN ctx' \/ \E v \in tasks' : v.drive = w.drive /\ v.step = s
  <2>1. UNCHANGED <<chain, w>> /\ w.pc = "steps" /\ ~(StepFails(t) /\ t.drive = w.drive)
    BY <1>2, <1>9
  <2>2. ASSUME NEW v \in tasks', v.drive = w.drive PROVE v.step.id \notin DOMAIN ctx'
    <3>1. PICK u \in tasks : Heir(u, v) /\ (Completed(t) => u # t)
      <4>1. CASE Completed(t)
        BY <4>1, CompletedEffect DEF Reached, Heir
      <4>2. CASE ~Completed(t)
        BY <4>2, TaskStepContextOf
      <4>3. QED
        BY <4>1, <4>2
    <3>2. u.drive = w.drive /\ u.step = v.step /\ u.step.id \notin DOMAIN ctx
      BY <2>1, <2>2, <3>1 DEF Heir, DriveContextOK, Running
    <3>3. CASE ctx' = ctx
      BY <3>2, <3>3
    <3>4. CASE ctx' # ctx
      <4>1. Completed(t)
        BY <3>4, PopEffect, PushEffect, RepopEffect, FailsEffect
      <4>2. u.step.id # t.step.id
        BY <1>7, <3>1, <3>2, <3>4, <4>1 DEF DrivesOK
      <4>3. QED
        BY <1>7, <3>2, <3>4, <4>2
    <3>5. QED
      BY <3>3, <3>4
  <2>3. ASSUME NEW k \in DOMAIN PipeOf(w.chain), k <= w.group, NEW s \in StepsAt(w.chain, k)
        PROVE  s.id \in DOMAIN ctx' \/ \E v \in tasks' : v.drive = w.drive /\ v.step = s
    <3>1. s.id \in DOMAIN ctx \/ \E u \in tasks : u.drive = w.drive /\ u.step = s
      BY <2>1, <2>3 DEF DriveContextOK, Running
    <3>2. CASE s.id \in DOMAIN ctx
      BY <1>7, <3>2
    <3>3. CASE \E u \in tasks : u.drive = w.drive /\ u.step = s
      <4>1. PICK u \in tasks : u.drive = w.drive /\ u.step = s
        BY <3>3
      <4>2. CASE \E v \in tasks' : Heir(u, v)
        BY <4>1, <4>2 DEF Heir
      <4>3. CASE u = t /\ Completed(t)
        <5>1. ctx' = WithOutput(ctx, t.step)
          BY <4>1, <4>3, CompletedEffect
        <5>2. QED
          BY <1>3, <1>6, <4>1, <4>3, <5>1, WithOutputFacts
      <4>4. CASE u = t /\ StepFails(t)
        BY <2>1, <4>1, <4>4
      <4>5. QED
        BY <4>2, <4>3, <4>4, TaskStepForward
    <3>4. QED
      BY <3>1, <3>2, <3>3
  <2>4. QED
    BY <2>2, <2>3
<1>10. w'.pc = "steps" => UNCHANGED <<chain, w>>
  BY <1>2
<1>11. QED
  BY <1>2, <1>8, <1>9, <1>10 DEF DriveContextOK, Fits, Seen, FitsNext, Running, PipeOf, StepsAt

LEMMA WorkerStepDriveContext ==
    ASSUME Refs, DrivesOK, ResumedOK, OutputsOK, DriveContextOK,
           \/ Select \/ Start \/ NextGroup \/ Resolve \/ HandOff \/ HandedOff \/ Settle
           \/ Drain \/ Restart \/ UNCHANGED vars
    PROVE  DriveContextOK'
<1>1. Kept
  BY WorkerStepKeeps
<1>2. w.drive \in Nat /\ drives \in Nat /\ (w.drive # 0 => w.chain \in ChainIds)
  BY WorkerFacts DEF Refs, TypeOK, DrivesOK, WorkerRecord
<1>3. w.drive # 0 => FitsNext(w.chain, ctx)
  BY <1>1, <1>2, FitsKept DEF DriveContextOK
<1>4. CASE w'.drive = 0 /\ w'.pc # "steps"
  BY <1>4 DEF DriveContextOK
<1>5. CASE w'.drive = w.drive /\ w'.chain = w.chain /\ ctx' = ctx /\ w'.pc # "steps"
  BY <1>3, <1>5 DEF DriveContextOK, Fits, Seen, FitsNext
<1>6. CASE Select
  <2>1. w'.drive = w.drive /\ w.pc = "select" /\ w'.pc = "start"
    BY <1>6, SelectEffect
  <2>2. w.drive = 0
    BY <2>1 DEF DrivesOK
  <2>3. QED
    BY <1>4, <2>1, <2>2
<1>7. CASE Start
  <2> DEFINE c == w.chain
  <2>1. /\ c \in ChainIds /\ w'.pc = "steps" /\ w'.drive = drives + 1 /\ w'.group = 0
        /\ w'.chain = c /\ tasks' = tasks /\ crashes' = crashes
        /\ ctx' = IF w.again THEN Rehydrated(c) ELSE NoNames
        /\ chain'[c].pipe = chain[c].pipe
    BY <1>7, StartEffect
  <2>2. FitsNext(c, ctx')
    <3>1. CASE w.again
      <4>1. crashes > 0
        BY <3>1 DEF ResumedOK
      <4>2. Fits(c, Rehydrated(c))
        BY <2>1, <4>1, RehydratedFits
      <4> DEFINE f == Rehydrated(c)
      <4> HIDE DEF f
      <4>3. FitsNext(c, f)
        BY <1>1, <2>1, <4>2, FitsKept DEF f
      <4>4. QED
        BY <2>1, <3>1, <4>3 DEF f
    <3>2. CASE ~w.again
      BY <2>1, <3>2 DEF FitsNext, NoNames
    <3>3. QED
      BY <3>1, <3>2
  <2>3. \A x \in tasks : x.drive # drives + 1
    BY <1>2 DEF Refs, TasksOK
  <2>4. \A k \in DOMAIN PipeOf(c) : ~(k <= 0)
    <3>1. PipeOf(c) \in Seq(Seq(AllSteps(chain[c].pipe)))
      BY <2>1, ChainFacts, StepsFacts DEF Refs, PipeOf
    <3>2. QED
      BY <3>1
  <2>5. DOMAIN PipeOf(c)' = DOMAIN PipeOf(c)
    BY <2>1 DEF PipeOf
  <2>6. \A k \in DOMAIN StepsOf(chain'[w'.chain].pipe) : ~(k <= w'.group)
    BY <2>1, <2>4 DEF PipeOf
  <2>7. QED
    BY <2>1, <2>2, <2>3, <2>6 DEF DriveContextOK, Fits, Seen, FitsNext, Running, PipeOf
<1>8. CASE NextGroup
  <2> DEFINE c == w.chain
             k == w.group + 1
             B == Begun(c, k, ctx, w.drive)
  <2>1. /\ w.pc = "steps" /\ c \in ChainIds /\ Running = {} /\ ctx' = ctx /\ w.group \in Nat
        /\ w'.drive = w.drive /\ w'.chain = c
    BY <1>8, NextGroupEffect
  <2>2. CASE w'.pc # "steps"
    BY <1>5, <2>1, <2>2
  <2>3. CASE w'.pc = "steps"
    <3>1. /\ k \in DOMAIN PipeOf(c)
          /\ tasks' = tasks \cup B /\ w'.group = k /\ UNCHANGED chain
          /\ \A t \in B : Fresh(t, c, k)
          /\ \A s \in StepsAt(c, k) : s.id \notin DOMAIN ctx => \E t \in B : t.step = s
      BY <1>8, <2>3, NextGroupEffect
    <3>2. \A x \in tasks : x.drive # w.drive
      BY <2>1 DEF Running
    <3>3. \A j \in DOMAIN PipeOf(c) : j <= w.group => \A s \in StepsAt(c, j) : s.id \in DOMAIN ctx
      BY <2>1 DEF DriveContextOK
    <3>4. \A t \in B : t.drive = w.drive /\ t.step.id \notin DOMAIN ctx
      BY <3>1 DEF Fresh
    <3>5. DOMAIN PipeOf(c) \subseteq Nat
      <4>1. PipeOf(c) \in Seq(Seq(AllSteps(chain[c].pipe)))
        BY <2>1, ChainFacts, StepsFacts DEF Refs, PipeOf
      <4>2. QED
        BY <4>1
    <3> HIDE DEF B
    <3>6. \A t \in tasks' : t.drive = w.drive => t.step.id \notin DOMAIN ctx
      BY <3>1, <3>2, <3>4
    <3>7. ASSUME NEW j \in DOMAIN PipeOf(c), j <= k, NEW s \in StepsAt(c, j)
          PROVE  s.id \in DOMAIN ctx \/ \E t \in tasks' : t.drive = w.drive /\ t.step = s
      <4>1. CASE j <= w.group
        BY <3>3, <3>7, <4>1
      <4>2. CASE j = k
        BY <3>1, <3>4, <3>7, <4>2
      <4>3. QED
        BY <2>1, <3>5, <3>7, <4>1, <4>2
    <3>8. w'.drive # 0 => FitsNext(w'.chain, ctx')
      BY <1>3, <2>1
    <3>9. QED
      BY <2>1, <3>1, <3>6, <3>7, <3>8
         DEF DriveContextOK, Fits, Seen, FitsNext, Running, PipeOf, StepsAt
  <2>4. QED
    BY <2>2, <2>3
<1>9. CASE Resolve
  <2>1. w'.drive = w.drive /\ w'.chain = w.chain /\ ctx' = ctx /\ w'.pc # "steps"
    BY <1>9, ResolveEffect
  <2>2. QED
    BY <1>5, <2>1
<1>10. CASE HandOff
  <2>1. w'.drive = w.drive /\ w'.chain = w.chain /\ ctx' = ctx /\ w'.pc # "steps"
    BY <1>10, HandOffEffect
  <2>2. QED
    BY <1>5, <2>1
<1>11. CASE HandedOff
  <2>1. w'.drive = w.drive /\ w'.chain = w.chain /\ ctx' = ctx /\ w'.pc # "steps"
    BY <1>11, HandedOffEffect
  <2>2. QED
    BY <1>5, <2>1
<1>12. CASE Settle
  BY <1>4, <1>12, SettleEffect
<1>13. CASE Drain
  <2>1. w'.drive = w.drive /\ w.pc = "drain" /\ w'.pc # "steps"
    BY <1>13, DrainEffect
  <2>2. w.drive = 0
    BY <2>1 DEF DrivesOK
  <2>3. QED
    BY <1>4, <2>1, <2>2
<1>14. CASE Restart
  BY <1>4, <1>14, RestartEffect
<1>15. CASE UNCHANGED vars
  BY <1>15 DEF vars, DriveContextOK, Fits, Seen, Running, PipeOf, StepsAt
<1>16. QED
  BY <1>6, <1>7, <1>8, <1>9, <1>10, <1>11, <1>12, <1>13, <1>14, <1>15

-----------------------------------------------------------------------------
(* Inputs. *)

\* The outputs a step of chain c reads are in its input.
Provided(c, step, in) ==
    \A s \in AllSteps(chain[c].pipe) : s.id \in step.reads =>
        s.id \in DOMAIN in /\ Seen(s, in[s.id])

\* A task hands its step all it reads: the steps are of groups before its own.
LEMMA SubstitutedFacts ==
    ASSUME Refs, TaskContextsOK, NEW t \in tasks
    PROVE  Provided(t.chain, t.step, Substituted(t))
<1> DEFINE c == t.chain
           p == chain[c].pipe
           in == Substituted(t)
<1>1. p \in Pipelines /\ t.step \in AllSteps(p)
  BY TaskFacts
<1>2. DOMAIN in = t.step.reads \cap DOMAIN t.ctx
      /\ \A id \in DOMAIN in : in[id] = t.ctx[id]
  BY DEF Substituted
<1> HIDE DEF in
<1>3. ASSUME NEW s \in AllSteps(p), s.id \in t.step.reads
      PROVE  s.id \in DOMAIN in /\ Seen(s, in[s.id])
  <2>1. PICK j \in DOMAIN PipeOf(c) : s \in StepsAt(c, j)
    BY <1>1, StepIsSomewhere DEF PipeOf, StepsAt
  <2>2. PICK k \in DOMAIN PipeOf(c) : t.step \in StepsAt(c, k)
    BY <1>1, StepIsSomewhere DEF PipeOf, StepsAt
  <2>3. j < k
    BY <1>1, <1>3, <2>1, <2>2, OneStepPerId DEF PipeOf, StepsAt
  <2>4. s.id \in DOMAIN t.ctx
    BY <2>1, <2>2, <2>3 DEF TaskContextsOK, Complete
  <2>5. Seen(s, t.ctx[s.id])
    BY <2>4 DEF TaskContextsOK, Fits
  <2>6. QED
    BY <1>2, <1>3, <2>4, <2>5
<1>4. QED
  BY <1>3 DEF Provided, in

LEMMA InputsAreKept ==
    ASSUME Refs, Kept, InputsComplete,
           \A v \in tasks' : v.pc = "run" =>
              \E x \in tasks :
                 /\ Heir(x, v)
                 /\ \/ x.pc = "run" /\ x.rt = v.rt /\ rt'[v.rt].input = rt[v.rt].input
                    \/ Provided(x.chain, x.step, rt'[v.rt].input)
    PROVE  InputsComplete'
<1>1. SUFFICES ASSUME NEW v \in tasks', v.pc = "run",
                      NEW s \in AllSteps(chain'[v.chain].pipe), s.id \in v.step.reads
               PROVE  /\ s.id \in DOMAIN rt'[v.rt].input
                      /\ \/ rt'[v.rt].input[s.id] = InContext(s)
                         \/ s.tool /\ s.result # "object" /\ crashes' > 0
  BY DEF InputsComplete
<1>2. PICK x \in tasks :
         /\ Heir(x, v)
         /\ \/ x.pc = "run" /\ x.rt = v.rt /\ rt'[v.rt].input = rt[v.rt].input
            \/ Provided(x.chain, x.step, rt'[v.rt].input)
  BY <1>1
<1>3. x.chain = v.chain /\ x.step = v.step /\ chain'[v.chain].pipe = chain[v.chain].pipe
  BY <1>2, TaskFacts DEF Heir, Kept, ChainsKept
<1>4. crashes > 0 => crashes' > 0
  BY DEF Kept, Refs, TypeOK
<1> DEFINE in == rt'[v.rt].input
<1>5. s.id \in DOMAIN in /\ Seen(s, in[s.id])
  <2>1. CASE x.pc = "run" /\ x.rt = v.rt /\ in = rt[v.rt].input
    BY <1>1, <1>3, <2>1 DEF InputsComplete, Seen
  <2>2. CASE Provided(x.chain, x.step, in)
    BY <1>1, <1>3, <2>2 DEF Provided
  <2>3. QED
    BY <1>2, <2>1, <2>2
<1>6. QED
  BY <1>4, <1>5 DEF Seen

LEMMA TaskStepInputs ==
    ASSUME Refs, DrivesOK, TaskContextsOK, InputsComplete, NEW t \in tasks,
           PopStepRt(t) \/ PushStepRt(t) \/ RepopStepRt(t) \/ Completed(t) \/ StepFails(t)
    PROVE  InputsComplete'
<1>1. Kept
  BY TaskStepKeeps
<1>2. /\ t.chain \in ChainIds /\ chain[t.chain].pipe \in Pipelines
      /\ t.step \in AllSteps(chain[t.chain].pipe)
      /\ Provided(t.chain, t.step, Substituted(t))
  BY TaskFacts, SubstitutedFacts
<1>3. \A x \in tasks : x.pc = "run" => x.rt \in DOMAIN rt /\ rt[x.rt].chain = x.chain /\ rt[x.rt].step = x.step.id
  BY DEF Refs, TasksOK
<1>4. ASSUME NEW y, GoesOn(t, y), NEW r \in DOMAIN rt, y.rt = r,
             rt[r].chain = t.chain, rt[r].step = t.step.id, rt'[r].input = Substituted(t),
             \A q \in DOMAIN rt : q # r => rt'[q] = rt[q]
      PROVE  InputsComplete'
  <2>1. tasks' = (tasks \ {t}) \cup {y} /\ Heir(t, y)
    BY <1>4 DEF GoesOn, Heir
  <2>2. ASSUME NEW x \in tasks, x.pc = "run"
        PROVE  /\ Heir(x, x)
               /\ \/ rt'[x.rt].input = rt[x.rt].input
                  \/ Provided(x.chain, x.step, rt'[x.rt].input)
    <3>1. CASE x.rt # r
      BY <1>3, <1>4, <2>2, <3>1 DEF Heir
    <3>2. CASE x.rt = r
      <4>1. x.chain = t.chain /\ x.step.id = t.step.id
        BY <1>3, <1>4, <2>2, <3>2
      <4>2. x.step = t.step
        BY <1>2, <4>1, TaskFacts, OneStepPerId
      <4>3. QED
        BY <1>2, <1>4, <3>2, <4>1, <4>2 DEF Heir
    <3>3. QED
      BY <3>1, <3>2
  <2>3. QED
    BY <1>1, <1>2, <1>4, <2>1, <2>2, InputsAreKept
<1>5. CASE PopStepRt(t)
  <2>1. PICK y : /\ GoesOn(t, y)
                 /\ \/ y.pc = "push" /\ rt' = rt
                    \/ LET r == Popped(t.chain) IN
                       /\ y.pc = "run" /\ y.rt = r /\ r \in Entries(t.chain)
                       /\ rt[r].chain = t.chain /\ rt[r].step = t.step.id
                       /\ rt'[r].input = Substituted(t)
                       /\ \A q \in DOMAIN rt : q # r => rt'[q] = rt[q]
    BY <1>5, PopEffect
  <2>2. CASE y.pc = "push" /\ rt' = rt
    <3>1. tasks' = (tasks \ {t}) \cup {y}
      BY <2>1 DEF GoesOn
    <3>2. \A x \in tasks : Heir(x, x)
      BY DEF Heir
    <3>3. QED
      BY <1>1, <2>2, <3>1, <3>2, InputsAreKept
  <2>3. CASE ~(y.pc = "push" /\ rt' = rt)
    <3> DEFINE r == Popped(t.chain)
    <3>1. /\ y.rt = r /\ r \in Entries(t.chain)
          /\ rt[r].chain = t.chain /\ rt[r].step = t.step.id
          /\ rt'[r].input = Substituted(t)
          /\ \A q \in DOMAIN rt : q # r => rt'[q] = rt[q]
      BY <2>1, <2>3
    <3>2. r \in DOMAIN rt
      BY <3>1 DEF Entries, Refs, RefsOK
    <3> HIDE DEF r
    <3>3. QED
      BY <1>4, <2>1, <3>1, <3>2
  <2>4. QED
    BY <2>2, <2>3
<1>6. CASE PushStepRt(t)
  <2>1. PICK y : GoesOn(t, y) /\ y.pc = "repop"
    BY <1>6, PushEffect
  <2>2. \A q \in DOMAIN rt : rt'[q] = rt[q]
    BY <1>6, PushEffect
  <2>3. tasks' = (tasks \ {t}) \cup {y}
    BY <2>1 DEF GoesOn
  <2>4. \A x \in tasks : Heir(x, x)
    BY DEF Heir
  <2>5. QED
    BY <1>1, <1>3, <2>1, <2>2, <2>3, <2>4, InputsAreKept
<1>7. CASE RepopStepRt(t)
  <2> DEFINE r == t.rt
  <2>1. PICK y : /\ GoesOn(t, y)
                 /\ y.rt = r /\ r \in DOMAIN rt
                 /\ rt[r].chain = t.chain /\ rt[r].step = t.step.id
                 /\ rt'[r].input = Substituted(t)
                 /\ \A q \in DOMAIN rt : q # r => rt'[q] = rt[q]
    BY <1>7, RepopEffect
  <2> HIDE DEF r
  <2>2. QED
    BY <1>4, <2>1
<1>8. CASE Completed(t)
  <2>1. \A v \in tasks' : \E u \in tasks \ {t} : Reached(t, u, v)
    BY <1>8, CompletedEffect
  <2>2. \A q \in DOMAIN rt : rt'[q].input = rt[q].input
    BY <1>8, CompletedEffect
  <2>3. ASSUME NEW v \in tasks', v.pc = "run"
        PROVE  \E x \in tasks : Heir(x, v) /\ x.pc = "run" /\ x.rt = v.rt
                                 /\ rt'[v.rt].input = rt[v.rt].input
    <3>1. PICK u \in tasks : Reached(t, u, v)
      BY <2>1
    <3>2. Heir(u, v) /\ u.pc = "run" /\ u.rt = v.rt
      BY <2>3, <3>1 DEF Reached, Heir
    <3>3. QED
      BY <1>3, <2>2, <3>2
  <2>4. QED
    BY <1>1, <2>3, InputsAreKept
<1>9. CASE StepFails(t)
  <2>1. tasks' = tasks \ {t}
    BY <1>9, FailsEffect
  <2>2. \A q \in DOMAIN rt : rt'[q].input = rt[q].input
    BY <1>9, FailsEffect
  <2>3. \A x \in tasks : Heir(x, x)
    BY DEF Heir
  <2>4. QED
    BY <1>1, <1>3, <2>1, <2>2, <2>3, InputsAreKept
<1>10. QED
  BY <1>5, <1>6, <1>7, <1>8, <1>9

LEMMA WorkerStepInputs ==
    ASSUME Refs, DrivesOK, InputsComplete,
           \/ Select \/ Start \/ NextGroup \/ Resolve \/ HandOff \/ HandedOff \/ Settle
           \/ Drain \/ Restart \/ UNCHANGED vars
    PROVE  InputsComplete'
<1>1. Kept
  BY WorkerStepKeeps
<1>2. \A x \in tasks : Heir(x, x) /\ (x.pc = "run" => x.rt \in DOMAIN rt)
  BY DEF Heir, Refs, TasksOK
<1>3. \A q \in DOMAIN rt : rt'[q].input = rt[q].input
  <2>1. CASE UNCHANGED rt
    BY <2>1
  <2>2. CASE Drain
    BY <2>2, DrainEffect
  <2>3. CASE HandOff /\ ~UNCHANGED rt
    <3>1. PICK q \in Pipelines : Called(w.chain, q, Len(chain) + 1, Len(rt), RtsFor(Len(chain) + 1, q))
      BY <2>3, HandOffEffect
    <3>2. QED
      BY <3>1 DEF Called
  <2>4. QED
    BY <2>1, <2>2, <2>3, SelectEffect, StartEffect, NextGroupEffect, ResolveEffect,
       HandedOffEffect, SettleEffect, RestartEffect DEF vars
<1>4. \A v \in tasks' : v \in tasks \/ v.pc # "run"
  <2>1. CASE NextGroup
    BY <2>1, NextGroupEffect DEF Fresh
  <2>2. CASE ~NextGroup
    BY <2>2, SelectEffect, StartEffect, ResolveEffect, HandOffEffect,
       HandedOffEffect, SettleEffect, DrainEffect, RestartEffect DEF vars
  <2>3. QED
    BY <2>1, <2>2
<1>5. QED
  BY <1>1, <1>2, <1>3, <1>4, InputsAreKept
-----------------------------------------------------------------------------
(* Counting the queue. *)

LEMMA CoverLess ==
    ASSUME NEW E, NEW D, NEW E2, NEW D2, IsFiniteSet(E), IsFiniteSet(D2), Covered(E, D),
           E2 \subseteq E, D \subseteq D2
    PROVE  Covered(E2, D2)
<1>1. IsFiniteSet(E2) /\ Cardinality(E2) <= Cardinality(E)
  BY FS_Subset
<1>2. IsFiniteSet(D) /\ Cardinality(D) <= Cardinality(D2)
  BY FS_Subset
<1>3. /\ Cardinality(E) \in Nat /\ Cardinality(E2) \in Nat
      /\ Cardinality(D) \in Nat /\ Cardinality(D2) \in Nat
  BY <1>1, <1>2, FS_CardinalityType
<1>4. QED
  BY <1>1, <1>2, <1>3 DEF Covered

\* A pop takes one RT out of the queue, if there is one, and is one pop less to come.
LEMMA CoverPop ==
    ASSUME NEW E, NEW D, NEW E2, NEW D2, NEW d, IsFiniteSet(E), IsFiniteSet(D2), IsFiniteSet(D),
           Covered(E, D), D \ {d} \subseteq D2,
           E2 = {} \/ \E e \in E : E2 = E \ {e}
    PROVE  Covered(E2, D2)
<1>1. /\ IsFiniteSet(D \ {d})
      /\ Cardinality(D \ {d}) = IF d \in D THEN Cardinality(D) - 1 ELSE Cardinality(D)
  BY FS_RemoveElement
<1>2. Cardinality(D \ {d}) <= Cardinality(D2)
  BY FS_Subset
<1>3. /\ Cardinality(E) \in Nat /\ Cardinality(D) \in Nat /\ Cardinality(D2) \in Nat
      /\ Cardinality(D \ {d}) \in Nat
  BY <1>1, FS_CardinalityType
<1>4. CASE E2 = {}
  <2>1. Cardinality(E2) = 0
    BY <1>4, FS_EmptySet
  <2>2. QED
    BY <1>3, <2>1 DEF Covered
<1>5. CASE \E e \in E : E2 = E \ {e}
  <2>1. PICK e \in E : E2 = E \ {e}
    BY <1>5
  <2>2. Cardinality(E2) = Cardinality(E) - 1
    BY <2>1, FS_RemoveElement
  <2>3. QED
    BY <1>1, <1>2, <1>3, <2>2 DEF Covered
<1>6. QED
  BY <1>4, <1>5

\* A push adds an RT, and a pop.
LEMMA CoverPush ==
    ASSUME NEW E, NEW D, NEW D2, NEW n, NEW d, IsFiniteSet(E), IsFiniteSet(D2), IsFiniteSet(D),
           Covered(E, D), D \cup {d} \subseteq D2, d \notin D
    PROVE  Covered(E \cup {n}, D2)
<1>1. IsFiniteSet(D \cup {d}) /\ Cardinality(D \cup {d}) = Cardinality(D) + 1
  BY FS_AddElement
<1>2. Cardinality(D \cup {d}) <= Cardinality(D2)
  BY FS_Subset
<1>3. IsFiniteSet(E \cup {n})
      /\ Cardinality(E \cup {n}) = IF n \in E THEN Cardinality(E) ELSE Cardinality(E) + 1
  BY FS_AddElement
<1>4. /\ Cardinality(E) \in Nat /\ Cardinality(D) \in Nat /\ Cardinality(D2) \in Nat
  BY FS_CardinalityType
<1>5. QED
  BY <1>1, <1>2, <1>3, <1>4 DEF Covered

LEMMA RtIdsFacts ==
    ASSUME Refs, NEW c \in ChainIds
    PROVE  IsFiniteSet(RtIds(c)) /\ IsFiniteSet(Due(c)) /\ IsFiniteSet(DueNow(c))
<1> DEFINE p == chain[c].pipe
           S == {x \in AllSteps(p) : x.llm \/ x.tool}
           f == [s \in S |-> s.id]
<1>1. IsFiniteSet(S)
  <2>1. p \in Pipelines /\ S \in SUBSET AllSteps(p)
    BY ChainFacts DEF Refs
  <2>2. IsFiniteSet(AllSteps(p))
    BY <2>1, StepsAreFinite
  <2> HIDE DEF S, p
  <2>3. QED
    BY <2>1, <2>2, FS_Subset
<1>2. f \in Surjection(S, RtIds(c))
  <2>1. RtIds(c) = {s.id : s \in S}
    BY DEF RtIds
  <2> HIDE DEF S
  <2>2. QED
    BY <2>1 DEF Surjection
<1>3. IsFiniteSet(RtIds(c))
  <2> HIDE DEF S, f
  <2>1. QED
    BY <1>1, <1>2, FS_Surjection
<1>4. Due(c) \in SUBSET RtIds(c) /\ DueNow(c) \in SUBSET RtIds(c)
  BY DEF Due, DueNow
<1>5. QED
  BY <1>3, <1>4, FS_Subset

LEMMA EntriesAreFinite ==
    ASSUME Refs, NEW c
    PROVE  IsFiniteSet(Entries(c))
<1> DEFINE S == 1..Len(rt)
<1>1. Len(rt) \in Nat /\ DOMAIN rt = 1..Len(rt) /\ ToSet(queue) \subseteq DOMAIN rt
  BY DEF Refs, TypeOK, RefsOK
<1>2. Entries(c) \in SUBSET S
  BY <1>1 DEF Entries
<1>3. IsFiniteSet(S)
  BY <1>1, FS_Interval
<1> HIDE DEF S
<1>4. QED
  BY <1>2, <1>3, FS_Subset

\* What a change of the queue is to the chains.
LEMMA EntriesSame ==
    ASSUME Refs, RtsKept, ToSet(queue') = ToSet(queue), NEW c
    PROVE  Entries(c)' = Entries(c)
BY DEF Entries, Refs, RefsOK, RtsKept

LEMMA EntriesLess ==
    ASSUME Refs, RtsKept, NEW r, ToSet(queue') = ToSet(queue) \ {r}, NEW c
    PROVE  Entries(c)' = Entries(c) \ {r}
BY DEF Entries, Refs, RefsOK, RtsKept

LEMMA EntriesMore ==
    ASSUME Refs, RtsKept, NEW n, n \notin DOMAIN rt, ToSet(queue') = ToSet(queue) \cup {n}, NEW c
    PROVE  Entries(c)' = IF rt'[n].chain = c THEN Entries(c) \cup {n} ELSE Entries(c)
BY DEF Entries, Refs, RefsOK, RtsKept

\* What becomes of the entries at a step of a task.
LEMMA TaskStepEntries ==
    ASSUME Refs, NEW t \in tasks,
           PopStepRt(t) \/ PushStepRt(t) \/ RepopStepRt(t) \/ Completed(t) \/ StepFails(t)
    PROVE  /\ \A c : c # t.chain => Entries(c)' = Entries(c)
           /\ \A c \in {t.chain} :
              /\ PopStepRt(t) \/ RepopStepRt(t) =>
                    \/ Entries(c)' = {}
                    \/ \E r \in Entries(c) : Entries(c)' = Entries(c) \ {r}
              /\ PushStepRt(t) => Entries(c)' = Entries(c) \cup {Len(rt) + 1}
              /\ Completed(t) \/ StepFails(t) => Entries(c)' = Entries(c)
<1> DEFINE d == t.chain
<1>1. RtsKept /\ TypeOK /\ ToSet(queue) \subseteq DOMAIN rt /\ IsInjective(queue)
  BY TaskStepKeeps DEF Kept, Refs, RefsOK
<1>2. ASSUME PopStepRt(t) \/ RepopStepRt(t)
      PROVE  /\ \A c : c # d => Entries(c)' = Entries(c)
             /\ \/ Entries(d)' = {}
                \/ \E r \in Entries(d) : Entries(d)' = Entries(d) \ {r}
  <2>1. queue' = Rest(d)
    BY <1>2, PopEffect, RepopEffect
  <2>2. CASE Entries(d) = {} /\ Rest(d) = queue
    BY <1>1, <2>1, <2>2, EntriesSame
  <2>3. CASE /\ Popped(d) \in Entries(d)
             /\ ToSet(Rest(d)) = ToSet(queue) \ {Popped(d)}
    <3> DEFINE r == Popped(d)
    <3>1. r \in Entries(d) /\ rt[r].chain = d /\ ToSet(queue') = ToSet(queue) \ {r}
      BY <2>1, <2>3 DEF Entries
    <3> HIDE DEF r
    <3>2. \A c : Entries(c)' = Entries(c) \ {r}
      BY <1>1, <3>1, EntriesLess
    <3>3. \A c : c # d => r \notin Entries(c)
      BY <3>1 DEF Entries
    <3>4. \A c : c # d => Entries(c)' = Entries(c)
      BY <3>2, <3>3
    <3>5. QED
      BY <3>1, <3>2, <3>4
  <2>4. QED
    BY <1>1, <2>2, <2>3, PopFacts
<1>3. ASSUME PushStepRt(t)
      PROVE  /\ \A c : c # d => Entries(c)' = Entries(c)
             /\ Entries(d)' = Entries(d) \cup {Len(rt) + 1}
  <2> DEFINE n == Len(rt) + 1
  <2>1. n \notin DOMAIN rt /\ rt'[n].chain = d /\ ToSet(queue') = ToSet(queue) \cup {n}
    BY <1>3, PushEffect
  <2> HIDE DEF n
  <2>2. \A c : Entries(c)' = IF rt'[n].chain = c THEN Entries(c) \cup {n} ELSE Entries(c)
    BY <1>1, <2>1, EntriesMore
  <2>3. (\A c : c # d => Entries(c)' = Entries(c)) /\ Entries(d)' = Entries(d) \cup {n}
    BY <2>1, <2>2
  <2>4. QED
    BY <2>3 DEF n
<1>4. ASSUME Completed(t) \/ StepFails(t)
      PROVE  \A c : Entries(c)' = Entries(c)
  <2>1. queue' = queue
    BY <1>4, CompletedEffect, FailsEffect
  <2>2. QED
    BY <1>1, <2>1, EntriesSame
<1>5. \A c : c # d => Entries(c)' = Entries(c)
  BY <1>2, <1>3, <1>4
<1>6. /\ PopStepRt(t) \/ RepopStepRt(t) =>
            \/ Entries(d)' = {}
            \/ \E r \in Entries(d) : Entries(d)' = Entries(d) \ {r}
      /\ PushStepRt(t) => Entries(d)' = Entries(d) \cup {Len(rt) + 1}
      /\ Completed(t) \/ StepFails(t) => Entries(d)' = Entries(d)
  BY <1>2, <1>3, <1>4
<1>7. QED
  BY <1>5, <1>6

\* The steps that are done for a resumption, and those that have taken their RT.
LEMMA DoneIdsFacts ==
    ASSUME Refs, RtsKept, DOMAIN rt' = DOMAIN rt, NEW c, NEW X,
           \A q \in DOMAIN rt : rt'[q].chain = c /\ rt'[q].state = "done" =>
              rt[q].state = "done" \/ rt[q].step \in X
    PROVE  DoneIds(c)' \subseteq DoneIds(c) \cup X
BY DEF DoneIds, RtsOfChain, RtsKept

LEMMA RtIdsKept ==
    ASSUME Kept, NEW c \in ChainIds
    PROVE  RtIds(c)' = RtIds(c)
<1>1. chain'[c].pipe = chain[c].pipe
  BY DEF Kept, ChainsKept
<1>2. QED
  BY <1>1 DEF RtIds
LEMMA TaskStepDone ==
    ASSUME Refs, NEW t \in tasks,
           PopStepRt(t) \/ PushStepRt(t) \/ RepopStepRt(t) \/ Completed(t) \/ StepFails(t)
    PROVE  /\ \A c : c # t.chain => DoneIds(c)' \subseteq DoneIds(c)
           /\ ~Completed(t) => DoneIds(t.chain)' \subseteq DoneIds(t.chain)
           /\ PushStepRt(t) => t.step.id \notin DoneIds(t.chain)'
           /\ Completed(t) => DoneIds(t.chain)' \subseteq DoneIds(t.chain) \cup {t.step.id}
<1> DEFINE d == t.chain
           id == t.step.id
<1>1. RtsKept /\ id \in StepIds
  BY TaskStepKeeps, TaskFacts DEF Kept
<1>2. ASSUME DOMAIN rt' = DOMAIN rt, ~Completed(t),
             \A q \in DOMAIN rt : rt'[q].state = "done" => rt[q].state = "done"
      PROVE  \A c : DoneIds(c)' \subseteq DoneIds(c)
  <2>1. \A c : DoneIds(c)' \subseteq DoneIds(c) \cup {}
    BY <1>1, <1>2, DoneIdsFacts
  <2>2. QED
    BY <2>1
<1>3. CASE PopStepRt(t)
  <2>1. DOMAIN rt' = DOMAIN rt
    BY <1>3, PopEffect
  <2>2. \A q \in DOMAIN rt : rt'[q] = rt[q] \/ rt'[q].state = "in_flight"
    BY <1>3, PopEffect
  <2>3. t.pc = "pop"
    BY <1>3, PopEffect
  <2>4. QED
    BY <1>2, <2>1, <2>2, <2>3, CompletedEffect, PushEffect
<1>4. CASE RepopStepRt(t)
  <2>1. DOMAIN rt' = DOMAIN rt
    BY <1>4, RepopEffect
  <2>2. \A q \in DOMAIN rt : rt'[q] = rt[q] \/ rt'[q].state = "in_flight"
    BY <1>4, RepopEffect
  <2>3. t.pc = "repop"
    BY <1>4, RepopEffect
  <2>4. QED
    BY <1>2, <2>1, <2>2, <2>3, CompletedEffect, PushEffect
<1>5. CASE Completed(t)
  <2>1. /\ DOMAIN rt' = DOMAIN rt /\ t.pc = "run"
        /\ \A q \in DOMAIN rt : q # t.rt => rt'[q] = rt[q]
        /\ rt'[t.rt].chain = d /\ rt[t.rt].step = id
    BY <1>5, CompletedEffect
  <2>2. \A c : DoneIds(c)' \subseteq DoneIds(c) \cup {id}
    BY <1>1, <2>1, DoneIdsFacts
  <2>3. ASSUME NEW c, c # d PROVE DoneIds(c)' \subseteq DoneIds(c) \cup {}
    BY <1>1, <2>1, <2>3, DoneIdsFacts
  <2>4. QED
    BY <1>5, <2>1, <2>2, <2>3, PushEffect
<1>6. CASE StepFails(t) /\ ~Completed(t) /\ ~PushStepRt(t)
  <2>1. DOMAIN rt' = DOMAIN rt /\ \A q \in DOMAIN rt : rt'[q] = rt[q] \/ rt'[q].state = "failed"
    BY <1>6, FailsEffect
  <2>2. QED
    BY <1>2, <1>6, <2>1
<1>7. CASE PushStepRt(t)
  <2> DEFINE n == Len(rt) + 1
  <2>1. /\ t.pc = "push" /\ DOMAIN rt' = DOMAIN rt \cup {n} /\ n \notin DOMAIN rt
        /\ \A q \in DOMAIN rt : rt'[q] = rt[q]
        /\ rt'[n].chain = d /\ rt'[n].step = id /\ rt'[n].state = "pending"
    BY <1>7, PushEffect
  <2>2. \A q \in DOMAIN rt : q < n
    <3>1. Len(rt) \in Nat /\ DOMAIN rt = 1..Len(rt)
      BY DEF Refs, TypeOK
    <3>2. QED
      BY <3>1
  <2>3. n \in Nat
    BY DEF Refs, TypeOK
  <2>4. DOMAIN rt \subseteq Nat
    BY DEF Refs, TypeOK
  <2> HIDE DEF n
  <2>5. ASSUME NEW c PROVE DoneIds(c)' \subseteq DoneIds(c)
    <3>1. SUFFICES ASSUME NEW x \in DoneIds(c)' PROVE x \in DoneIds(c)
      OBVIOUS
    <3>2. PICK r \in DOMAIN rt' :
             /\ x \in StepIds
             /\ rt'[r].chain = c /\ rt'[r].step = x /\ rt'[r].state = "done"
             /\ \A q \in DOMAIN rt' : rt'[q].chain = c /\ rt'[q].step = x => q <= r
      BY <3>1 DEF DoneIds, RtsOfChain
    <3>3. r \in DOMAIN rt
      BY <2>1, <3>2
    <3>4. QED
      BY <2>1, <3>2, <3>3 DEF DoneIds, RtsOfChain
  <2>6. ASSUME id \in DoneIds(d)' PROVE FALSE
    <3>1. PICK r \in DOMAIN rt' :
             /\ rt'[r].chain = d /\ rt'[r].step = id /\ rt'[r].state = "done"
             /\ \A q \in DOMAIN rt' : rt'[q].chain = d /\ rt'[q].step = id => q <= r
      BY <2>6 DEF DoneIds, RtsOfChain
    <3>2. r \in DOMAIN rt /\ n <= r
      BY <2>1, <3>1
    <3>3. QED
      BY <2>2, <2>3, <2>4, <3>2
  <2>7. QED
    BY <2>1, <2>5, <2>6, CompletedEffect
<1>8. QED
  BY <1>3, <1>4, <1>5, <1>6, <1>7

LEMMA TaskStepTaken ==
    ASSUME Refs, DrivesOK, NEW t \in tasks,
           PopStepRt(t) \/ PushStepRt(t) \/ RepopStepRt(t) \/ Completed(t) \/ StepFails(t)
    PROVE  /\ \A c : c # t.chain => Taken(c)' \subseteq Taken(c)
           /\ Taken(t.chain)' \subseteq Taken(t.chain) \cup {t.step.id}
           /\ ~(PopStepRt(t) \/ RepopStepRt(t)) => Taken(t.chain)' \subseteq Taken(t.chain)
           /\ (PushStepRt(t) /\ \A u \in tasks : u.chain = t.chain => u.drive = t.drive) =>
                 t.step.id \notin Taken(t.chain)'
           /\ Completed(t) => t.step.id \in Taken(t.chain)
<1> DEFINE d == t.chain
           id == t.step.id
<1>1. \A u \in tasks : u.drive = t.drive /\ u.step.id = id => u = t
  BY DEF DrivesOK
<1>2. ASSUME NEW y, GoesOn(t, y)
      PROVE  /\ \A c : c # d => Taken(c)' \subseteq Taken(c)
             /\ Taken(d)' \subseteq Taken(d) \cup {id}
             /\ y.pc \notin {"push", "run"} => Taken(d)' \subseteq Taken(d)
             /\ (y.pc \notin {"push", "run"} /\ \A u \in tasks : u.chain = d => u.drive = t.drive) =>
                   id \notin Taken(d)'
  <2>1. tasks' = (tasks \ {t}) \cup {y} /\ y.chain = d /\ y.step = t.step
    BY <1>2 DEF GoesOn
  <2>2. QED
    BY <1>1, <2>1 DEF Taken
<1>3. CASE PopStepRt(t)
  <2>1. (\E y : GoesOn(t, y)) /\ t.pc = "pop"
    BY <1>3, PopEffect
  <2>2. QED
    BY <1>2, <1>3, <2>1, PushEffect, CompletedEffect
<1>4. CASE RepopStepRt(t)
  <2>1. (\E y : GoesOn(t, y)) /\ t.pc = "repop"
    BY <1>4, RepopEffect
  <2>2. QED
    BY <1>2, <1>4, <2>1, PushEffect, CompletedEffect
<1>5. CASE PushStepRt(t)
  <2>1. PICK y : GoesOn(t, y) /\ y.pc = "repop"
    BY <1>5, PushEffect
  <2>2. t.pc = "push"
    BY <1>5, PushEffect
  <2>3. QED
    BY <1>2, <2>1, <2>2, CompletedEffect
<1>6. CASE Completed(t)
  <2>1. t.pc = "run" /\ \A v \in tasks' : \E u \in tasks \ {t} : Reached(t, u, v)
    BY <1>6, CompletedEffect
  <2>2. \A c : Taken(c)' \subseteq Taken(c)
    BY <2>1 DEF Taken, Reached
  <2>3. id \in Taken(d)
    BY <2>1 DEF Taken
  <2>4. QED
    BY <2>1, <2>2, <2>3, PushEffect
<1>7. CASE StepFails(t) /\ ~Completed(t) /\ ~PushStepRt(t)
  <2>1. tasks' = tasks \ {t}
    BY <1>7, FailsEffect
  <2>2. \A c : Taken(c)' \subseteq Taken(c)
    BY <2>1 DEF Taken
  <2>3. QED
    BY <1>7, <2>2
<1>8. QED
  BY <1>3, <1>4, <1>5, <1>6, <1>7
\* A chain without strays has only tasks of the drive under way.
LEMMA NotStrayed ==
    ASSUME Refs, DrivesOK, NEW t \in tasks, ~chain[t.chain].strayed
    PROVE  /\ w.chain = t.chain /\ w.pc = "steps" /\ t.drive = w.drive
           /\ \A u \in tasks : u.chain = t.chain => u.drive = t.drive
<1>1. \A u \in tasks :
         /\ u.drive = w.drive => u.chain = w.chain
         /\ chain[u.chain].strayed \/ (u.drive = w.drive /\ w.pc = "steps")
  BY DEF DrivesOK
<1>2. QED
  BY <1>1

LEMMA TaskStepQueued ==
    ASSUME Refs, DrivesOK, DriveContextOK, QueuedOK, QueuedNowOK, NEW t \in tasks,
           PopStepRt(t) \/ PushStepRt(t) \/ RepopStepRt(t) \/ Completed(t) \/ StepFails(t)
    PROVE  QueuedOK' /\ QueuedNowOK'
<1> DEFINE d == t.chain
           id == t.step.id
           n == Len(rt) + 1
<1>1. Kept /\ d \in ChainIds /\ Refs'
  BY TaskStepKeeps, TaskStepRefs, TaskStepHeirs, TasksAreKept, TaskFacts DEF Refs, Kept
<1>2. ChainIds' = ChainIds
  BY PopEffect, PushEffect, RepopEffect, CompletedEffect, FailsWorker DEF ChainIds
<1>3. /\ w'.chain = w.chain
      /\ w'.pc = "steps" => w.pc = "steps" /\ ~(StepFails(t) /\ t.drive = w.drive)
      /\ (w'.pc = "handoff" \/ HandingOff') => (w.pc = "handoff" \/ HandingOff)
  <2>1. /\ w'.chain = w.chain
        /\ UNCHANGED w \/ (w'.pc = "fail" /\ w'.group = 0)
        /\ w'.pc = "steps" => ~(StepFails(t) /\ t.drive = w.drive)
    BY PopEffect, PushEffect, RepopEffect, CompletedEffect, FailsWorker
  <2>2. QED
    BY <2>1 DEF HandingOff
<1>4. id \in RtIds(d)
  BY TaskFacts DEF Refs, TasksOK, RtIds
<1>5. /\ \A c : c # d => Entries(c)' = Entries(c)
      /\ (PopStepRt(t) \/ RepopStepRt(t)) =>
            \/ Entries(d)' = {}
            \/ \E r \in Entries(d) : Entries(d)' = Entries(d) \ {r}
      /\ PushStepRt(t) => Entries(d)' = Entries(d) \cup {n}
      /\ (Completed(t) \/ StepFails(t)) => Entries(d)' = Entries(d)
  BY TaskStepEntries
<1>6. /\ \A c : c # d => DoneIds(c)' \subseteq DoneIds(c)
      /\ ~Completed(t) => DoneIds(d)' \subseteq DoneIds(d)
      /\ PushStepRt(t) => id \notin DoneIds(d)'
      /\ Completed(t) => DoneIds(d)' \subseteq DoneIds(d) \cup {id}
  BY TaskStepDone
<1>7. /\ \A c : c # d => Taken(c)' \subseteq Taken(c)
      /\ Taken(d)' \subseteq Taken(d) \cup {id}
      /\ ~(PopStepRt(t) \/ RepopStepRt(t)) => Taken(d)' \subseteq Taken(d)
      /\ (PushStepRt(t) /\ \A u \in tasks : u.chain = d => u.drive = t.drive) => id \notin Taken(d)'
      /\ Completed(t) => id \in Taken(d)
  BY TaskStepTaken
<1>8. /\ PushStepRt(t) => t.pc = "push" /\ ctx' = ctx
      /\ (PopStepRt(t) \/ RepopStepRt(t) \/ StepFails(t)) => ctx' = ctx
      /\ DOMAIN ctx' \subseteq DOMAIN ctx \cup {id}
      /\ t.pc \in {"push", "run"} => id \in Taken(d)
      /\ Completed(t) => t.pc = "run"
      /\ PopStepRt(t) => t.pc = "pop"
      /\ RepopStepRt(t) => t.pc = "repop"
  <2>1. ctx' = ctx \/ ctx' = WithOutput(ctx, t.step)
    BY DrivesOK, TaskStepContextOf
  <2>2. DOMAIN ctx' \subseteq DOMAIN ctx \cup {id}
    BY <2>1 DEF WithOutput
  <2>3. QED
    BY <2>2, PopEffect, PushEffect, RepopEffect, FailsEffect, CompletedEffect DEF Taken
<1> HIDE DEF d, id, n
<1>9. ASSUME NEW c \in ChainIds, ~chain'[c].strayed
      PROVE  /\ ~chain[c].strayed /\ RtIds(c)' = RtIds(c)
             /\ IsFiniteSet(Entries(c)) /\ IsFiniteSet(Due(c)) /\ IsFiniteSet(DueNow(c))
             /\ IsFiniteSet(Due(c)') /\ IsFiniteSet(DueNow(c)')
  <2>1. ~chain[c].strayed
    BY <1>1, <1>9 DEF Kept, ChainsKept
  <2>2. RtIds(c)' = RtIds(c)
    BY <1>1, RtIdsKept
  <2>3. IsFiniteSet(Entries(c)) /\ IsFiniteSet(RtIds(c)) /\ IsFiniteSet(Due(c)) /\ IsFiniteSet(DueNow(c))
    BY RtIdsFacts, EntriesAreFinite
  <2>4. Due(c)' \in SUBSET RtIds(c) /\ DueNow(c)' \in SUBSET RtIds(c)
    BY <2>2 DEF Due, DueNow
  <2>5. QED
    BY <2>1, <2>2, <2>3, <2>4, FS_Subset
\* The two sets of steps for which a pop is to come, in the same way.
<1>10. ASSUME NEW c \in ChainIds, ~chain'[c].strayed, c # d, Covered(Entries(c), Due(c))
       PROVE  Covered(Entries(c)', Due(c)')
  <2>1. Due(c) \subseteq Due(c)'
    BY <1>6, <1>7, <1>9, <1>10 DEF Due
  <2>2. QED
    BY <1>5, <1>9, <1>10, <2>1, CoverLess
<1>11. ASSUME ~chain'[d].strayed
       PROVE  /\ w.chain = d /\ w.pc = "steps" /\ t.drive = w.drive
              /\ Covered(Entries(d)', Due(d)')
              /\ w'.pc = "steps" => Covered(Entries(d)', DueNow(d)')
  <2>1. /\ w.chain = d /\ w.pc = "steps" /\ t.drive = w.drive /\ ~chain[d].strayed
        /\ \A u \in tasks : u.chain = d => u.drive = t.drive
    BY <1>1, <1>9, <1>11, NotStrayed DEF d
  <2>2. Covered(Entries(d), Due(d)) /\ Covered(Entries(d), DueNow(d))
    BY <1>1, <2>1 DEF QueuedOK, QueuedNowOK
  <2>3. /\ IsFiniteSet(Entries(d)) /\ IsFiniteSet(Due(d)) /\ IsFiniteSet(DueNow(d))
        /\ IsFiniteSet(Due(d)') /\ IsFiniteSet(DueNow(d)') /\ RtIds(d)' = RtIds(d)
    BY <1>1, <1>9, <1>11
  <2>4. CASE PopStepRt(t) \/ RepopStepRt(t)
    <3>1. /\ \/ Entries(d)' = {}
             \/ \E r \in Entries(d) : Entries(d)' = Entries(d) \ {r}
          /\ ~Completed(t) /\ ctx' = ctx
      BY <1>5, <1>8, <2>4
    <3>2. Due(d) \ {id} \subseteq Due(d)'
      BY <1>6, <1>7, <2>3, <3>1 DEF Due
    <3>3. DueNow(d) \ {id} \subseteq DueNow(d)'
      BY <1>7, <2>3, <3>1 DEF DueNow
    <3>4. QED
      BY <2>1, <2>2, <2>3, <3>1, <3>2, <3>3, CoverPop
  <2>5. CASE PushStepRt(t)
    <3>1. Entries(d)' = Entries(d) \cup {n} /\ ctx' = ctx /\ id \in Taken(d) /\ ~Completed(t)
      BY <1>5, <1>8, <2>5
    <3>2. id \notin Taken(d)' /\ id \notin DoneIds(d)' /\ id \notin DOMAIN ctx
      BY <1>6, <1>7, <2>1, <2>5 DEF DriveContextOK, Running, id
    <3>3. Due(d) \cup {id} \subseteq Due(d)' /\ id \notin Due(d)
      BY <1>4, <1>6, <1>7, <2>3, <2>5, <3>1, <3>2 DEF Due
    <3>4. DueNow(d) \cup {id} \subseteq DueNow(d)' /\ id \notin DueNow(d)
      BY <1>4, <1>7, <2>3, <2>5, <3>1, <3>2 DEF DueNow
    <3>5. Covered(Entries(d) \cup {n}, Due(d)')
      BY <2>2, <2>3, <3>3, CoverPush
    <3>6. Covered(Entries(d) \cup {n}, DueNow(d)')
      BY <2>2, <2>3, <3>4, CoverPush
    <3>7. QED
      BY <2>1, <3>1, <3>5, <3>6
  <2>6. CASE (Completed(t) \/ StepFails(t)) /\ ~PushStepRt(t) /\ ~PopStepRt(t) /\ ~RepopStepRt(t)
    <3>1. Entries(d)' = Entries(d) /\ Taken(d)' \subseteq Taken(d)
      BY <1>5, <1>7, <2>6
    <3>2. CASE Completed(t)
      <4>1. Due(d) \subseteq Due(d)'
        BY <1>6, <1>7, <2>3, <3>1, <3>2 DEF Due
      <4>2. DueNow(d) \subseteq DueNow(d)'
        BY <1>7, <1>8, <2>3, <3>1, <3>2 DEF DueNow
      <4>3. QED
        BY <2>1, <2>2, <2>3, <3>1, <4>1, <4>2, CoverLess
    <3>3. CASE StepFails(t) /\ ~Completed(t)
      <4>1. Due(d) \subseteq Due(d)'
        BY <1>6, <2>3, <3>1, <3>3 DEF Due
      <4>2. w'.pc # "steps"
        BY <1>3, <2>1, <3>3
      <4>3. QED
        BY <2>1, <2>2, <2>3, <3>1, <4>1, <4>2, CoverLess
    <3>4. QED
      BY <2>6, <3>2, <3>3
  <2>7. QED
    BY <2>4, <2>5, <2>6
<1>12. QueuedOK'
  <2>1. ASSUME NEW c \in ChainIds, ~chain'[c].strayed PROVE Covered(Entries(c)', Due(c)')
    <3>1. CASE c = d
      BY <1>11, <2>1, <3>1
    <3>2. CASE c # d
      BY <1>9, <1>10, <2>1, <3>2 DEF QueuedOK
    <3>3. QED
      BY <3>1, <3>2
  <2>2. \A c \in ChainIds : ~chain'[c].strayed => Covered(Entries(c)', Due(c)')
    BY <2>1
  <2>3. QED
    BY <1>2, <2>2 DEF QueuedOK
<1>13. QueuedNowOK'
  <2>1. ASSUME NEW c \in ChainIds, c = w.chain, ~chain'[c].strayed
        PROVE  /\ w'.pc = "steps" => Covered(Entries(c)', DueNow(c)')
               /\ (w'.pc = "handoff" \/ HandingOff') => Entries(c)' = {}
    <3>1. CASE c = d
      <4>1. ~(w.pc = "handoff" \/ HandingOff)
        BY <1>11, <2>1, <3>1 DEF HandingOff
      <4>2. QED
        BY <1>3, <1>11, <2>1, <3>1, <4>1
    <3>2. CASE c # d
      <4>1. /\ w.pc = "steps" => Covered(Entries(c), DueNow(c))
            /\ (w.pc = "handoff" \/ HandingOff) => Entries(c) = {}
        BY <1>9, <2>1 DEF QueuedNowOK
      <4>2. t.drive # w.drive
        BY <2>1, <3>2 DEF DrivesOK, d
      <4>3. ctx' = ctx
        BY <4>2, TaskStepContextOf
      <4>4. DueNow(c) \subseteq DueNow(c)'
        BY <1>7, <1>9, <2>1, <3>2, <4>3 DEF DueNow
      <4>5. Entries(c)' = Entries(c)
        BY <1>5, <3>2
      <4>6. QED
        BY <1>3, <1>9, <2>1, <4>1, <4>4, <4>5, CoverLess
    <3>3. QED
      BY <3>1, <3>2
  <2>2. \A c \in ChainIds : c = w.chain /\ ~chain'[c].strayed =>
           /\ w'.pc = "steps" => Covered(Entries(c)', DueNow(c)')
           /\ (w'.pc = "handoff" \/ HandingOff') => Entries(c)' = {}
    BY <2>1
  <2>3. QED
    BY <1>2, <1>3, <2>2 DEF QueuedNowOK
<1>14. QED
  BY <1>12, <1>13
\* The RTs a chain is created with are no more than its steps that run on one.
LEMMA NewEntriesCovered ==
    ASSUME NEW id \in Nat, NEW q \in Pipelines, NEW rts \in Seq(NewRts(id, q)), IsInjective(rts),
           NEW n \in Nat
    PROVE  Covered((n + 1)..(n + Len(rts)), {s.id : s \in {x \in AllSteps(q) : x.llm \/ x.tool}})
<1> DEFINE S == {x \in AllSteps(q) : x.llm \/ x.tool}
           T == {s.id : s \in S}
           E == (n + 1)..(n + Len(rts))
           f == [e \in E |-> rts[e - n].step]
<1>1. Len(rts) \in Nat /\ DOMAIN rts = 1..Len(rts)
  OBVIOUS
<1>2. IsFiniteSet(T)
  <2>1. IsFiniteSet(AllSteps(q)) /\ S \in SUBSET AllSteps(q)
    BY StepsAreFinite
  <2>2. IsFiniteSet(S)
    BY <2>1, FS_Subset
  <2> DEFINE g == [s \in S |-> s.id]
  <2>3. g \in Surjection(S, T)
    <3> HIDE DEF S
    <3>1. QED
      BY DEF Surjection
  <2>4. QED
    <3> HIDE DEF S, T, g
    <3>1. QED
      BY <2>2, <2>3, FS_Surjection
<1>3. \A i \in 1..Len(rts) : rts[i].step \in T /\ rts[i] = NewRt(id, rts[i].step)
  <2> HIDE DEF S
  <2>1. \A i \in 1..Len(rts) : rts[i] \in NewRts(id, q)
    OBVIOUS
  <2>2. \A x \in NewRts(id, q) : x.step \in T /\ x = NewRt(id, x.step)
    BY DEF NewRts, NewRt, S
  <2>3. QED
    BY <2>1, <2>2
<1>4. \A e \in E : e - n \in 1..Len(rts)
  BY <1>1
<1>5. \A i, j \in 1..Len(rts) : rts[i].step = rts[j].step => i = j
  BY <1>1, <1>3 DEF IsInjective
<1>6. \A a, b \in E : a - n = b - n => a = b
  BY <1>1
<1>7. f \in Injection(E, T)
  <2>1. f \in [E -> T]
    <3> HIDE DEF T, E
    <3>1. QED
      BY <1>3, <1>4
  <2>2. \A a, b \in E : f[a] = f[b] => a = b
    <3> HIDE DEF T, E
    <3>1. QED
      BY <1>4, <1>5, <1>6
  <2>3. QED
    <3> HIDE DEF T, E, f
    <3>1. QED
      BY <2>1, <2>2 DEF Injection, IsInjective
<1>8. Cardinality(E) <= Cardinality(T)
  <2> HIDE DEF T, E, f
  <2>1. QED
    BY <1>2, <1>7, FS_Injection
<1>9. QED
  BY <1>8 DEF Covered

\* What a step of the worker that creates no chain does to the RTs and tasks of chains.
LEMMA WorkerStepSets ==
    ASSUME Refs, DrivesOK, Kept,
           \/ Select \/ Start \/ NextGroup \/ Resolve \/ HandedOff \/ Settle \/ Drain \/ Restart
           \/ UNCHANGED vars \/ (HandOff /\ UNCHANGED <<chain, rt, queue>>)
    PROVE  /\ ChainIds' = ChainIds
           /\ \A c : /\ Entries(c)' \subseteq Entries(c)
                     /\ DoneIds(c)' \subseteq DoneIds(c)
                     /\ Taken(c)' \subseteq Taken(c)
<1>1. RtsKept
  BY DEF Kept
<1>2. CASE UNCHANGED <<rt, queue>> /\ ChainIds' = ChainIds
           /\ \A u \in tasks' : u \in tasks \/ u.pc = "pop"
  <2>1. \A c : Taken(c)' \subseteq Taken(c)
    BY <1>2 DEF Taken
  <2>2. \A c : Entries(c)' = Entries(c)
    BY <1>2 DEF Entries
  <2>3. \A c : DoneIds(c)' = DoneIds(c)
    BY <1>2 DEF DoneIds, RtsOfChain
  <2>4. QED
    BY <1>2, <2>1, <2>2, <2>3
<1>3. CASE Select \/ Resolve \/ HandedOff \/ UNCHANGED vars \/ (HandOff /\ UNCHANGED <<chain, rt, queue>>)
  <2>1. UNCHANGED <<chain, rt, queue, tasks>>
    BY <1>3, SelectEffect, ResolveEffect, HandOffEffect, HandedOffEffect DEF vars
  <2>2. QED
    BY <1>2, <2>1 DEF ChainIds
<1>4. CASE Start
  <2>1. UNCHANGED <<rt, queue, tasks>> /\ ChainIds' = ChainIds
    BY <1>4, StartEffect
  <2>2. QED
    BY <1>2, <2>1
<1>5. CASE Settle
  <2>1. UNCHANGED <<rt, queue, tasks>> /\ ChainIds' = ChainIds
    BY <1>5, SettleEffect
  <2>2. QED
    BY <1>2, <2>1
<1>6. CASE Restart
  <2>1. UNCHANGED <<rt, queue>> /\ tasks' = {} /\ ChainIds' = ChainIds
    BY <1>6, RestartEffect
  <2>2. QED
    BY <1>2, <2>1
<1>7. CASE NextGroup
  <2> DEFINE c == w.chain
             B == Begun(c, w.group + 1, ctx, w.drive)
  <2>1. /\ UNCHANGED <<rt, queue>> /\ c \in ChainIds
        /\ \/ UNCHANGED <<chain, tasks>>
           \/ /\ tasks' = tasks \cup B /\ \A u \in B : Fresh(u, c, w.group + 1)
              /\ \/ UNCHANGED chain \/ chain' = Strayed(c, w.drive)
    BY <1>7, NextGroupEffect
  <2>2. ChainIds' = ChainIds
    BY <2>1, StrayedFacts DEF Refs, ChainIds
  <2>3. \A u \in tasks' : u \in tasks \/ u.pc = "pop"
    <3> HIDE DEF B
    <3>1. QED
      BY <2>1 DEF Fresh
  <2>4. QED
    BY <1>2, <2>1, <2>2, <2>3
<1>8. CASE Drain
  <2> DEFINE r == Popped(w.chain)
  <2>1. /\ UNCHANGED <<chain, tasks>>
        /\ \/ UNCHANGED <<rt, queue>>
           \/ /\ ToSet(queue') = ToSet(queue) \ {r}
              /\ DOMAIN rt' = DOMAIN rt
              /\ \A q \in DOMAIN rt : q # r => rt'[q] = rt[q]
              /\ rt'[r].state = "failed"
    BY <1>8, DrainEffect
  <2> HIDE DEF r
  <2>2. CASE UNCHANGED <<rt, queue>>
    BY <1>2, <2>1, <2>2 DEF ChainIds
  <2>3. CASE /\ ToSet(queue') = ToSet(queue) \ {r}
             /\ DOMAIN rt' = DOMAIN rt
             /\ \A q \in DOMAIN rt : q # r => rt'[q] = rt[q]
             /\ rt'[r].state = "failed"
    <3>1. \A c : Entries(c)' = Entries(c) \ {r}
      BY <1>1, <2>3, EntriesLess
    <3>2. \A c : DoneIds(c)' \subseteq DoneIds(c) \cup {}
      BY <1>1, <2>3, DoneIdsFacts
    <3>3. \A c : Taken(c)' = Taken(c)
      BY <2>1 DEF Taken
    <3>4. QED
      BY <2>1, <3>1, <3>2, <3>3 DEF ChainIds
  <2>4. QED
    BY <2>1, <2>2, <2>3
<1>9. QED
  BY <1>3, <1>4, <1>5, <1>6, <1>7, <1>8

\* The new chain of a hand-off has all its RTs in the queue and all its steps to come.
LEMMA HandOffSets ==
    ASSUME Refs, NEW p, NEW q \in Pipelines, NEW id, NEW n, NEW rts, Called(p, q, id, n, rts),
           tasks' = tasks
    PROVE  /\ \A c \in ChainIds :
                 /\ Entries(c)' = Entries(c) /\ DoneIds(c)' = DoneIds(c) /\ Taken(c)' = Taken(c)
           /\ Covered(Entries(id)', Due(id)')
           /\ Entries(id)' \subseteq (n + 1)..(n + Len(rts))
<1> DEFINE E == (n + 1)..(n + Len(rts))
<1>1. /\ rts \in Seq(NewRts(id, q)) /\ IsInjective(rts)
      /\ id \notin ChainIds /\ ChainIds' = ChainIds \cup {id} /\ id \in Nat
      /\ chain'[id].pipe = q
      /\ DOMAIN rt' = DOMAIN rt \cup E
      /\ \A r \in DOMAIN rt : rt'[r] = rt[r] /\ r <= n
      /\ \A i \in 1..Len(rts) :
            rt'[n + i] = rts[i] /\ rts[i].chain = id /\ rts[i].state = "pending"
      /\ n \in Nat
      /\ ToSet(queue') = ToSet(queue) \cup E
  BY DEF Called
<1>2. /\ \A r \in DOMAIN rt : rt[r].chain \in ChainIds
      /\ ToSet(queue) \subseteq DOMAIN rt
      /\ \A t \in tasks : t.chain \in ChainIds
  BY DEF Refs, RefsOK, TasksOK
<1>3. Len(rts) \in Nat
  BY <1>1
<1>4. \A e \in E : rt'[e].chain = id /\ rt'[e].state = "pending"
  <2>1. SUFFICES ASSUME NEW e \in E PROVE rt'[e].chain = id /\ rt'[e].state = "pending"
    OBVIOUS
  <2>2. e - n \in 1..Len(rts) /\ n + (e - n) = e
    BY <1>1, <1>3
  <2>3. QED
    BY <1>1, <2>2
<1>5. Covered(E, {s.id : s \in {x \in AllSteps(q) : x.llm \/ x.tool}})
  BY <1>1, NewEntriesCovered
<1> HIDE DEF E
<1>6. ASSUME NEW c \in ChainIds
      PROVE  Entries(c)' = Entries(c) /\ DoneIds(c)' = DoneIds(c) /\ Taken(c)' = Taken(c)
  <2>1. Entries(c)' = Entries(c)
    BY <1>1, <1>2, <1>4, <1>6 DEF Entries
  <2>2. RtsOfChain(c)' = RtsOfChain(c) /\ \A r \in RtsOfChain(c) : rt'[r] = rt[r]
    BY <1>1, <1>2, <1>4, <1>6 DEF RtsOfChain
  <2>3. DoneIds(c)' = DoneIds(c)
    BY <2>2 DEF DoneIds
  <2>4. QED
    BY <2>1, <2>3 DEF Taken
<1>7. Entries(id)' \subseteq E
  BY <1>1, <1>2 DEF Entries
<1>8. DoneIds(id)' = {}
  BY <1>1, <1>2, <1>4 DEF DoneIds, RtsOfChain
<1>9. Taken(id)' = {}
  BY <1>1, <1>2 DEF Taken
<1>10. Due(id)' = {s.id : s \in {x \in AllSteps(q) : x.llm \/ x.tool}}
  BY <1>1, <1>8, <1>9 DEF Due, RtIds
<1>11. IsFiniteSet(E)
  <2>1. n + 1 \in Int /\ n + Len(rts) \in Int
    BY <1>1, <1>3
  <2>2. QED
    BY <2>1, FS_Interval DEF E
<1>12. Covered(Entries(id)', Due(id)')
  <2>1. Cardinality(Entries(id)') <= Cardinality(E) /\ Cardinality(Entries(id)') \in Nat
        /\ Cardinality(E) \in Nat
    BY <1>7, <1>11, FS_Subset, FS_CardinalityType
  <2>2. Cardinality(Due(id)') \in Nat
    <3> DEFINE S == {x \in AllSteps(q) : x.llm \/ x.tool}
               T == {s.id : s \in S}
               g == [s \in S |-> s.id]
    <3>1. IsFiniteSet(AllSteps(q)) /\ S \in SUBSET AllSteps(q)
      BY StepsAreFinite
    <3>2. IsFiniteSet(S)
      BY <3>1, FS_Subset
    <3>3. g \in Surjection(S, T)
      <4> HIDE DEF S
      <4>1. QED
        BY DEF Surjection
    <3>4. IsFiniteSet(T)
      <4> HIDE DEF S, T, g
      <4>1. QED
        BY <3>2, <3>3, FS_Surjection
    <3>5. QED
      BY <1>10, <3>4, FS_CardinalityType
  <2>3. QED
    BY <1>5, <1>10, <2>1, <2>2 DEF Covered
<1>13. QED
  BY <1>6, <1>7, <1>12 DEF E


LEMMA WorkerStepQueued ==
    ASSUME Refs, DrivesOK, DriveContextOK, QueuedOK, QueuedNowOK,
           \/ Select \/ Start \/ NextGroup \/ Resolve \/ HandOff \/ HandedOff \/ Settle
           \/ Drain \/ Restart \/ UNCHANGED vars
    PROVE  QueuedOK' /\ QueuedNowOK'
<1>1. Kept
  BY WorkerStepKeeps
<1>2. ASSUME NEW c \in ChainIds, ~chain'[c].strayed
      PROVE  ~chain[c].strayed /\ RtIds(c)' = RtIds(c)
             /\ IsFiniteSet(Entries(c)) /\ IsFiniteSet(Due(c)')  /\ IsFiniteSet(DueNow(c)')
             /\ Due(c)' \subseteq RtIds(c)
  <2>1. ~chain[c].strayed
    BY <1>1, <1>2 DEF Kept, ChainsKept
  <2>2. RtIds(c)' = RtIds(c)
    BY <1>1, RtIdsKept
  <2>3. IsFiniteSet(Entries(c)) /\ IsFiniteSet(RtIds(c))
    <3>1. RtIds(c) \subseteq Due(c) \cup DoneIds(c) \cup Taken(c)
      BY DEF Due
    <3>2. QED
      BY RtIdsFacts, EntriesAreFinite
  <2>4. Due(c)' \in SUBSET RtIds(c) /\ DueNow(c)' \in SUBSET RtIds(c)
    BY <2>2 DEF Due, DueNow
  <2>5. QED
    BY <2>1, <2>2, <2>3, <2>4, FS_Subset
<1> DEFINE Quiet == \A c : /\ Entries(c)' \subseteq Entries(c)
                          /\ DoneIds(c)' \subseteq DoneIds(c)
                          /\ Taken(c)' \subseteq Taken(c)
<1>3. ASSUME ChainIds' = ChainIds, Quiet
      PROVE  QueuedOK'
  <2>1. ASSUME NEW c \in ChainIds, ~chain'[c].strayed PROVE Covered(Entries(c)', Due(c)')
    <3>1. Covered(Entries(c), Due(c))
      BY <1>2, <2>1 DEF QueuedOK
    <3>2. Due(c) \subseteq Due(c)'
      BY <1>2, <1>3, <2>1 DEF Due
    <3>3. QED
      BY <1>2, <1>3, <2>1, <3>1, <3>2, CoverLess
  <2>2. \A c \in ChainIds : ~chain'[c].strayed => Covered(Entries(c)', Due(c)')
    BY <2>1
  <2>3. QED
    BY <1>3, <2>2 DEF QueuedOK
<1> HIDE DEF Quiet
<1>4. ASSUME w'.pc \notin {"steps", "handoff"}, ~HandingOff'
      PROVE  QueuedNowOK'
  BY <1>4 DEF QueuedNowOK
<1> DEFINE Now(c) == /\ w'.pc = "steps" => Covered(Entries(c)', DueNow(c)')
                     /\ (w'.pc = "handoff" \/ HandingOff') => Entries(c)' = {}
<1>5. ASSUME w'.chain = w.chain,
             \A c \in ChainIds : c = w.chain /\ ~chain'[c].strayed => Now(c),
             w.chain \in ChainIds
      PROVE  QueuedNowOK'
  BY <1>5 DEF QueuedNowOK
<1> HIDE DEF Now
\* The queue of the chain that is handed off stays empty.
<1>6. ASSUME w'.pc # "steps", w.pc = "handoff" \/ HandingOff,
             NEW c \in ChainIds, c = w.chain, ~chain'[c].strayed, Entries(c)' \subseteq Entries(c)
      PROVE  Now(c)
  BY <1>2, <1>6 DEF QueuedNowOK, Now
<1>7. CASE Select \/ Settle \/ Drain \/ Restart
  <2>1. ChainIds' = ChainIds /\ Quiet
    BY <1>1, <1>7, WorkerStepSets DEF Quiet
  <2>2. w'.pc \notin {"steps", "handoff", "finish", "fail"}
    <3>1. Select => w'.pc = "start"
      BY SelectEffect
    <3>2. Settle => w'.pc = "drain"
      BY SettleEffect
    <3>3. Restart => w'.pc = "select"
      BY RestartEffect
    <3>4. Drain => w'.pc \in {"drain", "select"}
      BY DrainEffect
    <3>5. QED
      BY <1>7, <3>1, <3>2, <3>3, <3>4
  <2>3. QED
    BY <1>3, <1>4, <2>1, <2>2 DEF HandingOff
<1>8. CASE Start
  <2>1. ChainIds' = ChainIds /\ Quiet
    BY <1>1, <1>8, WorkerStepSets DEF Quiet
  <2>2. QueuedOK'
    BY <1>3, <2>1
  <2>3. /\ w.chain \in ChainIds /\ w'.pc = "steps" /\ w'.chain = w.chain
        /\ ctx' = IF w.again THEN Rehydrated(w.chain) ELSE NoNames
        /\ UNCHANGED rt
    BY <1>8, StartEffect
  <2>4. ASSUME NEW c \in ChainIds, c = w.chain, ~chain'[c].strayed
        PROVE  Now(c)
    <3>1. DOMAIN ctx' \subseteq DoneIds(c)
      <4>1. DOMAIN Rehydrated(c) \subseteq DoneIds(c)
        BY RehydratedFacts
      <4>2. DOMAIN NoNames = {}
        BY DEF NoNames
      <4>3. QED
        BY <2>3, <2>4, <4>1, <4>2
    <3>2. DoneIds(c)' = DoneIds(c)
      BY <2>3 DEF DoneIds, RtsOfChain
    <3>3. Due(c)' \subseteq DueNow(c)'
      BY <3>1, <3>2 DEF Due, DueNow
    <3>4. Covered(Entries(c)', Due(c)')
      BY <2>1, <2>2, <2>4 DEF QueuedOK
    <3>5. Entries(c)' \in SUBSET Entries(c)
      BY <2>1 DEF Quiet
    <3>6. IsFiniteSet(Entries(c)') /\ IsFiniteSet(DueNow(c)')
      BY <1>2, <2>4, <3>5, FS_Subset
    <3>7. Covered(Entries(c)', DueNow(c)')
      BY <3>3, <3>4, <3>6, CoverLess
    <3>8. QED
      BY <2>3, <3>7 DEF HandingOff, Now
  <2>5. QED
    BY <1>5, <2>2, <2>3, <2>4
<1>9. CASE NextGroup
  <2>1. ChainIds' = ChainIds /\ Quiet
    BY <1>1, <1>9, WorkerStepSets DEF Quiet
  <2>2. QueuedOK'
    BY <1>3, <2>1
  <2>3. /\ UNCHANGED ctx
        /\ w.pc = "steps" /\ w.chain \in ChainIds /\ Running = {} /\ w.group \in Nat
        /\ w'.chain = w.chain
        /\ \/ w.group + 1 \notin DOMAIN PipeOf(w.chain) /\ w'.pc = "handoff"
           \/ w'.pc = "fail" /\ w'.group = 0
           \/ w'.pc = "steps"
    BY <1>9, NextGroupEffect
  <2>4. ASSUME NEW c \in ChainIds, c = w.chain, ~chain'[c].strayed
        PROVE  Now(c)
    <3>1. Covered(Entries(c), DueNow(c))
      BY <1>2, <2>3, <2>4 DEF QueuedNowOK
    <3>2. CASE w'.pc = "steps"
      <4>1. DueNow(c) \subseteq DueNow(c)'
        BY <1>2, <2>1, <2>3, <2>4 DEF DueNow, Quiet
      <4>2. Covered(Entries(c)', DueNow(c)')
        BY <1>2, <2>1, <2>4, <3>1, <4>1, CoverLess DEF Quiet
      <4>3. QED
        BY <3>2, <4>2 DEF HandingOff, Now
    <3>3. CASE w'.pc = "fail" /\ w'.group = 0
      BY <3>3 DEF HandingOff, Now
    \* All groups are over: no step is to come.
    <3>4. CASE w.group + 1 \notin DOMAIN PipeOf(c) /\ w'.pc = "handoff"
      <4>1. PipeOf(c) \in Seq(Seq(AllSteps(chain[c].pipe)))
        BY ChainFacts, StepsFacts DEF Refs, PipeOf
      <4>2. \A j \in DOMAIN PipeOf(c) : j <= w.group
        BY <2>3, <3>4, <4>1
      <4>3. \A j \in DOMAIN PipeOf(c) : \A s \in StepsAt(c, j) : s.id \in DOMAIN ctx
        BY <2>3, <2>4, <4>2 DEF DriveContextOK
      <4>4. \A s \in AllSteps(chain[c].pipe) : s.id \in DOMAIN ctx
        BY <4>3 DEF AllSteps, StepsAt, PipeOf
      <4>5. DueNow(c) = {}
        BY <4>4 DEF DueNow, RtIds
      <4>6. Cardinality(Entries(c)) <= 0 /\ Cardinality(Entries(c)) \in Nat
        BY <1>2, <2>4, <3>1, <4>5, FS_EmptySet, FS_CardinalityType DEF Covered
      <4>7. Cardinality(Entries(c)) = 0
        BY <4>6
      <4>8. Entries(c) = {}
        BY <1>2, <2>4, <4>7, FS_EmptySet
      <4>9. QED
        BY <2>1, <3>4, <4>8 DEF Quiet, Now
    <3>5. QED
      BY <2>3, <2>4, <3>2, <3>3, <3>4
  <2>5. QED
    BY <1>5, <2>2, <2>3, <2>4
<1>10. CASE Resolve \/ HandedOff \/ (HandOff /\ UNCHANGED <<chain, rt, queue>>)
  <2>1. ChainIds' = ChainIds /\ Quiet
    BY <1>1, <1>10, WorkerStepSets DEF Quiet
  <2>2. w.pc = "handoff" /\ w'.chain = w.chain /\ w'.pc # "steps"
    BY <1>10, ResolveEffect, HandedOffEffect, HandOffEffect
  <2>3. w.chain \in ChainIds
    BY <2>2, WorkerFacts
  <2>4. \A c \in ChainIds : c = w.chain /\ ~chain'[c].strayed => Now(c)
    BY <1>6, <2>1, <2>2 DEF Quiet
  <2>5. QED
    BY <1>3, <1>5, <2>1, <2>2, <2>3, <2>4
<1>11. CASE HandOff /\ ~UNCHANGED <<chain, rt, queue>>
  <2>1. \E id, n : \E q \in Pipelines : Called(w.chain, q, id, n, RtsFor(id, q))
    BY <1>11, HandOffEffect
  <2>2. PICK id, n : \E q \in Pipelines : Called(w.chain, q, id, n, RtsFor(id, q))
    BY <2>1
  <2>3. PICK q \in Pipelines : Called(w.chain, q, id, n, RtsFor(id, q))
    BY <2>2
  <2>4. /\ tasks' = tasks /\ w.pc = "handoff" /\ w'.chain = w.chain
        /\ w.chain \in ChainIds /\ w'.pc # "steps"
    BY <1>11, HandOffEffect
  <2>5. ChainIds' = ChainIds \cup {id}
    BY <2>3 DEF Called
  <2>6. /\ \A c \in ChainIds :
              Entries(c)' = Entries(c) /\ DoneIds(c)' = DoneIds(c) /\ Taken(c)' = Taken(c)
        /\ Covered(Entries(id)', Due(id)')
    BY <2>3, <2>4, HandOffSets
  <2>7. ASSUME NEW c \in ChainIds, ~chain'[c].strayed PROVE Covered(Entries(c)', Due(c)')
    <3>1. Due(c)' = Due(c)
      BY <1>2, <2>6, <2>7 DEF Due
    <3>2. QED
      BY <1>2, <2>6, <2>7, <3>1 DEF QueuedOK
  <2>8. \A c \in ChainIds \cup {id} : ~chain'[c].strayed => Covered(Entries(c)', Due(c)')
    <3>1. \A c \in ChainIds : ~chain'[c].strayed => Covered(Entries(c)', Due(c)')
      BY <2>7
    <3>2. QED
      BY <2>6, <3>1
  <2>9. QueuedOK'
    BY <2>5, <2>8 DEF QueuedOK
  <2>10. \A c \in ChainIds : c = w.chain /\ ~chain'[c].strayed => Now(c)
    BY <1>6, <2>4, <2>6
  <2>11. QED
    BY <1>5, <2>4, <2>9, <2>10
<1>12. CASE UNCHANGED vars
  <2>1. UNCHANGED <<chain, rt, queue, w, tasks, ctx>>
    BY <1>12 DEF vars
  <2>2. ChainIds' = ChainIds /\ Quiet
    BY <1>1, <1>12, WorkerStepSets DEF Quiet
  <2>3. \A c : Entries(c)' = Entries(c) /\ DueNow(c)' = DueNow(c)
    BY <2>1 DEF Entries, DueNow, RtIds, Taken
  <2>4. HandingOff' = HandingOff
    BY <2>1 DEF HandingOff
  <2>5. QueuedNowOK'
    BY <2>1, <2>2, <2>3, <2>4 DEF QueuedNowOK
  <2>6. QED
    BY <1>3, <2>2, <2>5
<1>13. QED
  BY <1>7, <1>8, <1>9, <1>10, <1>11, <1>12
-----------------------------------------------------------------------------
(* Chains that are over. *)

\* What DrivenOK says of the chain c in the next state.
DrivenNext(c) ==
    ~chain'[c].strayed =>
        /\ chain'[c].drives <= 1 + crashes'
        /\ w'.chain # c /\ (c \in w'.resume \/ Entries(c)' # {}) => chain'[c].drives <= crashes'
        /\ w'.chain = c /\ w'.pc = "start" => chain'[c].drives <= crashes'

LEMMA DrivenKept ==
    ASSUME Refs, Kept, DrivenOK, NEW c \in ChainIds,
           chain'[c].drives = chain[c].drives, crashes' = crashes,
           w'.chain = w.chain, w'.resume = w.resume, w'.pc = "start" => w.pc = "start",
           ~chain'[c].strayed => w.chain = c \/ Entries(c)' \subseteq Entries(c)
    PROVE  DrivenNext(c)
<1>1. SUFFICES ASSUME ~chain'[c].strayed PROVE DrivenNext(c)
  BY DEF DrivenNext
<1>2. ~chain[c].strayed
  BY <1>1 DEF Kept, ChainsKept
<1>3. /\ chain[c].drives <= 1 + crashes
      /\ w.chain # c /\ (c \in w.resume \/ Entries(c) # {}) => chain[c].drives <= crashes
      /\ w.chain = c /\ w.pc = "start" => chain[c].drives <= crashes
  BY <1>2 DEF DrivenOK
<1>4. w.chain # c /\ Entries(c)' # {} => Entries(c) # {}
  BY <1>1
<1>5. QED
  BY <1>3, <1>4 DEF DrivenNext

LEMMA TaskStepDriven ==
    ASSUME Refs, DrivesOK, DrivenOK, NEW t \in tasks,
           PopStepRt(t) \/ PushStepRt(t) \/ RepopStepRt(t) \/ Completed(t) \/ StepFails(t)
    PROVE  DrivenOK'
<1>1. Kept
  BY TaskStepKeeps
<1>2. /\ w'.chain = w.chain /\ w'.resume = w.resume /\ crashes' = crashes
      /\ w'.pc = "start" => w.pc = "start"
      /\ ChainIds' = ChainIds /\ \A c \in ChainIds : chain'[c].drives = chain[c].drives
  <2>1. ASSUME UNCHANGED <<w, chain, crashes>>
        PROVE  /\ w'.chain = w.chain /\ w'.resume = w.resume /\ crashes' = crashes
               /\ w'.pc = "start" => w.pc = "start"
               /\ ChainIds' = ChainIds /\ \A c \in ChainIds : chain'[c].drives = chain[c].drives
    BY <2>1 DEF ChainIds
  <2>2. CASE PopStepRt(t) \/ PushStepRt(t) \/ RepopStepRt(t) \/ Completed(t)
    BY <2>1, <2>2, PopEffect, PushEffect, RepopEffect, CompletedEffect
  <2>3. CASE StepFails(t)
    <3>1. crashes' = crashes
      BY <2>3, FailsEffect
    <3>2. QED
      BY <2>1, <2>3, <3>1, FailsWorker
  <2>4. QED
    BY <2>2, <2>3
<1>3. ASSUME NEW c \in ChainIds, ~chain'[c].strayed
      PROVE  w.chain = c \/ Entries(c)' \subseteq Entries(c)
  <2>1. ~chain[c].strayed
    BY <1>1, <1>3 DEF Kept, ChainsKept
  <2>2. CASE c = t.chain
    BY <2>1, <2>2, NotStrayed
  <2>3. CASE c # t.chain
    BY <2>3, TaskStepEntries
  <2>4. QED
    BY <2>2, <2>3
<1>4. \A c \in ChainIds : DrivenNext(c)
  BY <1>1, <1>2, <1>3, DrivenKept
<1>5. QED
  BY <1>2, <1>4 DEF DrivenOK, DrivenNext

LEMMA WorkerStepDriven ==
    ASSUME Refs, DrivesOK, DrivenOK,
           \/ Select \/ Start \/ NextGroup \/ Resolve \/ HandOff \/ HandedOff \/ Settle
           \/ Drain \/ Restart \/ UNCHANGED vars
    PROVE  DrivenOK'
<1>1. Kept
  BY WorkerStepKeeps
<1>2. /\ \A c \in ChainIds : chain[c].drives \in Nat
      /\ crashes \in Nat
      /\ \A c \in ChainIds : c # 0
  BY ChainFacts DEF Refs, TypeOK, ChainRecord
<1>3. \A c \in ChainIds : chain[c].strayed => chain'[c].strayed
  BY <1>1 DEF Kept, ChainsKept
<1>4. ASSUME ChainIds' = ChainIds, \A c \in ChainIds : DrivenNext(c)
      PROVE  DrivenOK'
  BY <1>4 DEF DrivenOK, DrivenNext
<1>5. w.chain \notin w.resume /\ (w.pc = "select" => w.chain = 0)
  BY DEF Refs, RefsOK
<1>6. CASE Select
  <2>1. /\ UNCHANGED <<chain, rt, queue, crashes>> /\ w.pc = "select"
        /\ w'.resume \subseteq w.resume
        /\ w'.chain \in w.resume \/ Entries(w'.chain) # {}
    BY <1>6, SelectEffect
  <2>2. ASSUME NEW c \in ChainIds PROVE DrivenNext(c)
    <3>1. Entries(c)' = Entries(c)
      BY <2>1 DEF Entries
    <3>2. w.chain # c
      BY <1>2, <1>5, <2>1
    <3>3. QED
      BY <2>1, <3>1, <3>2 DEF DrivenOK, DrivenNext
  <2>3. QED
    BY <1>4, <2>1, <2>2 DEF ChainIds
<1>7. CASE Start
  <2>1. /\ UNCHANGED <<rt, queue, crashes>> /\ w.pc = "start"
        /\ ChainIds' = ChainIds /\ w'.chain = w.chain /\ w'.resume = w.resume /\ w'.pc = "steps"
        /\ \A k \in ChainIds : k # w.chain => chain'[k] = chain[k]
        /\ chain'[w.chain].drives = chain[w.chain].drives + 1
    BY <1>7, StartEffect
  <2>2. ASSUME NEW c \in ChainIds PROVE DrivenNext(c)
    <3>1. Entries(c)' = Entries(c)
      BY <2>1 DEF Entries
    <3>2. CASE c = w.chain
      <4>1. ~chain'[c].strayed => chain[c].drives <= crashes
        BY <1>3, <2>1, <3>2 DEF DrivenOK
      <4>2. ~chain'[c].strayed => chain'[c].drives <= 1 + crashes
        BY <1>2, <2>1, <3>2, <4>1
      <4>3. QED
        BY <2>1, <3>2, <4>2 DEF DrivenNext
    <3>3. CASE c # w.chain
      BY <1>1, <2>1, <3>1, <3>3, DrivenKept
    <3>4. QED
      BY <3>2, <3>3
  <2>3. QED
    BY <1>4, <2>1, <2>2
<1>8. CASE NextGroup \/ Resolve \/ HandedOff \/ Settle \/ (HandOff /\ UNCHANGED <<chain, rt, queue>>)
           \/ UNCHANGED vars
  <2>1. ChainIds' = ChainIds /\ \A c : Entries(c)' \subseteq Entries(c)
    BY <1>1, <1>8, WorkerStepSets
  <2>2. /\ w'.chain = w.chain /\ w'.resume = w.resume /\ crashes' = crashes
        /\ w'.pc = "start" => w.pc = "start"
        /\ \A c \in ChainIds : chain'[c].drives = chain[c].drives
    <3>1. CASE NextGroup
      <4> DEFINE c == w.chain
      <4>1. /\ c \in ChainIds /\ crashes' = crashes /\ w'.chain = c /\ w'.resume = w.resume
            /\ w'.pc \in {"handoff", "fail", "steps"}
            /\ UNCHANGED chain \/ chain' = Strayed(c, w.drive)
        BY <3>1, NextGroupEffect
      <4>2. \A k \in ChainIds : chain'[k].drives = chain[k].drives
        BY <4>1, StrayedFacts DEF Refs
      <4>3. QED
        BY <4>1, <4>2
    <3>2. CASE Resolve
      BY <3>2, ResolveEffect
    <3>3. CASE HandedOff
      BY <3>3, HandedOffEffect
    <3>4. CASE Settle
      BY <3>4, SettleEffect
    <3>5. CASE HandOff /\ UNCHANGED <<chain, rt, queue>>
      BY <3>5, HandOffEffect
    <3>6. CASE UNCHANGED vars
      BY <3>6 DEF vars
    <3>7. QED
      BY <1>8, <3>1, <3>2, <3>3, <3>4, <3>5, <3>6
  <2>3. \A c \in ChainIds : DrivenNext(c)
    BY <1>1, <2>1, <2>2, DrivenKept
  <2>4. QED
    BY <1>4, <2>1, <2>3
<1>9. CASE HandOff /\ ~UNCHANGED <<chain, rt, queue>>
  <2>1. \E id, n : \E q \in Pipelines : Called(w.chain, q, id, n, RtsFor(id, q))
    BY <1>9, HandOffEffect
  <2>2. PICK id, n : \E q \in Pipelines : Called(w.chain, q, id, n, RtsFor(id, q))
    BY <2>1
  <2>3. PICK q \in Pipelines : Called(w.chain, q, id, n, RtsFor(id, q))
    BY <2>2
  <2>4. /\ tasks' = tasks /\ w.pc = "handoff" /\ w'.chain = w.chain /\ w'.resume = w.resume
        /\ w.chain \in ChainIds /\ w'.pc # "start" /\ crashes' = crashes
    BY <1>9, HandOffEffect
  <2>5. ChainIds' = ChainIds \cup {id} /\ chain'[id].drives = 0
        /\ \A c \in ChainIds : chain'[c] = chain[c]
    BY <2>3 DEF Called
  <2>6. \A c \in ChainIds : Entries(c)' = Entries(c)
    BY <2>3, <2>4, HandOffSets
  <2>7. \A c \in ChainIds : DrivenNext(c)
    BY <1>1, <2>4, <2>5, <2>6, DrivenKept
  <2>8. DrivenNext(id)
    BY <1>2, <2>4, <2>5 DEF DrivenNext
  <2>9. \A c \in ChainIds \cup {id} : DrivenNext(c)
    BY <2>7, <2>8
  <2>10. QED
    BY <2>5, <2>9 DEF DrivenOK, DrivenNext
<1>10. CASE Drain
  <2>1. ChainIds' = ChainIds /\ \A c : Entries(c)' \subseteq Entries(c)
    BY <1>1, <1>10, WorkerStepSets
  <2>2. /\ UNCHANGED <<chain, crashes>>
        /\ \/ Entries(w.chain) = {} /\ w'.chain = 0 /\ w'.resume = w.resume /\ w'.pc = "select"
           \/ UNCHANGED w
    BY <1>10, DrainEffect
  <2>3. ASSUME NEW c \in ChainIds PROVE DrivenNext(c)
    <3>1. CASE UNCHANGED w
      BY <1>1, <2>1, <2>2, <3>1, DrivenKept
    <3>2. CASE Entries(w.chain) = {} /\ w'.chain = 0 /\ w'.resume = w.resume /\ w'.pc = "select"
      <4>1. (c \in w'.resume \/ Entries(c)' # {}) => w.chain # c
        BY <1>5, <2>1, <3>2
      <4>2. Entries(c)' # {} => Entries(c) # {}
        BY <2>1
      <4>3. QED
        BY <1>2, <2>2, <3>2, <4>1, <4>2 DEF DrivenOK, DrivenNext
    <3>3. QED
      BY <2>2, <3>1, <3>2
  <2>4. QED
    BY <1>4, <2>1, <2>3
<1>11. CASE Restart
  <2>1. /\ crashes' = crashes + 1 /\ ChainIds' = ChainIds
        /\ \A c \in ChainIds : chain'[c].drives = chain[c].drives
    BY <1>11, RestartEffect
  <2>2. ASSUME NEW c \in ChainIds PROVE DrivenNext(c)
    <3>1. ~chain'[c].strayed => chain[c].drives <= 1 + crashes
      BY <1>3 DEF DrivenOK
    <3>2. ~chain'[c].strayed => chain'[c].drives <= crashes' /\ chain'[c].drives <= 1 + crashes'
      BY <1>2, <2>1, <3>1
    <3>3. QED
      BY <3>2 DEF DrivenNext
  <2>3. QED
    BY <1>4, <2>1, <2>2
<1>12. QED
  BY <1>6, <1>7, <1>8, <1>9, <1>10, <1>11
\* What a step of a task is to the worker and the chains.
LEMMA TaskStepWorker ==
    ASSUME Refs, DrivesOK, NEW t \in tasks,
           PopStepRt(t) \/ PushStepRt(t) \/ RepopStepRt(t) \/ Completed(t) \/ StepFails(t)
    PROVE  /\ UNCHANGED w \/ (w.pc = "steps" /\ w'.pc = "fail" /\ w'.group = 0)
           /\ w'.chain = w.chain /\ w'.resume = w.resume
           /\ ChainIds' = ChainIds /\ \A c \in ChainIds : chain'[c].status = chain[c].status
           /\ \A c : chain[c].strayed \/ w.pc = "steps" \/ Entries(c)' \subseteq Entries(c)
<1>1. ASSUME UNCHANGED <<w, chain>>
      PROVE  /\ UNCHANGED w \/ (w.pc = "steps" /\ w'.pc = "fail" /\ w'.group = 0)
             /\ w'.chain = w.chain /\ w'.resume = w.resume
             /\ ChainIds' = ChainIds /\ \A c \in ChainIds : chain'[c].status = chain[c].status
  BY <1>1 DEF ChainIds
<1>2. ASSUME NEW c, ~chain[c].strayed, w.pc # "steps" PROVE Entries(c)' \subseteq Entries(c)
  <2>1. c # t.chain
    BY <1>2, NotStrayed
  <2>2. QED
    BY <2>1, TaskStepEntries
<1>3. CASE PopStepRt(t) \/ PushStepRt(t) \/ RepopStepRt(t) \/ Completed(t)
  BY <1>1, <1>2, <1>3, PopEffect, PushEffect, RepopEffect, CompletedEffect
<1>4. CASE StepFails(t)
  BY <1>1, <1>2, <1>4, FailsWorker
<1>5. QED
  BY <1>3, <1>4

LEMMA SettledKept ==
    ASSUME Refs, DrivesOK, SettledOK, Next \/ UNCHANGED vars
    PROVE  SettledOK'
<1>1. CASE w'.pc # "drain"
  BY <1>1 DEF SettledOK
<1>2. ASSUME NEW t \in tasks,
             PopStepRt(t) \/ PushStepRt(t) \/ RepopStepRt(t) \/ Completed(t) \/ StepFails(t)
      PROVE  SettledOK'
  <2>1. /\ UNCHANGED w \/ w'.pc = "fail"
        /\ \A c \in ChainIds : chain'[c].status = chain[c].status
    BY <1>2, TaskStepWorker
  <2>2. w.pc = "drain" => w.chain \in ChainIds
    BY WorkerFacts
  <2>3. QED
    BY <1>1, <2>1, <2>2 DEF SettledOK
<1>3. CASE Select \/ Start \/ Resolve \/ HandOff \/ HandedOff \/ Restart
  <2>1. w'.pc # "drain"
    <3>1. Select => w'.pc = "start"
      BY SelectEffect
    <3>2. Start => w'.pc = "steps"
      BY StartEffect
    <3>3. Resolve => w'.pc \in {"finish", "handoff", "fail"}
      BY ResolveEffect
    <3>4. HandOff => w'.pc \in {"handoff", "fail"}
      BY HandOffEffect
    <3>5. HandedOff => w'.pc = "finish"
      BY HandedOffEffect
    <3>6. Restart => w'.pc = "select"
      BY RestartEffect
    <3>7. QED
      BY <1>3, <3>1, <3>2, <3>3, <3>4, <3>5, <3>6
  <2>2. QED
    BY <1>1, <2>1
<1>4. CASE NextGroup
  <2>1. w'.pc \in {"handoff", "fail", "steps"}
    BY <1>4, NextGroupEffect
  <2>2. QED
    BY <1>1, <2>1
<1>5. CASE Settle
  BY <1>5, SettleEffect DEF SettledOK
<1>6. CASE Drain
  <2>1. UNCHANGED chain /\ (w'.pc = "select" \/ UNCHANGED w)
    BY <1>6, DrainEffect
  <2>2. QED
    BY <1>1, <2>1 DEF SettledOK
<1>7. CASE UNCHANGED vars
  BY <1>7 DEF vars, SettledOK
<1>8. QED
  BY <1>2, <1>3, <1>4, <1>5, <1>6, <1>7 DEF Next, StepDone, ToolDone

\* A chain that is over is over for good, unless it has a stray.
LEMMA OverStays ==
    ASSUME Refs, DrivesOK, Kept, NEW p \in ChainIds, Over(p), ~chain'[p].strayed,
           Next \/ UNCHANGED vars
    PROVE  Over(p)'
<1>1. /\ p \notin w.resume /\ Entries(p) = {} /\ (w.chain = p => w.pc = "drain")
      /\ chain[p].status \in {"done", "failed"} /\ ~chain[p].strayed
      /\ p # 0
  BY ChainFacts DEF Over, Kept, ChainsKept, Refs
<1>2. ASSUME p \notin w'.resume, Entries(p)' \subseteq Entries(p), w'.chain = p => w'.pc = "drain",
             chain'[p].status = chain[p].status
      PROVE  Over(p)'
  <2>1. Entries(p)' = {}
    BY <1>1, <1>2
  <2>2. QED
    BY <1>1, <1>2, <2>1 DEF Over
<1>3. ASSUME NEW t \in tasks,
             PopStepRt(t) \/ PushStepRt(t) \/ RepopStepRt(t) \/ Completed(t) \/ StepFails(t)
      PROVE  Over(p)'
  <2>1. /\ UNCHANGED w \/ (w.pc = "steps" /\ w'.pc = "fail" /\ w'.group = 0)
        /\ w'.chain = w.chain /\ w'.resume = w.resume
        /\ chain'[p].status = chain[p].status
    BY <1>3, TaskStepWorker
  <2>2. Entries(p)' \subseteq Entries(p)
    <3>1. t.chain # p
      BY <1>1, NotStrayed
    <3>2. QED
      BY <1>3, <3>1, TaskStepEntries
  <2>3. QED
    BY <1>1, <1>2, <2>1, <2>2
<1>4. ASSUME \/ Select \/ Start \/ NextGroup \/ Resolve \/ HandedOff \/ Settle \/ Drain \/ Restart
             \/ UNCHANGED vars \/ (HandOff /\ UNCHANGED <<chain, rt, queue>>)
      PROVE  Entries(p)' \subseteq Entries(p)
  BY <1>4, WorkerStepSets
<1>5. CASE Select
  <2>1. UNCHANGED chain /\ w'.resume \subseteq w.resume
        /\ (w'.chain \in w.resume \/ Entries(w'.chain) # {})
    BY <1>5, SelectEffect
  <2>2. w'.chain # p
    BY <1>1, <2>1
  <2>3. QED
    BY <1>1, <1>2, <1>4, <1>5, <2>1, <2>2
<1>6. CASE Start
  <2>1. w.pc = "start" /\ w'.chain = w.chain /\ w'.resume = w.resume
        /\ \A k \in ChainIds : k # w.chain => chain'[k] = chain[k]
    BY <1>6, StartEffect
  <2>2. QED
    BY <1>1, <1>2, <1>4, <1>6, <2>1
<1>7. CASE NextGroup
  <2> DEFINE c == w.chain
  <2>1. /\ w.pc = "steps" /\ c \in ChainIds /\ w'.chain = c /\ w'.resume = w.resume
        /\ UNCHANGED chain \/ chain' = Strayed(c, w.drive)
    BY <1>7, NextGroupEffect
  <2>2. c # p
    BY <1>1, <2>1
  <2>3. chain'[p] = chain[p]
    BY <2>1, <2>2, StrayedFacts DEF Refs
  <2>4. QED
    BY <1>1, <1>2, <1>4, <1>7, <2>1, <2>2, <2>3
<1>8. CASE Resolve \/ HandedOff \/ (HandOff /\ UNCHANGED <<chain, rt, queue>>)
  <2>1. UNCHANGED chain /\ w'.resume = w.resume /\ w'.chain = w.chain /\ w.pc = "handoff"
    BY <1>8, ResolveEffect, HandedOffEffect, HandOffEffect
  <2>2. QED
    BY <1>1, <1>2, <1>4, <1>8, <2>1
<1>9. CASE HandOff /\ ~UNCHANGED <<chain, rt, queue>>
  <2>1. \E id, n : \E q \in Pipelines : Called(w.chain, q, id, n, RtsFor(id, q))
    BY <1>9, HandOffEffect
  <2>2. PICK id, n : \E q \in Pipelines : Called(w.chain, q, id, n, RtsFor(id, q))
    BY <2>1
  <2>3. PICK q \in Pipelines : Called(w.chain, q, id, n, RtsFor(id, q))
    BY <2>2
  <2>4. tasks' = tasks /\ w.pc = "handoff" /\ w'.chain = w.chain /\ w'.resume = w.resume
    BY <1>9, HandOffEffect
  <2>5. chain'[p] = chain[p]
    BY <2>3 DEF Called
  <2>6. Entries(p)' = Entries(p)
    BY <2>3, <2>4, HandOffSets
  <2>7. QED
    BY <1>1, <1>2, <2>4, <2>5, <2>6
<1>10. CASE Settle
  <2>1. w.pc \in {"finish", "fail"} /\ w'.chain = w.chain /\ w'.resume = w.resume
        /\ \A k \in ChainIds : k # w.chain => chain'[k] = chain[k]
    BY <1>10, SettleEffect
  <2>2. w.chain # p
    BY <1>1, <2>1
  <2>3. QED
    BY <1>1, <1>2, <1>4, <1>10, <2>1, <2>2
<1>11. CASE Drain
  <2>1. UNCHANGED chain /\ w'.resume = w.resume /\ (UNCHANGED w \/ w'.chain = 0)
    BY <1>11, DrainEffect
  <2>2. QED
    BY <1>1, <1>2, <1>4, <1>11, <2>1
<1>12. CASE Restart
  <2>1. w'.resume = Unfinished /\ w'.chain = 0 /\ chain'[p].status = chain[p].status
    BY <1>12, RestartEffect
  <2>2. p \notin Unfinished
    BY <1>1 DEF Unfinished
  <2>3. QED
    BY <1>1, <1>2, <1>4, <1>12, <2>1, <2>2
<1>13. CASE UNCHANGED vars
  BY <1>1, <1>2, <1>4, <1>13 DEF vars
<1>14. QED
  BY <1>3, <1>5, <1>6, <1>7, <1>8, <1>9, <1>10, <1>11, <1>12, <1>13 DEF Next, StepDone, ToolDone

\* A chain that calls its follow-ups goes on with it, until it is over or is cut off.
LEMMA HandingOffStays ==
    ASSUME Refs, DrivesOK, QueuedNowOK, Kept, NEW p \in ChainIds, NEW a \in ChainIds,
           w.chain = p, HandingOff, chain[a].status = "pending", a # p,
           ~chain'[p].strayed, ~chain'[p].cut, Next \/ UNCHANGED vars
    PROVE  (w'.chain = p /\ HandingOff' /\ chain'[a].status = "pending") \/ Over(p)'
<1>1. /\ w.group = 1 /\ w.pc \in {"handoff", "finish", "fail"} /\ ~chain[p].strayed
      /\ p \notin w.resume /\ Entries(p) = {}
  <2>1. ~chain[p].strayed
    BY DEF Kept, ChainsKept
  <2>2. QED
    BY <2>1 DEF HandingOff, Refs, RefsOK, QueuedNowOK
<1>2. ASSUME NEW t \in tasks,
             PopStepRt(t) \/ PushStepRt(t) \/ RepopStepRt(t) \/ Completed(t) \/ StepFails(t)
      PROVE  w'.chain = p /\ HandingOff' /\ chain'[a].status = "pending"
  <2>1. UNCHANGED w /\ chain'[a].status = chain[a].status
    BY <1>1, <1>2, TaskStepWorker
  <2>2. QED
    BY <2>1 DEF HandingOff
<1>3. ~Select /\ ~Start /\ ~NextGroup /\ ~Resolve /\ ~Drain
  <2>1. Select => w.pc = "select"
    BY DEF Select
  <2>2. Start => w.pc = "start"
    BY DEF Start
  <2>3. NextGroup => w.pc = "steps"
    BY DEF NextGroup
  <2>4. Resolve => w.group = 0
    BY DEF Resolve
  <2>5. Drain => w.pc = "drain"
    BY DEF Drain
  <2>6. QED
    BY <1>1, <2>1, <2>2, <2>3, <2>4, <2>5
<1>4. CASE HandedOff
  BY <1>1, <1>4, HandedOffEffect DEF HandingOff
<1>5. CASE HandOff
  <2>1. /\ w'.chain = w.chain /\ w'.group = 1 /\ w'.pc \in {"handoff", "fail"}
        /\ UNCHANGED <<chain, rt, queue>>
           \/ \E id, n : \E q \in Pipelines : Called(w.chain, q, id, n, RtsFor(id, q))
    BY <1>5, HandOffEffect
  <2>2. chain'[a] = chain[a]
    BY <2>1 DEF Called
  <2>3. QED
    BY <2>1, <2>2 DEF HandingOff
<1>6. CASE Settle
  <2>1. /\ w'.pc = "drain" /\ w'.resume = w.resume /\ UNCHANGED <<rt, queue>>
        /\ chain'[p].status \in {"done", "failed"}
    BY <1>6, SettleEffect
  <2>2. Entries(p)' = {}
    BY <1>1, <2>1 DEF Entries
  <2>3. Over(p)'
    BY <1>1, <2>1, <2>2 DEF Over
  <2>4. QED
    BY <2>3
<1>7. ~Restart
  BY RestartEffect
<1>8. CASE UNCHANGED vars
  BY <1>8 DEF vars, HandingOff
<1>9. QED
  BY <1>2, <1>3, <1>4, <1>5, <1>6, <1>7, <1>8 DEF Next, StepDone, ToolDone

\* A step creates no chain, or the worker calls a follow-up.
LEMMA NewChains ==
    ASSUME Refs, DrivesOK, Kept, Next \/ UNCHANGED vars
    PROVE  \/ ChainIds' = ChainIds
           \/ /\ w.pc = "handoff" /\ w.chain \in ChainIds /\ w'.chain = w.chain /\ HandingOff'
              /\ \E id, n : \E q \in Pipelines : Called(w.chain, q, id, n, RtsFor(id, q))
<1>1. ASSUME NEW t \in tasks,
             PopStepRt(t) \/ PushStepRt(t) \/ RepopStepRt(t) \/ Completed(t) \/ StepFails(t)
      PROVE  ChainIds' = ChainIds
  BY <1>1, TaskStepWorker
<1>2. CASE HandOff
  BY <1>2, HandOffEffect DEF HandingOff, ChainIds
<1>3. CASE \/ Select \/ Start \/ NextGroup \/ Resolve \/ HandedOff \/ Settle \/ Drain \/ Restart
           \/ UNCHANGED vars
  BY <1>3, WorkerStepSets
<1>4. QED
  BY <1>1, <1>2, <1>3 DEF Next, StepDone, ToolDone

\* What ChildrenOK says of two chains in the next state.
ChildNext(a, p) ==
    (chain'[a].parent = p /\ ~chain'[p].cut /\ ~chain'[p].strayed) =>
        (w'.chain = p /\ HandingOff' /\ chain'[a].status = "pending") \/ Over(p)'

LEMMA ChildrenKept ==
    ASSUME Refs, DrivesOK, QueuedNowOK, ChildrenOK, Kept, Next \/ UNCHANGED vars
    PROVE  ChildrenOK'
<1>1. ASSUME NEW a \in ChainIds, NEW p \in ChainIds
      PROVE  ChildNext(a, p)
  <2>1. SUFFICES ASSUME chain'[a].parent = p, ~chain'[p].cut, ~chain'[p].strayed
                 PROVE  (w'.chain = p /\ HandingOff' /\ chain'[a].status = "pending") \/ Over(p)'
    BY DEF ChildNext
  <2>2. chain[a].parent = p /\ ~chain[p].cut /\ ~chain[p].strayed
    BY <2>1 DEF Kept, ChainsKept
  <2>3. a # p
    <3>1. p < a /\ a \in Nat
      BY <2>2, ChainFacts DEF Refs, RefsOK
    <3>2. QED
      BY <3>1
  <2>4. (w.chain = p /\ HandingOff /\ chain[a].status = "pending") \/ Over(p)
    BY <2>2 DEF ChildrenOK
  <2>5. QED
    BY <2>1, <2>3, <2>4, OverStays, HandingOffStays
<1>2. CASE ChainIds' = ChainIds
  BY <1>1, <1>2 DEF ChildrenOK, ChildNext
<1>3. CASE /\ w.pc = "handoff" /\ w.chain \in ChainIds /\ w'.chain = w.chain /\ HandingOff'
           /\ \E id, n : \E q \in Pipelines : Called(w.chain, q, id, n, RtsFor(id, q))
  <2>1. PICK id, n : \E q \in Pipelines : Called(w.chain, q, id, n, RtsFor(id, q))
    BY <1>3
  <2>2. PICK q \in Pipelines : Called(w.chain, q, id, n, RtsFor(id, q))
    BY <2>1
  <2>3. /\ ChainIds' = ChainIds \cup {id} /\ id \notin ChainIds /\ id \in Nat
        /\ \A k \in ChainIds : chain'[k] = chain[k] /\ k < id
        /\ chain'[id].parent = w.chain /\ chain'[id].status = "pending"
    BY <2>2 DEF Called
  <2>4. \A p \in ChainIds \cup {id} : ChildNext(id, p)
    BY <1>3, <2>3 DEF ChildNext
  <2>5. \A a \in ChainIds : ChildNext(a, id)
    <3>1. \A a \in ChainIds : chain[a].parent < a /\ a \in Nat /\ chain[a].parent \in Nat
      BY ChainFacts DEF Refs, RefsOK, ChainRecord
    <3>2. \A a \in ChainIds : chain'[a].parent # id
      BY <2>3, <3>1
    <3>3. QED
      BY <3>2 DEF ChildNext
  <2>6. \A a, p \in ChainIds \cup {id} : ChildNext(a, p)
    BY <1>1, <2>4, <2>5
  <2>7. QED
    BY <2>3, <2>6 DEF ChildrenOK, ChildNext
<1>4. QED
  BY <1>2, <1>3, NewChains

LEMMA FollowUpsKept ==
    ASSUME Refs, DrivesOK, ChildrenOK, FollowUpOnce, Kept, Next \/ UNCHANGED vars
    PROVE  FollowUpOnce'
<1>1. \A a \in ChainIds :
         /\ a \in Nat /\ chain[a].parent \in Nat /\ chain[a].parent < a
         /\ chain'[a].parent = chain[a].parent /\ chain'[a].pipe = chain[a].pipe
         /\ chain[a].cut => chain'[a].cut
         /\ chain[a].strayed => chain'[a].strayed
         /\ chain[a].parent # 0 => chain[a].parent \in ChainIds
  <2>1. Len(chain) \in Nat /\ ChainIds = 1..Len(chain)
    BY DEF Refs, TypeOK, ChainIds
  <2>2. \A a \in ChainIds : a \in Nat /\ chain[a].parent \in Nat /\ chain[a].parent < a
    BY <2>1, ChainFacts DEF Refs, RefsOK, ChainRecord
  <2>3. QED
    BY <2>1, <2>2 DEF Kept, ChainsKept
<1> DEFINE Once(a, b) ==
        (/\ a < b /\ chain'[a].parent = chain'[b].parent /\ chain'[a].parent # 0
         /\ chain'[a].pipe = chain'[b].pipe)
            => chain'[chain'[a].parent].cut \/ chain'[chain'[a].parent].strayed
<1>2. \A a, b \in ChainIds : Once(a, b)
  BY <1>1 DEF FollowUpOnce
<1>3. CASE ChainIds' = ChainIds
  BY <1>2, <1>3 DEF FollowUpOnce
<1>4. CASE /\ w.pc = "handoff" /\ w.chain \in ChainIds
           /\ \E id, n : \E q \in Pipelines : Called(w.chain, q, id, n, RtsFor(id, q))
  <2>1. PICK id, n : \E q \in Pipelines : Called(w.chain, q, id, n, RtsFor(id, q))
    BY <1>4
  <2>2. PICK q \in Pipelines : Called(w.chain, q, id, n, RtsFor(id, q))
    BY <2>1
  <2>3. /\ ChainIds' = ChainIds \cup {id} /\ id \notin ChainIds /\ id \in Nat
        /\ \A k \in ChainIds : chain'[k] = chain[k] /\ k < id
        /\ chain'[id].parent = w.chain /\ chain'[id].pipe = q /\ Waiting(q) = {}
    BY <2>2 DEF Called
  <2>4. \A a \in ChainIds : Once(a, id)
    <3>1. SUFFICES ASSUME NEW a \in ChainIds, chain[a].parent = w.chain, chain[a].pipe = q
                   PROVE  chain[w.chain].cut \/ chain[w.chain].strayed
      BY <1>4, <2>3
    <3>2. SUFFICES ASSUME ~chain[w.chain].cut, ~chain[w.chain].strayed PROVE FALSE
      OBVIOUS
    <3>3. chain[a].status = "pending" \/ Over(w.chain)
      BY <1>4, <3>1, <3>2 DEF ChildrenOK
    <3>4. chain[a].status # "pending"
      BY <2>3, <3>1 DEF Waiting
    <3>5. QED
      BY <1>4, <3>3, <3>4 DEF Over
  <2>5. \A b \in ChainIds \cup {id} : Once(id, b)
    BY <2>3, <1>1
  <2>6. \A a, b \in ChainIds \cup {id} : Once(a, b)
    BY <1>2, <2>4, <2>5
  <2>7. QED
    BY <2>3, <2>6 DEF FollowUpOnce
<1>5. QED
  BY <1>3, <1>4, NewChains
-----------------------------------------------------------------------------
(* The theorems. *)

LEMMA InitHolds ==
    ASSUME Init
    PROVE  IInv
<1> DEFINE rts == RtsFor(1, Root)
           m == Len(rts)
<1>1. Root \in Pipelines
  BY StepTreeAssumption
<1>2. rts \in Seq(NewRts(1, Root)) /\ IsInjective(rts)
  BY <1>1, RtsForFacts
<1>3. m \in Nat /\ DOMAIN rts = 1..m /\ \A i \in 1..m : rts[i] \in NewRts(1, Root)
  BY <1>2
<1>4. NewRts(1, Root) \subseteq RtRecord
  BY <1>1, NewRtsAreRts
<1>5. \A i \in 1..m : rts[i].chain = 1 /\ rts[i].state = "pending"
  BY <1>3 DEF NewRts, NewRt
<1> HIDE DEF rts, m
<1>6. rt = rts /\ rt \in Seq(RtRecord) /\ DOMAIN rt = 1..m
  <2>1. rt = rts
    BY DEF Init, rts
  <2>2. rts \in Seq(RtRecord)
    <3>1. rts \in Seq(NewRts(1, Root))
      BY <1>2
    <3> DEFINE N == NewRts(1, Root)
    <3> HIDE DEF N
    <3>2. rts \in Seq(N) /\ N \subseteq RtRecord
      BY <3>1, <1>4 DEF N
    <3>3. QED
      BY <3>2
  <2>3. QED
    BY <1>3, <2>1, <2>2
<1>7. queue \in Seq(Nat) /\ ToSet(queue) = 1..m /\ IsInjective(queue)
  <2>1. queue = [i \in 1..m |-> 0 + i]
    BY DEF Init, Places, rts, m
  <2>2. queue \in [1..m -> Nat] /\ \A i \in 1..m : queue[i] = i
    BY <2>1, <1>3
  <2>3. queue \in Seq(Nat) /\ DOMAIN queue = 1..m
    BY <2>2, <1>3
  <2>4. ToSet(queue) = 1..m
    BY <2>2, <2>3 DEF ToSet
  <2>5. QED
    BY <2>2, <2>3, <2>4 DEF IsInjective
<1>8. /\ chain \in Seq(ChainRecord) /\ ChainIds = {1}
      /\ chain[1].pipe = Root /\ chain[1].parent = 0 /\ chain[1].drives = 0
  <2> DEFINE c == NewChain(Root, 0, <<>>)
  <2>1. c \in ChainRecord /\ c.pipe = Root /\ c.parent = 0 /\ c.drives = 0
    BY <1>1 DEF NewChain, ChainRecord
  <2>2. chain = <<c>>
    BY DEF Init
  <2> HIDE DEF c
  <2>3. QED
    BY <2>1, <2>2 DEF ChainIds
<1>9. /\ w = Free /\ w \in WorkerRecord
      /\ w.pc = "select" /\ w.chain = 0 /\ w.again = FALSE /\ w.resume = {} /\ w.drive = 0
      /\ w.group = 0
  <2>1. w = Free
    BY DEF Init
  <2>2. Free \in WorkerRecord
    BY DEF Free, WorkerRecord
  <2>3. QED
    BY <2>1, <2>2 DEF Free
<1>10. tasks = {} /\ ctx = NoNames /\ drives = 0 /\ faults = 0 /\ crashes = 0
  BY DEF Init
<1>11. TypeOK
  <2>1. ctx \in Contexts
    <3>1. NoNames \in [{} -> Values]
      BY DEF NoNames
    <3>2. QED
      BY <1>10, <3>1 DEF Contexts
  <2>2. QED
    BY <1>6, <1>7, <1>8, <1>9, <1>10, <2>1 DEF TypeOK
<1>12. RefsOK
  <2>1. \A c \in ChainIds : chain[c].parent < c
    BY <1>8
  <2>2. \A r \in DOMAIN rt : rt[r].chain \in ChainIds
    BY <1>5, <1>6, <1>8
  <2>3. QED
    BY <1>6, <1>7, <1>9, <2>1, <2>2 DEF RefsOK
<1>13. TasksOK /\ DrivesOK
  BY <1>9, <1>10 DEF TasksOK, DrivesOK
<1>14. ContextsOK
  <2>1. ResumedOK
    BY <1>9 DEF ResumedOK
  <2>2. OutputsOK
    BY <1>5, <1>6 DEF OutputsOK
  <2>3. TaskContextsOK
    BY <1>10 DEF TaskContextsOK
  <2>4. DriveContextOK
    BY <1>9 DEF DriveContextOK
  <2>5. QED
    BY <2>1, <2>2, <2>3, <2>4 DEF ContextsOK
<1>15. InputsComplete
  BY <1>10 DEF InputsComplete
<1>16. DrivenOK
  <2>1. chain[1].drives <= 1 + crashes /\ chain[1].drives <= crashes
    BY <1>8, <1>10
  <2>2. QED
    BY <1>8, <2>1 DEF DrivenOK
<1>17. QueuedOK
  <2> DEFINE E == 1..m
             ids == {s.id : s \in {x \in AllSteps(Root) : x.llm \/ x.tool}}
  <2>1. Covered((0 + 1)..(0 + Len(rts)), ids)
    BY <1>1, <1>2, NewEntriesCovered
  <2>2. Covered(E, ids)
    BY <1>3, <2>1 DEF m
  <2>3. Entries(1) = E
    BY <1>5, <1>6, <1>7 DEF Entries
  <2>4. DoneIds(1) = {}
    BY <1>5, <1>6 DEF DoneIds, RtsOfChain
  <2>5. Taken(1) = {}
    BY <1>10 DEF Taken
  <2>6. RtIds(1) = ids
    BY <1>8 DEF RtIds
  <2>7. Due(1) = ids
    BY <2>4, <2>5, <2>6 DEF Due
  <2>8. Covered(Entries(1), Due(1))
    BY <2>2, <2>3, <2>7
  <2>9. QED
    BY <1>8, <2>8 DEF QueuedOK
<1>18. QueuedNowOK /\ SettledOK
  BY <1>8, <1>9 DEF QueuedNowOK, SettledOK
<1>19. ChildrenOK /\ FollowUpOnce
  BY <1>8 DEF ChildrenOK, FollowUpOnce
<1>20. QED
  BY <1>11, <1>12, <1>13, <1>14, <1>15, <1>16, <1>17, <1>18, <1>19, Zenon DEF IInv

LEMMA Inductive ==
    ASSUME IInv, Next \/ UNCHANGED vars
    PROVE  IInv'
<1>1. /\ Refs /\ DrivesOK /\ ResumedOK /\ OutputsOK /\ TaskContextsOK /\ DriveContextOK
      /\ InputsComplete /\ DrivenOK /\ QueuedOK /\ QueuedNowOK /\ SettledOK /\ ChildrenOK
      /\ FollowUpOnce
  BY DEF IInv, ContextsOK, Refs
<1>2. ASSUME NEW t \in tasks,
             PopStepRt(t) \/ PushStepRt(t) \/ RepopStepRt(t) \/ Completed(t) \/ StepFails(t)
      PROVE  /\ Kept /\ RefsOK' /\ TasksOK' /\ DrivesOK' /\ OutputsOK' /\ TaskContextsOK'
             /\ DriveContextOK' /\ InputsComplete' /\ DrivenOK' /\ QueuedOK' /\ QueuedNowOK'
  <2>1. Kept /\ RefsOK' /\ DrivesOK'
    BY <1>1, <1>2, TaskStepKeeps, TaskStepRefs, TaskStepDrives
  <2>2. TasksOK'
    BY <1>1, <1>2, <2>1, TaskStepHeirs, TasksAreKept
  <2>3. OutputsOK' /\ TaskContextsOK' /\ DriveContextOK' /\ InputsComplete'
    BY <1>1, <1>2, TaskStepOutputs, TaskStepTaskContexts, TaskStepDriveContext, TaskStepInputs
  <2>4. DrivenOK' /\ QueuedOK' /\ QueuedNowOK'
    BY <1>1, <1>2, TaskStepDriven, TaskStepQueued
  <2>5. QED
    BY <2>1, <2>2, <2>3, <2>4
<1>3. ASSUME \/ Select \/ Start \/ NextGroup \/ Resolve \/ HandOff \/ HandedOff \/ Settle
             \/ Drain \/ Restart \/ UNCHANGED vars
      PROVE  /\ Kept /\ RefsOK' /\ TasksOK' /\ DrivesOK' /\ OutputsOK' /\ TaskContextsOK'
             /\ DriveContextOK' /\ InputsComplete' /\ DrivenOK' /\ QueuedOK' /\ QueuedNowOK'
  <2>1. Kept /\ RefsOK' /\ TasksOK' /\ DrivesOK'
    BY <1>1, <1>3, WorkerStepKeeps, WorkerStepRefs, WorkerStepTasks, WorkerStepDrives
  <2>2. OutputsOK' /\ TaskContextsOK' /\ DriveContextOK' /\ InputsComplete'
    BY <1>1, <1>3, WorkerStepOutputs, WorkerStepTaskContexts, WorkerStepDriveContext,
       WorkerStepInputs
  <2>3. DrivenOK' /\ QueuedOK' /\ QueuedNowOK'
    BY <1>1, <1>3, WorkerStepDriven, WorkerStepQueued
  <2>4. QED
    BY <2>1, <2>2, <2>3
<1>4. /\ Kept /\ RefsOK' /\ TasksOK' /\ DrivesOK' /\ OutputsOK' /\ TaskContextsOK'
      /\ DriveContextOK' /\ InputsComplete' /\ DrivenOK' /\ QueuedOK' /\ QueuedNowOK'
  BY <1>2, <1>3 DEF Next, StepDone, ToolDone
<1>5. ResumedOK' /\ SettledOK' /\ ChildrenOK' /\ FollowUpOnce'
  BY <1>1, <1>4, ResumedKept, SettledKept, ChildrenKept, FollowUpsKept
<1>6. ContextsOK'
  BY <1>4, <1>5, Zenon DEF ContextsOK
<1>7. TypeOK'
  BY <1>4, Zenon DEF Kept
<1>8. QED
  BY <1>4, <1>5, <1>6, <1>7, Zenon DEF IInv

\* What every state of the step tree keeps, whatever the pipelines, the failures and the
\* restarts: the four properties below follow from it.
THEOREM TreeInvariant == Spec => []IInv
<1>1. Init => IInv
  BY InitHolds
<1>2. IInv /\ [Next]_vars => IInv'
  BY Inductive
<1>3. QED
  BY <1>1, <1>2, PTL DEF Spec

\* However the pops of the steps that run at once are ordered, a step executes an RT of its
\* own chain and step, and shares it only with a stray (_pop_or_create_step_rt).
THEOREM StepsRunTheirOwnRt == Spec => []RunsOwnRt
<1>1. IInv => RunsOwnRt
  <2>1. ASSUME TasksOK, DrivesOK PROVE RunsOwnRt
    <3>1. SUFFICES ASSUME NEW t \in tasks, t.pc = "run"
                   PROVE  /\ rt[t.rt].chain = t.chain /\ rt[t.rt].step = t.step.id
                          /\ \A u \in tasks \ {t} :
                                u.pc = "run" /\ u.rt = t.rt =>
                                   u.drive # t.drive /\ chain[t.chain].strayed
      BY DEF RunsOwnRt
    <3>2. \A u \in tasks : u.pc = "run" => rt[u.rt].chain = u.chain /\ rt[u.rt].step = u.step.id
      BY <2>1 DEF TasksOK
    <3>3. ASSUME NEW u \in tasks \ {t}, u.pc = "run", u.rt = t.rt
          PROVE  u.drive # t.drive /\ chain[t.chain].strayed
      <4>1. u.chain = t.chain /\ u.step.id = t.step.id
        BY <3>1, <3>2, <3>3
      <4>2. u.drive # t.drive
        BY <2>1, <4>1 DEF DrivesOK
      <4>3. \A x \in tasks : chain[x.chain].strayed \/ x.drive = w.drive
        BY <2>1 DEF DrivesOK
      <4>4. QED
        BY <4>1, <4>2, <4>3
    <3>4. QED
      BY <3>1, <3>2, <3>3
  <2>2. QED
    BY <2>1 DEF IInv
<1>2. QED
  BY <1>1, TreeInvariant, PTL

\* A step is executed with all the outputs it reads, as they were made, restored or not
\* (_run_steps, _rehydrate_done_steps).
THEOREM StepsHaveTheirInputs == Spec => []InputsComplete
<1>1. IInv => InputsComplete
  BY DEF IInv
<1>2. QED
  BY <1>1, TreeInvariant, PTL

\* The queue never has a chain driven again that is over, unless it has a stray: each restart
\* accounts for one drive more (_drain_chain_pending).
THEOREM OverChainsStayOver == Spec => []DrivenAgainOnlyByStray
<1>1. IInv => DrivenAgainOnlyByStray
  <2>1. ASSUME TypeOK, DrivenOK PROVE DrivenAgainOnlyByStray
    <3>1. \A c \in ChainIds : chain[c].drives \in Nat
      BY <2>1, ChainFacts DEF ChainRecord
    <3>2. crashes \in Nat
      BY <2>1 DEF TypeOK
    <3>3. \A c \in ChainIds : ~chain[c].strayed => ~(chain[c].drives > 1 + crashes)
      BY <2>1, <3>1, <3>2 DEF DrivenOK
    <3>4. QED
      BY <3>3 DEF DrivenAgainOnlyByStray
  <2>2. QED
    BY <2>1 DEF IInv
<1>2. QED
  BY <1>1, TreeInvariant, PTL

\* A chain calls a follow-up pipeline once, unless a restart cut its hand-off or a stray had
\* it driven again (_drive_chain).
THEOREM FollowUpsAreCalledOnce == Spec => []FollowUpOnce
<1>1. IInv => FollowUpOnce
  BY DEF IInv
<1>2. QED
  BY <1>1, TreeInvariant, PTL
=============================================================================
