------------------------- MODULE UserDocumentsProofs -------------------------
(***************************************************************************)
(* Invariance proofs for UserDocuments: links of accounts, idempotency     *)
(* keys, the roadmap, ETags and drafts, for any number of requests, works, *)
(* keys and failures.                                                      *)
(***************************************************************************)
EXTENDS UserDocuments, FiniteSetTheorems, TLAPS

-----------------------------------------------------------------------------
(* Requests. *)

Task(kind, calls, who, what, key, shown, seen, code) ==
    [kind |-> kind, calls |-> calls, who |-> who, what |-> what, key |-> key,
     shown |-> shown, seen |-> seen, code |-> code]

IsTask(r) == r = Task(r.kind, r.calls, r.who, r.what, r.key, r.shown, r.seen, r.code)

\* A request has all its fields, whatever is in them.
Tasks ==
    /\ req = [q \in Requests |-> req[q]]
    /\ \A q \in Requests : IsTask(req[q])

LEMMA NotSentTask == NotSent = Task(None, <<>>, None, None, None, None, None, 0)
  BY DEF NotSent, Task

LEMMA TaskFields ==
    ASSUME NEW kind, NEW calls, NEW who, NEW what, NEW key, NEW shown, NEW seen, NEW code,
           NEW r, r = Task(kind, calls, who, what, key, shown, seen, code)
    PROVE  /\ r.kind = kind /\ r.calls = calls /\ r.who = who /\ r.what = what
           /\ r.key = key /\ r.shown = shown /\ r.seen = seen /\ r.code = code
           /\ IsTask(r)
  BY DEF Task, IsTask

\* One field of a task changes.
LEMMA TaskKind ==
    ASSUME NEW kind, NEW calls, NEW who, NEW what, NEW key, NEW shown, NEW seen, NEW code,
           NEW x
    PROVE  [Task(kind, calls, who, what, key, shown, seen, code) EXCEPT !.kind = x] =
           Task(x, calls, who, what, key, shown, seen, code)
  BY DEF Task

LEMMA TaskCalls ==
    ASSUME NEW kind, NEW calls, NEW who, NEW what, NEW key, NEW shown, NEW seen, NEW code,
           NEW x
    PROVE  [Task(kind, calls, who, what, key, shown, seen, code) EXCEPT !.calls = x] =
           Task(kind, x, who, what, key, shown, seen, code)
  BY DEF Task

LEMMA TaskWho ==
    ASSUME NEW kind, NEW calls, NEW who, NEW what, NEW key, NEW shown, NEW seen, NEW code,
           NEW x
    PROVE  [Task(kind, calls, who, what, key, shown, seen, code) EXCEPT !.who = x] =
           Task(kind, calls, x, what, key, shown, seen, code)
  BY DEF Task

LEMMA TaskWhat ==
    ASSUME NEW kind, NEW calls, NEW who, NEW what, NEW key, NEW shown, NEW seen, NEW code,
           NEW x
    PROVE  [Task(kind, calls, who, what, key, shown, seen, code) EXCEPT !.what = x] =
           Task(kind, calls, who, x, key, shown, seen, code)
  BY DEF Task

LEMMA TaskKey ==
    ASSUME NEW kind, NEW calls, NEW who, NEW what, NEW key, NEW shown, NEW seen, NEW code,
           NEW x
    PROVE  [Task(kind, calls, who, what, key, shown, seen, code) EXCEPT !.key = x] =
           Task(kind, calls, who, what, x, shown, seen, code)
  BY DEF Task

LEMMA TaskShown ==
    ASSUME NEW kind, NEW calls, NEW who, NEW what, NEW key, NEW shown, NEW seen, NEW code,
           NEW x
    PROVE  [Task(kind, calls, who, what, key, shown, seen, code) EXCEPT !.shown = x] =
           Task(kind, calls, who, what, key, x, seen, code)
  BY DEF Task

LEMMA TaskSeen ==
    ASSUME NEW kind, NEW calls, NEW who, NEW what, NEW key, NEW shown, NEW seen, NEW code,
           NEW x
    PROVE  [Task(kind, calls, who, what, key, shown, seen, code) EXCEPT !.seen = x] =
           Task(kind, calls, who, what, key, shown, x, code)
  BY DEF Task

LEMMA TaskCode ==
    ASSUME NEW kind, NEW calls, NEW who, NEW what, NEW key, NEW shown, NEW seen, NEW code,
           NEW x
    PROVE  [Task(kind, calls, who, what, key, shown, seen, code) EXCEPT !.code = x] =
           Task(kind, calls, who, what, key, shown, seen, x)
  BY DEF Task

LEMMA InitTasks == ASSUME TasksInit PROVE Tasks
<1>1. \A q \in Requests : req[q] = Task(None, <<>>, None, None, None, None, None, 0)
  BY NotSentTask DEF TasksInit
<1>2. \A q \in Requests : IsTask(req[q])
  BY <1>1, TaskFields
<1>3. req = [q \in Requests |-> req[q]]
  BY DEF TasksInit
<1> QED
  BY <1>2, <1>3 DEF Tasks

\* The other requests stay as they are.
OthersStay(q) == \A p \in Requests : p # q => req'[p] = req[p]

LEMMA StepTasks ==
    ASSUME Tasks, NEW q \in Requests, NEW r, IsTask(r), req' = [req EXCEPT ![q] = r]
    PROVE  Tasks' /\ OthersStay(q) /\ req'[q] = r
<1>1. req'[q] = r /\ OthersStay(q)
  BY DEF Tasks, OthersStay
<1>2. \A p \in Requests : IsTask(req'[p])
  BY <1>1 DEF Tasks, OthersStay
<1>3. req' = [p \in Requests |-> req'[p]]
  BY DEF Tasks
<1> QED
  BY <1>1, <1>2, <1>3 DEF Tasks

LEMMA SentTasks ==
    ASSUME Tasks, NEW q \in Requests, NEW kind, NEW calls, NEW who, NEW what, NEW key,
           Sent(q, kind, calls, who, what, key)
    PROVE  /\ Tasks' /\ OthersStay(q)
           /\ req[q] = Task(None, <<>>, None, None, None, None, None, 0)
           /\ req'[q] = Task(kind, calls, who, what, key, None, None, 0)
<1> DEFINE r == [NotSent EXCEPT !.kind = kind, !.calls = calls,
                                !.who = who, !.what = what, !.key = key]
           r1 == [NotSent EXCEPT !.kind = kind]
           r2 == [r1 EXCEPT !.calls = calls]
           r3 == [r2 EXCEPT !.who = who]
           r4 == [r3 EXCEPT !.what = what]
<1>a. r1 = Task(kind, <<>>, None, None, None, None, None, 0)
  BY NotSentTask, TaskKind
<1>e. r = [r4 EXCEPT !.key = key]
  OBVIOUS
<1> HIDE DEF r1
<1>b. r2 = Task(kind, calls, None, None, None, None, None, 0)
  BY <1>a, TaskCalls
<1> HIDE DEF r2
<1>c. r3 = Task(kind, calls, who, None, None, None, None, 0)
  BY <1>b, TaskWho
<1> HIDE DEF r3
<1>d. r4 = Task(kind, calls, who, what, None, None, None, 0)
  BY <1>c, TaskWhat
<1> HIDE DEF r4
<1>1. r = Task(kind, calls, who, what, key, None, None, 0)
  BY <1>d, <1>e, TaskKey
<1>2. req' = [req EXCEPT ![q] = r] /\ req[q] = NotSent
  BY DEF Sent
<1> HIDE DEF r
<1>3. IsTask(r)
  BY <1>1, TaskFields
<1> QED
  BY <1>1, <1>2, <1>3, StepTasks, NotSentTask

CodeOf(calls) == IF Len(calls) = 1 THEN 200 ELSE 0

LEMMA WentTask ==
    ASSUME Tasks, NEW q \in Requests
    PROVE  LET r == req[q] IN
           Went(q, r) = Task(r.kind, Tail(r.calls), r.who, r.what, r.key, r.shown, r.seen,
                             CodeOf(r.calls))
<1> DEFINE r == req[q]
<1>1. r = Task(r.kind, r.calls, r.who, r.what, r.key, r.shown, r.seen, r.code)
  BY DEF Tasks, IsTask
<1> DEFINE rest == Tail(r.calls)
           r1 == [r EXCEPT !.calls = rest]
<1> HIDE DEF rest
<1>a. r1 = Task(r.kind, rest, r.who, r.what, r.key, r.shown, r.seen, r.code)
  BY <1>1, TaskCalls
<1> USE DEF rest
<1> HIDE DEF r
<1>b. Went(q, r) = [r1 EXCEPT !.code = CodeOf(r.calls)]
  BY DEF Went, CodeOf
<1> HIDE DEF r1
<1>2. Went(q, r) = Task(r.kind, Tail(r.calls), r.who, r.what, r.key, r.shown, r.seen,
                        CodeOf(r.calls))
  BY <1>a, <1>b, TaskCode
<1> QED
  BY <1>2 DEF r

LEMMA ProceedTasks ==
    ASSUME Tasks, NEW q \in Requests, Proceed(q)
    PROVE  LET r == req[q] IN
           /\ Tasks' /\ OthersStay(q)
           /\ req'[q] = Task(r.kind, Tail(r.calls), r.who, r.what, r.key, r.shown, r.seen,
                             CodeOf(r.calls))
<1>1. req' = [req EXCEPT ![q] = Went(q, req[q])]
  BY DEF Proceed, Tasks
<1>2. IsTask(Went(q, req[q]))
  BY WentTask, TaskFields
<1> QED
  BY <1>1, <1>2, StepTasks, WentTask

LEMMA ProceedWithTasks ==
    ASSUME Tasks, NEW q \in Requests, NEW seen, ProceedWith(q, seen)
    PROVE  LET r == req[q] IN
           /\ Tasks' /\ OthersStay(q)
           /\ req'[q] = Task(r.kind, Tail(r.calls), r.who, r.what, r.key, r.shown, seen,
                             CodeOf(r.calls))
<1> DEFINE r == req[q]
           new == [Went(q, r) EXCEPT !.seen = seen]
<1>1. req' = [req EXCEPT ![q] = new]
  BY DEF ProceedWith, Tasks
<1>2. new = Task(r.kind, Tail(r.calls), r.who, r.what, r.key, r.shown, seen, CodeOf(r.calls))
  BY WentTask, TaskSeen
<1> HIDE DEF new
<1>3. IsTask(new)
  BY <1>2, TaskFields
<1> QED
  BY <1>1, <1>2, <1>3, StepTasks

\* A request whose client is shown something.
Show(q, shown) == req' = [req EXCEPT ![q] = [Went(q, @) EXCEPT !.shown = shown]]

LEMMA ShownFields ==
    ASSUME Tasks, NEW q \in Requests, NEW shown,
           Show(q, shown)
    PROVE  /\ Tasks' /\ OthersStay(q)
           /\ req'[q].kind = req[q].kind /\ req'[q].calls = Tail(req[q].calls)
           /\ req'[q].who = req[q].who /\ req'[q].what = req[q].what
           /\ req'[q].key = req[q].key /\ req'[q].shown = shown
           /\ req'[q].seen = req[q].seen /\ req'[q].code = CodeOf(req[q].calls)
<1> PICK r : r = req[q]
  OBVIOUS
<1> DEFINE new == [Went(q, r) EXCEPT !.shown = shown]
<1>1. req' = [req EXCEPT ![q] = new]
  BY DEF Tasks, Show
<1>2. new = Task(r.kind, Tail(r.calls), r.who, r.what, r.key, shown, r.seen, CodeOf(r.calls))
  BY WentTask, TaskShown
<1> HIDE DEF new
<1>3. IsTask(new)
  BY <1>2, TaskFields
<1>5. Tasks' /\ OthersStay(q) /\ req'[q] = new
  BY <1>1, <1>2, <1>3, StepTasks
<1>4. /\ new.kind = r.kind /\ new.calls = Tail(r.calls) /\ new.who = r.who
      /\ new.what = r.what /\ new.key = r.key /\ new.shown = shown
      /\ new.seen = r.seen /\ new.code = CodeOf(r.calls)
  BY <1>2, TaskFields
<1> QED
  BY <1>4, <1>5

\* A request that has got its account.
Minted(q, who) == req' = [req EXCEPT ![q] = [Went(q, @) EXCEPT !.who = who]]

LEMMA MintedFields ==
    ASSUME Tasks, NEW q \in Requests, NEW who,
           Minted(q, who)
    PROVE  /\ Tasks' /\ OthersStay(q)
           /\ req'[q].kind = req[q].kind /\ req'[q].calls = Tail(req[q].calls)
           /\ req'[q].who = who /\ req'[q].what = req[q].what
           /\ req'[q].key = req[q].key /\ req'[q].shown = req[q].shown
           /\ req'[q].seen = req[q].seen /\ req'[q].code = CodeOf(req[q].calls)
<1> PICK r : r = req[q]
  OBVIOUS
<1> DEFINE new == [Went(q, r) EXCEPT !.who = who]
<1>1. req' = [req EXCEPT ![q] = new]
  BY DEF Tasks, Minted
<1>2. new = Task(r.kind, Tail(r.calls), who, r.what, r.key, r.shown, r.seen, CodeOf(r.calls))
  BY WentTask, TaskWho
<1> HIDE DEF new
<1>3. IsTask(new)
  BY <1>2, TaskFields
<1>5. Tasks' /\ OthersStay(q) /\ req'[q] = new
  BY <1>1, <1>2, <1>3, StepTasks
<1>4. /\ new.kind = r.kind /\ new.calls = Tail(r.calls) /\ new.who = who
      /\ new.what = r.what /\ new.key = r.key /\ new.shown = r.shown
      /\ new.seen = r.seen /\ new.code = CodeOf(r.calls)
  BY <1>2, TaskFields
<1> QED
  BY <1>4, <1>5

\* A request that goes on to its next subject.
Reads(q, seen) == req' = [req EXCEPT ![q].seen = seen]

LEMMA ReadsFields ==
    ASSUME Tasks, NEW q \in Requests, NEW seen,
           Reads(q, seen)
    PROVE  /\ Tasks' /\ OthersStay(q)
           /\ req'[q].kind = req[q].kind /\ req'[q].calls = req[q].calls
           /\ req'[q].who = req[q].who /\ req'[q].what = req[q].what
           /\ req'[q].key = req[q].key /\ req'[q].shown = req[q].shown
           /\ req'[q].seen = seen /\ req'[q].code = req[q].code
<1> PICK r : r = req[q]
  OBVIOUS
<1> DEFINE new == [r EXCEPT !.seen = seen]
<1>1. req' = [req EXCEPT ![q] = new]
  BY DEF Tasks, Reads
<1>2. new = Task(r.kind, r.calls, r.who, r.what, r.key, r.shown, seen, r.code)
  <2>1. r = Task(r.kind, r.calls, r.who, r.what, r.key, r.shown, r.seen, r.code)
    BY DEF Tasks, IsTask
  <2> QED
    BY <2>1, TaskSeen
<1> HIDE DEF new
<1>3. IsTask(new)
  BY <1>2, TaskFields
<1>5. Tasks' /\ OthersStay(q) /\ req'[q] = new
  BY <1>1, <1>2, <1>3, StepTasks
<1>4. /\ new.kind = r.kind /\ new.calls = r.calls /\ new.who = r.who
      /\ new.what = r.what /\ new.key = r.key /\ new.shown = r.shown
      /\ new.seen = seen /\ new.code = r.code
  BY <1>2, TaskFields
<1> QED
  BY <1>4, <1>5

\* The same, field by field.
LEMMA ProceedFields ==
    ASSUME Tasks, NEW q \in Requests, Proceed(q)
    PROVE  /\ Tasks' /\ OthersStay(q)
           /\ req'[q].kind = req[q].kind /\ req'[q].calls = Tail(req[q].calls)
           /\ req'[q].who = req[q].who /\ req'[q].what = req[q].what
           /\ req'[q].key = req[q].key /\ req'[q].shown = req[q].shown
           /\ req'[q].seen = req[q].seen /\ req'[q].code = CodeOf(req[q].calls)
<1> PICK r, n : r = req[q] /\ n = req'[q]
  OBVIOUS
<1>1. n = Task(r.kind, Tail(r.calls), r.who, r.what, r.key, r.shown, r.seen, CodeOf(r.calls))
  BY ProceedTasks
<1> QED
  BY <1>1, ProceedTasks, TaskFields

LEMMA ProceedWithFields ==
    ASSUME Tasks, NEW q \in Requests, NEW seen, ProceedWith(q, seen)
    PROVE  /\ Tasks' /\ OthersStay(q)
           /\ req'[q].kind = req[q].kind /\ req'[q].calls = Tail(req[q].calls)
           /\ req'[q].who = req[q].who /\ req'[q].what = req[q].what
           /\ req'[q].key = req[q].key /\ req'[q].shown = req[q].shown
           /\ req'[q].seen = seen /\ req'[q].code = CodeOf(req[q].calls)
<1> PICK r, n : r = req[q] /\ n = req'[q]
  OBVIOUS
<1>1. n = Task(r.kind, Tail(r.calls), r.who, r.what, r.key, r.shown, seen, CodeOf(r.calls))
  BY ProceedWithTasks
<1> QED
  BY <1>1, ProceedWithTasks, TaskFields

\* A request that is answered or gives up.
Cut(q, calls, code) == req' = [req EXCEPT ![q].calls = calls, ![q].code = code]

LEMMA CutFields ==
    ASSUME Tasks, NEW q \in Requests, NEW calls, NEW code,
           Cut(q, calls, code)
    PROVE  /\ Tasks' /\ OthersStay(q)
           /\ req'[q].kind = req[q].kind /\ req'[q].calls = calls
           /\ req'[q].who = req[q].who /\ req'[q].what = req[q].what
           /\ req'[q].key = req[q].key /\ req'[q].shown = req[q].shown
           /\ req'[q].seen = req[q].seen /\ req'[q].code = code
<1> PICK r : r = req[q]
  OBVIOUS
<1> DEFINE r1 == [r EXCEPT !.calls = calls]
           new == [r EXCEPT !.calls = calls, !.code = code]
<1>1. r = Task(r.kind, r.calls, r.who, r.what, r.key, r.shown, r.seen, r.code)
  BY DEF Tasks, IsTask
<1>2. r1 = Task(r.kind, calls, r.who, r.what, r.key, r.shown, r.seen, r.code)
  BY <1>1, TaskCalls
<1>3. new = [r1 EXCEPT !.code = code]
  OBVIOUS
<1> HIDE DEF r1
<1>4. new = Task(r.kind, calls, r.who, r.what, r.key, r.shown, r.seen, code)
  BY <1>2, <1>3, TaskCode
<1>5. req' = [req EXCEPT ![q] = new]
  BY DEF Tasks, Cut
<1> HIDE DEF new
<1>6. IsTask(new)
  BY <1>4, TaskFields
<1>7. Tasks' /\ OthersStay(q) /\ req'[q] = new
  BY <1>5, <1>6, StepTasks
<1> QED
  BY <1>4, <1>7, TaskFields

LEMMA AnsweredFields ==
    ASSUME Tasks, NEW q \in Requests, NEW code, Answered(q, code)
    PROVE  /\ Tasks' /\ OthersStay(q)
           /\ req'[q].kind = req[q].kind /\ req'[q].calls = <<>>
           /\ req'[q].who = req[q].who /\ req'[q].what = req[q].what
           /\ req'[q].key = req[q].key /\ req'[q].shown = req[q].shown
           /\ req'[q].seen = req[q].seen /\ req'[q].code = code
<1>1. Cut(q, <<>>, code)
  BY DEF Answered, Cut
<1> QED
  BY <1>1, CutFields

\* A request whose client left.
Left(q, kind, calls) == req' = [req EXCEPT ![q].kind = kind, ![q].calls = calls]

LEMMA LeftFields ==
    ASSUME Tasks, NEW q \in Requests, NEW calls, NEW kind,
           Left(q, kind, calls)
    PROVE  /\ Tasks' /\ OthersStay(q)
           /\ req'[q].kind = kind /\ req'[q].calls = calls
           /\ req'[q].who = req[q].who /\ req'[q].what = req[q].what
           /\ req'[q].key = req[q].key /\ req'[q].shown = req[q].shown
           /\ req'[q].seen = req[q].seen /\ req'[q].code = req[q].code
<1> PICK r : r = req[q]
  OBVIOUS
<1> DEFINE r1 == [r EXCEPT !.kind = kind]
           new == [r EXCEPT !.kind = kind, !.calls = calls]
<1>1. r = Task(r.kind, r.calls, r.who, r.what, r.key, r.shown, r.seen, r.code)
  BY DEF Tasks, IsTask
<1>2. r1 = Task(kind, r.calls, r.who, r.what, r.key, r.shown, r.seen, r.code)
  BY <1>1, TaskKind
<1>3. new = [r1 EXCEPT !.calls = calls]
  OBVIOUS
<1> HIDE DEF r1
<1>4. new = Task(kind, calls, r.who, r.what, r.key, r.shown, r.seen, r.code)
  BY <1>2, <1>3, TaskCalls
<1>5. req' = [req EXCEPT ![q] = new]
  BY DEF Tasks, Left
<1> HIDE DEF new
<1>6. IsTask(new)
  BY <1>4, TaskFields
<1>7. Tasks' /\ OthersStay(q) /\ req'[q] = new
  BY <1>5, <1>6, StepTasks
<1> QED
  BY <1>4, <1>7, TaskFields

-----------------------------------------------------------------------------
(* Calls. *)

\* The call a request is at, or "over" for one that is answered or was not sent.
Stage(r) == IF r.calls = <<>> THEN "over" ELSE Head(r.calls)

LEMMA Calls1 ==
    ASSUME NEW a
    PROVE  <<a>> # <<>> /\ Head(<<a>>) = a /\ Tail(<<a>>) = <<>> /\ Len(<<a>>) = 1
  OBVIOUS

LEMMA Calls2 ==
    ASSUME NEW a, NEW b
    PROVE  /\ <<a, b>> # <<>> /\ Head(<<a, b>>) = a /\ Tail(<<a, b>>) = <<b>>
           /\ Len(<<a, b>>) = 2
  OBVIOUS

LEMMA Calls3 ==
    ASSUME NEW a, NEW b, NEW c
    PROVE  /\ <<a, b, c>> # <<>> /\ Head(<<a, b, c>>) = a /\ Tail(<<a, b, c>>) = <<b, c>>
           /\ Len(<<a, b, c>>) = 3
  OBVIOUS

LEMMA Calls4 ==
    ASSUME NEW a, NEW b, NEW c, NEW d
    PROVE  /\ <<a, b, c, d>> # <<>> /\ Head(<<a, b, c, d>>) = a
           /\ Tail(<<a, b, c, d>>) = <<b, c, d>> /\ Len(<<a, b, c, d>>) = 4
  OBVIOUS

LEMMA Calls5 ==
    ASSUME NEW a, NEW b, NEW c, NEW d, NEW e
    PROVE  /\ <<a, b, c, d, e>> # <<>> /\ Head(<<a, b, c, d, e>>) = a
           /\ Tail(<<a, b, c, d, e>>) = <<b, c, d, e>> /\ Len(<<a, b, c, d, e>>) = 5
  OBVIOUS

\* All calls but the last.
LEMMA Front2 == ASSUME NEW a, NEW b PROVE SubSeq(<<a, b>>, 1, 1) = <<a>>
<1> DEFINE t == <<a, b>>
           s == SubSeq(t, 1, 1)
<1>1. t \in Seq({a, b}) /\ Len(t) = 2 /\ t[1] = a
  OBVIOUS
<1> HIDE DEF t
<1>2. s \in Seq({a, b}) /\ Len(s) = 1 /\ s[1] = a
  BY <1>1
<1> HIDE DEF s
<1>3. s = <<a>>
  BY <1>2
<1> QED
  BY <1>3 DEF s, t

LEMMA Front3 == ASSUME NEW a, NEW b, NEW c PROVE SubSeq(<<a, b, c>>, 1, 2) = <<a, b>>
<1> DEFINE t == <<a, b, c>>
           s == SubSeq(t, 1, 2)
<1>1. t \in Seq({a, b, c}) /\ Len(t) = 3 /\ t[1] = a /\ t[2] = b
  OBVIOUS
<1> HIDE DEF t
<1>2. s \in Seq({a, b, c}) /\ Len(s) = 2 /\ s[1] = a /\ s[2] = b
  BY <1>1
<1> HIDE DEF s
<1>3. s = <<a, b>>
  BY <1>2
<1> QED
  BY <1>3 DEF s, t

LEMMA Front4 ==
    ASSUME NEW a, NEW b, NEW c, NEW d PROVE SubSeq(<<a, b, c, d>>, 1, 3) = <<a, b, c>>
<1> DEFINE t == <<a, b, c, d>>
           s == SubSeq(t, 1, 3)
<1>1. t \in Seq({a, b, c, d}) /\ Len(t) = 4 /\ t[1] = a /\ t[2] = b /\ t[3] = c
  OBVIOUS
<1> HIDE DEF t
<1>2. s \in Seq({a, b, c, d}) /\ Len(s) = 3 /\ s[1] = a /\ s[2] = b /\ s[3] = c
  BY <1>1
<1> HIDE DEF s
<1>3. s = <<a, b, c>>
  BY <1>2
<1> QED
  BY <1>3 DEF s, t

LEMMA Front5 ==
    ASSUME NEW a, NEW b, NEW c, NEW d, NEW e
    PROVE  SubSeq(<<a, b, c, d, e>>, 1, 4) = <<a, b, c, d>>
<1> DEFINE t == <<a, b, c, d, e>>
           s == SubSeq(t, 1, 4)
<1>1. /\ t \in Seq({a, b, c, d, e}) /\ Len(t) = 5
      /\ t[1] = a /\ t[2] = b /\ t[3] = c /\ t[4] = d
  OBVIOUS
<1> HIDE DEF t
<1>2. /\ s \in Seq({a, b, c, d, e}) /\ Len(s) = 4
      /\ s[1] = a /\ s[2] = b /\ s[3] = c /\ s[4] = d
  BY <1>1
<1> HIDE DEF s
<1>3. s = <<a, b, c, d>>
  BY <1>2
<1> QED
  BY <1>3 DEF s, t

-----------------------------------------------------------------------------
(* The draft. *)

\* What is left of the calls of a build, its client still there or not.
BuildRests == {BuildCalls, <<"readDrawings", "upload", "ready", "touch">>,
               <<"upload", "ready", "touch">>, <<"ready", "touch">>, <<"touch">>, <<>>}
LeftRests == {<<"readIom", "readDrawings", "upload", "ready">>,
              <<"readDrawings", "upload", "ready">>, <<"upload", "ready">>, <<"ready">>, <<>>}

LEMMA BuildOrder ==
    ASSUME NEW r, r.calls \in BuildRests \cup LeftRests, r.calls # <<>>,
           NEW n, n.calls = Tail(r.calls)
    PROVE  /\ n.calls \in BuildRests \cup LeftRests
           /\ Stage(r) \in {"readIom", "readDrawings", "upload", "ready", "touch"}
           /\ Stage(r) = "readIom" => Stage(n) = "readDrawings"
           /\ Stage(r) = "readDrawings" => Stage(n) = "upload"
           /\ Stage(r) = "upload" => Stage(n) = "ready"
           /\ Stage(r) = "ready" => Stage(n) \in {"touch", "over"}
           /\ Stage(r) = "touch" => Stage(n) = "over"
           /\ CodeOf(r.calls) = 200 => Stage(r) \in {"ready", "touch"}
<1>1. CASE r.calls = BuildCalls
  BY <1>1, Calls5, Calls4 DEF BuildCalls, BuildRests, LeftRests, Stage, CodeOf
<1>2. CASE r.calls = <<"readDrawings", "upload", "ready", "touch">>
  BY <1>2, Calls4, Calls3 DEF BuildRests, LeftRests, Stage, CodeOf
<1>3. CASE r.calls = <<"upload", "ready", "touch">>
  BY <1>3, Calls3, Calls2 DEF BuildRests, LeftRests, Stage, CodeOf
<1>4. CASE r.calls = <<"ready", "touch">>
  BY <1>4, Calls2, Calls1 DEF BuildRests, LeftRests, Stage, CodeOf
<1>5. CASE r.calls = <<"touch">>
  BY <1>5, Calls1 DEF BuildRests, LeftRests, Stage, CodeOf
<1>6. CASE r.calls = <<"readIom", "readDrawings", "upload", "ready">>
  BY <1>6, Calls4, Calls3 DEF BuildRests, LeftRests, Stage, CodeOf
<1>7. CASE r.calls = <<"readDrawings", "upload", "ready">>
  BY <1>7, Calls3, Calls2 DEF BuildRests, LeftRests, Stage, CodeOf
<1>8. CASE r.calls = <<"upload", "ready">>
  BY <1>8, Calls2, Calls1 DEF BuildRests, LeftRests, Stage, CodeOf
<1>9. CASE r.calls = <<"ready">>
  BY <1>9, Calls1 DEF BuildRests, LeftRests, Stage, CodeOf
<1> QED
  BY <1>1, <1>2, <1>3, <1>4, <1>5, <1>6, <1>7, <1>8, <1>9 DEF BuildRests, LeftRests

LEMMA BuildKeeps ==
    ASSUME NEW c, c \in BuildRests, c # <<>>
    PROVE  Tail(c) \in BuildRests
<1>1. CASE c = BuildCalls
  BY <1>1, Calls5 DEF BuildCalls, BuildRests
<1>2. CASE c = <<"readDrawings", "upload", "ready", "touch">>
  BY <1>2, Calls4 DEF BuildRests
<1>3. CASE c = <<"upload", "ready", "touch">>
  BY <1>3, Calls3 DEF BuildRests
<1>4. CASE c = <<"ready", "touch">>
  BY <1>4, Calls2 DEF BuildRests
<1>5. CASE c = <<"touch">>
  BY <1>5, Calls1 DEF BuildRests
<1> QED
  BY <1>1, <1>2, <1>3, <1>4, <1>5 DEF BuildRests

\* When its client gives up, a build loses the last call and no other.
LEMMA BuildLeft ==
    ASSUME NEW r, r.calls \in BuildRests, Stage(r) \notin {"over", "touch"},
           NEW n, n.calls = SubSeq(r.calls, 1, Len(r.calls) - 1)
    PROVE  n.calls \in LeftRests /\ n.calls # <<>> /\ Stage(n) = Stage(r)
<1>1. CASE r.calls = BuildCalls
  BY <1>1, Front5, Calls5, Calls4 DEF BuildCalls, LeftRests, Stage
<1>2. CASE r.calls = <<"readDrawings", "upload", "ready", "touch">>
  BY <1>2, Front4, Calls4, Calls3 DEF LeftRests, Stage
<1>3. CASE r.calls = <<"upload", "ready", "touch">>
  BY <1>3, Front3, Calls3, Calls2 DEF LeftRests, Stage
<1>4. CASE r.calls = <<"ready", "touch">>
  BY <1>4, Front2, Calls2, Calls1 DEF LeftRests, Stage
<1> QED
  BY <1>1, <1>2, <1>3, <1>4, Calls1 DEF BuildRests, Stage

\* A build was made from the model of its request or a later one.
BuildTrue(r) ==
    /\ r.kind \in {None, "build", "abandoned"}
    /\ r.calls \in BuildRests \cup LeftRests
    /\ r.kind = "build" => r.calls \in BuildRests
    /\ r.kind = None => r.calls = <<>>
    /\ r.kind # None => r.what \in Nat /\ r.what <= iom
    /\ Stage(r) \in {"readDrawings", "upload", "ready", "touch"} =>
          r.seen \in Nat /\ r.seen >= r.what

\* Who stored a draft has passed the upload.
UploadersPast ==
    \A i \in DOMAIN uploads :
        /\ req[uploads[i]].kind # None
        /\ Stage(req[uploads[i]]) \in {"ready", "touch", "over"}

\* The client of q is to be told, or was told.
Due(q) == Stage(req[q]) \in {"ready", "touch"} \/ q \in Told

\* What is stored is good for the client of q, and nobody who is still to store
\* anything can change that but builds that overlapped with its own.
Good(q) ==
    /\ uploads # <<>>
    /\ LET last == uploads[Len(uploads)]
       IN  req[last].seen >= req[q].what \/ last \in req[q].shown
    /\ \A p \in Requests \ {q} :
          Open(p) => p \in req[q].shown \/ req[p].what >= req[q].what

DraftInv ==
    /\ Tasks
    /\ iom \in Nat /\ uploads \in Seq(Requests) /\ ready \subseteq Requests
    /\ \A q \in Requests : BuildTrue(req[q])
    /\ UploadersPast
    /\ \A q \in ready : req[q].kind # None
    /\ \A q \in Requests : Due(q) => Good(q)

LEMMA DraftInit == ASSUME TasksInit, OutputsInit PROVE DraftInv
<1>1. \A q \in Requests : req[q] = Task(None, <<>>, None, None, None, None, None, 0)
  BY NotSentTask DEF TasksInit
<1>2. \A q \in Requests : req[q].kind = None /\ req[q].calls = <<>> /\ req[q].code = 0
  BY <1>1, TaskFields
<1>3. \A q \in Requests : BuildTrue(req[q])
  BY <1>2, TaskAssumption DEF BuildTrue, Stage, BuildRests, LeftRests
<1>4. \A q \in Requests : ~Due(q)
  BY <1>2 DEF Due, Told, Stage, OutputsInit
<1>5. uploads \in Seq(Requests) /\ UploadersPast
  BY DEF UploadersPast, OutputsInit
<1> QED
  BY <1>3, <1>4, <1>5, InitTasks DEF DraftInv, OutputsInit

\* What stays good for the other clients when one request moves on.
LEMMA GoodStays ==
    ASSUME NEW q \in Requests, NEW c \in Requests \ {q}, OthersStay(q), Good(c),
           req[q].kind # None, req'[q].what = req[q].what,
           Open(q)' => Open(q), uploads' = uploads, uploads \in Seq(Requests),
           uploads[Len(uploads)] = q => req'[q].seen = req[q].seen
    PROVE  Good(c)'
<1>1. req'[c] = req[c] /\ uploads # <<>>
  BY DEF OthersStay, Good
<1> DEFINE last == uploads[Len(uploads)]
<1>2. last \in Requests
  BY <1>1
<1>3. req'[last].seen = req[last].seen
  BY <1>2 DEF OthersStay
<1>4. \A p \in Requests : (Open(p)' => Open(p)) /\ req'[p].what = req[p].what
  BY DEF OthersStay, Open
<1>5. \A p \in Requests \ {c} : Open(p)' => p \in req'[c].shown \/ req'[p].what >= req'[c].what
  BY <1>1, <1>4 DEF Good
<1>6. req'[last].seen >= req'[c].what \/ last \in req'[c].shown
  BY <1>1, <1>3 DEF Good
<1> QED
  BY <1>1, <1>5, <1>6 DEF Good

LEMMA DraftMove ==
    ASSUME DraftInv, NEW q \in Requests, Tasks', OthersStay(q), iom' = iom,
           uploads' = uploads, ready \subseteq ready', ready' \subseteq ready \cup {q},
           req[q].kind # None, BuildTrue(req'[q]), req'[q].kind # None,
           req'[q].what = req[q].what, req'[q].shown = req[q].shown,
           req'[q].seen = req[q].seen \/ Stage(req[q]) = "readIom",
           Stage(req[q]) \in {"ready", "touch", "over"} =>
               Stage(req'[q]) \in {"ready", "touch", "over"},
           Open(q)' => Open(q), Due(q)' => Due(q)
    PROVE  DraftInv'
<1> USE DEF DraftInv
<1>1. uploads \in Seq(Requests)
  OBVIOUS
<1>2. \A i \in DOMAIN uploads : uploads[i] \in Requests
  BY <1>1
<1>3. \A p \in Requests : BuildTrue(req[p])' 
  <2> SUFFICES ASSUME NEW p \in Requests PROVE BuildTrue(req[p])'
    OBVIOUS
  <2>1. CASE p = q
    BY <2>1 DEF BuildTrue
  <2>2. CASE p # q
    BY <2>2 DEF BuildTrue, OthersStay
  <2> QED
    BY <2>1, <2>2
<1>4. UploadersPast'
  BY <1>2 DEF UploadersPast, OthersStay
<1>5. \A p \in ready' : req'[p].kind # None
  BY DEF OthersStay
<1>6. \A i \in DOMAIN uploads : uploads[i] = q => req'[q].seen = req[q].seen
  BY DEF UploadersPast
<1>7. uploads # <<>> => Len(uploads) \in DOMAIN uploads
  BY <1>1
<1>8. ASSUME NEW c \in Requests, Due(c)' PROVE Good(c)'
  <2>1. Due(c)
    <3>1. CASE c = q
      BY <3>1, <1>8
    <3>2. CASE c # q
      BY <3>2, <1>8 DEF Due, Told, OthersStay
    <3> QED
      BY <3>1, <3>2
  <2>2. Good(c) /\ uploads # <<>>
    BY <2>1 DEF Good
  <2>3. CASE c # q
    BY <2>3, <2>2, <1>6, <1>7, GoodStays
  <2>4. CASE c = q
    <3> DEFINE last == uploads[Len(uploads)]
    <3>1. last \in Requests /\ req'[last].seen = req[last].seen
      BY <2>2, <1>2, <1>6, <1>7 DEF OthersStay
    <3>2. \A p \in Requests \ {q} : req'[p] = req[p]
      BY DEF OthersStay
    <3>3. \A p \in Requests \ {q} :
              Open(p)' => p \in req'[q].shown \/ req'[p].what >= req'[q].what
      BY <3>2, <2>2, <2>4 DEF Good, Open
    <3>4. req'[last].seen >= req'[q].what \/ last \in req'[q].shown
      BY <3>1, <2>2, <2>4 DEF Good
    <3> QED
      BY <3>3, <3>4, <2>2, <2>4 DEF Good
  <2> QED
    BY <2>3, <2>4
<1>9. ready' \subseteq Requests
  OBVIOUS
<1> QED
  BY <1>3, <1>4, <1>5, <1>8, <1>9

LEMMA DraftStore ==
    ASSUME DraftInv, NEW q \in Requests, Tasks', OthersStay(q), iom' = iom,
           uploads' = Append(uploads, q), ready' = ready,
           Stage(req[q]) = "upload", req[q].kind # None,
           BuildTrue(req'[q]), req'[q].kind = req[q].kind,
           req'[q].what = req[q].what, req'[q].seen = req[q].seen,
           Stage(req'[q]) \in {"ready", "over"},
           \/ req'[q].shown = {p \in Requests : Open(p)} \ {q}
           \/ req'[q].shown = req[q].shown /\ (Due(q)' => Due(q))
    PROVE  DraftInv'
<1> USE DEF DraftInv
<1>1. uploads \in Seq(Requests) /\ uploads' \in Seq(Requests)
  OBVIOUS
<1>2. /\ Len(uploads') = Len(uploads) + 1 /\ uploads' # <<>>
      /\ uploads'[Len(uploads')] = q
      /\ \A i \in DOMAIN uploads' : uploads'[i] \in Requests
      /\ \A i \in DOMAIN uploads' : uploads'[i] = q \/ (i \in DOMAIN uploads /\ uploads'[i] = uploads[i])
  BY <1>1
<1>3. \A p \in Requests : BuildTrue(req[p])'
  <2> SUFFICES ASSUME NEW p \in Requests PROVE BuildTrue(req[p])'
    OBVIOUS
  <2>1. CASE p = q
    BY <2>1 DEF BuildTrue
  <2>2. CASE p # q
    BY <2>2 DEF BuildTrue, OthersStay
  <2> QED
    BY <2>1, <2>2
<1>4. UploadersPast'
  <2> SUFFICES ASSUME NEW i \in DOMAIN uploads'
               PROVE  /\ req'[uploads'[i]].kind # None
                      /\ Stage(req'[uploads'[i]]) \in {"ready", "touch", "over"}
    BY DEF UploadersPast
  <2>1. CASE uploads'[i] = q
    BY <2>1
  <2>2. CASE uploads'[i] # q
    BY <2>2, <1>2 DEF UploadersPast, OthersStay
  <2> QED
    BY <2>1, <2>2
<1>5. \A p \in ready' : req'[p].kind # None
  BY DEF OthersStay
<1>6. Open(q) /\ req[q].seen \in Nat /\ req[q].what \in Nat /\ req[q].seen >= req[q].what
  BY DEF BuildTrue, Stage, Open
<1>7. \A p \in Requests \ {q} : req'[p] = req[p] /\ (Open(p)' <=> Open(p))
  BY DEF OthersStay, Open
<1>8. \A p \in Requests : Open(p) => req[p].kind # None
  BY DEF BuildTrue, Open
<1>9. ASSUME NEW c \in Requests, Due(c)' PROVE Good(c)'
  <2>1. CASE c = q
    <3>1. req'[q].seen >= req'[q].what
      BY <1>6
    <3>2. ASSUME NEW p \in Requests \ {q}, Open(p)'
          PROVE  p \in req'[q].shown \/ req'[p].what >= req'[q].what
      <4>1. CASE req'[q].shown = {x \in Requests : Open(x)} \ {q}
        BY <3>2, <4>1, <1>7
      <4>2. CASE req'[q].shown = req[q].shown /\ (Due(q)' => Due(q))
        <5>1. Good(q)
          BY <4>2, <2>1, <1>9
        <5> QED
          BY <5>1, <4>2, <3>2, <1>7 DEF Good
      <4> QED
        BY <4>1, <4>2
    <3> QED
      BY <2>1, <3>1, <3>2, <1>2 DEF Good
  <2>2. CASE c # q
    <3>1. req'[c] = req[c] /\ Due(c)
      BY <2>2, <1>9, <1>7 DEF Due, Told
    <3>2. Good(c) /\ req[c].kind # None
      BY <3>1, <1>8, TaskAssumption DEF Due, Told, Open, Stage, Kinds
    <3>3. req[c].what \in Nat
      BY <3>2 DEF BuildTrue
    <3>4. q \in req[c].shown \/ req[q].what >= req[c].what
      BY <3>2, <2>2, <1>6 DEF Good
    <3>5. q \in req'[c].shown \/ req'[q].seen >= req'[c].what
      BY <3>4, <3>3, <3>1, <1>6
    <3>6. \A p \in Requests \ {c} :
              Open(p)' => p \in req'[c].shown \/ req'[p].what >= req'[c].what
      BY <3>1, <3>2, <3>4, <1>7 DEF Good
    <3> QED
      BY <3>5, <3>6, <1>2 DEF Good
  <2> QED
    BY <2>1, <2>2
<1> QED
  BY <1>1, <1>3, <1>4, <1>5, <1>9

LEMMA DraftSent == ASSUME DraftInv, NEW q \in Requests, BuildDraft(q) PROVE DraftInv'
<1> USE DEF DraftInv
<1>0. /\ Sent(q, "build", BuildCalls, None, iom, None)
      /\ iom' = iom /\ uploads' = uploads /\ ready' = ready
  BY DEF BuildDraft, outputVars
<1> PICK m : m = iom
  OBVIOUS
<1>1. Sent(q, "build", BuildCalls, None, m, None)
  BY <1>0
<1>2. /\ Tasks' /\ OthersStay(q)
      /\ req[q] = Task(None, <<>>, None, None, None, None, None, 0)
      /\ req'[q] = Task("build", BuildCalls, None, m, None, None, None, 0)
  BY <1>1, SentTasks
<1>3. /\ req[q].kind = None
      /\ req'[q].kind = "build" /\ req'[q].calls = BuildCalls /\ req'[q].what = m
      /\ req'[q].code = 0
  <2>1. PICK r : r = req[q]
    OBVIOUS
  <2>2. PICK n : n = req'[q]
    OBVIOUS
  <2> QED
    BY <1>2, <2>1, <2>2, TaskFields
<1>4. Stage(req'[q]) = "readIom" /\ "build" # None
  BY <1>3, Calls5, TaskAssumption DEF BuildCalls, Stage, Kinds
<1>5. BuildTrue(req[q])'
  BY <1>0, <1>3, <1>4 DEF BuildTrue, BuildRests
<1>6. \A p \in Requests : BuildTrue(req[p])'
  <2> SUFFICES ASSUME NEW p \in Requests PROVE BuildTrue(req[p])'
    OBVIOUS
  <2>1. CASE p = q
    BY <2>1, <1>5
  <2>2. CASE p # q
    BY <2>2, <1>0, <1>2 DEF BuildTrue, OthersStay
  <2> QED
    BY <2>1, <2>2
<1>7. \A i \in DOMAIN uploads : uploads[i] \in Requests /\ uploads[i] # q
  BY <1>3 DEF UploadersPast
<1>8. UploadersPast'
  BY <1>0, <1>2, <1>7 DEF UploadersPast, OthersStay
<1>9. \A p \in ready' : req'[p].kind # None
  BY <1>0, <1>2, <1>3, <1>4 DEF OthersStay
<1>10. ASSUME NEW c \in Requests, Due(c)' PROVE Good(c)'
  <2>1. c # q
    BY <1>0, <1>3, <1>4, <1>10 DEF Due, Told
  <2>2. req'[c] = req[c] /\ Due(c) /\ Good(c)
    BY <2>1, <1>0, <1>2, <1>10 DEF Due, Told, OthersStay
  <2>3. req[c].kind # None
    BY <2>2, TaskAssumption DEF Due, Told, BuildTrue, Stage, Kinds
  <2>4. req[c].what \in Nat /\ req[c].what <= iom
    BY <2>3 DEF BuildTrue
  <2>5. \A p \in Requests \ {c} :
            Open(p)' => p \in req'[c].shown \/ req'[p].what >= req'[c].what
    <3> SUFFICES ASSUME NEW p \in Requests \ {c}, Open(p)'
                 PROVE  p \in req'[c].shown \/ req'[p].what >= req'[c].what
      OBVIOUS
    <3>1. CASE p = q
      BY <3>1, <2>2, <2>4, <1>3
    <3>2. CASE p # q
      BY <3>2, <2>2, <1>2 DEF OthersStay, Good, Open
    <3> QED
      BY <3>1, <3>2
  <2>6. uploads # <<>> /\ uploads[Len(uploads)] \in Requests \ {q}
    BY <2>2, <1>7 DEF Good
  <2>7. LET last == uploads[Len(uploads)]
        IN  req'[last].seen >= req'[c].what \/ last \in req'[c].shown
    BY <2>2, <2>6, <1>2 DEF Good, OthersStay
  <2> QED
    BY <1>0, <2>5, <2>6, <2>7 DEF Good
<1> QED
  BY <1>0, <1>2, <1>6, <1>8, <1>9, <1>10

LEMMA DraftReadsIom == ASSUME DraftInv, NEW q \in Requests, ReadIom(q) PROVE DraftInv'
<1> USE DEF DraftInv
<1>0. /\ req[q].calls # <<>> /\ Stage(req[q]) = "readIom"
      /\ iom' = iom /\ uploads' = uploads /\ ready' = ready
  BY DEF ReadIom, At, Open, Stage, outputVars
<1>1. BuildTrue(req[q]) /\ req[q].kind # None
  BY <1>0 DEF BuildTrue
<1>2. CASE iom = 0
  <2>1. Answered(q, 404)
    BY <1>2 DEF ReadIom
  <2>2. /\ Tasks' /\ OthersStay(q)
        /\ req'[q].kind = req[q].kind /\ req'[q].calls = <<>> /\ req'[q].what = req[q].what
        /\ req'[q].shown = req[q].shown /\ req'[q].seen = req[q].seen /\ req'[q].code = 404
    BY <2>1, AnsweredFields
  <2>3. Stage(req'[q]) = "over" /\ ~Open(q)' /\ Open(q)
    BY <1>0, <2>2 DEF Stage, Open
  <2>4. BuildTrue(req'[q])
    BY <1>1, <2>2, <2>3 DEF BuildTrue, BuildRests
  <2>5. Due(q)' => Due(q)
    BY <1>0, <2>2, <2>3 DEF Due, Told
  <2> QED
    BY <1>0, <1>1, <2>2, <2>3, <2>4, <2>5, DraftMove
<1>3. CASE iom # 0
  <2> PICK m : m = iom
    OBVIOUS
  <2>1. ProceedWith(q, m)
    BY <1>3 DEF ReadIom
  <2>2. /\ Tasks' /\ OthersStay(q)
        /\ req'[q].kind = req[q].kind /\ req'[q].calls = Tail(req[q].calls)
        /\ req'[q].what = req[q].what /\ req'[q].shown = req[q].shown
        /\ req'[q].seen = m /\ req'[q].code = CodeOf(req[q].calls)
    BY <2>1, ProceedWithFields
  <2> PICK r, n : r = req[q] /\ n = req'[q]
    OBVIOUS
  <2>3. /\ n.calls \in BuildRests \cup LeftRests /\ Stage(n) = "readDrawings"
        /\ CodeOf(r.calls) # 200
    BY <1>0, <1>1, <2>2, BuildOrder DEF BuildTrue
  <2>4. req[q].kind = "build" => req'[q].calls \in BuildRests
    BY <1>0, <1>1, <2>2, BuildKeeps DEF BuildTrue
  <2>5. BuildTrue(req'[q])
    BY <1>1, <2>2, <2>3, <2>4 DEF BuildTrue
  <2>6. Due(q)' => Due(q)
    BY <1>0, <2>2, <2>3 DEF Due, Told
  <2>7. Open(q)
    BY <1>0 DEF Open
  <2> QED
    BY <1>0, <1>1, <2>2, <2>3, <2>5, <2>6, <2>7, DraftMove
<1> QED
  BY <1>2, <1>3

\* A request that makes its next call and keeps what it has read.
LEMMA DraftProceeds ==
    ASSUME DraftInv, NEW q \in Requests, Proceed(q), req[q].calls # <<>>,
           Stage(req[q]) \notin {"readIom", "upload"},
           iom' = iom, uploads' = uploads, ready \subseteq ready',
           ready' \subseteq ready \cup (IF Stage(req[q]) = "ready" THEN {q} ELSE {})
    PROVE  DraftInv'
<1> USE DEF DraftInv
<1>1. BuildTrue(req[q]) /\ req[q].kind # None
  BY DEF BuildTrue
<1>2. /\ Tasks' /\ OthersStay(q)
      /\ req'[q].kind = req[q].kind /\ req'[q].calls = Tail(req[q].calls)
      /\ req'[q].what = req[q].what /\ req'[q].shown = req[q].shown
      /\ req'[q].seen = req[q].seen /\ req'[q].code = CodeOf(req[q].calls)
  BY ProceedFields
<1> PICK r, n : r = req[q] /\ n = req'[q]
  OBVIOUS
<1>3. /\ n.calls \in BuildRests \cup LeftRests
      /\ Stage(r) \in {"readDrawings", "ready", "touch"}
      /\ Stage(r) = "readDrawings" => Stage(n) = "upload"
      /\ Stage(r) = "ready" => Stage(n) \in {"touch", "over"}
      /\ Stage(r) = "touch" => Stage(n) = "over"
      /\ CodeOf(r.calls) = 200 => Stage(r) \in {"ready", "touch"}
  BY <1>1, <1>2, BuildOrder DEF BuildTrue
<1>4. req[q].kind = "build" => req'[q].calls \in BuildRests
  BY <1>1, <1>2, BuildKeeps DEF BuildTrue
<1>5. r.seen \in Nat /\ r.seen >= r.what
  BY <1>1, <1>3 DEF BuildTrue
<1>6. BuildTrue(req'[q])
  BY <1>1, <1>2, <1>3, <1>4, <1>5 DEF BuildTrue
<1>7. Due(q)' => Due(q)
  BY <1>2, <1>3 DEF Due, Told
<1>8. ready' \subseteq ready \cup {q} /\ Open(q)
  BY DEF Open
<1>9. Stage(req[q]) \in {"ready", "touch", "over"} =>
          Stage(req'[q]) \in {"ready", "touch", "over"}
  BY <1>3
<1> QED
  BY <1>1, <1>2, <1>6, <1>7, <1>8, <1>9, DraftMove

LEMMA DraftUploads == ASSUME DraftInv, NEW q \in Requests, UploadDraft(q) PROVE DraftInv'
<1> USE DEF DraftInv
<1>0. /\ req[q].calls # <<>> /\ Stage(req[q]) = "upload"
      /\ iom' = iom /\ uploads' = Append(uploads, q) /\ ready' = ready
  BY DEF UploadDraft, At, Open, Stage
<1>1. BuildTrue(req[q]) /\ req[q].kind # None
  BY <1>0 DEF BuildTrue
<1> PICK others : others = {p \in Requests : Open(p)} \ {q}
  OBVIOUS
<1>a. Show(q, others)
  BY DEF UploadDraft, Uploaded, Show
<1>2. /\ Tasks' /\ OthersStay(q)
      /\ req'[q].kind = req[q].kind /\ req'[q].calls = Tail(req[q].calls)
      /\ req'[q].what = req[q].what /\ req'[q].shown = others
      /\ req'[q].seen = req[q].seen /\ req'[q].code = CodeOf(req[q].calls)
  BY <1>a, ShownFields
<1> PICK r, n : r = req[q] /\ n = req'[q]
  OBVIOUS
<1>3. n.calls \in BuildRests \cup LeftRests /\ Stage(n) = "ready"
  BY <1>0, <1>1, <1>2, BuildOrder DEF BuildTrue
<1>4. req[q].kind = "build" => req'[q].calls \in BuildRests
  BY <1>0, <1>1, <1>2, BuildKeeps DEF BuildTrue
<1>5. r.seen \in Nat /\ r.seen >= r.what
  BY <1>0, <1>1 DEF BuildTrue
<1>6. BuildTrue(req'[q])
  BY <1>1, <1>2, <1>3, <1>4, <1>5 DEF BuildTrue
<1> QED
  BY <1>0, <1>1, <1>2, <1>3, <1>6, DraftStore

LEMMA DraftLeft == ASSUME DraftInv, NEW q \in Requests, OutputTimesOut(q) PROVE DraftInv'
<1> USE DEF DraftInv
<1>0. /\ req[q].calls # <<>> /\ Stage(req[q]) \notin {"touch", "over"}
      /\ req[q].kind = "build"
      /\ iom' = iom /\ uploads' = uploads /\ ready' = ready
  <2>1. BuildTrue(req[q]) /\ req[q].calls # <<>> /\ Head(req[q].calls) # "touch"
    BY DEF OutputTimesOut, At, Open
  <2>2. \A r : r.calls \in BuildRests \cup LeftRests /\ r.calls # <<>> => Stage(r) # "over"
    <3> SUFFICES ASSUME NEW r, r.calls \in BuildRests \cup LeftRests, r.calls # <<>>
                 PROVE  Stage(r) # "over"
      OBVIOUS
    <3> DEFINE n == [calls |-> Tail(r.calls)]
    <3>1. n.calls = Tail(r.calls)
      OBVIOUS
    <3> HIDE DEF n
    <3> QED
      BY <3>1, BuildOrder
  <2> QED
    BY <2>1, <2>2 DEF OutputTimesOut, BuildTrue, Stage, outputVars
<1>1. BuildTrue(req[q])
  BY <1>0
<1>p. PICK c : c = SubSeq(req[q].calls, 1, Len(req[q].calls) - 1)
  OBVIOUS
<1>k. PICK k : k = "abandoned"
  OBVIOUS
<1>a. Left(q, k, c)
  BY <1>p, <1>k DEF OutputTimesOut, Left, Tasks
<1>2. /\ Tasks' /\ OthersStay(q)
      /\ req'[q].kind = k /\ req'[q].calls = c
      /\ req'[q].what = req[q].what /\ req'[q].shown = req[q].shown
      /\ req'[q].seen = req[q].seen /\ req'[q].code = req[q].code
  BY <1>a, LeftFields
<1>b. req'[q].kind = "abandoned" /\ req'[q].calls = SubSeq(req[q].calls, 1, Len(req[q].calls) - 1)
  BY <1>2, <1>p, <1>k
<1> PICK r, n : r = req[q] /\ n = req'[q]
  OBVIOUS
<1>3. n.calls \in LeftRests /\ n.calls # <<>> /\ Stage(n) = Stage(r)
  BY <1>0, <1>1, <1>b, BuildLeft DEF BuildTrue
<1>4. "build" # None /\ "abandoned" # None
  BY TaskAssumption DEF Kinds
<1>5. BuildTrue(req'[q])
  BY <1>0, <1>1, <1>2, <1>b, <1>3, <1>4 DEF BuildTrue
<1>6. Due(q)' => Due(q)
  BY <1>0, <1>2, <1>b, <1>3 DEF Due, Told
<1>7. Open(q)
  BY <1>0 DEF Open
<1> QED
  BY <1>0, <1>2, <1>b, <1>3, <1>4, <1>5, <1>6, <1>7, DraftMove

LEMMA DraftFails == ASSUME DraftInv, NEW q \in Requests, OutputCallFails(q) PROVE DraftInv'
<1> USE DEF DraftInv
<1>0. req[q].calls # <<>> /\ iom' = iom /\ ready' = ready /\ Answered(q, 500)
  BY DEF OutputCallFails, Open
<1>1. BuildTrue(req[q]) /\ req[q].kind # None
  BY <1>0 DEF BuildTrue
<1>2. /\ Tasks' /\ OthersStay(q)
      /\ req'[q].kind = req[q].kind /\ req'[q].calls = <<>> /\ req'[q].what = req[q].what
      /\ req'[q].shown = req[q].shown /\ req'[q].seen = req[q].seen /\ req'[q].code = 500
  BY <1>0, AnsweredFields
<1>3. Stage(req'[q]) = "over" /\ ~Open(q)' /\ Open(q)
  BY <1>0, <1>2 DEF Stage, Open
<1>4. BuildTrue(req'[q])
  BY <1>1, <1>2, <1>3 DEF BuildTrue, BuildRests
<1>5. Due(q)' => Due(q)
  BY <1>0, <1>2, <1>3 DEF Due, Told
<1>6. CASE uploads' = uploads
  BY <1>0, <1>1, <1>2, <1>3, <1>4, <1>5, <1>6, DraftMove
<1>7. CASE At(q, "upload") /\ uploads' = Append(uploads, q)
  <2>1. Stage(req[q]) = "upload"
    BY <1>7 DEF At, Open, Stage
  <2> QED
    BY <2>1, <1>0, <1>1, <1>2, <1>3, <1>4, <1>5, <1>7, DraftStore
<1> QED
  BY <1>6, <1>7 DEF OutputCallFails

LEMMA DraftIomWritten == ASSUME DraftInv, PutIom PROVE DraftInv'
<1> USE DEF DraftInv
<1>1. iom' = iom + 1 /\ req' = req /\ uploads' = uploads /\ ready' = ready
  BY DEF PutIom
<1>2. \A q \in Requests : BuildTrue(req[q])'
  BY <1>1 DEF BuildTrue, Stage
<1>3. UploadersPast'
  BY <1>1 DEF UploadersPast
<1>4. \A q \in Requests : (Due(q)' <=> Due(q)) /\ (Good(q)' <=> Good(q))
  BY <1>1 DEF Due, Told, Good, Open, Stage
<1>5. Tasks'
  BY <1>1 DEF Tasks
<1> QED
  BY <1>1, <1>2, <1>3, <1>4, <1>5

LEMMA DraftNext == ASSUME DraftInv, OutputsNext PROVE DraftInv'
<1>1. CASE PutIom
  BY <1>1, DraftIomWritten
<1>2. ASSUME NEW q \in Requests, BuildDraft(q) PROVE DraftInv'
  BY <1>2, DraftSent
<1>3. ASSUME NEW q \in Requests, ReadIom(q) PROVE DraftInv'
  BY <1>3, DraftReadsIom
<1>4. ASSUME NEW q \in Requests, ReadDrawings(q) \/ TouchWork(q) PROVE DraftInv'
  <2>1. /\ req[q].calls # <<>> /\ Stage(req[q]) \in {"readDrawings", "touch"} /\ Proceed(q)
        /\ iom' = iom /\ uploads' = uploads /\ ready' = ready
    BY <1>4 DEF ReadDrawings, TouchWork, At, Open, Stage, outputVars
  <2>2. ready \subseteq ready' /\
        ready' \subseteq ready \cup (IF Stage(req[q]) = "ready" THEN {q} ELSE {})
    BY <2>1
  <2> QED
    BY <2>1, <2>2, DraftProceeds
<1>5. ASSUME NEW q \in Requests, AnnounceDraft(q) PROVE DraftInv'
  <2>1. /\ req[q].calls # <<>> /\ Stage(req[q]) = "ready" /\ Proceed(q)
        /\ iom' = iom /\ uploads' = uploads /\ ready' = ready \cup {q}
    BY <1>5 DEF AnnounceDraft, At, Open, Stage
  <2>2. ready \subseteq ready' /\
        ready' \subseteq ready \cup (IF Stage(req[q]) = "ready" THEN {q} ELSE {})
    BY <2>1
  <2> QED
    BY <2>1, <2>2, DraftProceeds
<1>6. ASSUME NEW q \in Requests, UploadDraft(q) PROVE DraftInv'
  BY <1>6, DraftUploads
<1>7. ASSUME NEW q \in Requests, OutputTimesOut(q) PROVE DraftInv'
  BY <1>7, DraftLeft
<1>8. ASSUME NEW q \in Requests, OutputCallFails(q) PROVE DraftInv'
  BY <1>8, DraftFails
<1> QED
  BY <1>1, <1>2, <1>3, <1>4, <1>5, <1>6, <1>7, <1>8 DEF OutputsNext

-----------------------------------------------------------------------------
(* Accounts and their logins. *)

LoginRests == {LoginCalls, <<"putIdentity", "putProfile">>, <<"putProfile">>, <<>>}
ConnectRests == {ConnectCalls, <<"putIdentity", "getProfile", "patchProviders">>,
                 <<"getProfile", "patchProviders">>, <<"patchProviders">>, <<>>}
DisconnectRests == {DisconnectCalls, <<"deleteIdentities", "patchProviders">>,
                    <<"patchProviders">>, <<>>}
AliasRests == {AliasCalls, <<"checkAlias", "patchAlias">>, <<"patchAlias">>, <<>>}

Profiles == [subs : SUBSET Subs, alias : Requests \cup {None}, stamp : Nat]

\* A login or a connect that has got past its look at the mapping.
LoginSound(r) ==
    /\ r.calls \in LoginRests /\ r.what \in Subs
    /\ Stage(r) \in {"getIdentity", "putIdentity"} => r.who = None
    /\ Stage(r) = "putProfile" =>
          r.who \in Accounts /\ (r.who \in met \/ profile[r.who].subs = {})

\* What a request read of a profile is still in it, unless two requests have met.
ConnectSound(r) ==
    /\ r.calls \in ConnectRests /\ r.what \in Subs /\ r.who \in Accounts
    /\ Stage(r) = "patchProviders" =>
          /\ r.seen.keep \subseteq Subs /\ r.what \in r.seen.keep
          /\ r.who \in met \/ profile[r.who].subs \subseteq r.seen.keep

DisconnectSound(r) ==
    /\ r.calls \in DisconnectRests /\ r.who \in Accounts
    /\ Stage(r) \in {"deleteIdentities", "patchProviders"} =>
          /\ r.seen \in [keep : SUBSET Subs, remove : SUBSET Subs]
          /\ \/ r.who \in met
             \/ \A t \in profile[r.who].subs :
                   ident[t] = r.who =>
                      t \in r.seen.keep \/ (Stage(r) = "deleteIdentities" /\ t \in r.seen.remove)

\* An ETag is as old as what it was shown with.
AliasSound(r) ==
    /\ r.calls \in AliasRests /\ r.who \in Accounts
    /\ Stage(r) \in {"showAlias", "checkAlias"} => r.seen = None
    /\ Stage(r) = "checkAlias" =>
          /\ r.shown.etag \in Nat /\ r.shown.etag <= profile[r.who].stamp
          /\ r.shown.etag = profile[r.who].stamp => r.shown.content = profile[r.who].alias
    /\ r.seen = None \/ r.seen.content = r.shown.content

Sound(r) ==
    /\ r.kind \in {None} \cup Linking \cup {"alias"}
    /\ r.kind = None => r.calls = <<>> /\ r.seen = None
    /\ r.kind = "login" => LoginSound(r)
    /\ r.kind = "connect" => ConnectSound(r)
    /\ r.kind = "disconnect" => DisconnectSound(r)
    /\ r.kind = "alias" => AliasSound(r)

\* Two requests under way for the links of one account have met.
MetTrue ==
    \A p, q \in Requests :
       /\ p # q /\ Open(p) /\ Open(q) /\ req[p].who \in Accounts /\ req[q].who = req[p].who
       /\ req[p].kind \in Linking /\ req[q].kind \in Linking
       => req[p].who \in met

\* Request q has put the mapping of s, or is about to, and has not put the profile.
Covers(q, s) ==
    /\ req[q].kind \in {"login", "connect"}
    /\ Stage(req[q]) \notin {"over", "getIdentity"}
    /\ req[q].who = ident[s] /\ req[q].what = s

Covered(s) ==
    ident[s] # None =>
       \/ s \in profile[ident[s]].subs
       \/ <<s, ident[s]>> \in cut
       \/ ident[s] \in met
       \/ \E q \in Requests : Covers(q, s)

AccountTypes ==
    /\ profile \in Seq(Profiles)
    /\ ident \in [Subs -> Accounts \cup {None}]
    /\ sessions \subseteq Accounts

AccountInv ==
    /\ Tasks
    /\ AccountTypes
    /\ \A q \in Requests : Sound(req[q])
    /\ MetTrue
    /\ \A s \in Subs : Covered(s)

LEMMA ProfileAt ==
    ASSUME NEW s \in Seq(Profiles), NEW u \in DOMAIN s
    PROVE  s[u] \in Profiles /\ s[u].subs \in SUBSET Subs /\ s[u].stamp \in Nat
<1>1. s[u] \in Profiles
  OBVIOUS
<1> QED
  BY <1>1 DEF Profiles

LEMMA LoginOrder ==
    ASSUME NEW c, c \in LoginRests, c # <<>>
    PROVE  /\ Tail(c) \in LoginRests
           /\ Head(c) \in {"getIdentity", "putIdentity", "putProfile"}
           /\ Head(c) = "getIdentity" => Tail(c) # <<>> /\ Head(Tail(c)) = "putIdentity"
           /\ Head(c) = "putIdentity" => Tail(c) # <<>> /\ Head(Tail(c)) = "putProfile"
           /\ Head(c) = "putProfile" => Tail(c) = <<>>
<1>1. CASE c = LoginCalls
  BY <1>1, Calls3, Calls2 DEF LoginCalls, LoginRests
<1>2. CASE c = <<"putIdentity", "putProfile">>
  BY <1>2, Calls2, Calls1 DEF LoginRests
<1>3. CASE c = <<"putProfile">>
  BY <1>3, Calls1 DEF LoginRests
<1> QED
  BY <1>1, <1>2, <1>3 DEF LoginRests

LEMMA ConnectOrder ==
    ASSUME NEW c, c \in ConnectRests, c # <<>>
    PROVE  /\ Tail(c) \in ConnectRests
           /\ Head(c) \in {"getIdentity", "putIdentity", "getProfile", "patchProviders"}
           /\ Head(c) = "getIdentity" => Tail(c) # <<>> /\ Head(Tail(c)) = "putIdentity"
           /\ Head(c) = "putIdentity" => Tail(c) # <<>> /\ Head(Tail(c)) = "getProfile"
           /\ Head(c) = "getProfile" => Tail(c) # <<>> /\ Head(Tail(c)) = "patchProviders"
           /\ Head(c) = "patchProviders" => Tail(c) = <<>>
<1>1. CASE c = ConnectCalls
  BY <1>1, Calls4, Calls3 DEF ConnectCalls, ConnectRests
<1>2. CASE c = <<"putIdentity", "getProfile", "patchProviders">>
  BY <1>2, Calls3, Calls2 DEF ConnectRests
<1>3. CASE c = <<"getProfile", "patchProviders">>
  BY <1>3, Calls2, Calls1 DEF ConnectRests
<1>4. CASE c = <<"patchProviders">>
  BY <1>4, Calls1 DEF ConnectRests
<1> QED
  BY <1>1, <1>2, <1>3, <1>4 DEF ConnectRests

LEMMA DisconnectOrder ==
    ASSUME NEW c, c \in DisconnectRests, c # <<>>
    PROVE  /\ Tail(c) \in DisconnectRests
           /\ Head(c) \in {"getProfile", "deleteIdentities", "patchProviders"}
           /\ Head(c) = "getProfile" => Tail(c) # <<>> /\ Head(Tail(c)) = "deleteIdentities"
           /\ Head(c) = "deleteIdentities" => Tail(c) # <<>> /\ Head(Tail(c)) = "patchProviders"
           /\ Head(c) = "patchProviders" => Tail(c) = <<>>
<1>1. CASE c = DisconnectCalls
  BY <1>1, Calls3, Calls2 DEF DisconnectCalls, DisconnectRests
<1>2. CASE c = <<"deleteIdentities", "patchProviders">>
  BY <1>2, Calls2, Calls1 DEF DisconnectRests
<1>3. CASE c = <<"patchProviders">>
  BY <1>3, Calls1 DEF DisconnectRests
<1> QED
  BY <1>1, <1>2, <1>3 DEF DisconnectRests

LEMMA AliasOrder ==
    ASSUME NEW c, c \in AliasRests, c # <<>>
    PROVE  /\ Tail(c) \in AliasRests
           /\ Head(c) \in {"showAlias", "checkAlias", "patchAlias"}
           /\ Head(c) = "showAlias" => Tail(c) # <<>> /\ Head(Tail(c)) = "checkAlias"
           /\ Head(c) = "checkAlias" => Tail(c) # <<>> /\ Head(Tail(c)) = "patchAlias"
           /\ Head(c) = "patchAlias" => Tail(c) = <<>>
<1>1. CASE c = AliasCalls
  BY <1>1, Calls3, Calls2 DEF AliasCalls, AliasRests
<1>2. CASE c = <<"checkAlias", "patchAlias">>
  BY <1>2, Calls2, Calls1 DEF AliasRests
<1>3. CASE c = <<"patchAlias">>
  BY <1>3, Calls1 DEF AliasRests
<1> QED
  BY <1>1, <1>2, <1>3 DEF AliasRests

\* No profile gets an older stamp, and one that keeps its stamp keeps its alias.
StampsGrow ==
    /\ DOMAIN profile \subseteq DOMAIN profile'
    /\ \A u \in DOMAIN profile :
          /\ profile'[u].stamp >= profile[u].stamp
          /\ profile'[u].stamp = profile[u].stamp => profile'[u].alias = profile[u].alias

\* The links of an account are left alone, unless two requests have met there.
LinksStay(u) ==
    \/ u \in met'
    \/ profile'[u].subs = profile[u].subs /\ \A t \in Subs : ident'[t] = u => ident[t] = u

LEMMA SoundStays ==
    ASSUME AccountTypes, AccountTypes', NEW r, Sound(r), met \subseteq met', StampsGrow,
           r.kind \in Linking /\ r.calls # <<>> /\ r.who \in Accounts => LinksStay(r.who)
    PROVE  Sound(r)'
<1> PICK u : u = r.who
  OBVIOUS
<1>1. DOMAIN profile \subseteq DOMAIN profile'
  BY DEF StampsGrow
<1>2. r.kind = "login" => LoginSound(r)'
  <2> SUFFICES ASSUME r.kind = "login" PROVE LoginSound(r)'
    OBVIOUS
  <2>1. LoginSound(r)
    BY DEF Sound
  <2>2. CASE Stage(r) = "putProfile"
    <3>1. u \in Accounts /\ LinksStay(u)
      BY <2>1, <2>2 DEF LoginSound, Linking, Stage
    <3>2. u \in Accounts' /\ (u \in met' \/ profile'[u].subs = {})
      BY <3>1, <2>1, <2>2, <1>1 DEF LoginSound, LinksStay, Accounts
    <3> QED
      BY <2>1, <2>2, <3>2 DEF LoginSound, Stage
  <2>3. CASE Stage(r) # "putProfile"
    BY <2>1, <2>3 DEF LoginSound, Stage
  <2> QED
    BY <2>2, <2>3
<1>3. r.kind = "connect" => ConnectSound(r)'
  <2> SUFFICES ASSUME r.kind = "connect" PROVE ConnectSound(r)'
    OBVIOUS
  <2>1. ConnectSound(r)
    BY DEF Sound
  <2>2. u \in Accounts /\ u \in Accounts'
    BY <2>1, <1>1 DEF ConnectSound, Accounts
  <2>3. CASE Stage(r) = "patchProviders"
    <3>1. LinksStay(u)
      BY <2>1, <2>2, <2>3 DEF Linking, Stage
    <3>2. u \in met' \/ profile'[u].subs \subseteq r.seen.keep
      BY <3>1, <2>1, <2>3 DEF ConnectSound, LinksStay
    <3> QED
      BY <2>1, <2>2, <2>3, <3>2 DEF ConnectSound, Stage
  <2>4. CASE Stage(r) # "patchProviders"
    BY <2>1, <2>2, <2>4 DEF ConnectSound, Stage
  <2> QED
    BY <2>3, <2>4
<1>4. r.kind = "disconnect" => DisconnectSound(r)'
  <2> SUFFICES ASSUME r.kind = "disconnect" PROVE DisconnectSound(r)'
    OBVIOUS
  <2>1. DisconnectSound(r)
    BY DEF Sound
  <2>2. u \in Accounts /\ u \in Accounts'
    BY <2>1, <1>1 DEF DisconnectSound, Accounts
  <2>3. CASE Stage(r) \in {"deleteIdentities", "patchProviders"}
    <3>1. LinksStay(u)
      BY <2>1, <2>2, <2>3 DEF Linking, Stage
    <3>a. profile'[u].subs \subseteq Subs
      BY <2>2, ProfileAt DEF AccountTypes, Accounts
    <3>2. \/ u \in met'
          \/ \A t \in profile'[u].subs :
                ident'[t] = u =>
                   t \in r.seen.keep \/ (Stage(r) = "deleteIdentities" /\ t \in r.seen.remove)
      BY <3>1, <3>a, <2>1, <2>3 DEF DisconnectSound, LinksStay
    <3> QED
      BY <2>1, <2>2, <2>3, <3>2 DEF DisconnectSound, Stage
  <2>4. CASE Stage(r) \notin {"deleteIdentities", "patchProviders"}
    BY <2>1, <2>2, <2>4 DEF DisconnectSound, Stage
  <2> QED
    BY <2>3, <2>4
<1>5. r.kind = "alias" => AliasSound(r)'
  <2> SUFFICES ASSUME r.kind = "alias" PROVE AliasSound(r)'
    OBVIOUS
  <2>1. AliasSound(r)
    BY DEF Sound
  <2>2. u \in Accounts /\ u \in Accounts'
    BY <2>1, <1>1 DEF AliasSound, Accounts
  <2>3. CASE Stage(r) = "checkAlias"
    <3>1. profile[u].stamp \in Nat /\ profile'[u].stamp \in Nat
      BY <2>2, ProfileAt DEF AccountTypes, Accounts
    <3>2. /\ profile'[u].stamp >= profile[u].stamp
          /\ profile'[u].stamp = profile[u].stamp => profile'[u].alias = profile[u].alias
      BY <2>2 DEF StampsGrow, Accounts
    <3>3. /\ r.shown.etag \in Nat /\ r.shown.etag <= profile[u].stamp
          /\ r.shown.etag = profile[u].stamp => r.shown.content = profile[u].alias
      BY <2>1, <2>3 DEF AliasSound
    <3>4. /\ r.shown.etag <= profile'[u].stamp
          /\ r.shown.etag = profile'[u].stamp => r.shown.content = profile'[u].alias
      BY <3>1, <3>2, <3>3
    <3> QED
      BY <2>1, <2>2, <2>3, <3>3, <3>4 DEF AliasSound, Stage
  <2>4. CASE Stage(r) # "checkAlias"
    BY <2>1, <2>2, <2>4 DEF AliasSound, Stage
  <2> QED
    BY <2>3, <2>4
<1> QED
  BY <1>2, <1>3, <1>4, <1>5 DEF Sound

\* Who links an account under way has it, or has none yet.
LEMMA LinkerKnown ==
    ASSUME NEW r, Sound(r), r.kind \in Linking, r.calls # <<>>
    PROVE  r.who \in Accounts \/ r.who = None
<1>1. CASE r.kind = "login"
  BY <1>1, LoginOrder DEF Sound, LoginSound, Stage
<1>2. CASE r.kind = "connect"
  BY <1>2 DEF Sound, ConnectSound
<1>3. CASE r.kind = "disconnect"
  BY <1>3 DEF Sound, DisconnectSound
<1> QED
  BY <1>1, <1>2, <1>3 DEF Linking

\* Request q, after a step, is the only one for the links of its account, or has met.
Alone(q) ==
    Open(q)' /\ req'[q].kind \in Linking =>
       \/ Open(q) /\ req[q].kind \in Linking /\ req[q].who = req'[q].who
       \/ req'[q].who \in met' \/ req'[q].who = None
       \/ \A p \in Requests \ {q} :
             Open(p) /\ req[p].kind \in Linking => req[p].who # req'[q].who

LEMMA AccountMove ==
    ASSUME AccountInv, NEW q \in Requests, Tasks', OthersStay(q), AccountTypes',
           met \subseteq met', StampsGrow, Sound(req[q])', Alone(q),
           \A p \in Requests \ {q} :
              req[p].kind \in Linking /\ Open(p) /\ req[p].who \in Accounts =>
                 LinksStay(req[p].who),
           \A s \in Subs : Covered(s)'
    PROVE  AccountInv'
<1> USE DEF AccountInv
<1>1. ASSUME NEW p \in Requests PROVE Sound(req[p])'
  <2>1. CASE p = q
    BY <2>1
  <2>2. CASE p # q
    <3> PICK r : r = req[p]
      OBVIOUS
    <3>1. req'[p] = r
      BY <2>2 DEF OthersStay
    <3>2. r.kind \in Linking /\ r.calls # <<>> /\ r.who \in Accounts => LinksStay(r.who)
      BY <2>2 DEF Open
    <3>3. Sound(r)'
      BY <3>2, SoundStays
    <3> QED
      BY <3>1, <3>3
  <2> QED
    BY <2>1, <2>2
<1>a. None \notin Accounts'
  BY TaskAssumption DEF AccountTypes, Accounts
<1>b. \A p \in Requests : req[p].kind \in Linking /\ Open(p) =>
          req[p].who \in Accounts \/ req[p].who = None
  BY LinkerKnown DEF Open
<1>c. \A p \in Requests \ {q} : req'[p] = req[p] /\ (Open(p)' <=> Open(p))
  BY DEF OthersStay, Open
<1>d. ASSUME NEW p \in Requests \ {q}, Open(p), Open(q)', req'[q].who \in Accounts',
             req'[q].who = req[p].who, req[p].kind \in Linking, req'[q].kind \in Linking
      PROVE  req[p].who \in met'
  <2>1. CASE Open(q) /\ req[q].kind \in Linking /\ req[q].who = req'[q].who
    BY <1>a, <1>b, <1>d, <2>1 DEF MetTrue
  <2> QED
    BY <1>a, <1>d, <2>1 DEF Alone
<1>2. MetTrue'
  <2> SUFFICES ASSUME NEW p \in Requests, NEW o \in Requests, p # o, Open(p)', Open(o)',
                      req'[p].who \in Accounts', req'[o].who = req'[p].who,
                      req'[p].kind \in Linking, req'[o].kind \in Linking
               PROVE  req'[p].who \in met'
    BY DEF MetTrue
  <2>1. CASE p # q /\ o # q
    BY <2>1, <1>a, <1>b, <1>c DEF MetTrue
  <2>2. CASE p = q
    BY <2>2, <1>c, <1>d
  <2>3. CASE o = q
    BY <2>3, <1>c, <1>d
  <2> QED
    BY <2>1, <2>2, <2>3
<1> QED
  BY <1>1, <1>2

LEMMA AccountInit == ASSUME TasksInit, AccountsInit PROVE AccountInv
<1>1. \A q \in Requests : req[q] = Task(None, <<>>, None, None, None, None, None, 0)
  BY NotSentTask DEF TasksInit
<1>2. \A q \in Requests : req[q].kind = None /\ req[q].calls = <<>> /\ req[q].seen = None
  BY <1>1, TaskFields
<1>3. \A q \in Requests : Sound(req[q])
  BY <1>2, TaskAssumption DEF Sound, Kinds
<1>4. MetTrue
  BY <1>2 DEF MetTrue, Open
<1> PICK s \in Subs : /\ ident = [t \in Subs |-> IF t = s THEN 1 ELSE None]
                      /\ profile = <<[subs |-> {s}, alias |-> None, stamp |-> 1]>>
  BY DEF AccountsInit
<1>5. profile \in Seq(Profiles) /\ DOMAIN profile = {1} /\ profile[1].subs = {s}
  BY DEF Profiles
<1>6. AccountTypes
  BY <1>5 DEF AccountTypes, Accounts, AccountsInit
<1>7. \A t \in Subs : Covered(t)
  BY <1>5 DEF Covered
<1> QED
  BY <1>3, <1>4, <1>6, <1>7, InitTasks DEF AccountInv

\* A step that changes no document.
LEMMA QuietMove ==
    ASSUME AccountInv, NEW q \in Requests, Tasks', OthersStay(q),
           ident' = ident, profile' = profile, met \subseteq met', cut \subseteq cut',
           sessions' \subseteq Accounts, Sound(req[q])', Alone(q),
           \A s \in Subs : ident[s] # None /\ Covers(q, s) =>
              Covers(q, s)' \/ s \in profile[ident[s]].subs \/ <<s, ident[s]>> \in cut'
    PROVE  AccountInv'
<1> USE DEF AccountInv
<1>1. AccountTypes' /\ StampsGrow
  <2>1. AccountTypes'
    BY DEF AccountTypes, Accounts
  <2>2. \A u \in DOMAIN profile : profile[u].stamp \in Nat
    BY ProfileAt DEF AccountTypes
  <2>3. StampsGrow
    BY <2>2 DEF StampsGrow
  <2> QED
    BY <2>1, <2>3
<1>2. \A u : LinksStay(u)
  BY DEF LinksStay
<1>3. ASSUME NEW s \in Subs PROVE Covered(s)'
  <2>1. ASSUME NEW p \in Requests, Covers(p, s), p # q PROVE Covers(p, s)'
    BY <2>1 DEF Covers, OthersStay, Stage
  <2>2. ident'[s] = ident[s]
    OBVIOUS
  <2>3. Covered(s)
    OBVIOUS
  <2> SUFFICES ASSUME ident[s] # None
               PROVE  \/ s \in profile[ident[s]].subs \/ <<s, ident[s]>> \in cut'
                      \/ ident[s] \in met' \/ \E p \in Requests : Covers(p, s)'
    BY <2>2 DEF Covered
  <2>4. CASE \E p \in Requests : Covers(p, s)
    BY <2>1, <2>4
  <2> QED
    BY <2>3, <2>4 DEF Covered
<1> QED
  BY <1>1, <1>2, <1>3, AccountMove

LEMMA SentSound ==
    ASSUME Tasks, NEW q \in Requests, NEW kind, NEW calls, NEW who, NEW what, NEW key,
           Sent(q, kind, calls, who, what, key)
    PROVE  /\ Tasks' /\ OthersStay(q)
           /\ req[q].kind = None /\ req[q].calls = <<>> /\ req[q].code = 0
           /\ req'[q].kind = kind /\ req'[q].calls = calls /\ req'[q].who = who
           /\ req'[q].what = what /\ req'[q].key = key /\ req'[q].shown = None
           /\ req'[q].seen = None /\ req'[q].code = 0
<1> PICK r, n : r = req[q] /\ n = req'[q]
  OBVIOUS
<1>1. /\ r = Task(None, <<>>, None, None, None, None, None, 0)
      /\ n = Task(kind, calls, who, what, key, None, None, 0)
      /\ Tasks' /\ OthersStay(q)
  BY SentTasks
<1>2. r.kind = None /\ r.calls = <<>> /\ r.code = 0
  BY <1>1, TaskFields
<1>3. /\ n.kind = kind /\ n.calls = calls /\ n.who = who /\ n.what = what
      /\ n.key = key /\ n.shown = None /\ n.seen = None /\ n.code = 0
  BY <1>1, TaskFields
<1> QED
  BY <1>1, <1>2, <1>3

LEMMA AccountSent ==
    ASSUME AccountInv, NEW q \in Requests, Login(q) \/ Connect(q) \/ Disconnect(q) \/ SetAlias(q)
    PROVE  AccountInv'
<1> USE DEF AccountInv
<1>0. /\ ident' = ident /\ profile' = profile /\ met \subseteq met' /\ cut \subseteq cut'
      /\ sessions' \subseteq Accounts
  BY DEF Login, Connect, Disconnect, SetAlias, accountVars, documents, AccountTypes
<1>1. CASE Login(q)
  <2>1. PICK s \in Subs : Sent(q, "login", LoginCalls, None, s, None)
    BY <1>1 DEF Login
  <2> PICK kind : kind = "login"
    OBVIOUS
  <2>2. Sent(q, kind, LoginCalls, None, s, None)
    BY <2>1
  <2>3. /\ Tasks' /\ OthersStay(q) /\ req[q].kind = None
        /\ req'[q].kind = kind /\ req'[q].calls = LoginCalls /\ req'[q].who = None
        /\ req'[q].what = s
    BY <2>2, SentSound
  <2>4. Stage(req'[q]) = "getIdentity"
    BY <2>3, Calls3 DEF LoginCalls, Stage
  <2>5. Sound(req[q])'
    BY <2>3, <2>4, TaskAssumption DEF Sound, LoginSound, LoginRests, Linking, Kinds, Stage
  <2>6. Alone(q)
    BY <2>3 DEF Alone
  <2>7. \A t \in Subs : ~Covers(q, t)
    BY <2>3, TaskAssumption DEF Covers, Kinds
  <2> QED
    BY <1>0, <2>3, <2>5, <2>6, <2>7, QuietMove
<1>2. CASE Connect(q)
  <2>1. PICK u \in sessions, s \in Subs :
            /\ Sent(q, "connect", ConnectCalls, u, s, None)
            /\ met' = IF Meets(q, u) THEN met \cup {u} ELSE met
    BY <1>2 DEF Connect
  <2> PICK kind : kind = "connect"
    OBVIOUS
  <2>2. Sent(q, kind, ConnectCalls, u, s, None)
    BY <2>1
  <2>3. /\ Tasks' /\ OthersStay(q) /\ req[q].kind = None
        /\ req'[q].kind = kind /\ req'[q].calls = ConnectCalls /\ req'[q].who = u
        /\ req'[q].what = s
    BY <2>2, SentSound
  <2>4. Stage(req'[q]) = "getIdentity"
    BY <2>3, Calls4 DEF ConnectCalls, Stage
  <2>a. u \in Accounts'
    BY <1>0 DEF AccountTypes, Accounts
  <2>5. Sound(req[q])'
    BY <2>3, <2>4, <2>a, TaskAssumption
       DEF Sound, ConnectSound, ConnectRests, Linking, Kinds, Stage
  <2>6. Alone(q)
    BY <2>1, <2>3 DEF Alone, Meets
  <2>7. \A t \in Subs : ~Covers(q, t)
    BY <2>3, TaskAssumption DEF Covers, Kinds
  <2> QED
    BY <1>0, <2>3, <2>5, <2>6, <2>7, QuietMove
<1>3. CASE Disconnect(q)
  <2>1. PICK u \in sessions, w \in {ProviderOf[s] : s \in Subs} :
            /\ Sent(q, "disconnect", DisconnectCalls, u, w, None)
            /\ met' = IF Meets(q, u) THEN met \cup {u} ELSE met
    BY <1>3 DEF Disconnect
  <2> PICK kind : kind = "disconnect"
    OBVIOUS
  <2>2. Sent(q, kind, DisconnectCalls, u, w, None)
    BY <2>1
  <2>3. /\ Tasks' /\ OthersStay(q) /\ req[q].kind = None
        /\ req'[q].kind = kind /\ req'[q].calls = DisconnectCalls /\ req'[q].who = u
    BY <2>2, SentSound
  <2>4. Stage(req'[q]) = "getProfile"
    BY <2>3, Calls3 DEF DisconnectCalls, Stage
  <2>a. u \in Accounts'
    BY <1>0 DEF AccountTypes, Accounts
  <2>5. Sound(req[q])'
    BY <2>3, <2>4, <2>a, TaskAssumption
       DEF Sound, DisconnectSound, DisconnectRests, Linking, Kinds, Stage
  <2>6. Alone(q)
    BY <2>1, <2>3 DEF Alone, Meets
  <2>7. \A t \in Subs : ~Covers(q, t)
    BY <2>3, TaskAssumption DEF Covers, Kinds
  <2> QED
    BY <1>0, <2>3, <2>5, <2>6, <2>7, QuietMove
<1>4. CASE SetAlias(q)
  <2>1. PICK u \in sessions : Sent(q, "alias", AliasCalls, u, None, None)
    BY <1>4 DEF SetAlias
  <2> PICK kind : kind = "alias"
    OBVIOUS
  <2>2. Sent(q, kind, AliasCalls, u, None, None)
    BY <2>1
  <2>3. /\ Tasks' /\ OthersStay(q) /\ req[q].kind = None
        /\ req'[q].kind = kind /\ req'[q].calls = AliasCalls /\ req'[q].who = u
        /\ req'[q].seen = None
    BY <2>2, SentSound
  <2>4. Stage(req'[q]) = "showAlias"
    BY <2>3, Calls3 DEF AliasCalls, Stage
  <2>a. u \in Accounts'
    BY <1>0 DEF AccountTypes, Accounts
  <2>5. Sound(req[q])'
    BY <2>3, <2>4, <2>a, TaskAssumption
       DEF Sound, AliasSound, AliasRests, Linking, Kinds, Stage
  <2>6. Alone(q)
    BY <2>3 DEF Alone, Linking
  <2>7. \A t \in Subs : ~Covers(q, t)
    BY <2>3, TaskAssumption DEF Covers, Kinds
  <2> QED
    BY <1>0, <2>3, <2>5, <2>6, <2>7, QuietMove
<1> QED
  BY <1>1, <1>2, <1>3, <1>4

\* A request that is over is sound.
LEMMA OverSound ==
    ASSUME NEW r, Sound(r), NEW n, n.calls = <<>>, n.kind = r.kind, n.who = r.who,
           n.what = r.what, n.seen = r.seen, n.shown = r.shown
    PROVE  Sound(n)
<1>1. Stage(n) = "over"
  BY DEF Stage
<1>2. r.kind = "login" => LoginSound(n)
  BY <1>1 DEF Sound, LoginSound, LoginRests
<1>3. r.kind = "connect" => ConnectSound(n)
  BY <1>1 DEF Sound, ConnectSound, ConnectRests
<1>4. r.kind = "disconnect" => DisconnectSound(n)
  BY <1>1 DEF Sound, DisconnectSound, DisconnectRests
<1>5. r.kind = "alias" => AliasSound(n)
  BY <1>1 DEF Sound, AliasSound, AliasRests
<1> QED
  BY <1>2, <1>3, <1>4, <1>5 DEF Sound

LEMMA AnsweredSound ==
    ASSUME AccountInv, NEW q \in Requests, NEW code, Answered(q, code), Open(q)
    PROVE  /\ Tasks' /\ OthersStay(q) /\ Sound(req'[q]) /\ ~Open(q)' /\ Alone(q)
           /\ \A s \in Subs : ~Covers(q, s)'
<1> USE DEF AccountInv
<1> PICK r, n : r = req[q] /\ n = req'[q]
  OBVIOUS
<1>1. /\ Tasks' /\ OthersStay(q)
      /\ n.kind = r.kind /\ n.calls = <<>> /\ n.who = r.who /\ n.what = r.what
      /\ n.shown = r.shown /\ n.seen = r.seen
  BY AnsweredFields
<1>2. Sound(n)
  BY <1>1, OverSound
<1> QED
  BY <1>1, <1>2 DEF Open, Alone, Covers, Stage

LEMMA QuietAnswer ==
    ASSUME AccountInv, NEW q \in Requests, NEW code, Answered(q, code), Open(q),
           ident' = ident, profile' = profile, met' = met, cut \subseteq cut',
           sessions' \subseteq Accounts,
           \A s \in Subs : ident[s] # None /\ Covers(q, s) =>
              s \in profile[ident[s]].subs \/ <<s, ident[s]>> \in cut'
    PROVE  AccountInv'
<1> USE DEF AccountInv
<1>1. /\ Tasks' /\ OthersStay(q) /\ Sound(req'[q]) /\ Alone(q)
  BY AnsweredSound
<1>2. StampsGrow /\ AccountTypes'
  <2>1. \A u \in DOMAIN profile : profile[u].stamp \in Nat
    BY ProfileAt DEF AccountTypes
  <2> QED
    BY <2>1 DEF AccountTypes, Accounts, StampsGrow
<1>3. Sound(req[q])'
  <2> PICK n : n = req'[q]
    OBVIOUS
  <2>1. LinksStay(n.who)
    BY DEF LinksStay
  <2>2. Sound(n)'
    BY <1>1, <1>2, <2>1, SoundStays
  <2> QED
    BY <2>2
<1> QED
  BY <1>1, <1>3, QuietMove

\* A request that makes its next call, and remains the one it was.
LEMMA ProceedAlone ==
    ASSUME NEW q \in Requests, Open(q), req'[q].kind = req[q].kind, req'[q].who = req[q].who
    PROVE  Alone(q)
  BY DEF Alone

LEMMA AccountGetsIdentity ==
    ASSUME AccountInv, NEW q \in Requests, GetIdentity(q)
    PROVE  AccountInv'
<1> USE DEF AccountInv
<1> PICK u : u = ident[req[q].what]
  OBVIOUS
<1>0. /\ ident' = ident /\ profile' = profile /\ met' = met /\ cut' = cut
      /\ Open(q) /\ Head(req[q].calls) = "getIdentity" /\ Stage(req[q]) = "getIdentity"
  BY DEF GetIdentity, documents, At, Open, Stage
<1>1. \A s \in Subs : ~Covers(q, s)
  BY <1>0 DEF Covers
<1>2. CASE req[q].kind = "login" /\ u # None /\ sessions' = sessions \cup {u} /\ Answered(q, 200)
  <2>1. req[q].what \in Subs
    BY <1>2 DEF Sound, LoginSound
  <2>2. sessions' \subseteq Accounts
    BY <1>2, <2>1 DEF AccountTypes
  <2> QED
    BY <1>0, <1>1, <1>2, <2>2, QuietAnswer
<1>3. CASE Answered(q, 409) /\ sessions' = sessions
  <2>1. sessions' \subseteq Accounts
    BY <1>3 DEF AccountTypes
  <2> QED
    BY <1>0, <1>1, <1>3, <2>1, QuietAnswer
<1>4. CASE Proceed(q) /\ sessions' = sessions
  <2> PICK r, n : r = req[q] /\ n = req'[q]
    OBVIOUS
  <2>1. /\ Tasks' /\ OthersStay(q)
        /\ n.kind = r.kind /\ n.calls = Tail(r.calls) /\ n.who = r.who
        /\ n.what = r.what /\ n.seen = r.seen /\ n.shown = r.shown
    BY <1>4, ProceedFields
  <2>2. r.kind \in {"login", "connect"}
    BY <1>0, TaskAssumption, DisconnectOrder, AliasOrder
       DEF Open, Sound, DisconnectSound, AliasSound, Linking, Kinds
  <2>3. Sound(n)
    <3>1. CASE r.kind = "login"
      <4>1. LoginSound(r) /\ r.calls # <<>>
        BY <1>0, <3>1 DEF Sound, Open
      <4>2. n.calls \in LoginRests /\ Stage(n) = "putIdentity"
        BY <4>1, <1>0, <2>1, LoginOrder DEF LoginSound, Stage
      <4>3. LoginSound(n)
        BY <4>1, <4>2, <1>0, <2>1 DEF LoginSound
      <4> QED
        BY <3>1, <4>3, <2>1, TaskAssumption DEF Sound, Linking, Kinds
    <3>2. CASE r.kind = "connect"
      <4>1. ConnectSound(r) /\ r.calls # <<>>
        BY <1>0, <3>2 DEF Sound, Open
      <4>2. n.calls \in ConnectRests /\ Stage(n) = "putIdentity"
        BY <4>1, <1>0, <2>1, ConnectOrder DEF ConnectSound, Stage
      <4>3. ConnectSound(n)
        BY <4>1, <4>2, <1>0, <2>1 DEF ConnectSound
      <4> QED
        BY <3>2, <4>3, <2>1, TaskAssumption DEF Sound, Linking, Kinds
    <3> QED
      BY <2>2, <3>1, <3>2
  <2>4. Sound(n)'
    <3>1. AccountTypes' /\ StampsGrow /\ LinksStay(n.who)
      <4>1. \A v \in DOMAIN profile : profile[v].stamp \in Nat
        BY ProfileAt DEF AccountTypes
      <4> QED
        BY <4>1, <1>0, <1>4 DEF AccountTypes, Accounts, StampsGrow, LinksStay
    <3> QED
      BY <2>3, <3>1, <1>0, SoundStays
  <2>5. Alone(q)
    BY <1>0, <2>1, ProceedAlone
  <2>6. sessions' \subseteq Accounts
    BY <1>4 DEF AccountTypes
  <2> QED
    BY <1>0, <1>1, <2>1, <2>4, <2>5, <2>6, QuietMove
<1> QED
  BY <1>2, <1>3, <1>4 DEF GetIdentity

\* The call a request is at tells of what kind it is.
LEMMA CallTellsKind ==
    ASSUME NEW r, Sound(r), r.calls # <<>>
    PROVE  /\ Head(r.calls) = "putIdentity" => r.kind \in {"login", "connect"}
           /\ Head(r.calls) = "putProfile" => r.kind = "login"
           /\ Head(r.calls) \in {"getProfile", "patchProviders"} =>
                 r.kind \in {"connect", "disconnect"}
           /\ Head(r.calls) = "deleteIdentities" => r.kind = "disconnect"
           /\ Head(r.calls) \in {"showAlias", "checkAlias", "patchAlias"} => r.kind = "alias"
<1>1. CASE r.kind = "login"
  BY <1>1, LoginOrder DEF Sound, LoginSound
<1>2. CASE r.kind = "connect"
  BY <1>2, ConnectOrder DEF Sound, ConnectSound
<1>3. CASE r.kind = "disconnect"
  BY <1>3, DisconnectOrder DEF Sound, DisconnectSound
<1>4. CASE r.kind = "alias"
  BY <1>4, AliasOrder DEF Sound, AliasSound
<1> QED
  BY <1>1, <1>2, <1>3, <1>4 DEF Sound, Linking

\* A step that changes no document, by a request whose record is sound after it.
LEMMA SoundQuiet ==
    ASSUME AccountInv, NEW n, Sound(n), ident' = ident, profile' = profile, met' = met,
           sessions' \subseteq Accounts
    PROVE  Sound(n)' /\ AccountTypes'
<1> USE DEF AccountInv
<1>1. \A v \in DOMAIN profile : profile[v].stamp \in Nat
  BY ProfileAt DEF AccountTypes
<1>2. AccountTypes' /\ StampsGrow /\ LinksStay(n.who)
  BY <1>1 DEF AccountTypes, Accounts, StampsGrow, LinksStay
<1> QED
  BY <1>2, SoundStays

LEMMA AccountGetsProfile ==
    ASSUME AccountInv, NEW q \in Requests, GetProfile(q)
    PROVE  AccountInv'
<1> USE DEF AccountInv
<1> PICK r, n : r = req[q] /\ n = req'[q]
  OBVIOUS
<1> PICK u : u = r.who
  OBVIOUS
<1> PICK subs : subs = profile[u].subs
  OBVIOUS
<1> DEFINE of(p) == {s \in subs : ProviderOf[s] = p}
<1>0. /\ ident' = ident /\ profile' = profile /\ met' = met /\ cut' = cut
      /\ sessions' = sessions /\ Open(q) /\ Head(r.calls) = "getProfile"
      /\ Stage(r) = "getProfile" /\ r.calls # <<>> /\ Sound(r)
  BY DEF GetProfile, accountVars, documents, At, Open, Stage
<1>1. /\ r.kind \in {"connect", "disconnect"}
      /\ r.kind = "connect" => ConnectSound(r)
      /\ r.kind = "disconnect" => DisconnectSound(r)
  BY <1>0, CallTellsKind DEF Sound
<1>2. u \in Accounts /\ subs \in SUBSET Subs
  <2>1. u \in Accounts
    BY <1>1 DEF ConnectSound, DisconnectSound
  <2> QED
    BY <2>1, ProfileAt DEF AccountTypes, Accounts
<1>3. sessions' \subseteq Accounts
  BY <1>0 DEF AccountTypes
<1>4. CASE r.kind = "connect" /\ r.what \in subs /\ Answered(q, 200)
  <2>1. \A s \in Subs : Covers(q, s) => s \in profile[ident[s]].subs
    BY <1>4 DEF Covers
  <2> QED
    BY <1>0, <1>3, <1>4, <2>1, QuietAnswer
<1>5. CASE /\ r.kind = "connect"
           /\ ProceedWith(q, [keep |-> subs \cup {r.what}, remove |-> {}])
  <2>p. PICK seen : seen = [keep |-> subs \cup {r.what}, remove |-> {}]
    OBVIOUS
  <2>a. ProceedWith(q, seen)
    BY <1>5, <2>p
  <2>b. seen.keep = subs \cup {r.what}
    BY <2>p
  <2>1. /\ Tasks' /\ OthersStay(q)
        /\ n.kind = r.kind /\ n.calls = Tail(r.calls) /\ n.who = r.who
        /\ n.what = r.what /\ n.seen = seen /\ n.shown = r.shown
    BY <2>a, ProceedWithFields
  <2>2. n.calls \in ConnectRests /\ Stage(n) = "patchProviders"
    BY <1>0, <1>1, <1>5, <2>1, ConnectOrder DEF ConnectSound, Stage
  <2>3. ConnectSound(n)
    BY <1>1, <1>2, <1>5, <2>1, <2>2, <2>b DEF ConnectSound
  <2>4. Sound(n)
    BY <1>5, <2>1, <2>3, TaskAssumption DEF Sound, Linking, Kinds
  <2>5. Sound(n)'
    BY <1>0, <1>3, <2>4, SoundQuiet
  <2>6. \A s \in Subs : Covers(q, s) => Covers(q, s)'
    BY <1>0, <2>1, <2>2 DEF Covers
  <2>7. Alone(q)
    BY <1>0, <2>1, ProceedAlone
  <2> QED
    BY <1>0, <1>3, <2>1, <2>5, <2>6, <2>7, QuietMove
<1>6. CASE /\ r.kind = "disconnect"
           /\ ProceedWith(q, [keep |-> subs \ of(r.what), remove |-> of(r.what)])
  <2>p. PICK seen : seen = [keep |-> subs \ of(r.what), remove |-> of(r.what)]
    OBVIOUS
  <2>a. ProceedWith(q, seen)
    BY <1>6, <2>p
  <2>b. /\ \A t \in subs : t \in seen.keep \/ t \in seen.remove
        /\ seen \in [keep : SUBSET Subs, remove : SUBSET Subs]
    BY <1>2, <2>p
  <2>1. /\ Tasks' /\ OthersStay(q)
        /\ n.kind = r.kind /\ n.calls = Tail(r.calls) /\ n.who = r.who
        /\ n.what = r.what /\ n.seen = seen /\ n.shown = r.shown
    BY <2>a, ProceedWithFields
  <2>2. n.calls \in DisconnectRests /\ Stage(n) = "deleteIdentities"
    BY <1>0, <1>1, <1>6, <2>1, DisconnectOrder DEF DisconnectSound, Stage
  <2>3. DisconnectSound(n)
    BY <1>1, <1>2, <1>6, <2>1, <2>2, <2>b DEF DisconnectSound
  <2>4. Sound(n)
    BY <1>6, <2>1, <2>3, TaskAssumption DEF Sound, Linking, Kinds
  <2>5. Sound(n)'
    BY <1>0, <1>3, <2>4, SoundQuiet
  <2>6. \A s \in Subs : ~Covers(q, s)
    BY <1>6 DEF Covers
  <2>7. Alone(q)
    BY <1>0, <2>1, ProceedAlone
  <2> QED
    BY <1>0, <1>3, <2>1, <2>5, <2>6, <2>7, QuietMove
<1> QED
  BY <1>4, <1>5, <1>6 DEF GetProfile

LEMMA AccountShows ==
    ASSUME AccountInv, NEW q \in Requests, ShowAlias(q)
    PROVE  AccountInv'
<1> USE DEF AccountInv
<1> PICK r, n : r = req[q] /\ n = req'[q]
  OBVIOUS
<1> PICK p : p = profile[r.who]
  OBVIOUS
<1>p. PICK shown : shown = [content |-> p.alias, etag |-> p.stamp]
  OBVIOUS
<1>0. /\ ident' = ident /\ profile' = profile /\ met' = met /\ cut' = cut
      /\ sessions' = sessions /\ Open(q) /\ Head(r.calls) = "showAlias"
      /\ Stage(r) = "showAlias" /\ r.calls # <<>> /\ Sound(r)
  BY DEF ShowAlias, accountVars, documents, At, Open, Stage
<1>a. Show(q, shown)
  BY <1>p DEF ShowAlias, Show
<1>1. r.kind = "alias" /\ AliasSound(r)
  BY <1>0, CallTellsKind DEF Sound
<1>2. p.stamp \in Nat
  BY <1>1, ProfileAt DEF AliasSound, AccountTypes, Accounts
<1>3. shown.content = p.alias /\ shown.etag = p.stamp
  BY <1>p
<1>4. sessions' \subseteq Accounts
  BY <1>0 DEF AccountTypes
<1>5. /\ Tasks' /\ OthersStay(q)
      /\ n.kind = r.kind /\ n.calls = Tail(r.calls) /\ n.who = r.who
      /\ n.what = r.what /\ n.seen = r.seen /\ n.shown = shown
  BY <1>a, ShownFields
<1>6. n.calls \in AliasRests /\ Stage(n) = "checkAlias"
  BY <1>0, <1>1, <1>5, AliasOrder DEF AliasSound, Stage
<1>7. AliasSound(n)
  BY <1>0, <1>1, <1>2, <1>3, <1>5, <1>6 DEF AliasSound
<1>8. Sound(n)
  BY <1>1, <1>5, <1>7, TaskAssumption DEF Sound, Linking, Kinds
<1>9. Sound(n)'
  BY <1>0, <1>4, <1>8, SoundQuiet
<1>10. Alone(q) /\ \A s \in Subs : ~Covers(q, s)
  BY <1>0, <1>1, <1>5, ProceedAlone DEF Covers
<1> QED
  BY <1>0, <1>4, <1>5, <1>9, <1>10, QuietMove

LEMMA AccountChecks ==
    ASSUME AccountInv, NEW q \in Requests, CheckAlias(q)
    PROVE  AccountInv'
<1> USE DEF AccountInv
<1> PICK r, n : r = req[q] /\ n = req'[q]
  OBVIOUS
<1> PICK p : p = profile[r.who]
  OBVIOUS
<1>0. /\ ident' = ident /\ profile' = profile /\ met' = met /\ cut' = cut
      /\ sessions' = sessions /\ Open(q) /\ Head(r.calls) = "checkAlias"
      /\ Stage(r) = "checkAlias" /\ r.calls # <<>> /\ Sound(r)
  BY DEF CheckAlias, accountVars, documents, At, Open, Stage
<1>1. r.kind = "alias" /\ AliasSound(r)
  BY <1>0, CallTellsKind DEF Sound
<1>2. sessions' \subseteq Accounts /\ \A s \in Subs : ~Covers(q, s)
  BY <1>0, <1>1 DEF AccountTypes, Covers
<1>3. CASE Answered(q, 412)
  BY <1>0, <1>2, <1>3, QuietAnswer
<1>4. CASE r.shown.etag = p.stamp /\ ProceedWith(q, [content |-> p.alias])
  <2>p. PICK seen : seen = [content |-> p.alias]
    OBVIOUS
  <2>a. ProceedWith(q, seen)
    BY <1>4, <2>p
  <2>b. seen.content = r.shown.content
    BY <1>0, <1>1, <1>4, <2>p DEF AliasSound
  <2>1. /\ Tasks' /\ OthersStay(q)
        /\ n.kind = r.kind /\ n.calls = Tail(r.calls) /\ n.who = r.who
        /\ n.what = r.what /\ n.seen = seen /\ n.shown = r.shown
    BY <2>a, ProceedWithFields
  <2>2. n.calls \in AliasRests /\ Stage(n) = "patchAlias"
    BY <1>0, <1>1, <2>1, AliasOrder DEF AliasSound, Stage
  <2>3. AliasSound(n)
    BY <1>1, <2>1, <2>2, <2>b DEF AliasSound
  <2>4. Sound(n)
    BY <1>1, <2>1, <2>3, TaskAssumption DEF Sound, Linking, Kinds
  <2>5. Sound(n)'
    BY <1>0, <1>2, <2>4, SoundQuiet
  <2>6. Alone(q)
    BY <1>0, <2>1, ProceedAlone
  <2> QED
    BY <1>0, <1>2, <2>1, <2>5, <2>6, QuietMove
<1> QED
  BY <1>3, <1>4 DEF CheckAlias

\* The linking requests of the other accounts are left alone by request q.
OthersLinks(q) ==
    \A p \in Requests \ {q} :
        req[p].kind \in Linking /\ Open(p) /\ req[p].who \in Accounts => LinksStay(req[p].who)

LEMMA ProfileWritten ==
    ASSUME profile \in Seq(Profiles), NEW u \in Accounts, NEW data \in Profiles,
           WriteProfile(u, data)
    PROVE  /\ profile' \in Seq(Profiles) /\ DOMAIN profile' = DOMAIN profile /\ StampsGrow
           /\ profile'[u].subs = data.subs
           /\ \A v \in Accounts : v # u => profile'[v] = profile[v]
<1>n. PICK n : n = profile[u].stamp + 1
  OBVIOUS
<1> DEFINE new == [data EXCEPT !.stamp = n]
<1>1. profile[u].stamp \in Nat /\ \A v \in DOMAIN profile : profile[v].stamp \in Nat
  BY ProfileAt DEF Accounts
<1>a. n \in Nat
  BY <1>n, <1>1
<1>b. new \in Profiles /\ new.subs = data.subs /\ new.stamp = n
  BY <1>a DEF Profiles
<1>3. profile' = [profile EXCEPT ![u] = new]
  BY <1>n DEF WriteProfile
<1> HIDE DEF new
<1>2. new \in Profiles /\ new.subs = data.subs /\ new.stamp = profile[u].stamp + 1
  BY <1>n, <1>b
<1>4. profile' \in Seq(Profiles) /\ DOMAIN profile' = DOMAIN profile
  BY <1>2, <1>3 DEF Accounts
<1>5. profile'[u] = new /\ \A v \in Accounts : v # u => profile'[v] = profile[v]
  BY <1>3 DEF Accounts
<1>6. StampsGrow
  BY <1>1, <1>2, <1>4, <1>5 DEF StampsGrow, Accounts
<1> QED
  BY <1>2, <1>4, <1>5, <1>6

\* Two requests that link one account have met, so what q does there does not matter.
LEMMA OthersHaveMet ==
    ASSUME AccountInv, NEW q \in Requests, Open(q), req[q].kind \in Linking,
           NEW u \in Accounts, req[q].who = u, met \subseteq met',
           \A v \in Accounts : v # u => LinksStay(v)
    PROVE  OthersLinks(q)
<1> SUFFICES ASSUME NEW p \in Requests \ {q}, req[p].kind \in Linking, Open(p),
                    req[p].who \in Accounts
             PROVE  LinksStay(req[p].who)
  BY DEF OthersLinks
<1>1. CASE req[p].who = u
  BY <1>1 DEF AccountInv, MetTrue, LinksStay
<1>2. CASE req[p].who # u
  BY <1>2
<1> QED
  BY <1>1, <1>2

LEMMA NoProfileType == NoProfile \in Profiles /\ NoProfile.subs = {} /\ NoProfile.alias = None
  BY DEF NoProfile, Profiles

LEMMA MintEffect ==
    ASSUME AccountInv, NEW q \in Requests, MintIdentity(q), met \subseteq met',
           NEW u, u = Len(profile) + 1, NEW t, t = req[q].what
    PROVE  /\ profile' \in Seq(Profiles) /\ ident' \in [Subs -> Accounts' \cup {None}]
           /\ StampsGrow /\ OthersLinks(q) /\ Accounts \subseteq Accounts'
           /\ t \in Subs /\ u \in Accounts' /\ u \notin Accounts
           /\ profile'[u].subs = {} /\ ident'[t] = u
           /\ \A s \in Subs : s # t => ident'[s] = ident[s]
           /\ \A v \in Accounts : profile'[v] = profile[v]
<1> USE DEF AccountInv
<1>1. profile \in Seq(Profiles) /\ ident \in [Subs -> Accounts \cup {None}]
  BY DEF AccountTypes
<1>2. profile' = Append(profile, NoProfile) /\ ident' = [ident EXCEPT ![t] = u]
  BY DEF MintIdentity, WriteIdentity
<1>3. req[q].kind = "login" /\ t \in Subs
  BY DEF MintIdentity, Sound, LoginSound
<1>4. /\ profile' \in Seq(Profiles) /\ DOMAIN profile' = DOMAIN profile \cup {u}
      /\ u \notin DOMAIN profile /\ profile'[u] = NoProfile
      /\ \A v \in DOMAIN profile : profile'[v] = profile[v]
  BY <1>1, <1>2, NoProfileType
<1>5. /\ ident' \in [Subs -> Accounts' \cup {None}] /\ ident'[t] = u
      /\ \A s \in Subs : s # t => ident'[s] = ident[s]
  BY <1>1, <1>2, <1>3, <1>4 DEF Accounts
<1>6. StampsGrow
  <2>1. \A v \in DOMAIN profile : profile[v].stamp \in Nat
    BY <1>1, ProfileAt
  <2> QED
    BY <2>1, <1>4 DEF StampsGrow
<1>7. \A v \in Accounts : LinksStay(v)
  BY <1>3, <1>4, <1>5 DEF LinksStay, Accounts
<1>8. OthersLinks(q)
  BY <1>7 DEF OthersLinks
<1> QED
  BY <1>3, <1>4, <1>5, <1>6, <1>8, NoProfileType DEF Accounts

LEMMA LinkEffect ==
    ASSUME AccountInv, NEW q \in Requests, LinkIdentity(q), met \subseteq met',
           NEW u, u = req[q].who, NEW t, t = req[q].what
    PROVE  /\ profile' = profile /\ ident' \in [Subs -> Accounts' \cup {None}]
           /\ StampsGrow /\ OthersLinks(q)
           /\ t \in Subs /\ u \in Accounts /\ ident'[t] = u
           /\ \A s \in Subs : s # t => ident'[s] = ident[s]
<1> USE DEF AccountInv
<1>1. profile \in Seq(Profiles) /\ ident \in [Subs -> Accounts \cup {None}]
  BY DEF AccountTypes
<1>2. profile' = profile /\ ident' = [ident EXCEPT ![t] = u]
  BY DEF LinkIdentity, WriteIdentity
<1>3. req[q].kind = "connect" /\ t \in Subs /\ u \in Accounts /\ Open(q)
  BY DEF LinkIdentity, Sound, ConnectSound, At
<1>4. /\ ident' \in [Subs -> Accounts' \cup {None}] /\ ident'[t] = u
      /\ \A s \in Subs : s # t => ident'[s] = ident[s]
  BY <1>1, <1>2, <1>3 DEF Accounts
<1>5. StampsGrow
  <2>1. \A v \in DOMAIN profile : profile[v].stamp \in Nat
    BY <1>1, ProfileAt
  <2> QED
    BY <2>1, <1>2 DEF StampsGrow
<1>6. \A v \in Accounts : v # u => LinksStay(v)
  BY <1>2, <1>4 DEF LinksStay
<1>7. OthersLinks(q)
  BY <1>3, <1>6, OthersHaveMet DEF Linking
<1> QED
  BY <1>2, <1>3, <1>4, <1>5, <1>7

LEMMA NewProfileEffect ==
    ASSUME AccountInv, NEW q \in Requests, NewProfile(q), met \subseteq met',
           NEW u, u = req[q].who, NEW t, t = req[q].what
    PROVE  /\ profile' \in Seq(Profiles) /\ ident' = ident /\ Accounts' = Accounts
           /\ StampsGrow /\ OthersLinks(q)
           /\ t \in Subs /\ u \in Accounts /\ profile'[u].subs = {t}
           /\ u \in met \/ profile[u].subs = {}
           /\ \A v \in Accounts : v # u => profile'[v] = profile[v]
<1> USE DEF AccountInv
<1>1. profile \in Seq(Profiles)
  BY DEF AccountTypes
<1>2. /\ Open(q) /\ req[q].calls # <<>> /\ Head(req[q].calls) = "putProfile"
      /\ Stage(req[q]) = "putProfile" /\ Sound(req[q])
  BY DEF NewProfile, At, Open, Stage
<1>3. req[q].kind = "login" /\ LoginSound(req[q])
  BY <1>2, CallTellsKind DEF Sound
<1>4. u \in Accounts /\ t \in Subs /\ (u \in met \/ profile[u].subs = {})
  BY <1>2, <1>3 DEF LoginSound
<1>5. PICK data : data = [NoProfile EXCEPT !.subs = {t}]
  OBVIOUS
<1>6. data \in Profiles /\ data.subs = {t}
  BY <1>4, <1>5 DEF NoProfile, Profiles
<1>7. WriteProfile(u, data) /\ ident' = ident
  BY <1>5 DEF NewProfile
<1>8. /\ profile' \in Seq(Profiles) /\ DOMAIN profile' = DOMAIN profile /\ StampsGrow
      /\ profile'[u].subs = {t}
      /\ \A v \in Accounts : v # u => profile'[v] = profile[v]
  BY <1>1, <1>4, <1>6, <1>7, ProfileWritten
<1>9. \A v \in Accounts : v # u => LinksStay(v)
  BY <1>7, <1>8 DEF LinksStay
<1>10. OthersLinks(q)
  BY <1>2, <1>3, <1>4, <1>9, OthersHaveMet DEF Linking
<1> QED
  BY <1>4, <1>7, <1>8, <1>10 DEF Accounts

LEMMA NewProvidersEffect ==
    ASSUME AccountInv, NEW q \in Requests, NewProviders(q), met \subseteq met',
           NEW u, u = req[q].who, NEW keep, keep = req[q].seen.keep
    PROVE  /\ profile' \in Seq(Profiles) /\ ident' = ident /\ Accounts' = Accounts
           /\ StampsGrow /\ OthersLinks(q)
           /\ u \in Accounts /\ profile'[u].subs = keep
           /\ req[q].kind = "connect" => req[q].what \in keep
           /\ req[q].kind \in {"connect", "disconnect"}
           /\ u \in met \/ \A t \in profile[u].subs : ident[t] = u => t \in keep
           /\ \A v \in Accounts : v # u => profile'[v] = profile[v]
<1> USE DEF AccountInv
<1>1. profile \in Seq(Profiles)
  BY DEF AccountTypes
<1>2. /\ Open(q) /\ req[q].calls # <<>> /\ Head(req[q].calls) = "patchProviders"
      /\ Stage(req[q]) = "patchProviders" /\ Sound(req[q])
  BY DEF NewProviders, At, Open, Stage
<1>3. /\ req[q].kind \in {"connect", "disconnect"}
      /\ req[q].kind = "connect" => ConnectSound(req[q])
      /\ req[q].kind = "disconnect" => DisconnectSound(req[q])
  BY <1>2, CallTellsKind DEF Sound
<1>4. /\ u \in Accounts /\ keep \in SUBSET Subs
      /\ req[q].kind = "connect" => req[q].what \in keep
      /\ u \in met \/ \A t \in profile[u].subs : ident[t] = u => t \in keep
  BY <1>2, <1>3 DEF ConnectSound, DisconnectSound
<1>a. profile[u] \in Profiles
  BY <1>1, <1>4, ProfileAt DEF Accounts
<1>5. PICK data : data = [profile[u] EXCEPT !.subs = keep]
  OBVIOUS
<1>6. data \in Profiles /\ data.subs = keep
  BY <1>4, <1>5, <1>a DEF Profiles
<1>7. WriteProfile(u, data) /\ ident' = ident
  BY <1>5 DEF NewProviders, PatchProviders
<1>8. /\ profile' \in Seq(Profiles) /\ DOMAIN profile' = DOMAIN profile /\ StampsGrow
      /\ profile'[u].subs = keep
      /\ \A v \in Accounts : v # u => profile'[v] = profile[v]
  BY <1>1, <1>4, <1>6, <1>7, ProfileWritten
<1>9. \A v \in Accounts : v # u => LinksStay(v)
  BY <1>7, <1>8 DEF LinksStay
<1>10. OthersLinks(q)
  BY <1>2, <1>3, <1>4, <1>9, OthersHaveMet DEF Linking
<1> QED
  BY <1>3, <1>4, <1>7, <1>8, <1>10 DEF Accounts

LEMMA NewAliasEffect ==
    ASSUME AccountInv, NEW q \in Requests, NewAlias(q)
    PROVE  /\ profile' \in Seq(Profiles) /\ ident' = ident /\ Accounts' = Accounts
           /\ StampsGrow /\ OthersLinks(q) /\ req[q].kind = "alias"
           /\ \A v \in Accounts : profile'[v].subs = profile[v].subs
<1> USE DEF AccountInv
<1> PICK u : u = req[q].who
  OBVIOUS
<1>1. profile \in Seq(Profiles)
  BY DEF AccountTypes
<1>2. /\ req[q].calls # <<>> /\ Head(req[q].calls) = "patchAlias" /\ Sound(req[q])
  BY DEF NewAlias, At, Open
<1>3. req[q].kind = "alias" /\ u \in Accounts
  BY <1>2, CallTellsKind DEF Sound, AliasSound
<1>a. profile[u] \in Profiles
  BY <1>1, <1>3, ProfileAt DEF Accounts
<1>5. PICK data : data = [profile[u] EXCEPT !.alias = q]
  OBVIOUS
<1>6. data \in Profiles /\ data.subs = profile[u].subs
  BY <1>5, <1>a DEF Profiles
<1>7. WriteProfile(u, data) /\ ident' = ident
  BY <1>5 DEF NewAlias, PatchAlias
<1>8. /\ profile' \in Seq(Profiles) /\ DOMAIN profile' = DOMAIN profile /\ StampsGrow
      /\ profile'[u].subs = profile[u].subs
      /\ \A v \in Accounts : v # u => profile'[v] = profile[v]
  BY <1>1, <1>3, <1>6, <1>7, ProfileWritten
<1>9. \A v \in Accounts : profile'[v].subs = profile[v].subs
  BY <1>8
<1>10. \A v \in Accounts : LinksStay(v)
  BY <1>7, <1>9 DEF LinksStay
<1> QED
  BY <1>3, <1>7, <1>8, <1>9, <1>10 DEF Accounts, OthersLinks

LEMMA UnlinkEffect ==
    ASSUME AccountInv, NEW q \in Requests, NEW s \in Subs, Unlink(q, s)
    PROVE  /\ profile' = profile /\ ident' \in [Subs -> Accounts \cup {None}]
           /\ StampsGrow /\ OthersLinks(q)
           /\ \A v \in Accounts : LinksStay(v)
           /\ \A t \in Subs : ident'[t] = ident[t] \/ ident'[t] = None
           /\ ident'[s] # req[q].who
           /\ req[q].kind = "disconnect" /\ Stage(req[q]) = "deleteIdentities"
           /\ req[q].who \in Accounts
<1> USE DEF AccountInv
<1> PICK u : u = req[q].who
  OBVIOUS
<1>1. profile \in Seq(Profiles) /\ ident \in [Subs -> Accounts \cup {None}]
  BY DEF AccountTypes
<1>2. /\ req[q].calls # <<>> /\ Head(req[q].calls) = "deleteIdentities"
      /\ Stage(req[q]) = "deleteIdentities" /\ Sound(req[q])
  BY DEF Unlink, At, Open, Stage
<1>3. req[q].kind = "disconnect" /\ u \in Accounts
  BY <1>2, CallTellsKind DEF Sound, DisconnectSound
<1>4. /\ profile' = profile
      /\ ident' = IF ident[s] = u THEN [ident EXCEPT ![s] = None] ELSE ident
  BY DEF Unlink, DeleteIdentity
<1>5. /\ ident' \in [Subs -> Accounts \cup {None}]
      /\ \A t \in Subs : ident'[t] = ident[t] \/ ident'[t] = None
  BY <1>1, <1>4
<1>b. None \notin Accounts
  BY <1>1, TaskAssumption DEF Accounts
<1>6. ident'[s] # u
  BY <1>1, <1>3, <1>4, <1>b
<1>7. \A v \in Accounts : LinksStay(v)
  BY <1>4, <1>5, <1>b DEF LinksStay
<1>8. StampsGrow
  <2>1. \A v \in DOMAIN profile : profile[v].stamp \in Nat
    BY <1>1, ProfileAt
  <2> QED
    BY <2>1, <1>4 DEF StampsGrow
<1> QED
  BY <1>2, <1>3, <1>4, <1>5, <1>6, <1>7, <1>8 DEF OthersLinks

\* What a step of q has to keep, for a subject that leads where it led.
LEMMA CoveredMove ==
    ASSUME NEW q \in Requests, NEW s \in Subs, Covered(s), OthersStay(q), met \subseteq met',
           NEW u, u = ident[s], ident'[s] = u,
           u # None =>
              /\ s \in profile[u].subs => s \in profile'[u].subs \/ u \in met'
              /\ <<s, u>> \in cut => <<s, u>> \in cut' \/ s \in profile'[u].subs
              /\ Covers(q, s) =>
                    Covers(q, s)' \/ <<s, u>> \in cut' \/ s \in profile'[u].subs
    PROVE  Covered(s)'
<1>1. ASSUME NEW p \in Requests, Covers(p, s), p # q PROVE Covers(p, s)'
  BY <1>1 DEF Covers, OthersStay, Stage
<1> SUFFICES ASSUME u # None
             PROVE  \/ s \in profile'[u].subs \/ <<s, u>> \in cut' \/ u \in met'
                    \/ \E p \in Requests : Covers(p, s)'
  BY DEF Covered
<1>2. CASE \E p \in Requests : Covers(p, s)
  BY <1>1, <1>2
<1>3. CASE u \in met
  BY <1>3
<1>4. CASE s \in profile[u].subs \/ <<s, u>> \in cut
  BY <1>4
<1> QED
  BY <1>2, <1>3, <1>4 DEF Covered

LEMMA AccountMints ==
    ASSUME AccountInv, NEW q \in Requests, Mint(q)
    PROVE  AccountInv'
<1> USE DEF AccountInv
<1> PICK r, n : r = req[q] /\ n = req'[q]
  OBVIOUS
<1> PICK u : u = Len(profile) + 1
  OBVIOUS
<1> PICK t : t = r.what
  OBVIOUS
<1>0. /\ MintIdentity(q) /\ sessions' = sessions /\ cut' = cut /\ met' = met
      /\ Open(q) /\ r.calls # <<>> /\ Head(r.calls) = "putIdentity" /\ r.kind = "login"
      /\ Stage(r) = "putIdentity" /\ LoginSound(r)
  BY DEF Mint, MintIdentity, At, Open, Stage, Sound
<1>1. /\ profile' \in Seq(Profiles) /\ ident' \in [Subs -> Accounts' \cup {None}]
      /\ StampsGrow /\ OthersLinks(q) /\ Accounts \subseteq Accounts'
      /\ t \in Subs /\ u \in Accounts' /\ u \notin Accounts
      /\ profile'[u].subs = {} /\ ident'[t] = u
      /\ \A s \in Subs : s # t => ident'[s] = ident[s]
      /\ \A v \in Accounts : profile'[v] = profile[v]
  BY <1>0, MintEffect
<1>l. Len(profile') = u
  BY <1>0 DEF MintIdentity, AccountTypes
<1>a. Minted(q, u)
  BY <1>l DEF Mint, Minted
<1>2. /\ Tasks' /\ OthersStay(q)
      /\ n.kind = r.kind /\ n.calls = Tail(r.calls) /\ n.who = u /\ n.what = t
  BY <1>a, MintedFields
<1>3. n.calls \in LoginRests /\ n.calls # <<>> /\ Stage(n) = "putProfile"
  BY <1>0, <1>2, LoginOrder DEF LoginSound, Stage
<1>4. Sound(n)'
  <2>1. LoginSound(n)'
    BY <1>1, <1>2, <1>3 DEF LoginSound, Stage
  <2> QED
    BY <2>1, <1>0, <1>2, TaskAssumption DEF Sound, Linking, Kinds
<1>5. AccountTypes'
  BY <1>0, <1>1 DEF AccountTypes
<1>6. Alone(q)
  <2>1. u # None
    BY TaskAssumption DEF AccountTypes
  <2>2. \A p \in Requests : req[p].kind \in Linking /\ Open(p) =>
            req[p].who \in Accounts \/ req[p].who = None
    BY LinkerKnown DEF Open
  <2> QED
    BY <2>1, <2>2, <1>1, <1>2 DEF Alone
<1>7. ASSUME NEW s \in Subs PROVE Covered(s)'
  <2>1. CASE s = t
    <3>1. Covers(q, t)'
      BY <1>0, <1>1, <1>2, <1>3 DEF Covers
    <3> QED
      BY <2>1, <3>1 DEF Covered
  <2>2. CASE s # t
    <3> PICK v : v = ident[s]
      OBVIOUS
    <3>1. v # None => profile'[v] = profile[v]
      BY <1>1 DEF AccountTypes
    <3>2. ~Covers(q, s)
      BY <2>2 DEF Covers
    <3>3. ident'[s] = v
      BY <2>2, <1>1
    <3> QED
      BY <1>0, <1>2, <3>1, <3>2, <3>3, CoveredMove
  <2> QED
    BY <2>1, <2>2
<1> QED
  BY <1>0, <1>1, <1>2, <1>4, <1>5, <1>6, <1>7, AccountMove DEF OthersLinks

LEMMA AccountPuts ==
    ASSUME AccountInv, NEW q \in Requests, PutProfile(q)
    PROVE  AccountInv'
<1> USE DEF AccountInv
<1> PICK r, n : r = req[q] /\ n = req'[q]
  OBVIOUS
<1> PICK u : u = r.who
  OBVIOUS
<1> PICK t : t = r.what
  OBVIOUS
<1>0. /\ NewProfile(q) /\ sessions' = sessions \cup {u} /\ cut' = cut /\ met' = met
      /\ Open(q) /\ r.calls # <<>> /\ Head(r.calls) = "putProfile" /\ Proceed(q)
      /\ Sound(r)
  BY DEF PutProfile, NewProfile, At, Open
<1>k. r.kind = "login" /\ LoginSound(r)
  BY <1>0, CallTellsKind DEF Sound
<1>1. /\ profile' \in Seq(Profiles) /\ ident' = ident /\ Accounts' = Accounts
      /\ StampsGrow /\ OthersLinks(q)
      /\ t \in Subs /\ u \in Accounts /\ profile'[u].subs = {t}
      /\ u \in met \/ profile[u].subs = {}
      /\ \A v \in Accounts : v # u => profile'[v] = profile[v]
  <2>1. u = req[q].who /\ t = req[q].what /\ met \subseteq met' /\ NewProfile(q) /\ AccountInv
    BY <1>0
  <2> QED
    BY ONLY <2>1, q \in Requests, NewProfileEffect
<1>2. /\ Tasks' /\ OthersStay(q)
      /\ n.kind = r.kind /\ n.calls = Tail(r.calls) /\ n.who = u /\ n.what = t
  BY <1>0, ProceedFields
<1>3. n.calls = <<>> /\ Stage(n) = "over"
  BY <1>0, <1>2, <1>k, LoginOrder DEF LoginSound, Stage
<1>4. Sound(n)'
  <2>1. LoginSound(n)'
    BY <1>1, <1>2, <1>3 DEF LoginSound, LoginRests, Stage
  <2> QED
    BY <2>1, <1>k, <1>2, TaskAssumption DEF Sound, Linking, Kinds
<1>5. AccountTypes'
  BY <1>0, <1>1 DEF AccountTypes
<1>6. Alone(q)
  BY <1>0, <1>2, ProceedAlone
<1>7. ASSUME NEW s \in Subs PROVE Covered(s)'
  <2> PICK v : v = ident[s]
    OBVIOUS
  <2>1. v # None => v \in Accounts
    BY DEF AccountTypes
  <2>2. v # None /\ s \in profile[v].subs => s \in profile'[v].subs \/ v \in met'
    BY <2>1, <1>0, <1>1
  <2>3. Covers(q, s) => s \in profile'[v].subs
    BY <1>1 DEF Covers
  <2> QED
    BY <1>0, <1>1, <1>2, <2>2, <2>3, CoveredMove
<1> QED
  BY <1>0, <1>1, <1>2, <1>4, <1>5, <1>6, <1>7, AccountMove DEF OthersLinks

LEMMA AccountPatches ==
    ASSUME AccountInv, NEW q \in Requests, Patch(q)
    PROVE  AccountInv'
<1> USE DEF AccountInv
<1> PICK r, n : r = req[q] /\ n = req'[q]
  OBVIOUS
<1> PICK u : u = r.who
  OBVIOUS
<1>0. sessions' = sessions /\ met' = met /\ Open(q) /\ r.calls # <<>> /\ Proceed(q) /\ Sound(r)
  BY DEF Patch, LinkIdentity, NewProviders, NewAlias, At, Open
<1>2. /\ Tasks' /\ OthersStay(q)
      /\ n.kind = r.kind /\ n.calls = Tail(r.calls) /\ n.who = u /\ n.what = r.what
      /\ n.seen = r.seen /\ n.shown = r.shown
  BY <1>0, ProceedFields
<1>6. Alone(q)
  BY <1>0, <1>2, ProceedAlone
<1>7. ASSUME LinkIdentity(q), cut' = cut PROVE AccountInv'
  <2> PICK t : t = r.what
    OBVIOUS
  <2>1. /\ profile' = profile /\ ident' \in [Subs -> Accounts' \cup {None}]
        /\ StampsGrow /\ OthersLinks(q)
        /\ t \in Subs /\ u \in Accounts /\ ident'[t] = u
        /\ \A s \in Subs : s # t => ident'[s] = ident[s]
    BY <1>0, <1>7, LinkEffect
  <2>2. r.kind = "connect" /\ Head(r.calls) = "putIdentity" /\ ConnectSound(r)
    BY <1>0, <1>7 DEF LinkIdentity, At, Sound
  <2>3. n.calls \in ConnectRests /\ n.calls # <<>> /\ Stage(n) = "getProfile"
    BY <1>0, <1>2, <2>2, ConnectOrder DEF ConnectSound, Stage
  <2>a. Accounts' = Accounts
    BY <2>1 DEF Accounts
  <2>4. Sound(n)'
    <3>1. ConnectSound(n)'
      BY <1>2, <2>1, <2>3, <2>a DEF ConnectSound, Stage
    <3> QED
      BY <3>1, <1>2, <2>2, TaskAssumption DEF Sound, Linking, Kinds
  <2>5. AccountTypes'
    BY <1>0, <2>1, <2>a DEF AccountTypes
  <2>6. ASSUME NEW s \in Subs PROVE Covered(s)'
    <3>1. CASE s = t
      <4>1. Covers(q, t)'
        BY <1>2, <2>1, <2>2, <2>3 DEF Covers
      <4> QED
        BY <3>1, <4>1 DEF Covered
    <3>2. CASE s # t
      <4>1. ~Covers(q, s)
        BY <3>2 DEF Covers
      <4> QED
        BY <1>0, <1>2, <1>7, <2>1, <3>2, <4>1, CoveredMove
    <3> QED
      BY <3>1, <3>2
  <2> QED
    BY <1>0, <1>2, <1>6, <2>1, <2>4, <2>5, <2>6, AccountMove DEF OthersLinks
<1>8. ASSUME NewProviders(q), cut' = cut \ (r.seen.keep \X {u}) PROVE AccountInv'
  <2> PICK keep : keep = r.seen.keep
    OBVIOUS
  <2>1. /\ profile' \in Seq(Profiles) /\ ident' = ident /\ Accounts' = Accounts
        /\ StampsGrow /\ OthersLinks(q)
        /\ u \in Accounts /\ profile'[u].subs = keep
        /\ r.kind = "connect" => r.what \in keep
        /\ r.kind \in {"connect", "disconnect"}
        /\ u \in met \/ \A t \in profile[u].subs : ident[t] = u => t \in keep
        /\ \A v \in Accounts : v # u => profile'[v] = profile[v]
    BY <1>0, <1>8, NewProvidersEffect
  <2>2. Head(r.calls) = "patchProviders"
    BY <1>8 DEF NewProviders, At
  <2>3. n.calls = <<>> /\ Stage(n) = "over"
    BY <1>0, <1>2, <2>1, <2>2, ConnectOrder, DisconnectOrder
       DEF Sound, ConnectSound, DisconnectSound, Stage
  <2>5. AccountTypes'
    BY <1>0, <2>1 DEF AccountTypes
  <2>4. Sound(n)'
    <3>1. Sound(n)
      BY <1>0, <1>2, <2>3, OverSound
    <3> QED
      BY <1>0, <2>1, <2>3, <2>5, <3>1, SoundStays
  <2>6. ASSUME NEW s \in Subs PROVE Covered(s)'
    <3> PICK v : v = ident[s]
      OBVIOUS
    <3>1. v # None => v \in Accounts
      BY DEF AccountTypes
    <3>2. v # None /\ s \in profile[v].subs => s \in profile'[v].subs \/ v \in met'
      BY <3>1, <1>0, <2>1
    <3>3. <<s, v>> \in cut => <<s, v>> \in cut' \/ s \in profile'[v].subs
      BY <1>8, <2>1
    <3>4. Covers(q, s) => s \in profile'[v].subs
      BY <2>1 DEF Covers
    <3> QED
      BY <1>0, <1>2, <2>1, <3>2, <3>3, <3>4, CoveredMove
  <2> QED
    BY <1>0, <1>2, <1>6, <2>1, <2>4, <2>5, <2>6, AccountMove DEF OthersLinks
<1>9. ASSUME NewAlias(q), cut' = cut PROVE AccountInv'
  <2>1. /\ profile' \in Seq(Profiles) /\ ident' = ident /\ Accounts' = Accounts
        /\ StampsGrow /\ OthersLinks(q) /\ r.kind = "alias"
        /\ \A v \in Accounts : profile'[v].subs = profile[v].subs
    BY <1>9, NewAliasEffect
  <2>2. Head(r.calls) = "patchAlias" /\ AliasSound(r)
    BY <1>0, <1>9, <2>1 DEF NewAlias, At, Sound
  <2>3. n.calls = <<>> /\ Stage(n) = "over"
    BY <1>0, <1>2, <2>2, AliasOrder DEF AliasSound, Stage
  <2>5. AccountTypes'
    BY <1>0, <2>1 DEF AccountTypes
  <2>4. Sound(n)'
    <3>1. Sound(n)
      BY <1>0, <1>2, <2>3, OverSound
    <3> QED
      BY <1>0, <2>1, <2>3, <2>5, <3>1, SoundStays
  <2>6. ASSUME NEW s \in Subs PROVE Covered(s)'
    <3> PICK v : v = ident[s]
      OBVIOUS
    <3>1. v # None => profile'[v].subs = profile[v].subs
      BY <2>1 DEF AccountTypes
    <3>2. ~Covers(q, s)
      BY <2>1 DEF Covers
    <3> QED
      BY <1>0, <1>2, <1>9, <2>1, <3>1, <3>2, CoveredMove
  <2> QED
    BY <1>0, <1>2, <1>6, <2>1, <2>4, <2>5, <2>6, AccountMove DEF OthersLinks
<1> QED
  BY <1>7, <1>8, <1>9 DEF Patch

LEMMA AccountUnlinks ==
    ASSUME AccountInv, NEW q \in Requests, DeleteIdentities(q)
    PROVE  AccountInv'
<1> USE DEF AccountInv
<1> PICK r, n : r = req[q] /\ n = req'[q]
  OBVIOUS
<1> PICK u : u = r.who
  OBVIOUS
<1>0. /\ sessions' = sessions /\ cut' = cut /\ met' = met /\ sessions' \subseteq Accounts
      /\ Open(q) /\ r.calls # <<>> /\ Head(r.calls) = "deleteIdentities"
      /\ Stage(r) = "deleteIdentities" /\ Sound(r)
  BY DEF DeleteIdentities, Unlink, At, Open, Stage, AccountTypes
<1>1. r.kind = "disconnect" /\ DisconnectSound(r)
  BY <1>0, CallTellsKind DEF Sound
<1>2. \A s \in Subs : ~Covers(q, s)
  BY <1>1 DEF Covers
<1>3. ASSUME r.seen.remove = {}, Proceed(q), ident' = ident, profile' = profile
      PROVE  AccountInv'
  <2>1. /\ Tasks' /\ OthersStay(q)
        /\ n.kind = r.kind /\ n.calls = Tail(r.calls) /\ n.who = r.who
        /\ n.what = r.what /\ n.seen = r.seen /\ n.shown = r.shown
    BY <1>3, ProceedFields
  <2>2. n.calls \in DisconnectRests /\ Stage(n) = "patchProviders"
    BY <1>0, <1>1, <2>1, DisconnectOrder DEF DisconnectSound, Stage
  <2>3. DisconnectSound(n)
    BY <1>0, <1>1, <1>3, <2>1, <2>2 DEF DisconnectSound
  <2>4. Sound(n)
    BY <1>1, <2>1, <2>3, TaskAssumption DEF Sound, Linking, Kinds
  <2>5. Sound(n)'
    BY <1>0, <1>3, <2>4, SoundQuiet
  <2>7. Alone(q)
    BY <1>0, <2>1, ProceedAlone
  <2> QED
    BY <1>0, <1>2, <1>3, <2>1, <2>5, <2>7, QuietMove
<1>4. ASSUME NEW s \in Subs, Unlink(q, s), req' = [req EXCEPT ![q].seen.remove = @ \ {s}]
      PROVE  AccountInv'
  <2>1. /\ profile' = profile /\ ident' \in [Subs -> Accounts \cup {None}]
        /\ StampsGrow /\ OthersLinks(q)
        /\ \A v \in Accounts : LinksStay(v)
        /\ \A t \in Subs : ident'[t] = ident[t] \/ ident'[t] = None
        /\ ident'[s] # u /\ u \in Accounts
    BY <1>4, UnlinkEffect
  <2>p. PICK seen : seen = [r.seen EXCEPT !.remove = @ \ {s}]
    OBVIOUS
  <2>a. Reads(q, seen)
    BY <1>4, <2>p DEF Reads, Tasks
  <2>2. /\ Tasks' /\ OthersStay(q)
        /\ n.kind = r.kind /\ n.calls = r.calls /\ n.who = u
        /\ n.what = r.what /\ n.seen = seen /\ n.shown = r.shown
    BY <2>a, ReadsFields
  <2>b. /\ r.seen \in [keep : SUBSET Subs, remove : SUBSET Subs]
        /\ u \in met \/ \A t \in profile[u].subs :
                           ident[t] = u => t \in r.seen.keep \/ t \in r.seen.remove
    BY <1>0, <1>1 DEF DisconnectSound
  <2>c. /\ seen \in [keep : SUBSET Subs, remove : SUBSET Subs]
        /\ seen.keep = r.seen.keep /\ seen.remove = r.seen.remove \ {s}
    BY <2>b, <2>p
  <2>3. Stage(n) = "deleteIdentities" /\ Accounts' = Accounts
    BY <1>0, <2>1, <2>2 DEF Stage, Accounts
  <2>d. None \notin Accounts
    BY TaskAssumption DEF AccountTypes, Accounts
  <2>e. profile[u].subs \subseteq Subs
    BY <2>1, ProfileAt DEF AccountTypes, Accounts
  <2>f. \/ u \in met
        \/ \A t \in profile[u].subs : ident'[t] = u => t \in seen.keep \/ t \in seen.remove
    BY <2>1, <2>b, <2>c, <2>d, <2>e
  <2>4. DisconnectSound(n)'
    BY <1>0, <1>1, <2>1, <2>2, <2>3, <2>c, <2>f DEF DisconnectSound, Stage
  <2>5. Sound(n)'
    BY <1>1, <2>2, <2>4, TaskAssumption DEF Sound, Linking, Kinds
  <2>6. AccountTypes'
    BY <1>0, <2>1, <2>3 DEF AccountTypes
  <2>7. Alone(q)
    BY <1>0, <2>2, ProceedAlone
  <2>8. ASSUME NEW t \in Subs PROVE Covered(t)'
    <3>1. CASE ident'[t] = None
      BY <3>1 DEF Covered
    <3>2. CASE ident'[t] = ident[t]
      BY <1>0, <1>2, <2>1, <2>2, <3>2, CoveredMove
    <3> QED
      BY <2>1, <3>1, <3>2
  <2> QED
    BY <1>0, <2>1, <2>2, <2>5, <2>6, <2>7, <2>8, AccountMove DEF OthersLinks
<1> QED
  BY <1>3, <1>4 DEF DeleteIdentities, documents

\* A request that fails is remembered, where it leaves a mapping behind.
LEMMA CutRemembers ==
    ASSUME AccountInv, NEW q \in Requests, NEW s \in Subs, ident[s] # None,
           cut' = IF Mapped(q) THEN cut \cup {<<req[q].what, Holder(q)>>} ELSE cut,
           Open(q), Covers(q, s)
    PROVE  <<s, ident[s]>> \in cut'
<1>1. req[q].what = s /\ req[q].who = ident[s] /\ Holder(q) = ident[s]
  BY DEF Covers, Holder
<1>2. Mapped(q)
  BY DEF Covers, Mapped, Stage, Open
<1> QED
  BY <1>1, <1>2

LEMMA AccountFails ==
    ASSUME AccountInv, NEW q \in Requests, AccountCallFails(q)
    PROVE  AccountInv'
<1> USE DEF AccountInv
<1> PICK r, n : r = req[q] /\ n = req'[q]
  OBVIOUS
<1> PICK u : u = r.who
  OBVIOUS
<1> PICK t : t = r.what
  OBVIOUS
<1>0. /\ sessions' = sessions /\ met' = met /\ Open(q) /\ r.calls # <<>> /\ Sound(r)
      /\ cut' = IF Mapped(q) THEN cut \cup {<<t, Holder(q)>>} ELSE cut
      /\ sessions' \subseteq Accounts /\ cut \subseteq cut' /\ Answered(q, 500)
  BY DEF AccountCallFails, Open, AccountTypes
<1>1. /\ Tasks' /\ OthersStay(q) /\ Sound(n) /\ ~Open(q)' /\ Alone(q)
      /\ n.calls = <<>>
  BY <1>0, AnsweredSound, AnsweredFields
<1>2. \A s \in Subs : ident[s] # None /\ Covers(q, s) => <<s, ident[s]>> \in cut'
  BY <1>0, CutRemembers
<1>3. AccountTypes' /\ StampsGrow => Sound(req[q])'
  <2> SUFFICES ASSUME AccountTypes', StampsGrow PROVE Sound(n)'
    OBVIOUS
  <2> QED
    BY <1>0, <1>1, SoundStays
\* What is left to show of each of the writes.
<1>4. ASSUME StampsGrow, OthersLinks(q), AccountTypes', \A s \in Subs : Covered(s)'
      PROVE  AccountInv'
  BY <1>0, <1>1, <1>3, <1>4, AccountMove DEF OthersLinks
<1>5. ASSUME ident' = ident, profile' = profile PROVE AccountInv'
  BY <1>0, <1>2, <1>5, QuietAnswer
<1>6. ASSUME MintIdentity(q) PROVE AccountInv'
  <2> PICK v : v = Len(profile) + 1
    OBVIOUS
  <2>1. /\ profile' \in Seq(Profiles) /\ ident' \in [Subs -> Accounts' \cup {None}]
        /\ StampsGrow /\ OthersLinks(q) /\ Accounts \subseteq Accounts'
        /\ t \in Subs /\ v \in Accounts' /\ v \notin Accounts
        /\ profile'[v].subs = {} /\ ident'[t] = v
        /\ \A s \in Subs : s # t => ident'[s] = ident[s]
        /\ \A w \in Accounts : profile'[w] = profile[w]
    BY <1>0, <1>6, MintEffect
  <2>2. AccountTypes'
    BY <1>0, <2>1 DEF AccountTypes
  <2>3. <<t, v>> \in cut'
    <3>1. r.kind = "login" /\ Stage(r) = "putIdentity" /\ Head(r.calls) = "putIdentity"
      BY <1>0, <1>6 DEF MintIdentity, At, Stage
    <3>2. u = None
      BY <1>0, <3>1 DEF Sound, LoginSound
    <3>3. Mapped(q) /\ Holder(q) = v
      BY <3>1, <3>2 DEF Mapped, Holder
    <3> QED
      BY <1>0, <3>3
  <2>4. ASSUME NEW s \in Subs PROVE Covered(s)'
    <3>1. CASE s = t
      BY <2>1, <2>3, <3>1 DEF Covered
    <3>2. CASE s # t
      <4> PICK w : w = ident[s]
        OBVIOUS
      <4>1. w # None => profile'[w] = profile[w]
        BY <2>1 DEF AccountTypes
      <4>3. ident'[s] = w
        BY <3>2, <2>1
      <4> QED
        BY <1>0, <1>1, <1>2, <4>1, <4>3, CoveredMove
    <3> QED
      BY <3>1, <3>2
  <2> QED
    BY <2>1, <2>2, <2>4, <1>4
<1>7. ASSUME LinkIdentity(q) PROVE AccountInv'
  <2>1. /\ profile' = profile /\ ident' \in [Subs -> Accounts' \cup {None}]
        /\ StampsGrow /\ OthersLinks(q)
        /\ t \in Subs /\ u \in Accounts /\ ident'[t] = u
        /\ \A s \in Subs : s # t => ident'[s] = ident[s]
    BY <1>0, <1>7, LinkEffect
  <2>2. AccountTypes'
    BY <1>0, <2>1 DEF AccountTypes, Accounts
  <2>3. <<t, u>> \in cut'
    <3>1. r.kind = "connect" /\ Head(r.calls) = "putIdentity"
      BY <1>7 DEF LinkIdentity, At
    <3>2. u # None
      BY <2>1, TaskAssumption DEF AccountTypes, Accounts
    <3>3. Mapped(q) /\ Holder(q) = u
      BY <3>1, <3>2 DEF Mapped, Holder
    <3> QED
      BY <1>0, <3>3
  <2>4. ASSUME NEW s \in Subs PROVE Covered(s)'
    <3>1. CASE s = t
      BY <2>1, <2>3, <3>1 DEF Covered
    <3>2. CASE s # t
      BY <1>0, <1>1, <1>2, <2>1, <3>2, CoveredMove
    <3> QED
      BY <3>1, <3>2
  <2> QED
    BY <2>1, <2>2, <2>4, <1>4
<1>8. ASSUME NewProfile(q) PROVE AccountInv'
  <2>1. /\ profile' \in Seq(Profiles) /\ ident' = ident /\ Accounts' = Accounts
        /\ StampsGrow /\ OthersLinks(q)
        /\ t \in Subs /\ u \in Accounts /\ profile'[u].subs = {t}
        /\ u \in met \/ profile[u].subs = {}
        /\ \A v \in Accounts : v # u => profile'[v] = profile[v]
    <3>1. u = req[q].who /\ t = req[q].what /\ met \subseteq met' /\ NewProfile(q) /\ AccountInv
      BY <1>0, <1>8
    <3> QED
      BY ONLY <3>1, q \in Requests, NewProfileEffect
  <2>2. AccountTypes'
    BY <1>0, <2>1 DEF AccountTypes
  <2>4. ASSUME NEW s \in Subs PROVE Covered(s)'
    <3> PICK v : v = ident[s]
      OBVIOUS
    <3>1. v # None => v \in Accounts
      BY DEF AccountTypes
    <3>2. v # None /\ s \in profile[v].subs => s \in profile'[v].subs \/ v \in met'
      BY <3>1, <1>0, <2>1
    <3> QED
      BY <1>0, <1>1, <1>2, <2>1, <3>2, CoveredMove
  <2> QED
    BY <2>1, <2>2, <2>4, <1>4
<1>9. ASSUME NewProviders(q) PROVE AccountInv'
  <2> PICK keep : keep = r.seen.keep
    OBVIOUS
  <2>1. /\ profile' \in Seq(Profiles) /\ ident' = ident /\ Accounts' = Accounts
        /\ StampsGrow /\ OthersLinks(q)
        /\ u \in Accounts /\ profile'[u].subs = keep
        /\ u \in met \/ \A v \in profile[u].subs : ident[v] = u => v \in keep
        /\ \A v \in Accounts : v # u => profile'[v] = profile[v]
    BY <1>0, <1>9, NewProvidersEffect
  <2>2. AccountTypes'
    BY <1>0, <2>1 DEF AccountTypes
  <2>4. ASSUME NEW s \in Subs PROVE Covered(s)'
    <3> PICK v : v = ident[s]
      OBVIOUS
    <3>1. v # None => v \in Accounts
      BY DEF AccountTypes
    <3>2. v # None /\ s \in profile[v].subs => s \in profile'[v].subs \/ v \in met'
      BY <3>1, <1>0, <2>1
    <3> QED
      BY <1>0, <1>1, <1>2, <2>1, <3>2, CoveredMove
  <2> QED
    BY <2>1, <2>2, <2>4, <1>4
<1>11. ASSUME NewAlias(q) PROVE AccountInv'
  <2>1. /\ profile' \in Seq(Profiles) /\ ident' = ident /\ Accounts' = Accounts
        /\ StampsGrow /\ OthersLinks(q)
        /\ \A v \in Accounts : profile'[v].subs = profile[v].subs
    BY <1>11, NewAliasEffect
  <2>2. AccountTypes'
    BY <1>0, <2>1 DEF AccountTypes
  <2>4. ASSUME NEW s \in Subs PROVE Covered(s)'
    <3> PICK v : v = ident[s]
      OBVIOUS
    <3>1. v # None => profile'[v].subs = profile[v].subs
      BY <2>1 DEF AccountTypes
    <3> QED
      BY <1>0, <1>1, <1>2, <2>1, <3>1, CoveredMove
  <2> QED
    BY <2>1, <2>2, <2>4, <1>4
<1>10. ASSUME NEW s \in Subs, Unlink(q, s) PROVE AccountInv'
  <2>1. /\ profile' = profile /\ ident' \in [Subs -> Accounts \cup {None}]
        /\ StampsGrow /\ OthersLinks(q)
        /\ \A v \in Subs : ident'[v] = ident[v] \/ ident'[v] = None
    BY <1>10, UnlinkEffect
  <2>2. AccountTypes'
    BY <1>0, <2>1 DEF AccountTypes, Accounts
  <2>4. ASSUME NEW v \in Subs PROVE Covered(v)'
    <3>1. CASE ident'[v] = None
      BY <3>1 DEF Covered
    <3>2. CASE ident'[v] = ident[v]
      BY <1>0, <1>1, <1>2, <2>1, <3>2, CoveredMove
    <3> QED
      BY <2>1, <3>1, <3>2
  <2> QED
    BY <2>1, <2>2, <2>4, <1>4
<1> QED
  BY <1>5, <1>6, <1>7, <1>8, <1>9, <1>10, <1>11 DEF AccountCallFails, documents

LEMMA AccountNext == ASSUME AccountInv, AccountsNext PROVE AccountInv'
<1> SUFFICES ASSUME NEW q \in Requests,
                    \/ Login(q) \/ Connect(q) \/ Disconnect(q) \/ SetAlias(q)
                    \/ AccountCall(q) \/ AccountCallFails(q)
             PROVE  AccountInv'
  BY DEF AccountsNext
<1> QED
  BY AccountSent, AccountFails, AccountGetsIdentity, AccountMints, AccountPuts,
     AccountGetsProfile, AccountUnlinks, AccountPatches, AccountShows, AccountChecks
     DEF AccountCall

-----------------------------------------------------------------------------
(* Works. *)

Manifests == [title : Requests \cup {None}, phase : {"discovery", "drafting"}, stamp : Nat]

WorkRests == {WorkCalls, <<"create", "finish">>, <<"finish">>, <<"release">>, <<>>}
MediaRests == {MediaCalls, <<"guard", "room", "sign", "finish">>, <<"room", "sign", "finish">>,
               <<"sign", "finish">>, <<"finish">>, <<"release">>, <<>>}
RenameRests == {RenameCalls, <<"checkMeta", "patchTitle">>, <<"patchTitle">>, <<>>}
PhaseRests == {PhaseCalls, <<"patchPhase">>, <<>>}
AnswerRests == {AnswerCalls, <<"append", "spawn">>, <<"spawn">>, <<>>}

RenameSound(r) ==
    /\ r.calls \in RenameRests /\ r.what \in Works
    /\ Stage(r) \in {"showMeta", "checkMeta"} => r.seen = None
    /\ Stage(r) = "checkMeta" =>
          /\ r.shown.etag \in Nat /\ r.shown.etag <= manifest[r.what].stamp
          /\ r.shown.etag = manifest[r.what].stamp => r.shown.content = manifest[r.what].title
    /\ r.seen = None \/ r.seen.content = r.shown.content

PhaseSound(r) ==
    /\ r.calls \in PhaseRests /\ r.what \in Works
    /\ Stage(r) = "patchPhase" => r.seen \in {"discovery", "drafting"}

WorkSound(r) ==
    /\ r.kind \in {None, "works", "media", "rename", "phase", "answer", "delete"}
    /\ r.kind \in {None, "delete"} => r.calls = <<>> /\ r.seen = None
    /\ r.kind = "works" => r.calls \in WorkRests /\ r.key \in Keys \cup {None}
    /\ r.kind = "media" => r.calls \in MediaRests /\ r.key \in Keys \cup {None}
    /\ r.kind = "rename" => RenameSound(r)
    /\ r.kind = "phase" => PhaseSound(r)
    /\ r.kind = "answer" => r.calls \in AnswerRests

\* Request q has claimed key k and is not over.
Holds(q, k) == Keyed(q) /\ Key(q) = k /\ Stage(req[q]) \notin {"over", "claim"}

\* What the record of key k tells of what was done under it.
RecordTrue(k) ==
    /\ idem[k].state # "claimed" => \A q \in Requests : ~Holds(q, k)
    /\ idem[k].state \in {"claimed", "done"} \/ made[k] = {}
    /\ idem[k].state = "claimed" => idem[k].fresh
    /\ \A p, q \in Requests : Holds(p, k) /\ Holds(q, k) => p = q
    /\ \A q \in Requests : Holds(q, k) /\ Stage(req[q]) # "finish" => made[k] = {}
    /\ made[k] = {} \/ \E e : made[k] = {e}

KeySound(k) == k \in shaky \/ RecordTrue(k)

\* The turn of an answer is in the conversation, and what was answered is kept.
TurnSound(q) ==
    /\ req[q].kind = "answer" /\ (Stage(req[q]) = "spawn" \/ req[q].code = 200) => q \in turns
    /\ req[q].kind = "answer" /\ req[q].code = 200 =>
          \/ assess.waits \/ assess.at = "read" \/ q \in assess.read \/ q \in missed
          \/ req[q].what \in (IF assess.at = "plan" THEN assess.list ELSE roadmap)

WorkTypes ==
    /\ manifest \in Seq(Manifests)
    /\ idem = [k \in Scopes \X Keys |-> idem[k]]
    /\ made = [k \in Scopes \X Keys |-> made[k]]
    /\ assess = [waits |-> assess.waits, at |-> assess.at,
                 read |-> assess.read, list |-> assess.list]

WorkInv ==
    /\ Tasks
    /\ WorkTypes
    /\ \A q \in Requests : WorkSound(req[q])
    /\ \A k \in Scopes \X Keys : KeySound(k)
    /\ \A q \in Requests : TurnSound(q)
    /\ assess.at = "plan" => assess.list \subseteq roadmap

LEMMA ManifestAt ==
    ASSUME NEW s \in Seq(Manifests), NEW w \in 1..Len(s)
    PROVE  s[w] \in Manifests /\ s[w].stamp \in Nat /\ s[w].phase \in {"discovery", "drafting"}
<1>1. s[w] \in Manifests
  OBVIOUS
<1> QED
  BY <1>1 DEF Manifests

LEMMA WorkOrder ==
    ASSUME NEW c, c \in WorkRests, c # <<>>
    PROVE  /\ Tail(c) \in WorkRests
           /\ Head(c) \in {"claim", "create", "finish", "release"}
           /\ Head(c) = "claim" => Tail(c) # <<>> /\ Head(Tail(c)) = "create"
           /\ Head(c) = "create" => Tail(c) # <<>> /\ Head(Tail(c)) = "finish"
           /\ Head(c) = "finish" => Tail(c) = <<>>
<1>1. CASE c = WorkCalls
  BY <1>1, Calls3, Calls2 DEF WorkCalls, WorkRests
<1>2. CASE c = <<"create", "finish">>
  BY <1>2, Calls2, Calls1 DEF WorkRests
<1>3. CASE c = <<"finish">>
  BY <1>3, Calls1 DEF WorkRests
<1>4. CASE c = <<"release">>
  BY <1>4, Calls1 DEF WorkRests
<1> QED
  BY <1>1, <1>2, <1>3, <1>4 DEF WorkRests

LEMMA MediaOrder ==
    ASSUME NEW c, c \in MediaRests, c # <<>>
    PROVE  /\ Tail(c) \in MediaRests
           /\ Head(c) \in {"claim", "guard", "room", "sign", "finish", "release"}
           /\ Head(c) = "claim" => Tail(c) # <<>> /\ Head(Tail(c)) = "guard"
           /\ Head(c) = "guard" => Tail(c) # <<>> /\ Head(Tail(c)) = "room"
           /\ Head(c) = "room" => Tail(c) # <<>> /\ Head(Tail(c)) = "sign"
           /\ Head(c) = "sign" => Tail(c) # <<>> /\ Head(Tail(c)) = "finish"
           /\ Head(c) = "finish" => Tail(c) = <<>>
<1>1. CASE c = MediaCalls
  BY <1>1, Calls5, Calls4 DEF MediaCalls, MediaRests
<1>2. CASE c = <<"guard", "room", "sign", "finish">>
  BY <1>2, Calls4, Calls3 DEF MediaRests
<1>3. CASE c = <<"room", "sign", "finish">>
  BY <1>3, Calls3, Calls2 DEF MediaRests
<1>4. CASE c = <<"sign", "finish">>
  BY <1>4, Calls2, Calls1 DEF MediaRests
<1>5. CASE c = <<"finish">>
  BY <1>5, Calls1 DEF MediaRests
<1>6. CASE c = <<"release">>
  BY <1>6, Calls1 DEF MediaRests
<1> QED
  BY <1>1, <1>2, <1>3, <1>4, <1>5, <1>6 DEF MediaRests

LEMMA RenameOrder ==
    ASSUME NEW c, c \in RenameRests, c # <<>>
    PROVE  /\ Tail(c) \in RenameRests
           /\ Head(c) \in {"showMeta", "checkMeta", "patchTitle"}
           /\ Head(c) = "showMeta" => Tail(c) # <<>> /\ Head(Tail(c)) = "checkMeta"
           /\ Head(c) = "checkMeta" => Tail(c) # <<>> /\ Head(Tail(c)) = "patchTitle"
           /\ Head(c) = "patchTitle" => Tail(c) = <<>>
<1>1. CASE c = RenameCalls
  BY <1>1, Calls3, Calls2 DEF RenameCalls, RenameRests
<1>2. CASE c = <<"checkMeta", "patchTitle">>
  BY <1>2, Calls2, Calls1 DEF RenameRests
<1>3. CASE c = <<"patchTitle">>
  BY <1>3, Calls1 DEF RenameRests
<1> QED
  BY <1>1, <1>2, <1>3 DEF RenameRests

LEMMA PhaseOrder ==
    ASSUME NEW c, c \in PhaseRests, c # <<>>
    PROVE  /\ Tail(c) \in PhaseRests
           /\ Head(c) \in {"readPhase", "patchPhase"}
           /\ Head(c) = "readPhase" => Tail(c) # <<>> /\ Head(Tail(c)) = "patchPhase"
           /\ Head(c) = "patchPhase" => Tail(c) = <<>>
<1>1. CASE c = PhaseCalls
  BY <1>1, Calls2, Calls1 DEF PhaseCalls, PhaseRests
<1>2. CASE c = <<"patchPhase">>
  BY <1>2, Calls1 DEF PhaseRests
<1> QED
  BY <1>1, <1>2 DEF PhaseRests

LEMMA AnswerOrder ==
    ASSUME NEW c, c \in AnswerRests, c # <<>>
    PROVE  /\ Tail(c) \in AnswerRests
           /\ Head(c) \in {"setItem", "append", "spawn"}
           /\ Head(c) = "setItem" =>
                 Tail(c) # <<>> /\ Head(Tail(c)) = "append" /\ CodeOf(c) = 0
           /\ Head(c) = "append" =>
                 Tail(c) # <<>> /\ Head(Tail(c)) = "spawn" /\ CodeOf(c) = 0
           /\ Head(c) = "spawn" => Tail(c) = <<>>
<1>1. CASE c = AnswerCalls
  BY <1>1, Calls3, Calls2 DEF AnswerCalls, AnswerRests, CodeOf
<1>2. CASE c = <<"append", "spawn">>
  BY <1>2, Calls2, Calls1 DEF AnswerRests, CodeOf
<1>3. CASE c = <<"spawn">>
  BY <1>3, Calls1 DEF AnswerRests
<1> QED
  BY <1>1, <1>2, <1>3 DEF AnswerRests

\* The call a request is at tells of what kind it is.
LEMMA WorkCallTellsKind ==
    ASSUME NEW r, WorkSound(r), r.calls # <<>>
    PROVE  /\ Head(r.calls) \in {"claim", "finish", "release"} => r.kind \in {"works", "media"}
           /\ Head(r.calls) = "create" => r.kind = "works"
           /\ Head(r.calls) \in {"guard", "room", "sign"} => r.kind = "media"
           /\ Head(r.calls) \in {"showMeta", "checkMeta", "patchTitle"} => r.kind = "rename"
           /\ Head(r.calls) \in {"readPhase", "patchPhase"} => r.kind = "phase"
           /\ Head(r.calls) \in {"setItem", "append", "spawn"} => r.kind = "answer"
<1>1. CASE r.kind = "works"
  BY <1>1, WorkOrder DEF WorkSound
<1>2. CASE r.kind = "media"
  BY <1>2, MediaOrder DEF WorkSound
<1>3. CASE r.kind = "rename"
  BY <1>3, RenameOrder DEF WorkSound, RenameSound
<1>4. CASE r.kind = "phase"
  BY <1>4, PhaseOrder DEF WorkSound, PhaseSound
<1>5. CASE r.kind = "answer"
  BY <1>5, AnswerOrder DEF WorkSound
<1> QED
  BY <1>1, <1>2, <1>3, <1>4, <1>5 DEF WorkSound

LEMMA ScopeKinds == /\ \A q : Keyed(q) => req[q].kind \in {"works", "media"}
                    /\ None \notin Kinds
  BY TaskAssumption DEF Keyed, Scopes

LEMMA KeyIsKey ==
    ASSUME NEW q, WorkSound(req[q]), Keyed(q)
    PROVE  Key(q) \in Scopes \X Keys
  BY DEF WorkSound, Keyed, Key, Scopes

LEMMA WorkInit == ASSUME TasksInit, WorksInit PROVE WorkInv
<1>1. \A q \in Requests : req[q] = Task(None, <<>>, None, None, None, None, None, 0)
  BY NotSentTask DEF TasksInit
<1>2. \A q \in Requests : req[q].kind = None /\ req[q].calls = <<>> /\ req[q].seen = None
  BY <1>1, TaskFields
<1>3. \A q \in Requests : WorkSound(req[q])
  BY <1>2, TaskAssumption DEF WorkSound, Kinds
<1>4. \A q \in Requests : TurnSound(q)
  BY <1>2, TaskAssumption DEF TurnSound, Kinds
<1>5. /\ assess.at = "idle" /\ manifest \in Seq(Manifests)
      /\ assess = [waits |-> assess.waits, at |-> assess.at,
                   read |-> assess.read, list |-> assess.list]
  BY DEF WorksInit, NoAssessment, Manifests
<1>6. \A q \in Requests : Stage(req[q]) = "over"
  BY <1>2 DEF Stage
<1>7. ASSUME NEW k \in Scopes \X Keys PROVE KeySound(k)
  <2>1. idem[k].state = "none" /\ made[k] = {}
    BY DEF WorksInit, NoRecord
  <2> QED
    BY <2>1, <1>6 DEF KeySound, RecordTrue, Holds
<1>8. WorkTypes
  BY <1>5 DEF WorkTypes, WorksInit
<1> QED
  BY <1>3, <1>4, <1>5, <1>7, <1>8, InitTasks DEF WorkInv

\* No manifest gets an older stamp, and one that keeps its stamp keeps its title.
ManifestsGrow ==
    /\ Works \subseteq Works'
    /\ \A w \in Works :
          /\ manifest'[w].stamp >= manifest[w].stamp
          /\ manifest'[w].stamp = manifest[w].stamp => manifest'[w].title = manifest[w].title

LEMMA WorkSoundStays ==
    ASSUME WorkTypes, WorkTypes', NEW r, WorkSound(r), ManifestsGrow
    PROVE  WorkSound(r)'
<1>1. r.kind = "rename" => RenameSound(r)'
  <2> SUFFICES ASSUME r.kind = "rename" PROVE RenameSound(r)'
    OBVIOUS
  <2>1. RenameSound(r)
    BY DEF WorkSound
  <2> PICK w : w = r.what
    OBVIOUS
  <2>2. /\ w \in Works /\ w \in Works'
        /\ manifest[w].stamp \in Nat /\ manifest'[w].stamp \in Nat
    BY <2>1, ManifestAt DEF RenameSound, ManifestsGrow, WorkTypes, Works
  <2>3. CASE Stage(r) = "checkMeta"
    <3>1. /\ r.shown.etag \in Nat /\ r.shown.etag <= manifest[w].stamp
          /\ r.shown.etag = manifest[w].stamp => r.shown.content = manifest[w].title
      BY <2>1, <2>3 DEF RenameSound
    <3>2. /\ manifest'[w].stamp >= manifest[w].stamp
          /\ manifest'[w].stamp = manifest[w].stamp => manifest'[w].title = manifest[w].title
      BY <2>2 DEF ManifestsGrow
    <3>3. /\ r.shown.etag \in Nat /\ r.shown.etag <= manifest'[w].stamp
          /\ r.shown.etag = manifest'[w].stamp => r.shown.content = manifest'[w].title
      BY <2>2, <3>1, <3>2
    <3> QED
      BY <2>1, <2>2, <3>3 DEF RenameSound, Stage
  <2>4. CASE Stage(r) # "checkMeta"
    BY <2>1, <2>2, <2>4 DEF RenameSound, Stage
  <2> QED
    BY <2>3, <2>4
<1>2. r.kind = "phase" => PhaseSound(r)'
  BY DEF WorkSound, PhaseSound, ManifestsGrow, Stage
<1> QED
  BY <1>1, <1>2 DEF WorkSound

\* After a step of q, its record is one of a request that holds a key no more than before.
KeyQuiet(q) ==
    Keyed(q)' =>
       \/ Stage(req'[q]) \in {"over", "claim"}
       \/ Keyed(q) /\ req'[q].kind = req[q].kind /\ req'[q].key = req[q].key
          /\ Stage(req[q]) \notin {"over", "claim", "finish"}

LEMMA KeyStays ==
    ASSUME NEW q \in Requests, NEW k, KeySound(k), OthersStay(q), shaky \subseteq shaky',
           k \in shaky' \/ (idem'[k] = idem[k] /\ made'[k] = made[k]),
           Holds(q, k)' => Holds(q, k) /\ Stage(req[q]) # "finish"
    PROVE  KeySound(k)'
<1> SUFFICES ASSUME k \notin shaky' PROVE RecordTrue(k)'
  BY DEF KeySound
<1>1. RecordTrue(k) /\ idem'[k] = idem[k] /\ made'[k] = made[k]
  BY DEF KeySound
<1>2. ASSUME NEW p \in Requests, Holds(p, k)'
      PROVE  Holds(p, k) /\ (Stage(req'[p]) # "finish" => Stage(req[p]) # "finish")
  BY <1>2 DEF OthersStay, Holds, Keyed, Key, Stage
<1> QED
  BY <1>1, <1>2 DEF RecordTrue, Stage

LEMMA QuietKeys ==
    ASSUME NEW q \in Requests, KeyQuiet(q), NEW k, Holds(q, k)'
    PROVE  Holds(q, k) /\ Stage(req[q]) # "finish"
  BY DEF KeyQuiet, Holds, Keyed, Key, Stage

LEMMA TurnStays ==
    ASSUME NEW p \in Requests, TurnSound(p), req'[p] = req[p], turns \subseteq turns',
           roadmap \subseteq roadmap', missed \subseteq missed',
           assess' = assess \/ assess'.waits
    PROVE  TurnSound(p)'
  BY DEF TurnSound, Stage

LEMMA WorkMove ==
    ASSUME WorkInv, NEW q \in Requests, Tasks', OthersStay(q), WorkTypes', ManifestsGrow,
           WorkSound(req[q])', \A k \in Scopes \X Keys : KeySound(k)',
           TurnSound(q)', turns \subseteq turns', roadmap \subseteq roadmap',
           missed \subseteq missed',
           assess' = assess \/ (assess'.waits /\ assess'.at = assess.at
                                /\ assess'.list = assess.list)
    PROVE  WorkInv'
<1> USE DEF WorkInv
<1>1. ASSUME NEW p \in Requests PROVE WorkSound(req[p])'
  <2> PICK r : r = req[p]
    OBVIOUS
  <2>1. CASE p # q
    <3>1. req'[p] = r /\ WorkSound(r)
      BY <2>1 DEF OthersStay
    <3>2. WorkSound(r)'
      BY <3>1, WorkSoundStays
    <3> QED
      BY <3>1, <3>2
  <2> QED
    BY <2>1
<1>2. ASSUME NEW p \in Requests PROVE TurnSound(p)'
  <2>1. CASE p # q
    BY <2>1, TurnStays DEF OthersStay
  <2> QED
    BY <2>1
<1> QED
  BY <1>1, <1>2

\* A step that changes no document.
LEMMA WorkQuiet ==
    ASSUME WorkInv, NEW q \in Requests, Tasks', OthersStay(q), manifest' = manifest,
           UNCHANGED keyVars, UNCHANGED planVars, WorkSound(req'[q]), KeyQuiet(q), TurnSound(q)'
    PROVE  WorkInv'
<1> USE DEF WorkInv, keyVars, planVars
<1>1. WorkTypes' /\ ManifestsGrow
  <2>1. \A w \in Works : manifest[w].stamp \in Nat
    BY ManifestAt DEF WorkTypes, Works
  <2> QED
    BY <2>1 DEF WorkTypes, ManifestsGrow, Works
<1>2. WorkSound(req[q])'
  <2> PICK n : n = req'[q]
    OBVIOUS
  <2>1. WorkSound(n)'
    BY <1>1, WorkSoundStays
  <2> QED
    BY <2>1
<1>3. ASSUME NEW k \in Scopes \X Keys PROVE KeySound(k)'
  <2>1. Holds(q, k)' => Holds(q, k) /\ Stage(req[q]) # "finish"
    BY QuietKeys
  <2> QED
    BY <2>1, KeyStays
<1> QED
  BY <1>1, <1>2, <1>3, WorkMove

\* A request that is sent holds no key yet.
LEMMA WorkSent ==
    ASSUME WorkInv, NEW q \in Requests,
           CreateWork(q) \/ Rename(q) \/ NextPhase(q) \/ UploadUrl(q) \/ Answer(q)
    PROVE  WorkInv'
<1> USE DEF WorkInv
<1>0. manifest' = manifest /\ UNCHANGED keyVars /\ UNCHANGED planVars
  BY DEF CreateWork, Rename, NextPhase, UploadUrl, Answer, workVars
<1>1. CASE CreateWork(q)
  <2>1. PICK k \in Keys \cup {None} : Sent(q, "works", WorkCalls, None, None, k)
    BY <1>1 DEF CreateWork
  <2> PICK kind : kind = "works"
    OBVIOUS
  <2>3. /\ Tasks' /\ OthersStay(q)
        /\ req'[q].kind = kind /\ req'[q].calls = WorkCalls /\ req'[q].key = k
    BY <2>1, SentSound
  <2>4. Stage(req'[q]) = "claim"
    BY <2>3, Calls3 DEF WorkCalls, Stage
  <2>5. WorkSound(req'[q])
    BY <2>3, TaskAssumption DEF WorkSound, WorkRests, Kinds
  <2>6. KeyQuiet(q) /\ TurnSound(q)'
    BY <2>3, <2>4 DEF KeyQuiet, TurnSound
  <2> QED
    BY <1>0, <2>3, <2>5, <2>6, WorkQuiet
<1>2. CASE Rename(q)
  <2>1. PICK w \in Works : Sent(q, "rename", RenameCalls, None, w, None)
    BY <1>2 DEF Rename
  <2> PICK kind : kind = "rename"
    OBVIOUS
  <2>3. /\ Tasks' /\ OthersStay(q) /\ req'[q].seen = None
        /\ req'[q].kind = kind /\ req'[q].calls = RenameCalls /\ req'[q].what = w
    BY <2>1, SentSound
  <2>4. Stage(req'[q]) = "showMeta"
    BY <2>3, Calls3 DEF RenameCalls, Stage
  <2>5. WorkSound(req'[q])
    BY <2>3, <2>4, TaskAssumption DEF WorkSound, RenameSound, RenameRests, Kinds
  <2>6. KeyQuiet(q) /\ TurnSound(q)'
    BY <2>3 DEF KeyQuiet, Keyed, Scopes, TurnSound
  <2> QED
    BY <1>0, <2>3, <2>5, <2>6, WorkQuiet
<1>3. CASE NextPhase(q)
  <2>1. PICK w \in Works : Sent(q, "phase", PhaseCalls, None, w, None)
    BY <1>3 DEF NextPhase
  <2> PICK kind : kind = "phase"
    OBVIOUS
  <2>3. /\ Tasks' /\ OthersStay(q)
        /\ req'[q].kind = kind /\ req'[q].calls = PhaseCalls /\ req'[q].what = w
    BY <2>1, SentSound
  <2>4. Stage(req'[q]) = "readPhase"
    BY <2>3, Calls2 DEF PhaseCalls, Stage
  <2>5. WorkSound(req'[q])
    BY <2>3, <2>4, TaskAssumption DEF WorkSound, PhaseSound, PhaseRests, Kinds
  <2>6. KeyQuiet(q) /\ TurnSound(q)'
    BY <2>3 DEF KeyQuiet, Keyed, Scopes, TurnSound
  <2> QED
    BY <1>0, <2>3, <2>5, <2>6, WorkQuiet
<1>4. CASE UploadUrl(q)
  <2>1. PICK k \in Keys \cup {None}, w \in 1..MaxWorks :
            Sent(q, "media", MediaCalls, None, w, k)
    BY <1>4 DEF UploadUrl
  <2> PICK kind : kind = "media"
    OBVIOUS
  <2>3. /\ Tasks' /\ OthersStay(q)
        /\ req'[q].kind = kind /\ req'[q].calls = MediaCalls /\ req'[q].key = k
    BY <2>1, SentSound
  <2>4. Stage(req'[q]) = "claim"
    BY <2>3, Calls5 DEF MediaCalls, Stage
  <2>5. WorkSound(req'[q])
    BY <2>3, TaskAssumption DEF WorkSound, MediaRests, Kinds
  <2>6. KeyQuiet(q) /\ TurnSound(q)'
    BY <2>3, <2>4 DEF KeyQuiet, TurnSound
  <2> QED
    BY <1>0, <2>3, <2>5, <2>6, WorkQuiet
<1>5. CASE Answer(q)
  <2>1. PICK i \in Items : Sent(q, "answer", AnswerCalls, None, i, None)
    BY <1>5 DEF Answer
  <2> PICK kind : kind = "answer"
    OBVIOUS
  <2>3. /\ Tasks' /\ OthersStay(q) /\ req'[q].code = 0
        /\ req'[q].kind = kind /\ req'[q].calls = AnswerCalls
    BY <2>1, SentSound
  <2>4. Stage(req'[q]) = "setItem"
    BY <2>3, Calls3 DEF AnswerCalls, Stage
  <2>5. WorkSound(req'[q])
    BY <2>3, TaskAssumption DEF WorkSound, AnswerRests, Kinds
  <2>6. KeyQuiet(q) /\ TurnSound(q)'
    BY <2>3, <2>4 DEF KeyQuiet, Keyed, Scopes, TurnSound
  <2> QED
    BY <1>0, <2>3, <2>5, <2>6, WorkQuiet
<1> QED
  BY <1>1, <1>2, <1>3, <1>4, <1>5

LEMMA WorkOverSound ==
    ASSUME NEW r, WorkSound(r), NEW n, n.calls = <<>>, n.kind = r.kind, n.key = r.key,
           n.what = r.what, n.seen = r.seen, n.shown = r.shown
    PROVE  WorkSound(n)
<1>1. Stage(n) = "over"
  BY DEF Stage
<1>2. r.kind = "rename" => RenameSound(n)
  BY <1>1 DEF WorkSound, RenameSound, RenameRests
<1>3. r.kind = "phase" => PhaseSound(n)
  BY <1>1 DEF WorkSound, PhaseSound, PhaseRests
<1> QED
  BY <1>2, <1>3 DEF WorkSound, WorkRests, MediaRests, AnswerRests

LEMMA WorkAnswered ==
    ASSUME WorkInv, NEW q \in Requests, NEW code, Answered(q, code), Open(q)
    PROVE  /\ Tasks' /\ OthersStay(q) /\ WorkSound(req'[q]) /\ KeyQuiet(q)
           /\ req'[q].calls = <<>> /\ req'[q].kind = req[q].kind /\ req'[q].code = code
<1> USE DEF WorkInv
<1> PICK r, n : r = req[q] /\ n = req'[q]
  OBVIOUS
<1>1. /\ Tasks' /\ OthersStay(q) /\ n.code = code
      /\ n.kind = r.kind /\ n.calls = <<>> /\ n.key = r.key /\ n.what = r.what
      /\ n.shown = r.shown /\ n.seen = r.seen
  BY AnsweredFields
<1>2. WorkSound(n)
  BY <1>1, WorkOverSound
<1> QED
  BY <1>1, <1>2 DEF KeyQuiet, Stage

LEMMA WorkGaveUp ==
    ASSUME WorkInv, NEW q \in Requests, NEW code, code # 200, GivesUp(q, code), Open(q)
    PROVE  /\ Tasks' /\ OthersStay(q) /\ WorkSound(req'[q]) /\ KeyQuiet(q)
           /\ TurnSound(q)' /\ req'[q].kind = req[q].kind /\ req'[q].key = req[q].key
           /\ ~ReleasesOnFailure(q) => req'[q].calls = <<>>
<1> USE DEF WorkInv
<1> PICK r, n : r = req[q] /\ n = req'[q]
  OBVIOUS
<1>p. PICK c : c = IF Keyed(q) /\ ReleasesOnFailure(q) THEN <<"release">> ELSE <<>>
  OBVIOUS
<1>a. Cut(q, c, code)
  BY <1>p DEF GivesUp, Cut
<1>1. /\ Tasks' /\ OthersStay(q) /\ n.code = code
      /\ n.kind = r.kind /\ n.calls = c /\ n.key = r.key /\ n.what = r.what
      /\ n.shown = r.shown /\ n.seen = r.seen
  BY <1>a, CutFields
<1>2. CASE Keyed(q) /\ ReleasesOnFailure(q)
  <2>1. r.kind \in {"works", "media"} /\ n.calls = <<"release">> /\ r.calls # <<>>
    BY <1>p, <1>1, <1>2 DEF Keyed, Scopes, Open
  <2>2. Stage(r) \notin {"over", "claim", "finish"}
    <3>1. Head(r.calls) # "over"
      BY <2>1, WorkOrder, MediaOrder DEF WorkSound
    <3> QED
      BY <1>2, <2>1, <3>1 DEF Stage, ReleasesOnFailure
  <2>3. WorkSound(n)
    BY <1>1, <2>1, TaskAssumption DEF WorkSound, WorkRests, MediaRests, Kinds
  <2>4. KeyQuiet(q)
    BY <1>1, <1>2, <2>2 DEF KeyQuiet
  <2>5. TurnSound(q)'
    BY <1>1, <2>1 DEF TurnSound
  <2> QED
    BY <1>1, <1>2, <2>3, <2>4, <2>5
<1>3. CASE ~(Keyed(q) /\ ReleasesOnFailure(q))
  <2>1. n.calls = <<>>
    BY <1>p, <1>1, <1>3
  <2>2. WorkSound(n)
    BY <1>1, <2>1, WorkOverSound
  <2>3. KeyQuiet(q) /\ TurnSound(q)'
    BY <1>1, <2>1 DEF KeyQuiet, TurnSound, Stage
  <2> QED
    BY <1>1, <2>1, <2>2, <2>3
<1> QED
  BY <1>2, <1>3

\* A request that makes its next call and has nothing to do with keys.
LEMMA KeyFree ==
    ASSUME NEW q \in Requests, req'[q].kind = req[q].kind, req[q].kind \notin Scopes
    PROVE  KeyQuiet(q) /\ \A k : ~Holds(q, k)'
  BY DEF KeyQuiet, Keyed, Holds

LEMMA WorkShowsMeta ==
    ASSUME WorkInv, NEW q \in Requests, ShowMeta(q)
    PROVE  WorkInv'
<1> USE DEF WorkInv
<1> PICK r, n : r = req[q] /\ n = req'[q]
  OBVIOUS
<1> PICK doc : doc = manifest[r.what]
  OBVIOUS
<1>p. PICK shown : shown = [content |-> doc.title, etag |-> doc.stamp]
  OBVIOUS
<1>0. /\ manifest' = manifest /\ UNCHANGED keyVars /\ UNCHANGED planVars
      /\ Open(q) /\ Head(r.calls) = "showMeta" /\ Stage(r) = "showMeta" /\ r.calls # <<>>
      /\ WorkSound(r)
  BY DEF ShowMeta, workVars, At, Open, Stage
<1>a. Show(q, shown)
  BY <1>p DEF ShowMeta, Show
<1>1. r.kind = "rename" /\ RenameSound(r)
  BY <1>0, WorkCallTellsKind DEF WorkSound
<1>2. doc.stamp \in Nat
  BY <1>1, ManifestAt DEF RenameSound, WorkTypes, Works
<1>3. shown.content = doc.title /\ shown.etag = doc.stamp
  BY <1>p
<1>5. /\ Tasks' /\ OthersStay(q)
      /\ n.kind = r.kind /\ n.calls = Tail(r.calls)
      /\ n.what = r.what /\ n.seen = r.seen /\ n.shown = shown
  BY <1>a, ShownFields
<1>6. n.calls \in RenameRests /\ Stage(n) = "checkMeta"
  BY <1>0, <1>1, <1>5, RenameOrder DEF RenameSound, Stage
<1>7. RenameSound(n)
  BY <1>0, <1>1, <1>2, <1>3, <1>5, <1>6 DEF RenameSound
<1>8. WorkSound(n)
  BY <1>1, <1>5, <1>7, TaskAssumption DEF WorkSound, Kinds
<1>9. KeyQuiet(q) /\ TurnSound(q)'
  BY <1>1, <1>5 DEF KeyQuiet, Keyed, Scopes, TurnSound
<1> QED
  BY <1>0, <1>5, <1>8, <1>9, WorkQuiet

LEMMA WorkChecks ==
    ASSUME WorkInv, NEW q \in Requests, CheckIfMatch(q)
    PROVE  WorkInv'
<1> USE DEF WorkInv
<1> PICK r, n : r = req[q] /\ n = req'[q]
  OBVIOUS
<1> PICK doc : doc = manifest[r.what]
  OBVIOUS
<1>0. /\ manifest' = manifest /\ UNCHANGED keyVars /\ UNCHANGED planVars
      /\ Open(q) /\ Head(r.calls) = "checkMeta" /\ Stage(r) = "checkMeta" /\ r.calls # <<>>
      /\ WorkSound(r)
  BY DEF CheckIfMatch, workVars, At, Open, Stage
<1>1. r.kind = "rename" /\ RenameSound(r)
  BY <1>0, WorkCallTellsKind DEF WorkSound
<1>3. CASE Answered(q, 412)
  <2>1. Tasks' /\ OthersStay(q) /\ WorkSound(n) /\ KeyQuiet(q) /\ n.kind = r.kind
    BY <1>0, <1>3, WorkAnswered
  <2>2. TurnSound(q)'
    BY <1>1, <2>1 DEF TurnSound
  <2> QED
    BY <1>0, <2>1, <2>2, WorkQuiet
<1>4. CASE r.shown.etag = doc.stamp /\ ProceedWith(q, [content |-> doc.title])
  <2>p. PICK seen : seen = [content |-> doc.title]
    OBVIOUS
  <2>a. ProceedWith(q, seen)
    BY <1>4, <2>p
  <2>b. seen.content = r.shown.content
    BY <1>0, <1>1, <1>4, <2>p DEF RenameSound
  <2>1. /\ Tasks' /\ OthersStay(q)
        /\ n.kind = r.kind /\ n.calls = Tail(r.calls)
        /\ n.what = r.what /\ n.seen = seen /\ n.shown = r.shown
    BY <2>a, ProceedWithFields
  <2>2. n.calls \in RenameRests /\ Stage(n) = "patchTitle"
    BY <1>0, <1>1, <2>1, RenameOrder DEF RenameSound, Stage
  <2>3. RenameSound(n)
    BY <1>1, <2>1, <2>2, <2>b DEF RenameSound
  <2>4. WorkSound(n)
    BY <1>1, <2>1, <2>3, TaskAssumption DEF WorkSound, Kinds
  <2>5. KeyQuiet(q) /\ TurnSound(q)'
    BY <1>1, <2>1 DEF KeyQuiet, Keyed, Scopes, TurnSound
  <2> QED
    BY <1>0, <2>1, <2>4, <2>5, WorkQuiet
<1> QED
  BY <1>3, <1>4 DEF CheckIfMatch

LEMMA WorkReadsPhase ==
    ASSUME WorkInv, NEW q \in Requests, ReadPhase(q)
    PROVE  WorkInv'
<1> USE DEF WorkInv
<1> PICK r, n : r = req[q] /\ n = req'[q]
  OBVIOUS
<1> PICK phase : phase = manifest[r.what].phase
  OBVIOUS
<1>0. /\ manifest' = manifest /\ UNCHANGED keyVars /\ UNCHANGED planVars
      /\ Open(q) /\ Head(r.calls) = "readPhase" /\ r.calls # <<>>
      /\ WorkSound(r) /\ ProceedWith(q, phase)
  BY DEF ReadPhase, workVars, At, Open
<1>1. r.kind = "phase" /\ PhaseSound(r)
  BY <1>0, WorkCallTellsKind DEF WorkSound
<1>2. phase \in {"discovery", "drafting"}
  BY <1>1, ManifestAt DEF PhaseSound, WorkTypes, Works
<1>3. /\ Tasks' /\ OthersStay(q)
      /\ n.kind = r.kind /\ n.calls = Tail(r.calls)
      /\ n.what = r.what /\ n.seen = phase
  BY <1>0, ProceedWithFields
<1>4. n.calls \in PhaseRests
  BY <1>0, <1>1, <1>3, PhaseOrder DEF PhaseSound
<1>5. PhaseSound(n)
  BY <1>1, <1>2, <1>3, <1>4 DEF PhaseSound
<1>6. WorkSound(n)
  BY <1>1, <1>3, <1>5, TaskAssumption DEF WorkSound, Kinds
<1>7. KeyQuiet(q) /\ TurnSound(q)'
  BY <1>1, <1>3 DEF KeyQuiet, Keyed, Scopes, TurnSound
<1> QED
  BY <1>0, <1>3, <1>6, <1>7, WorkQuiet

\* The two guards of an upload.
LEMMA WorkGuards ==
    ASSUME WorkInv, NEW q \in Requests, RequireWork(q) \/ CheckRoom(q)
    PROVE  WorkInv'
<1> USE DEF WorkInv
<1> PICK r, n : r = req[q] /\ n = req'[q]
  OBVIOUS
<1>0. /\ manifest' = manifest /\ UNCHANGED keyVars /\ UNCHANGED planVars
      /\ Open(q) /\ Stage(r) \in {"guard", "room"} /\ Head(r.calls) \in {"guard", "room"}
      /\ r.calls # <<>> /\ WorkSound(r)
      /\ Proceed(q) \/ GivesUp(q, 404) \/ GivesUp(q, 409)
  BY DEF RequireWork, CheckRoom, workVars, At, Open, Stage
<1>1. r.kind = "media"
  BY <1>0, WorkCallTellsKind
<1>2. CASE GivesUp(q, 404) \/ GivesUp(q, 409)
  <2>1. /\ Tasks' /\ OthersStay(q) /\ WorkSound(req'[q]) /\ KeyQuiet(q)
        /\ TurnSound(q)'
    BY <1>0, <1>2, WorkGaveUp
  <2> QED
    BY <1>0, <2>1, WorkQuiet
<1>3. CASE Proceed(q)
  <2>1. /\ Tasks' /\ OthersStay(q)
        /\ n.kind = r.kind /\ n.calls = Tail(r.calls) /\ n.key = r.key
    BY <1>3, ProceedFields
  <2>2. n.calls \in MediaRests
    BY <1>0, <1>1, <2>1, MediaOrder DEF WorkSound
  <2>3. WorkSound(n)
    BY <1>0, <1>1, <2>1, <2>2, TaskAssumption DEF WorkSound, Kinds
  <2>4. KeyQuiet(q)
    BY <1>0, <2>1 DEF KeyQuiet, Keyed
  <2>5. TurnSound(q)'
    BY <1>1, <2>1 DEF TurnSound
  <2> QED
    BY <1>0, <2>1, <2>3, <2>4, <2>5, WorkQuiet
<1> QED
  BY <1>0, <1>2, <1>3

\* A request that is done at once.
Deleted(q, kind) == req' = [req EXCEPT ![q].kind = kind, ![q].code = 204]

LEMMA DeletedFields ==
    ASSUME Tasks, NEW q \in Requests, NEW kind, Deleted(q, kind)
    PROVE  /\ Tasks' /\ OthersStay(q)
           /\ req'[q].kind = kind /\ req'[q].calls = req[q].calls /\ req'[q].seen = req[q].seen
<1> PICK r : r = req[q]
  OBVIOUS
<1> DEFINE r1 == [r EXCEPT !.kind = kind]
           new == [r EXCEPT !.kind = kind, !.code = 204]
<1>1. r = Task(r.kind, r.calls, r.who, r.what, r.key, r.shown, r.seen, r.code)
  BY DEF Tasks, IsTask
<1>2. r1 = Task(kind, r.calls, r.who, r.what, r.key, r.shown, r.seen, r.code)
  BY <1>1, TaskKind
<1>3. new = [r1 EXCEPT !.code = 204]
  OBVIOUS
<1> HIDE DEF r1
<1>4. new = Task(kind, r.calls, r.who, r.what, r.key, r.shown, r.seen, 204)
  BY <1>2, <1>3, TaskCode
<1>5. req' = [req EXCEPT ![q] = new]
  BY DEF Tasks, Deleted
<1> HIDE DEF new
<1>6. IsTask(new)
  BY <1>4, TaskFields
<1>7. Tasks' /\ OthersStay(q) /\ req'[q] = new
  BY <1>5, <1>6, StepTasks
<1> QED
  BY <1>4, <1>7, TaskFields

LEMMA WorkDeletes ==
    ASSUME WorkInv, NEW q \in Requests, DeleteMedia(q)
    PROVE  WorkInv'
<1> USE DEF WorkInv
<1>0. /\ manifest' = manifest /\ UNCHANGED keyVars /\ UNCHANGED planVars
      /\ req[q] = NotSent
  BY DEF DeleteMedia
<1>1. req[q].calls = <<>> /\ req[q].seen = None
  BY <1>0, NotSentTask, TaskFields
<1>k. PICK kind : kind = "delete"
  OBVIOUS
<1>a. Deleted(q, kind)
  BY <1>k DEF DeleteMedia, Deleted
<1>2. /\ Tasks' /\ OthersStay(q)
      /\ req'[q].kind = "delete" /\ req'[q].calls = <<>> /\ req'[q].seen = None
  BY <1>k, <1>a, <1>1, DeletedFields
<1>3. WorkSound(req'[q])
  BY <1>2 DEF WorkSound
<1>4. KeyQuiet(q) /\ TurnSound(q)'
  BY <1>2 DEF KeyQuiet, Keyed, Scopes, TurnSound
<1> QED
  BY <1>0, <1>2, <1>3, <1>4, WorkQuiet

-----------------------------------------------------------------------------
(* Idempotency keys. *)

\* A keyed request makes its next call.
LEMMA KeyedProceeds ==
    ASSUME WorkInv, NEW q \in Requests, Proceed(q), Open(q), req[q].kind \in {"works", "media"},
           NEW r, r = req[q], NEW n, n = req'[q]
    PROVE  /\ Tasks' /\ OthersStay(q) /\ WorkSound(n) /\ TurnSound(q)'
           /\ n.kind = r.kind /\ n.key = r.key
           /\ Head(r.calls) = "claim" => Stage(n) \in {"create", "guard"}
           /\ Head(r.calls) \in {"create", "sign"} => Stage(n) = "finish"
           /\ Head(r.calls) = "finish" => Stage(n) = "over"
<1> USE DEF WorkInv
<1>1. /\ Tasks' /\ OthersStay(q)
      /\ n.kind = r.kind /\ n.calls = Tail(r.calls) /\ n.key = r.key
  BY ProceedFields
<1>2. WorkSound(r) /\ r.calls # <<>>
  BY DEF Open
<1>3. TurnSound(q)'
  BY <1>1 DEF TurnSound
<1>4. CASE r.kind = "works"
  <2>1. n.calls \in WorkRests
    BY <1>1, <1>2, <1>4, WorkOrder DEF WorkSound
  <2>2. WorkSound(n)
    BY <1>1, <1>2, <1>4, <2>1, TaskAssumption DEF WorkSound, Kinds
  <2>3. /\ Head(r.calls) = "claim" => Stage(n) = "create"
        /\ Head(r.calls) = "create" => Stage(n) = "finish"
        /\ Head(r.calls) = "finish" => Stage(n) = "over"
        /\ Head(r.calls) # "sign"
    BY <1>1, <1>2, <1>4, WorkOrder DEF WorkSound, Stage
  <2> QED
    BY <1>1, <1>3, <2>2, <2>3
<1>5. CASE r.kind = "media"
  <2>1. n.calls \in MediaRests
    BY <1>1, <1>2, <1>5, MediaOrder DEF WorkSound
  <2>2. WorkSound(n)
    BY <1>1, <1>2, <1>5, <2>1, TaskAssumption DEF WorkSound, Kinds
  <2>3. /\ Head(r.calls) = "claim" => Stage(n) = "guard"
        /\ Head(r.calls) = "sign" => Stage(n) = "finish"
        /\ Head(r.calls) = "finish" => Stage(n) = "over"
        /\ Head(r.calls) # "create"
    BY <1>1, <1>2, <1>5, MediaOrder DEF WorkSound, Stage
  <2> QED
    BY <1>1, <1>3, <2>2, <2>3
<1> QED
  BY <1>4, <1>5

\* A step that changes nothing but the records of the keys and what was made.
LEMMA WorkKeysMove ==
    ASSUME WorkInv, NEW q \in Requests, Tasks', OthersStay(q), manifest' = manifest,
           UNCHANGED planVars, WorkSound(req'[q]), TurnSound(q)',
           idem' = [k \in Scopes \X Keys |-> idem'[k]],
           made' = [k \in Scopes \X Keys |-> made'[k]],
           \A k \in Scopes \X Keys : KeySound(k)'
    PROVE  WorkInv'
<1> USE DEF WorkInv, planVars
<1>1. WorkTypes' /\ ManifestsGrow
  <2>1. \A w \in Works : manifest[w].stamp \in Nat
    BY ManifestAt DEF WorkTypes, Works
  <2> QED
    BY <2>1 DEF WorkTypes, ManifestsGrow, Works
<1>2. WorkSound(req[q])'
  <2> PICK n : n = req'[q]
    OBVIOUS
  <2>1. WorkSound(n)'
    BY <1>1, WorkSoundStays
  <2> QED
    BY <2>1
<1> QED
  BY <1>1, <1>2, WorkMove

\* The record of one key is written.
LEMMA RecordWritten ==
    ASSUME WorkTypes, NEW k \in Scopes \X Keys, NEW rec, idem' = [idem EXCEPT ![k] = rec]
    PROVE  /\ idem' = [j \in Scopes \X Keys |-> idem'[j]] /\ idem'[k] = rec
           /\ \A j \in Scopes \X Keys : j # k => idem'[j] = idem[j]
  BY DEF WorkTypes

\* Request q claims its key: nobody holds it, unless it is shaky.
LEMMA ClaimEffect ==
    ASSUME WorkInv, NEW q \in Requests, OthersStay(q), Keyed(q), Stage(req[q]) = "claim",
           req'[q].kind = req[q].kind, req'[q].key = req[q].key,
           Claimable(Key(q)), ClaimKey(Key(q)), made' = made, shaky' = shaky
    PROVE  /\ idem' = [k \in Scopes \X Keys |-> idem'[k]]
           /\ \A k \in Scopes \X Keys : KeySound(k)'
<1> USE DEF WorkInv
<1> PICK k : k = Key(q)
  OBVIOUS
<1>k. k \in Scopes \X Keys
  BY KeyIsKey
<1>c. PICK rec : rec = [state |-> "claimed", fresh |-> TRUE]
  OBVIOUS
<1>1. idem' = [idem EXCEPT ![k] = rec]
  BY <1>c DEF ClaimKey
<1>2. /\ idem' = [j \in Scopes \X Keys |-> idem'[j]] /\ idem'[k] = rec
      /\ \A j \in Scopes \X Keys : j # k => idem'[j] = idem[j]
  BY <1>k, <1>1, RecordWritten
<1>3. idem'[k].state = "claimed" /\ idem'[k].fresh
  BY <1>c, <1>2
<1>4. \A j : Holds(q, j)' => j = k
  BY DEF Holds, Key
<1>5. ASSUME NEW j \in Scopes \X Keys, j # k PROVE KeySound(j)'
  BY <1>2, <1>4, <1>5, KeyStays
<1>6. KeySound(k)'
  <2> SUFFICES ASSUME k \notin shaky PROVE RecordTrue(k)'
    BY DEF KeySound
  <2>1. RecordTrue(k) /\ idem[k].state # "done" /\ ~idem[k].fresh
    BY <1>k DEF KeySound, Claimable
  <2>2. idem[k].state # "claimed" /\ made[k] = {} /\ \A p \in Requests : ~Holds(p, k)
    BY <2>1 DEF RecordTrue
  <2>3. \A p \in Requests : Holds(p, k)' => p = q
    BY <2>2 DEF OthersStay, Holds, Keyed, Key, Stage
  <2> QED
    BY <1>3, <2>2, <2>3 DEF RecordTrue
<1> QED
  BY <1>2, <1>5, <1>6

\* Request q records that it is finished, or gives its key back with nothing made.
LEMMA ClaimEnds ==
    ASSUME WorkInv, NEW q \in Requests, OthersStay(q), Stage(req'[q]) = "over",
           Stage(req[q]) \in {"finish", "release"}, made' = made, shaky' = shaky,
           NEW rec, rec.state = IF Stage(req[q]) = "finish" THEN "done" ELSE "none",
           idem' = IF Keyed(q) THEN [idem EXCEPT ![Key(q)] = rec] ELSE idem
    PROVE  /\ idem' = [k \in Scopes \X Keys |-> idem'[k]]
           /\ \A k \in Scopes \X Keys : KeySound(k)'
<1> USE DEF WorkInv
<1> PICK k : k = Key(q)
  OBVIOUS
<1>1. \A j : ~Holds(q, j)'
  BY DEF Holds
<1>2. CASE ~Keyed(q)
  <2>1. ASSUME NEW j \in Scopes \X Keys PROVE KeySound(j)'
    BY <1>1, <1>2, KeyStays
  <2> QED
    BY <1>2, <2>1 DEF WorkTypes
<1>3. CASE Keyed(q)
  <2>k. k \in Scopes \X Keys
    BY <1>3, KeyIsKey
  <2>1. /\ idem' = [j \in Scopes \X Keys |-> idem'[j]] /\ idem'[k] = rec
        /\ \A j \in Scopes \X Keys : j # k => idem'[j] = idem[j]
    BY <1>3, <2>k, RecordWritten
  <2>2. ASSUME NEW j \in Scopes \X Keys, j # k PROVE KeySound(j)'
    BY <1>1, <2>1, <2>2, KeyStays
  <2>3. KeySound(k)'
    <3> SUFFICES ASSUME k \notin shaky PROVE RecordTrue(k)'
      BY DEF KeySound
    <3>1. RecordTrue(k) /\ Holds(q, k)
      BY <1>3, <2>k DEF KeySound, Holds
    <3>2. Stage(req[q]) = "release" => made[k] = {}
      BY <3>1 DEF RecordTrue
    <3>3. \A p \in Requests : ~Holds(p, k)'
      BY <1>1, <3>1 DEF RecordTrue, OthersStay, Holds, Keyed, Key, Stage
    <3>4. /\ idem'[k].state \in {"done", "none"}
          /\ idem'[k].state = "done" \/ made[k] = {}
      BY <2>1, <3>2
    <3> QED
      BY <3>1, <3>3, <3>4 DEF RecordTrue
  <2> QED
    BY <2>1, <2>2, <2>3
<1> QED
  BY <1>2, <1>3

\* What request q makes is the first thing that is made under its key, and its next
\* call is to record it.
LEMMA EffectsEffect ==
    ASSUME WorkInv, NEW q \in Requests, OthersStay(q), NEW e, Effects(q, e),
           Stage(req[q]) \in {"create", "sign"}, idem' = idem, shaky \subseteq shaky',
           req'[q].kind = req[q].kind, req'[q].key = req[q].key,
           Stage(req'[q]) = "finish" \/ Key(q) \in shaky',
           ~Keyed(q) \/ \A k : Holds(q, k)' => k = Key(q)
    PROVE  /\ made' = [k \in Scopes \X Keys |-> made'[k]]
           /\ \A k \in Scopes \X Keys : KeySound(k)'
<1> USE DEF WorkInv
<1> PICK k : k = Key(q)
  OBVIOUS
<1>2. CASE ~Keyed(q)
  <2>1. made' = made /\ \A j : ~Holds(q, j)'
    BY <1>2 DEF Effects, Holds, Keyed
  <2>2. ASSUME NEW j \in Scopes \X Keys PROVE KeySound(j)'
    BY <1>2, <2>1, KeyStays
  <2> QED
    BY <2>1, <2>2 DEF WorkTypes
<1>3. CASE Keyed(q)
  <2>k. k \in Scopes \X Keys
    BY <1>3, KeyIsKey
  <2>0. made' = [made EXCEPT ![k] = made[k] \cup {e}]
    BY <1>3, <2>k DEF Effects, WorkTypes
  <2>1. /\ made' = [j \in Scopes \X Keys |-> made'[j]] /\ made'[k] = made[k] \cup {e}
        /\ \A j \in Scopes \X Keys : j # k => made'[j] = made[j]
    BY <2>0, <2>k DEF WorkTypes
  <2>2. ASSUME NEW j \in Scopes \X Keys, j # k PROVE KeySound(j)'
    BY <1>3, <2>1, <2>2, KeyStays
  <2>3. KeySound(k)'
    <3> SUFFICES ASSUME k \notin shaky' PROVE RecordTrue(k)'
      BY DEF KeySound
    <3>1. RecordTrue(k) /\ Holds(q, k)
      BY <1>3, <2>k DEF KeySound, Holds
    <3>2. made[k] = {} /\ idem[k].state = "claimed" /\ idem[k].fresh
      BY <3>1 DEF RecordTrue
    <3>3. \A p \in Requests : Holds(p, k)' => p = q
      BY <3>1 DEF RecordTrue, OthersStay, Holds, Keyed, Key, Stage
    <3>4. made'[k] = {e} /\ Stage(req'[q]) = "finish"
      BY <2>1, <3>2
    <3> QED
      BY <3>2, <3>3, <3>4 DEF RecordTrue
  <2> QED
    BY <2>1, <2>2, <2>3
<1> QED
  BY <1>2, <1>3

LEMMA WorkBegins ==
    ASSUME WorkInv, NEW q \in Requests, Begin(q)
    PROVE  WorkInv'
<1> USE DEF WorkInv
<1> PICK r, n : r = req[q] /\ n = req'[q]
  OBVIOUS
<1>0. /\ manifest' = manifest /\ made' = made /\ shaky' = shaky /\ UNCHANGED planVars
      /\ Open(q) /\ Stage(r) = "claim" /\ Head(r.calls) = "claim" /\ r.calls # <<>>
  BY DEF Begin, At, Open, Stage
<1>1. r.kind \in {"works", "media"}
  BY <1>0, WorkCallTellsKind
<1>2. ASSUME Answered(q, 201) \/ Answered(q, 409), idem' = idem PROVE WorkInv'
  <2>1. Tasks' /\ OthersStay(q) /\ WorkSound(n) /\ KeyQuiet(q) /\ n.kind = r.kind
    BY <1>0, <1>2, WorkAnswered
  <2>2. TurnSound(q)'
    BY <1>1, <2>1 DEF TurnSound
  <2>3. UNCHANGED keyVars
    BY <1>0, <1>2 DEF keyVars
  <2> QED
    BY <1>0, <2>1, <2>2, <2>3, WorkQuiet
<1>3. ASSUME Proceed(q)
      PROVE  /\ Tasks' /\ OthersStay(q) /\ WorkSound(n) /\ TurnSound(q)'
             /\ n.kind = r.kind /\ n.key = r.key /\ Stage(n) \in {"create", "guard"}
  BY <1>0, <1>1, <1>3, KeyedProceeds
<1>4. CASE ~Keyed(q) /\ Proceed(q) /\ idem' = idem
  <2>1. KeyQuiet(q)
    BY <1>3, <1>4 DEF KeyQuiet, Keyed
  <2>3. UNCHANGED keyVars
    BY <1>0, <1>4 DEF keyVars
  <2> QED
    BY <1>0, <1>3, <1>4, <2>1, <2>3, WorkQuiet
<1>5. CASE Keyed(q) /\ Claimable(Key(q)) /\ Proceed(q) /\ ClaimKey(Key(q))
  <2>1. /\ idem' = [k \in Scopes \X Keys |-> idem'[k]]
        /\ \A k \in Scopes \X Keys : KeySound(k)'
    BY <1>0, <1>3, <1>5, ClaimEffect
  <2>2. made' = [k \in Scopes \X Keys |-> made'[k]]
    BY <1>0 DEF WorkTypes
  <2> QED
    BY <1>0, <1>3, <1>5, <2>1, <2>2, WorkKeysMove
<1> QED
  BY <1>2, <1>4, <1>5 DEF Begin

LEMMA WorkFinishes ==
    ASSUME WorkInv, NEW q \in Requests, Finish(q)
    PROVE  WorkInv'
<1> USE DEF WorkInv
<1> PICK r, n : r = req[q] /\ n = req'[q]
  OBVIOUS
<1> PICK rec : rec = [NoRecord EXCEPT !.state = "done"]
  OBVIOUS
<1>0. /\ manifest' = manifest /\ made' = made /\ shaky' = shaky /\ UNCHANGED planVars
      /\ Open(q) /\ Stage(r) = "finish" /\ Head(r.calls) = "finish" /\ r.calls # <<>>
      /\ Proceed(q) /\ idem' = IF Keyed(q) THEN [idem EXCEPT ![Key(q)] = rec] ELSE idem
  BY DEF Finish, Record, At, Open, Stage
<1>r. rec.state = "done"
  BY DEF NoRecord
<1>1. r.kind \in {"works", "media"}
  BY <1>0, WorkCallTellsKind
<1>2. /\ Tasks' /\ OthersStay(q) /\ WorkSound(n) /\ TurnSound(q)' /\ Stage(n) = "over"
  BY <1>0, <1>1, KeyedProceeds
<1>3. /\ idem' = [k \in Scopes \X Keys |-> idem'[k]]
      /\ \A k \in Scopes \X Keys : KeySound(k)'
  BY <1>0, <1>2, <1>r, ClaimEnds
<1>4. made' = [k \in Scopes \X Keys |-> made'[k]]
  BY <1>0 DEF WorkTypes
<1> QED
  BY <1>0, <1>2, <1>3, <1>4, WorkKeysMove

\* A request that is over, whatever its code.
Over(q, calls) == req' = [req EXCEPT ![q].calls = calls]

LEMMA OverFields ==
    ASSUME Tasks, NEW q \in Requests, NEW calls, Over(q, calls)
    PROVE  /\ Tasks' /\ OthersStay(q)
           /\ req'[q].kind = req[q].kind /\ req'[q].calls = calls
           /\ req'[q].who = req[q].who /\ req'[q].what = req[q].what
           /\ req'[q].key = req[q].key /\ req'[q].shown = req[q].shown
           /\ req'[q].seen = req[q].seen /\ req'[q].code = req[q].code
<1> PICK r : r = req[q]
  OBVIOUS
<1> DEFINE new == [r EXCEPT !.calls = calls]
<1>1. r = Task(r.kind, r.calls, r.who, r.what, r.key, r.shown, r.seen, r.code)
  BY DEF Tasks, IsTask
<1>4. new = Task(r.kind, calls, r.who, r.what, r.key, r.shown, r.seen, r.code)
  BY <1>1, TaskCalls
<1>5. req' = [req EXCEPT ![q] = new]
  BY DEF Tasks, Over
<1> HIDE DEF new
<1>6. IsTask(new)
  BY <1>4, TaskFields
<1>7. Tasks' /\ OthersStay(q) /\ req'[q] = new
  BY <1>5, <1>6, StepTasks
<1> QED
  BY <1>4, <1>7, TaskFields

LEMMA WorkReleases ==
    ASSUME WorkInv, NEW q \in Requests, Release(q)
    PROVE  WorkInv'
<1> USE DEF WorkInv
<1> PICK r, n : r = req[q] /\ n = req'[q]
  OBVIOUS
<1> PICK rec : rec = NoRecord
  OBVIOUS
<1>0. /\ manifest' = manifest /\ made' = made /\ shaky' = shaky /\ UNCHANGED planVars
      /\ Stage(r) = "release" /\ Head(r.calls) = "release" /\ r.calls # <<>>
      /\ Over(q, <<>>) /\ idem' = IF Keyed(q) THEN [idem EXCEPT ![Key(q)] = rec] ELSE idem
  BY DEF Release, At, Open, Stage, Over
<1>r. rec.state = "none"
  BY DEF NoRecord
<1>1. r.kind \in {"works", "media"}
  BY <1>0, WorkCallTellsKind
<1>2. /\ Tasks' /\ OthersStay(q)
      /\ n.kind = r.kind /\ n.calls = <<>> /\ n.what = r.what
      /\ n.key = r.key /\ n.shown = r.shown /\ n.seen = r.seen
  BY <1>0, OverFields
<1>3. WorkSound(n) /\ Stage(n) = "over" /\ TurnSound(q)'
  BY <1>1, <1>2, WorkOverSound DEF Stage, TurnSound
<1>4. /\ idem' = [k \in Scopes \X Keys |-> idem'[k]]
      /\ \A k \in Scopes \X Keys : KeySound(k)'
  BY <1>0, <1>2, <1>3, <1>r, ClaimEnds
<1>5. made' = [k \in Scopes \X Keys |-> made'[k]]
  BY <1>0 DEF WorkTypes
<1> QED
  BY <1>0, <1>2, <1>3, <1>4, <1>5, WorkKeysMove

LEMMA WorkSigns ==
    ASSUME WorkInv, NEW q \in Requests, Sign(q)
    PROVE  WorkInv'
<1> USE DEF WorkInv
<1> PICK r, n : r = req[q] /\ n = req'[q]
  OBVIOUS
<1>0. /\ manifest' = manifest /\ idem' = idem /\ shaky' = shaky /\ UNCHANGED planVars
      /\ Open(q) /\ Stage(r) = "sign" /\ Head(r.calls) = "sign" /\ r.calls # <<>>
      /\ Proceed(q) /\ Effects(q, q)
  BY DEF Sign, At, Open, Stage
<1>1. r.kind \in {"works", "media"}
  BY <1>0, WorkCallTellsKind
<1>2. /\ Tasks' /\ OthersStay(q) /\ WorkSound(n) /\ TurnSound(q)' /\ Stage(n) = "finish"
      /\ n.kind = r.kind /\ n.key = r.key
  BY <1>0, <1>1, KeyedProceeds
<1>a. \A k : Holds(q, k)' => k = Key(q)
  BY <1>2 DEF Holds, Key
<1>3. /\ made' = [k \in Scopes \X Keys |-> made'[k]]
      /\ \A k \in Scopes \X Keys : KeySound(k)'
  BY <1>0, <1>2, <1>a, EffectsEffect
<1>4. idem' = [k \in Scopes \X Keys |-> idem'[k]]
  BY <1>0 DEF WorkTypes
<1> QED
  BY <1>0, <1>2, <1>3, <1>4, WorkKeysMove

\* A new work has a manifest of its own.
LEMMA NewManifestEffect ==
    ASSUME WorkInv, NEW q \in Requests, NewManifest(q)
    PROVE  /\ manifest' \in Seq(Manifests) /\ ManifestsGrow
           /\ Open(q) /\ Stage(req[q]) = "create" /\ Head(req[q].calls) = "create"
           /\ req[q].kind \in {"works", "media"}
           /\ \E e : Effects(q, e)
<1> USE DEF WorkInv
<1>0. /\ req[q].calls # <<>> /\ Head(req[q].calls) = "create" /\ WorkSound(req[q])
  BY DEF NewManifest, At, Open
<1> PICK doc : doc = [title |-> None, phase |-> "discovery", stamp |-> 1]
  OBVIOUS
<1>1. doc \in Manifests
  BY DEF Manifests
<1>2. manifest' = Append(manifest, doc) /\ manifest \in Seq(Manifests)
  BY DEF NewManifest, WorkTypes
<1>3. /\ manifest' \in Seq(Manifests) /\ Works \subseteq Works'
      /\ \A w \in Works : manifest'[w] = manifest[w]
  BY <1>1, <1>2 DEF Works
<1>4. \A w \in Works : manifest[w].stamp \in Nat
  BY <1>2, ManifestAt DEF Works
<1>5. ManifestsGrow
  BY <1>3, <1>4 DEF ManifestsGrow
<1> QED
  BY <1>0, <1>3, <1>5, WorkCallTellsKind DEF NewManifest, Open, Stage

\* A step that writes the manifests.
LEMMA WorkManifestsMove ==
    ASSUME WorkInv, NEW q \in Requests, Tasks', OthersStay(q),
           manifest' \in Seq(Manifests), ManifestsGrow, UNCHANGED planVars,
           WorkSound(req'[q]), TurnSound(q)',
           idem' = [k \in Scopes \X Keys |-> idem'[k]],
           made' = [k \in Scopes \X Keys |-> made'[k]],
           \A k \in Scopes \X Keys : KeySound(k)'
    PROVE  WorkInv'
<1> USE DEF WorkInv, planVars
<1>1. WorkTypes'
  BY DEF WorkTypes
<1>2. WorkSound(req[q])'
  <2> PICK n : n = req'[q]
    OBVIOUS
  <2>1. WorkSound(n)'
    BY <1>1, WorkSoundStays
  <2> QED
    BY <2>1
<1> QED
  BY <1>1, <1>2, WorkMove

LEMMA WorkCreates ==
    ASSUME WorkInv, NEW q \in Requests, CreateSession(q)
    PROVE  WorkInv'
<1> USE DEF WorkInv
<1> PICK r, n : r = req[q] /\ n = req'[q]
  OBVIOUS
<1>0. /\ idem' = idem /\ shaky' = shaky /\ UNCHANGED planVars /\ Proceed(q) /\ NewManifest(q)
  BY DEF CreateSession
<1>1. /\ manifest' \in Seq(Manifests) /\ ManifestsGrow
      /\ Open(q) /\ Stage(r) = "create" /\ Head(r.calls) = "create"
      /\ r.kind \in {"works", "media"}
  BY <1>0, NewManifestEffect
<1>e. PICK e : Effects(q, e)
  BY <1>0, NewManifestEffect
<1>2. /\ Tasks' /\ OthersStay(q) /\ WorkSound(n) /\ TurnSound(q)' /\ Stage(n) = "finish"
      /\ n.kind = r.kind /\ n.key = r.key
  BY <1>0, <1>1, KeyedProceeds
<1>a. \A k : Holds(q, k)' => k = Key(q)
  BY <1>2 DEF Holds, Key
<1>3. /\ made' = [k \in Scopes \X Keys |-> made'[k]]
      /\ \A k \in Scopes \X Keys : KeySound(k)'
  BY <1>0, <1>1, <1>2, <1>a, <1>e, EffectsEffect
<1>4. idem' = [k \in Scopes \X Keys |-> idem'[k]]
  BY <1>0 DEF WorkTypes
<1> QED
  BY <1>0, <1>1, <1>2, <1>3, <1>4, WorkManifestsMove

\* The manifest of one work is written, with a new stamp.
LEMMA ManifestWritten ==
    ASSUME WorkTypes, NEW w \in Works, NEW doc \in Manifests, doc.stamp = manifest[w].stamp + 1,
           manifest' = [manifest EXCEPT ![w] = doc]
    PROVE  manifest' \in Seq(Manifests) /\ ManifestsGrow
<1>1. \A v \in Works : manifest[v].stamp \in Nat
  BY ManifestAt DEF WorkTypes, Works
<1>2. /\ manifest' \in Seq(Manifests) /\ Works' = Works /\ manifest'[w] = doc
      /\ \A v \in Works : v # w => manifest'[v] = manifest[v]
  BY DEF WorkTypes, Works
<1> QED
  BY <1>1, <1>2 DEF ManifestsGrow

LEMMA NewTitleEffect ==
    ASSUME WorkInv, NEW q \in Requests, NewTitle(q)
    PROVE  /\ manifest' \in Seq(Manifests) /\ ManifestsGrow /\ made' = made
           /\ Open(q) /\ Head(req[q].calls) = "patchTitle" /\ req[q].kind = "rename"
<1> USE DEF WorkInv
<1> PICK w : w = req[q].what
  OBVIOUS
<1>0. /\ req[q].calls # <<>> /\ Head(req[q].calls) = "patchTitle" /\ WorkSound(req[q])
  BY DEF NewTitle, At, Open
<1>1. req[q].kind = "rename" /\ w \in Works
  BY <1>0, WorkCallTellsKind DEF WorkSound, RenameSound
<1>2. PICK old : old = manifest[w]
  OBVIOUS
<1>3. PICK stamp : stamp = old.stamp + 1
  OBVIOUS
<1>4. old \in Manifests /\ stamp \in Nat
  BY <1>1, <1>2, <1>3, ManifestAt DEF WorkTypes, Works
<1>5. PICK doc : doc = [old EXCEPT !.title = q, !.stamp = stamp]
  OBVIOUS
<1>6. doc \in Manifests /\ doc.stamp = stamp
  BY <1>4, <1>5 DEF Manifests
<1>7. manifest' = [manifest EXCEPT ![w] = doc]
  BY <1>1, <1>2, <1>3, <1>5 DEF NewTitle, PatchTitle, WorkTypes, Works
<1>8. manifest' \in Seq(Manifests) /\ ManifestsGrow
  BY <1>1, <1>2, <1>3, <1>6, <1>7, ManifestWritten
<1> QED
  BY <1>0, <1>1, <1>8 DEF NewTitle, Open

LEMMA NewPhaseEffect ==
    ASSUME WorkInv, NEW q \in Requests, NewPhase(q)
    PROVE  /\ manifest' \in Seq(Manifests) /\ ManifestsGrow /\ made' = made
           /\ Open(q) /\ Head(req[q].calls) = "patchPhase" /\ req[q].kind = "phase"
<1> USE DEF WorkInv
<1> PICK w : w = req[q].what
  OBVIOUS
<1>0. /\ req[q].calls # <<>> /\ Head(req[q].calls) = "patchPhase" /\ WorkSound(req[q])
      /\ Stage(req[q]) = "patchPhase"
  BY DEF NewPhase, At, Open, Stage
<1>1. req[q].kind = "phase" /\ PhaseSound(req[q])
  BY <1>0, WorkCallTellsKind DEF WorkSound
<1>a. w \in Works /\ req[q].seen \in {"discovery", "drafting"}
  BY <1>0, <1>1 DEF PhaseSound
<1>p. PICK phase : phase = IF req[q].seen = "discovery" THEN "drafting" ELSE req[q].seen
  OBVIOUS
<1>b. phase \in {"discovery", "drafting"}
  BY <1>a, <1>p
<1>2. PICK old : old = manifest[w]
  OBVIOUS
<1>3. PICK stamp : stamp = old.stamp + 1
  OBVIOUS
<1>4. old \in Manifests /\ stamp \in Nat
  BY <1>a, <1>2, <1>3, ManifestAt DEF WorkTypes, Works
<1>5. PICK doc : doc = [old EXCEPT !.phase = phase, !.stamp = stamp]
  OBVIOUS
<1>6. doc \in Manifests /\ doc.stamp = stamp
  BY <1>4, <1>5, <1>b DEF Manifests
<1>c. PatchPhase(w, phase) /\ made' = made
  BY <1>p DEF NewPhase
<1>7. manifest' = [manifest EXCEPT ![w] = doc]
  BY <1>a, <1>2, <1>3, <1>5, <1>c DEF PatchPhase, WorkTypes, Works
<1>8. manifest' \in Seq(Manifests) /\ ManifestsGrow
  BY <1>a, <1>2, <1>3, <1>6, <1>7, ManifestWritten
<1> QED
  BY <1>0, <1>1, <1>8, <1>c DEF Open

\* The keys do not notice a request that holds none.
LEMMA KeysStay ==
    ASSUME WorkInv, NEW q \in Requests, OthersStay(q), KeyQuiet(q), idem' = idem, made' = made,
           shaky \subseteq shaky'
    PROVE  /\ idem' = [k \in Scopes \X Keys |-> idem'[k]]
           /\ made' = [k \in Scopes \X Keys |-> made'[k]]
           /\ \A k \in Scopes \X Keys : KeySound(k)'
<1> USE DEF WorkInv
<1>1. ASSUME NEW k \in Scopes \X Keys PROVE KeySound(k)'
  BY QuietKeys, KeyStays
<1> QED
  BY <1>1 DEF WorkTypes

LEMMA WorkEdits ==
    ASSUME WorkInv, NEW q \in Requests, Edit(q)
    PROVE  WorkInv'
<1> USE DEF WorkInv
<1> PICK r, n : r = req[q] /\ n = req'[q]
  OBVIOUS
<1>0. /\ UNCHANGED planVars /\ Proceed(q) /\ idem' = idem /\ shaky' = shaky
  BY DEF Edit, keyVars
<1>1. /\ manifest' \in Seq(Manifests) /\ ManifestsGrow /\ made' = made /\ Open(q)
      /\ \/ Head(r.calls) = "patchTitle" /\ r.kind = "rename"
         \/ Head(r.calls) = "patchPhase" /\ r.kind = "phase"
  BY NewTitleEffect, NewPhaseEffect DEF Edit
<1>2. /\ Tasks' /\ OthersStay(q)
      /\ n.kind = r.kind /\ n.calls = Tail(r.calls) /\ n.what = r.what /\ n.key = r.key
      /\ n.seen = r.seen /\ n.shown = r.shown
  BY <1>0, ProceedFields
<1>3. n.calls = <<>>
  BY <1>1, <1>2, RenameOrder, PhaseOrder DEF WorkSound, RenameSound, PhaseSound, Open
<1>4. WorkSound(n)
  BY <1>2, <1>3, WorkOverSound
<1>5. KeyQuiet(q) /\ TurnSound(q)'
  BY <1>1, <1>2 DEF KeyQuiet, Keyed, Scopes, TurnSound
<1>6. /\ idem' = [k \in Scopes \X Keys |-> idem'[k]]
      /\ made' = [k \in Scopes \X Keys |-> made'[k]]
      /\ \A k \in Scopes \X Keys : KeySound(k)'
  BY <1>0, <1>1, <1>2, <1>5, KeysStay
<1> QED
  BY <1>0, <1>1, <1>2, <1>4, <1>5, <1>6, WorkManifestsMove

-----------------------------------------------------------------------------
(* The roadmap. *)

\* What the three calls of an answer write.
AnswerWrites(q) ==
    /\ turns \subseteq turns' /\ roadmap \subseteq roadmap'
    /\ assess' = [waits |-> assess'.waits, at |-> assess'.at,
                  read |-> assess'.read, list |-> assess'.list]
    /\ \/ assess' = assess
       \/ assess'.waits /\ assess'.at = assess.at /\ assess'.list = assess.list

LEMMA AnswerEffect ==
    ASSUME WorkInv, NEW q \in Requests, SetItem(q) \/ AppendTurn(q) \/ Spawn(q)
    PROVE  /\ AnswerWrites(q) /\ Open(q) /\ req[q].kind = "answer"
           /\ Head(req[q].calls) \in {"setItem", "append", "spawn"}
           /\ Head(req[q].calls) = "append" => q \in turns'
           /\ Head(req[q].calls) = "spawn" => q \in turns' /\ assess'.waits
<1> USE DEF WorkInv
<1>0. /\ Open(q) /\ req[q].calls # <<>> /\ WorkSound(req[q])
      /\ Head(req[q].calls) \in {"setItem", "append", "spawn"}
  BY DEF SetItem, AppendTurn, Spawn, At, Open
<1>1. req[q].kind = "answer"
  BY <1>0, WorkCallTellsKind
<1>2. CASE SetItem(q) \/ AppendTurn(q)
  BY <1>0, <1>1, <1>2 DEF SetItem, AppendTurn, AnswerWrites, WorkTypes, At
<1>3. CASE Spawn(q)
  <2>1. Stage(req[q]) = "spawn"
    BY <1>3 DEF Spawn, At, Open, Stage
  <2>2. q \in turns
    BY <1>1, <2>1 DEF TurnSound
  <2> PICK w, a, d, l : assess = [waits |-> w, at |-> a, read |-> d, list |-> l]
    BY DEF WorkTypes
  <2>3. CASE assess.waits /\ assess' = assess
    BY <1>0, <1>1, <1>3, <2>2, <2>3 DEF Spawn, AnswerWrites, WorkTypes, At
  <2>4. CASE assess' = [assess EXCEPT !.waits = TRUE]
    <3>1. assess' = [waits |-> TRUE, at |-> a, read |-> d, list |-> l]
      BY <2>4
    <3> PICK n : n = assess'
      OBVIOUS
    <3>2. /\ n = [waits |-> n.waits, at |-> n.at, read |-> n.read, list |-> n.list]
          /\ n.waits /\ n.at = a /\ n.list = l
      BY <3>1
    <3>3. assess.at = a /\ assess.list = l
      OBVIOUS
    <3>4. AnswerWrites(q)
      BY <1>3, <3>2, <3>3 DEF Spawn, AnswerWrites
    <3>5. Head(req[q].calls) = "spawn"
      BY <1>3 DEF Spawn, At
    <3> QED
      BY <1>0, <1>1, <1>3, <2>2, <3>2, <3>4, <3>5 DEF Spawn
  <2> QED
    BY <1>3, <2>3, <2>4 DEF Spawn, Absorbed
<1> QED
  BY <1>2, <1>3

\* A step that writes the roadmap, its conversation and its chains.
LEMMA WorkPlanMove ==
    ASSUME WorkInv, NEW q \in Requests, Tasks', OthersStay(q), manifest' = manifest,
           UNCHANGED keyVars, AnswerWrites(q), missed' = missed,
           WorkSound(req'[q]), KeyQuiet(q), TurnSound(q)'
    PROVE  WorkInv'
<1> USE DEF WorkInv, keyVars
<1>1. WorkTypes' /\ ManifestsGrow
  <2>1. \A w \in Works : manifest[w].stamp \in Nat
    BY ManifestAt DEF WorkTypes, Works
  <2>2. ManifestsGrow
    BY <2>1 DEF ManifestsGrow, Works
  <2> QED
    BY <2>2 DEF WorkTypes, AnswerWrites
<1>2. WorkSound(req[q])'
  <2> PICK n : n = req'[q]
    OBVIOUS
  <2>1. WorkSound(n)'
    BY <1>1, WorkSoundStays
  <2> QED
    BY <2>1
<1>3. \A k \in Scopes \X Keys : KeySound(k)'
  BY KeysStay
<1> QED
  BY <1>1, <1>2, <1>3, WorkMove DEF AnswerWrites

LEMMA WorkAnswers ==
    ASSUME WorkInv, NEW q \in Requests, AnswerStep(q)
    PROVE  WorkInv'
<1> USE DEF WorkInv
<1> PICK r, n : r = req[q] /\ n = req'[q]
  OBVIOUS
<1>0. manifest' = manifest /\ UNCHANGED keyVars /\ missed' = missed /\ Proceed(q)
  BY DEF AnswerStep
<1>1. /\ AnswerWrites(q) /\ Open(q) /\ r.kind = "answer" /\ r.calls # <<>>
      /\ Head(r.calls) \in {"setItem", "append", "spawn"}
      /\ Head(r.calls) = "append" => q \in turns'
      /\ Head(r.calls) = "spawn" => q \in turns' /\ assess'.waits
  BY AnswerEffect DEF AnswerStep, Open
<1>2. /\ Tasks' /\ OthersStay(q)
      /\ n.kind = r.kind /\ n.calls = Tail(r.calls) /\ n.code = CodeOf(r.calls)
  BY <1>0, ProceedFields
<1>3. /\ n.calls \in AnswerRests
      /\ Head(r.calls) = "setItem" => Stage(n) = "append" /\ n.code = 0
      /\ Head(r.calls) = "append" => Stage(n) = "spawn" /\ n.code = 0
  BY <1>1, <1>2, AnswerOrder DEF WorkSound, Stage
<1>4. WorkSound(n)
  BY <1>1, <1>2, <1>3, TaskAssumption DEF WorkSound, Kinds
<1>5. KeyQuiet(q)
  BY <1>1, <1>2 DEF KeyQuiet, Keyed, Scopes
<1>6. TurnSound(q)'
  BY <1>1, <1>3 DEF TurnSound
<1> QED
  BY <1>0, <1>1, <1>2, <1>4, <1>5, <1>6, WorkPlanMove

LEMMA WorkFails ==
    ASSUME WorkInv, NEW q \in Requests, WorkCallFails(q)
    PROVE  WorkInv'
<1> USE DEF WorkInv
<1> PICK r, n : r = req[q] /\ n = req'[q]
  OBVIOUS
<1>0. GivesUp(q, 500) /\ Open(q) /\ missed' = missed
  BY DEF WorkCallFails
<1>1. /\ Tasks' /\ OthersStay(q) /\ WorkSound(n) /\ KeyQuiet(q) /\ TurnSound(q)'
      /\ n.kind = r.kind /\ n.key = r.key
      /\ ~ReleasesOnFailure(q) => n.calls = <<>>
  BY <1>0, WorkGaveUp
<1>2. ASSUME UNCHANGED <<manifest, made, idem, roadmap, turns, assess, shaky>> PROVE WorkInv'
  BY <1>0, <1>1, <1>2, WorkQuiet DEF keyVars, planVars
<1>3. ASSUME NewManifest(q), shaky' = shaky \cup {Key(q)},
             UNCHANGED <<idem, roadmap, turns, assess>>
      PROVE  WorkInv'
  <2>1. /\ manifest' \in Seq(Manifests) /\ ManifestsGrow /\ Stage(r) = "create"
    BY <1>3, NewManifestEffect
  <2>e. PICK e : Effects(q, e)
    BY <1>3, NewManifestEffect
  <2>a. \A k : Holds(q, k)' => k = Key(q)
    BY <1>1 DEF Holds, Key
  <2>2. /\ made' = [k \in Scopes \X Keys |-> made'[k]]
        /\ \A k \in Scopes \X Keys : KeySound(k)'
    BY <1>1, <1>3, <2>1, <2>a, <2>e, EffectsEffect
  <2>3. idem' = [k \in Scopes \X Keys |-> idem'[k]] /\ UNCHANGED planVars
    BY <1>0, <1>3 DEF WorkTypes, planVars
  <2> QED
    BY <1>1, <2>1, <2>2, <2>3, WorkManifestsMove
<1>4. ASSUME NewTitle(q) \/ NewPhase(q), UNCHANGED <<idem, roadmap, turns, assess, shaky>>
      PROVE  WorkInv'
  <2>1. manifest' \in Seq(Manifests) /\ ManifestsGrow /\ made' = made
    BY <1>4, NewTitleEffect, NewPhaseEffect
  <2>2. /\ idem' = [k \in Scopes \X Keys |-> idem'[k]]
        /\ made' = [k \in Scopes \X Keys |-> made'[k]]
        /\ \A k \in Scopes \X Keys : KeySound(k)'
    BY <1>1, <1>4, <2>1, KeysStay
  <2>3. UNCHANGED planVars
    BY <1>0, <1>4 DEF planVars
  <2> QED
    BY <1>1, <2>1, <2>2, <2>3, WorkManifestsMove
<1>5. ASSUME SetItem(q) \/ AppendTurn(q) \/ Spawn(q), UNCHANGED <<manifest, made, idem, shaky>>
      PROVE  WorkInv'
  <2>1. AnswerWrites(q) /\ UNCHANGED keyVars
    BY <1>5, AnswerEffect DEF keyVars
  <2> QED
    BY <1>0, <1>1, <1>5, <2>1, WorkPlanMove
<1>6. ASSUME At(q, "claim"), Keyed(q), Claimable(Key(q)), ClaimKey(Key(q)),
             UNCHANGED <<manifest, made, roadmap, turns, assess, shaky>>
      PROVE  WorkInv'
  <2>1. Stage(r) = "claim"
    BY <1>6 DEF At, Open, Stage
  <2>2. /\ idem' = [k \in Scopes \X Keys |-> idem'[k]]
        /\ \A k \in Scopes \X Keys : KeySound(k)'
    BY <1>1, <1>6, <2>1, ClaimEffect
  <2>3. made' = [k \in Scopes \X Keys |-> made'[k]] /\ UNCHANGED planVars
    BY <1>0, <1>6 DEF WorkTypes, planVars
  <2> QED
    BY <1>1, <1>6, <2>2, <2>3, WorkKeysMove
<1>7. ASSUME Record(q), UNCHANGED <<manifest, made, roadmap, turns, assess, shaky>>
      PROVE  WorkInv'
  <2> PICK rec : rec = [NoRecord EXCEPT !.state = "done"]
    OBVIOUS
  <2>1. /\ Stage(r) = "finish" /\ Head(r.calls) = "finish"
        /\ idem' = IF Keyed(q) THEN [idem EXCEPT ![Key(q)] = rec] ELSE idem
    BY <1>7 DEF Record, At, Open, Stage
  <2>r. rec.state = "done"
    BY DEF NoRecord
  <2>2. Stage(n) = "over"
    BY <1>1, <2>1 DEF ReleasesOnFailure, Stage
  <2>3. /\ idem' = [k \in Scopes \X Keys |-> idem'[k]]
        /\ \A k \in Scopes \X Keys : KeySound(k)'
    BY <1>1, <1>7, <2>1, <2>2, <2>r, ClaimEnds
  <2>4. made' = [k \in Scopes \X Keys |-> made'[k]] /\ UNCHANGED planVars
    BY <1>0, <1>7 DEF WorkTypes, planVars
  <2> QED
    BY <1>1, <1>7, <2>3, <2>4, WorkKeysMove
<1> QED
  BY <1>2, <1>3, <1>4, <1>5, <1>6, <1>7 DEF WorkCallFails

\* A step of no request.
LEMMA WorkAround ==
    ASSUME WorkInv, req' = req, manifest' = manifest, WorkTypes',
           \A k \in Scopes \X Keys : KeySound(k)', \A q \in Requests : TurnSound(q)',
           assess'.at = "plan" => assess'.list \subseteq roadmap'
    PROVE  WorkInv'
<1> USE DEF WorkInv
<1>1. Tasks'
  BY DEF Tasks
<1>2. ASSUME NEW p \in Requests PROVE WorkSound(req[p])'
  BY DEF WorkSound, RenameSound, PhaseSound, Stage, Works
<1> QED
  BY <1>1, <1>2

LEMMA KeyAround ==
    ASSUME req' = req, NEW k, KeySound(k), shaky \subseteq shaky',
           idem'[k] = idem[k], made'[k] = made[k]
    PROVE  KeySound(k)'
<1>1. \A q \in Requests : (Holds(q, k)' <=> Holds(q, k)) /\ Stage(req'[q]) = Stage(req[q])
  BY DEF Holds, Keyed, Key, Stage
<1>2. CASE k \in shaky
  BY <1>2 DEF KeySound
<1>3. CASE RecordTrue(k)
  <2>1. RecordTrue(k)'
    BY <1>1, <1>3 DEF RecordTrue
  <2> QED
    BY <2>1 DEF KeySound
<1> QED
  BY <1>2, <1>3 DEF KeySound

\* A step of no request that touches no key.
LEMMA WorkPlanAround ==
    ASSUME WorkInv, req' = req, manifest' = manifest, UNCHANGED keyVars,
           assess' = [waits |-> assess'.waits, at |-> assess'.at,
                      read |-> assess'.read, list |-> assess'.list],
           \A q \in Requests : TurnSound(q)',
           assess'.at = "plan" => assess'.list \subseteq roadmap'
    PROVE  WorkInv'
<1> USE DEF WorkInv, keyVars
<1>1. WorkTypes'
  BY DEF WorkTypes
<1>2. \A k \in Scopes \X Keys : KeySound(k)'
  BY KeyAround
<1> QED
  BY <1>1, <1>2, WorkAround

LEMMA WorkExpires ==
    ASSUME WorkInv, NEW k \in Scopes \X Keys, ClaimExpires(k)
    PROVE  WorkInv'
<1> USE DEF WorkInv
<1>0. /\ manifest' = manifest /\ made' = made /\ req' = req /\ UNCHANGED planVars
      /\ shaky' = shaky \cup {k}
  BY DEF ClaimExpires
<1>p. PICK rec : rec = [idem[k] EXCEPT !.fresh = FALSE]
  OBVIOUS
<1>1. idem' = [idem EXCEPT ![k] = rec]
  BY <1>p DEF ClaimExpires, WorkTypes
<1>2. /\ idem' = [j \in Scopes \X Keys |-> idem'[j]]
      /\ \A j \in Scopes \X Keys : j # k => idem'[j] = idem[j]
  BY <1>1, RecordWritten
<1>3. ASSUME NEW j \in Scopes \X Keys PROVE KeySound(j)'
  <2>1. CASE j = k
    BY <1>0, <2>1 DEF KeySound
  <2>2. CASE j # k
    BY <1>0, <1>2, <2>2, KeyAround
  <2> QED
    BY <2>1, <2>2
<1>4. WorkTypes'
  BY <1>0, <1>2 DEF WorkTypes, planVars
<1>5. /\ \A q \in Requests : TurnSound(q)'
      /\ assess'.at = "plan" => assess'.list \subseteq roadmap'
  BY <1>0 DEF TurnSound, Stage, planVars
<1> QED
  BY <1>0, <1>3, <1>4, <1>5, WorkAround

\* The assessment chains.
LEMMA WorkAssesses ==
    ASSUME WorkInv, Assess \/ ReadTurns \/ ReadRoadmap \/ Persist \/ AssessFails
    PROVE  WorkInv'
<1> USE DEF WorkInv
<1>0. req' = req /\ manifest' = manifest /\ UNCHANGED keyVars /\ turns' = turns
  BY DEF Assess, ReadTurns, ReadRoadmap, Persist, AssessFails
<1> PICK w, a, d, l : assess = [waits |-> w, at |-> a, read |-> d, list |-> l]
  BY DEF WorkTypes
<1> PICK n : n = assess'
  OBVIOUS
<1>1. assess.waits = w /\ assess.at = a /\ assess.read = d /\ assess.list = l
  OBVIOUS
<1>t. \A q \in Requests : req[q].kind = "answer" /\ req[q].code = 200 =>
          /\ q \in turns
          /\ w \/ a = "read" \/ q \in d \/ q \in missed
             \/ req[q].what \in (IF a = "plan" THEN l ELSE roadmap)
  BY <1>1 DEF TurnSound
<1>l. a = "plan" => l \subseteq roadmap
  BY <1>1
\* What is left to show: that the answers are kept.
<1>s. ASSUME n = [waits |-> n.waits, at |-> n.at, read |-> n.read, list |-> n.list],
             n.at = "plan" => n.list \subseteq roadmap',
             \A q \in Requests : req[q].kind = "answer" /\ req[q].code = 200 =>
                n.waits \/ n.at = "read" \/ q \in n.read \/ q \in missed'
                \/ req[q].what \in (IF n.at = "plan" THEN n.list ELSE roadmap')
      PROVE  WorkInv'
  <2>1. \A q \in Requests : TurnSound(q)'
    BY <1>0, <1>s, <1>t DEF TurnSound, Stage
  <2> QED
    BY <1>0, <1>s, <2>1, WorkPlanAround
<1>2. CASE Assess
  <2>1. n = [waits |-> FALSE, at |-> "read", read |-> {}, list |-> {}]
    BY <1>2 DEF Assess, NoAssessment
  <2>2. n.waits = FALSE /\ n.at = "read" /\ n.read = {} /\ n.list = {}
    BY <2>1
  <2> QED
    BY <1>s, <2>1, <2>2
<1>3. CASE ReadTurns
  <2>1. n = [waits |-> w, at |-> "list", read |-> turns, list |-> l]
    BY <1>3 DEF ReadTurns
  <2>2. n.waits = w /\ n.at = "list" /\ n.read = turns /\ n.list = l
    BY <2>1
  <2> QED
    BY <1>s, <1>t, <2>1, <2>2
<1>4. CASE ReadRoadmap
  <2>1. n = [waits |-> w, at |-> "plan", read |-> d, list |-> roadmap]
    BY <1>4 DEF ReadRoadmap
  <2>2. n.waits = w /\ n.at = "plan" /\ n.read = d /\ n.list = roadmap
    BY <2>1
  <2>3. a = "list" /\ roadmap' = roadmap /\ missed' = missed
    BY <1>1, <1>4 DEF ReadRoadmap
  <2> QED
    BY <1>s, <1>t, <2>1, <2>2, <2>3
<1>5. CASE Persist
  <2>1. n = [waits |-> w, at |-> "idle", read |-> {}, list |-> {}]
    BY <1>5 DEF Persist
  <2>2. n.waits = w /\ n.at = "idle" /\ n.read = {} /\ n.list = {}
    BY <2>1
  <2>3. /\ a = "plan" /\ roadmap' = l \cup {req[q].what : q \in d}
        /\ missed' = missed \ d
    BY <1>1, <1>5 DEF Persist
  <2>4. \A q \in Requests : q \in d => req[q].what \in roadmap'
    BY <2>3
  <2>5. l \subseteq roadmap'
    BY <2>3
  <2>6. \A q : q \in missed /\ q \notin d => q \in missed'
    BY <2>3
  <2> QED
    BY <1>s, <1>t, <2>1, <2>2, <2>3, <2>4, <2>5, <2>6
<1>6. CASE AssessFails
  <2>1. n = [waits |-> w, at |-> "idle", read |-> {}, list |-> {}]
    BY <1>6 DEF AssessFails
  <2>2. n.waits = w /\ n.at = "idle" /\ n.read = {} /\ n.list = {}
    BY <2>1
  <2>3. /\ roadmap' = roadmap
        /\ missed' = missed \cup (IF a = "read" THEN turns ELSE d)
    BY <1>1, <1>6 DEF AssessFails
  <2> QED
    BY <1>l, <1>s, <1>t, <2>1, <2>2, <2>3
<1> QED
  BY <1>2, <1>3, <1>4, <1>5, <1>6

LEMMA WorkTickets ==
    ASSUME WorkInv, NEW t, Upload(t) \/ TicketExpires(t)
    PROVE  WorkInv'
<1>1. req' = req /\ manifest' = manifest /\ UNCHANGED keyVars /\ UNCHANGED planVars
  BY DEF Upload, TicketExpires
<1>2. /\ assess' = [waits |-> assess'.waits, at |-> assess'.at,
                    read |-> assess'.read, list |-> assess'.list]
      /\ \A q \in Requests : TurnSound(q)'
      /\ assess'.at = "plan" => assess'.list \subseteq roadmap'
  BY <1>1 DEF WorkInv, WorkTypes, TurnSound, Stage, planVars
<1> QED
  BY <1>1, <1>2, WorkPlanAround

LEMMA WorkNext == ASSUME WorkInv, WorksNext PROVE WorkInv'
<1>1. ASSUME NEW q \in Requests, WorkCall(q) PROVE WorkInv'
  BY <1>1, WorkBegins, WorkFinishes, WorkReleases, WorkCreates, WorkShowsMeta, WorkChecks,
     WorkReadsPhase, WorkEdits, WorkGuards, WorkSigns, WorkAnswers DEF WorkCall
<1>2. ASSUME NEW q \in Requests,
             \/ CreateWork(q) \/ Rename(q) \/ NextPhase(q) \/ UploadUrl(q)
             \/ DeleteMedia(q) \/ Answer(q) \/ WorkCallFails(q)
      PROVE  WorkInv'
  BY <1>2, WorkSent, WorkDeletes, WorkFails
<1> QED
  BY <1>1, <1>2, WorkExpires, WorkTickets, WorkAssesses DEF WorksNext

-----------------------------------------------------------------------------
(* The three areas together. *)

LEMMA AccountStutter ==
    ASSUME AccountInv, req' = req, UNCHANGED accountVars
    PROVE  AccountInv'
<1> USE DEF AccountInv, accountVars
<1>1. Tasks' /\ AccountTypes'
  BY DEF Tasks, AccountTypes, Accounts
<1>2. ASSUME NEW q \in Requests PROVE Sound(req[q])'
  BY DEF Sound, LoginSound, ConnectSound, DisconnectSound, AliasSound, Stage, Accounts
<1>3. MetTrue'
  BY DEF MetTrue, Open, Accounts
<1>4. \A s \in Subs : Covered(s)'
  BY DEF Covered, Covers, Stage
<1> QED
  BY <1>1, <1>2, <1>3, <1>4

LEMMA DraftStutter ==
    ASSUME DraftInv, req' = req, UNCHANGED outputVars
    PROVE  DraftInv'
<1> USE DEF DraftInv, outputVars
<1>1. \A q \in Requests : BuildTrue(req[q])'
  BY DEF BuildTrue, Stage
<1>2. UploadersPast' /\ Tasks'
  BY DEF UploadersPast, Tasks
<1>3. \A q \in Requests : (Due(q)' <=> Due(q)) /\ (Good(q)' <=> Good(q))
  BY DEF Due, Told, Good, Open, Stage
<1> QED
  BY <1>1, <1>2, <1>3

LEMMA WorkStutter ==
    ASSUME WorkInv, req' = req, UNCHANGED workVars
    PROVE  WorkInv'
<1>1. manifest' = manifest /\ UNCHANGED keyVars /\ UNCHANGED planVars
  BY DEF workVars
<1>2. /\ assess' = [waits |-> assess'.waits, at |-> assess'.at,
                    read |-> assess'.read, list |-> assess'.list]
      /\ \A q \in Requests : TurnSound(q)'
      /\ assess'.at = "plan" => assess'.list \subseteq roadmap'
  BY <1>1 DEF WorkInv, WorkTypes, TurnSound, Stage, planVars
<1> QED
  BY <1>1, <1>2, WorkPlanAround

\* One area is at work, and the documents of the others are as they were at first.
IInv ==
    \/ area = "account" /\ AccountInv /\ WorksInit /\ OutputsInit
    \/ area = "works" /\ WorkInv /\ AccountsInit /\ OutputsInit
    \/ area = "draft" /\ DraftInv /\ AccountsInit /\ WorksInit

LEMMA InitIInv == Init => IInv
  BY AccountInit, WorkInit, DraftInit DEF Init, IInv

LEMMA AccountsInitStays == AccountsInit /\ UNCHANGED accountVars => AccountsInit'
  BY DEF AccountsInit, accountVars

LEMMA WorksInitStays == WorksInit /\ UNCHANGED workVars => WorksInit'
  BY DEF WorksInit, workVars, keyVars, planVars

LEMMA OutputsInitStays == OutputsInit /\ UNCHANGED outputVars => OutputsInit'
  BY DEF OutputsInit, outputVars

LEMMA NextIInv == IInv /\ [Next]_vars => IInv'
<1> SUFFICES ASSUME IInv, [Next]_vars PROVE IInv'
  OBVIOUS
<1>1. CASE area = "account"
  <2>1. AccountInv /\ WorksInit /\ OutputsInit
    BY <1>1 DEF IInv
  <2>2. UNCHANGED <<area, workVars, outputVars>>
    BY <1>1 DEF Next, vars
  <2>3. AccountsNext \/ (req' = req /\ UNCHANGED accountVars)
    BY <1>1 DEF Next, vars
  <2>4. AccountInv'
    BY <2>1, <2>3, AccountNext, AccountStutter
  <2> QED
    BY <1>1, <2>1, <2>2, <2>4, WorksInitStays, OutputsInitStays DEF IInv
<1>2. CASE area = "works"
  <2>1. WorkInv /\ AccountsInit /\ OutputsInit
    BY <1>2 DEF IInv
  <2>2. UNCHANGED <<area, accountVars, outputVars>>
    BY <1>2 DEF Next, vars
  <2>3. WorksNext \/ (req' = req /\ UNCHANGED workVars)
    BY <1>2 DEF Next, vars
  <2>4. WorkInv'
    BY <2>1, <2>3, WorkNext, WorkStutter
  <2> QED
    BY <1>2, <2>1, <2>2, <2>4, AccountsInitStays, OutputsInitStays DEF IInv
<1>3. CASE area = "draft"
  <2>1. DraftInv /\ AccountsInit /\ WorksInit
    BY <1>3 DEF IInv
  <2>2. UNCHANGED <<area, accountVars, workVars>>
    BY <1>3 DEF Next, vars
  <2>3. OutputsNext \/ (req' = req /\ UNCHANGED outputVars)
    BY <1>3 DEF Next, vars
  <2>4. DraftInv'
    BY <2>1, <2>3, DraftNext, DraftStutter
  <2> QED
    BY <1>3, <2>1, <2>2, <2>4, AccountsInitStays, WorksInitStays DEF IInv
<1> QED
  BY <1>1, <1>2, <1>3 DEF IInv

LEMMA DocumentsInvariant == Spec => []IInv
  BY InitIInv, NextIInv, PTL DEF Spec

\* The requests of an area are of its own kinds.
LEMMA KindsOfArea ==
    ASSUME IInv, NEW q \in Requests
    PROVE  /\ area = "account" => Sound(req[q])
           /\ area = "works" => WorkSound(req[q])
           /\ area = "draft" => BuildTrue(req[q])
           /\ area # "account" => req[q].kind # "alias"
           /\ area # "works" => req[q].kind \notin {"rename", "answer"}
           /\ area # "draft" => req[q].kind # "build"
<1>1. /\ area = "account" => Sound(req[q])
      /\ area = "works" => WorkSound(req[q])
      /\ area = "draft" => BuildTrue(req[q])
      /\ area \in {"account", "works", "draft"}
  BY DEF IInv, AccountInv, WorkInv, DraftInv
<1>2. None \notin {"alias", "rename", "answer", "build"}
  BY TaskAssumption DEF Kinds
<1> QED
  BY <1>1, <1>2 DEF Sound, Linking, WorkSound, BuildTrue

\* A rename of a work or an alias that passes its If-Match check finds what its client was
\* shown (every writer renews updated_at), with any number of writers.
THEOREM EtagsNameContent == Spec => []EtagNamesContent
<1>1. IInv => EtagNamesContent
  <2> SUFFICES ASSUME IInv, NEW q \in Requests, req[q].kind \in {"alias", "rename"},
                      req[q].seen # None
               PROVE  req[q].seen.content = req[q].shown.content
    BY DEF EtagNamesContent, Edits
  <2>1. CASE req[q].kind = "alias"
    BY <2>1, KindsOfArea DEF Sound, AliasSound
  <2>2. CASE req[q].kind = "rename"
    BY <2>2, KindsOfArea DEF WorkSound, RenameSound
  <2> QED
    BY <2>1, <2>2
<1> QED
  BY <1>1, DocumentsInvariant, PTL

\* A login leads to no account whose profile hides it, but for a login or connect that
\* failed between its two writes and for accounts at which two link requests met.
THEOREM NoMappingIsHidden == Spec => []NoHiddenMapping
<1>1. IInv => NoHiddenMapping
  <2> SUFFICES ASSUME IInv PROVE NoHiddenMapping
    OBVIOUS
  <2>1. CASE area = "account"
    <3>1. \A s \in Subs : Covered(s)
      BY <2>1 DEF IInv, AccountInv
    <3>2. \A q \in Requests, s \in Subs : Covers(q, s) =>
              Open(q) /\ req[q].who = ident[s] /\ req[q].what = s
      BY DEF Covers, Open, Stage
    <3> QED
      BY <3>1, <3>2 DEF NoHiddenMapping, Covered
  <2>2. CASE area # "account"
    <3>1. AccountsInit
      BY <2>2 DEF IInv
    <3> PICK s \in Subs : /\ ident = [t \in Subs |-> IF t = s THEN 1 ELSE None]
                          /\ profile = <<[subs |-> {s}, alias |-> None, stamp |-> 1]>>
      BY <3>1 DEF AccountsInit
    <3>2. profile[1].subs = {s}
      OBVIOUS
    <3> QED
      BY <3>2 DEF NoHiddenMapping
  <2> QED
    BY <2>1, <2>2
<1> QED
  BY <1>1, DocumentsInvariant, PTL

\* However often a request is repeated under its key, it makes one work or signs one
\* upload, unless a claim outlived its 30 s or an answer was lost (_idem_begin,
\* claim_idempotency).
THEOREM KeysGiveOneResult == Spec => []OneResultPerKey
<1>1. IInv => OneResultPerKey
  <2> SUFFICES ASSUME IInv, NEW k \in DOMAIN made, Cardinality(made[k]) > 1
               PROVE  k \in shaky
    BY DEF OneResultPerKey
  <2>0. Cardinality({}) = 0 /\ \A e : Cardinality({e}) = 1
    BY FS_EmptySet, FS_Singleton
  <2>1. CASE area = "works"
    <3>1. k \in Scopes \X Keys /\ KeySound(k)
      BY <2>1 DEF IInv, WorkInv, WorkTypes
    <3>2. ASSUME made[k] = {} \/ \E e : made[k] = {e} PROVE FALSE
      <4>1. CASE made[k] = {}
        <5>1. Cardinality(made[k]) = 0
          BY <2>0, <4>1, Zenon
        <5> QED
          BY <5>1
      <4>2. CASE \E e : made[k] = {e}
        <5>1. Cardinality(made[k]) = 1
          BY <2>0, <4>2, Zenon
        <5> QED
          BY <5>1
      <4> QED
        BY <3>2, <4>1, <4>2
    <3> QED
      BY <3>1, <3>2 DEF KeySound, RecordTrue
  <2>2. CASE area # "works"
    <3>1. made[k] = {}
      BY <2>2 DEF IInv, WorksInit
    <3>2. Cardinality(made[k]) = 0
      BY <2>0, <3>1, Zenon
    <3> QED
      BY <3>2
  <2> QED
    BY <2>1, <2>2
<1> QED
  BY <1>1, DocumentsInvariant, PTL

\* An accepted answer survives the assessments that read the roadmap before it and write
\* the whole list after it (roadmap.answer, roadmap.persist).
THEOREM AnswersAreKept == Spec => []AnswersKept
<1>1. IInv => AnswersKept
  <2> SUFFICES ASSUME IInv, NEW q \in Requests, req[q].kind = "answer", req[q].code = 200
               PROVE  \/ req[q].what \in roadmap
                      \/ assess.waits \/ assess.at = "read"
                      \/ q \in assess.read \/ q \in missed
    BY DEF AnswersKept, Accepted
  <2>1. area = "works"
    BY KindsOfArea
  <2>2. TurnSound(q) /\ (assess.at = "plan" => assess.list \subseteq roadmap)
    BY <2>1 DEF IInv, WorkInv
  <2> QED
    BY <2>2 DEF TurnSound
<1> QED
  BY <1>1, DocumentsInvariant, PTL

\* Who is told that the draft is built finds one, made from the model of the time of the
\* request or a later one (build_draft: upload, then output_ready, then the answer).
THEOREM DraftPromiseIsKept == Spec => []DraftKeepsPromise
<1>1. IInv => DraftKeepsPromise
  <2> SUFFICES ASSUME IInv, NEW q \in Told
               PROVE  /\ uploads # <<>>
                      /\ LET last == uploads[Len(uploads)]
                         IN  req[last].seen >= req[q].what \/ last \in req[q].shown
    BY DEF DraftKeepsPromise
  <2>1. area = "draft"
    <3>1. CASE q \in ready
      BY <3>1 DEF IInv, OutputsInit
    <3>2. CASE q \in Requests /\ req[q].kind = "build"
      BY <3>2, KindsOfArea
    <3> QED
      BY <3>1, <3>2 DEF Told
  <2>2. q \in Requests /\ Due(q) => Good(q)
    BY <2>1 DEF IInv, DraftInv
  <2>3. q \in Requests
    BY <2>1 DEF IInv, DraftInv, Told
  <2> QED
    BY <2>2, <2>3 DEF Due, Good
<1> QED
  BY <1>1, DocumentsInvariant, PTL

\* A subject's mapping is removed by nobody but the account it leads to, however old the
\* profile that a disconnect works from (delete_identity with expected_user_id).
THEOREM MappingsOfOthersAreKept == Spec => OthersMappingsKept
<1>1. IInv /\ [Next]_vars =>
          [\A s \in Subs : ident[s] # None /\ ident'[s] = None =>
              \E q \in Requests : At(q, "deleteIdentities") /\ req[q].who = ident[s]]_ident
  <2> SUFFICES ASSUME IInv, [Next]_vars, ident' # ident,
                      NEW s \in Subs, ident[s] # None, ident'[s] = None
               PROVE  \E q \in Requests : At(q, "deleteIdentities") /\ req[q].who = ident[s]
    OBVIOUS
  <2>1. area = "account" /\ AccountsNext /\ AccountInv
    BY DEF Next, vars, accountVars, IInv
  <2>2. PICK q \in Requests :
            MintIdentity(q) \/ LinkIdentity(q) \/ \E t \in Subs : Unlink(q, t)
    BY <2>1 DEF AccountsNext, Login, Connect, Disconnect, SetAlias, AccountCall,
                AccountCallFails, GetIdentity, Mint, PutProfile, GetProfile, DeleteIdentities,
                Patch, ShowAlias, CheckAlias, NewProfile, NewProviders, NewAlias,
                documents, accountVars
  <2>3. None \notin Nat /\ None \notin Accounts /\ ident \in [Subs -> Accounts \cup {None}]
    BY <2>1, TaskAssumption DEF AccountInv, AccountTypes, Accounts
  <2>4. ~MintIdentity(q)
    <3> SUFFICES ASSUME MintIdentity(q) PROVE FALSE
      OBVIOUS
    <3>1. ident' = [ident EXCEPT ![req[q].what] = Len(profile) + 1]
      BY DEF MintIdentity, WriteIdentity
    <3>2. Len(profile) + 1 \in Nat
      BY <2>1 DEF AccountInv, AccountTypes
    <3> QED
      BY <2>3, <3>1, <3>2
  <2>5. ~LinkIdentity(q)
    <3> SUFFICES ASSUME LinkIdentity(q) PROVE FALSE
      OBVIOUS
    <3>1. ident' = [ident EXCEPT ![req[q].what] = req[q].who]
      BY DEF LinkIdentity, WriteIdentity
    <3>2. req[q].who \in Accounts
      BY <2>1 DEF LinkIdentity, AccountInv, Sound, ConnectSound
    <3> QED
      BY <2>3, <3>1, <3>2
  <2> PICK t \in Subs : Unlink(q, t)
    BY <2>2, <2>4, <2>5
  <2>6. /\ At(q, "deleteIdentities")
        /\ ident' = IF ident[t] = req[q].who THEN [ident EXCEPT ![t] = None] ELSE ident
    BY DEF Unlink, DeleteIdentity
  <2> QED
    BY <2>3, <2>6
<1> QED
  BY <1>1, DocumentsInvariant, PTL DEF Spec, OthersMappingsKept
=============================================================================
