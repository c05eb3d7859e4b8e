------------------------ MODULE ContentManagerProofs -------------------------
(***************************************************************************)
(* Invariance and refinement proofs for the content manager.               *)
(*                                                                         *)
(* PersonaQueue: for every set of RTs and chains, every lease time and     *)
(* every bound on the clock.                                               *)
(*                                                                         *)
(* ObjectStore: for every set of documents, whatever their ids, every      *)
(* number of threads, batch size and bound on the objects.  The first part *)
(* is about keys: two documents never share one, and a prefix selects the  *)
(* documents it is meant for.  A key is cut at its first "/", as often as  *)
(* its layout has directories.                                             *)
(***************************************************************************)
EXTENDS PersonaQueue, ObjectStore, SequenceFacts

-----------------------------------------------------------------------------
(* The persona queue. *)

\* The three invariants are proved together: that a popped entry is a queued
\* one, hence the only one of its RT, needs WaitingOnce; that it carries no
\* lease yet needs LeaseHasHolder.
IInv == TypeOK /\ WaitingOnce /\ LeaseHasHolder

\* A sweep drops leases that have run out and changes no other.
LEMMA SweptFacts ==
    ASSUME TypeOK
    PROVE  /\ Swept \in [Rts -> Nat]
           /\ \A r \in Rts : Swept[r] # NoLease => Swept[r] = expires[r]
           /\ \A r \in Rts : expires[r] > clock => Swept[r] = expires[r]
BY DEF TypeOK, Swept, NoLease

LEMMA InitIInv == Init => IInv
BY DEF Init, IInv, TypeOK, WaitingOnce, LeaseHasHolder, Waiting, Leased, NoLease

LEMMA PushIInv ==
    ASSUME IInv, NEW r \in Rts, Push(r)
    PROVE  IInv'
<1> DEFINE n == Len(pending)
<1>1. n \in Nat /\ pending \in Seq(Rts)
  BY DEF IInv, TypeOK
<1>2. /\ Len(pending') = n + 1
      /\ pending' \in Seq(Rts)
      /\ pending'[n + 1] = r
      /\ \A i \in 1..n : pending'[i] = pending[i]
  BY <1>1 DEF Push
<1>3. TypeOK'
  BY <1>2, SweptFacts DEF IInv, TypeOK, Push
<1>4. r \notin Waiting
  BY DEF IInv, WaitingOnce, Push
<1>5. Waiting' = Waiting \cup {r}
  BY <1>1, <1>2 DEF Waiting
<1>6. WaitingOnce'
  <2>1. ASSUME NEW q \in Rts PROVE q \in Waiting' <=> holder'[q] = "queued"
    BY <1>5 DEF IInv, TypeOK, WaitingOnce, Push
  <2>2. ASSUME NEW i \in 1..(n + 1), NEW j \in 1..(n + 1), pending'[i] = pending'[j]
        PROVE  i = j
    BY <1>1, <1>2, <1>4, <2>2 DEF IInv, WaitingOnce, Waiting
  <2>3. QED
    BY <1>2, <2>1, <2>2 DEF WaitingOnce
<1>7. LeaseHasHolder'
  BY SweptFacts DEF IInv, TypeOK, LeaseHasHolder, Leased, Push
<1>8. QED
  BY <1>3, <1>6, <1>7 DEF IInv

LEMMA PopIInv ==
    ASSUME IInv, NEW scope \in Scopes, Pop(scope)
    PROVE  IInv'
<1> DEFINE n == Len(pending)
<1>1. n \in Nat /\ pending \in Seq(Rts)
  BY DEF IInv, TypeOK
<1>2. PICK k \in 1..n :
         /\ pending' = RemoveAt(pending, k)
         /\ expires' = [Swept EXCEPT ![pending[k]] = clock + Ttl]
         /\ holder' = [holder EXCEPT ![pending[k]] = "out"]
  BY DEF Pop, HandOut
<1> DEFINE r == pending[k]
<1>3. r \in Rts
  BY <1>1
<1>4. /\ pending' \in Seq(Rts)
      /\ Len(pending') = n - 1
      /\ \A j \in 1..(n - 1) :
            pending'[j] = IF j < k THEN pending[j] ELSE pending[j + 1]
  BY <1>1, <1>2, RemoveAtFacts
<1> HIDE DEF r
<1>5. holder[r] = "queued"
  BY <1>3 DEF IInv, WaitingOnce, Waiting, r
<1>6. TypeOK'
  BY <1>2, <1>3, <1>4, SweptFacts, QueueAssumption DEF IInv, TypeOK, Pop, HandOut, r
<1>7. \A i, j \in 1..(n - 1) : pending'[i] = pending'[j] => i = j
  BY <1>1, <1>4 DEF IInv, WaitingOnce
<1>8. Waiting' = Waiting \ {r}
  <2>1. ASSUME NEW q \in Waiting' PROVE q \in Waiting \ {r}
    <3>1. PICK j \in 1..(n - 1) : q = pending'[j]
      BY <1>4 DEF Waiting
    <3>2. CASE j < k
      BY <1>1, <1>4, <3>1, <3>2 DEF IInv, WaitingOnce, Waiting, r
    <3>3. CASE ~(j < k)
      BY <1>1, <1>4, <3>1, <3>3 DEF IInv, WaitingOnce, Waiting, r
    <3>4. QED
      BY <3>2, <3>3
  <2>2. ASSUME NEW q \in Waiting \ {r} PROVE q \in Waiting'
    <3>1. PICK j \in 1..n : q = pending[j] /\ j # k
      BY <2>2 DEF Waiting, r
    <3>2. CASE j < k
      <4>1. j \in 1..(n - 1) /\ pending'[j] = q
        BY <1>1, <1>4, <3>1, <3>2
      <4>2. QED
        BY <4>1, <1>4 DEF Waiting
    <3>3. CASE j > k
      <4>1. (j - 1) \in 1..(n - 1) /\ ~(j - 1 < k) /\ (j - 1) + 1 = j
        BY <1>1, <3>1, <3>3
      <4>2. pending'[j - 1] = q
        BY <1>4, <3>1, <4>1
      <4>3. QED
        BY <1>4, <4>1, <4>2 DEF Waiting
    <3>4. QED
      BY <1>1, <3>1, <3>2, <3>3
  <2>3. QED
    BY <2>1, <2>2
<1>9. WaitingOnce'
  <2>1. ASSUME NEW q \in Rts PROVE q \in Waiting' <=> holder'[q] = "queued"
    BY <1>2, <1>3, <1>8 DEF IInv, TypeOK, WaitingOnce, r
  <2>2. QED
    BY <1>4, <1>7, <2>1 DEF WaitingOnce
<1>10. LeaseHasHolder'
  BY <1>2, <1>3, SweptFacts DEF IInv, TypeOK, LeaseHasHolder, Leased, r
<1>11. QED
  BY <1>6, <1>9, <1>10 DEF IInv

LEMMA ReleaseIInv ==
    ASSUME IInv, NEW r \in Rts, Release(r)
    PROVE  IInv'
<1>1. TypeOK'
  BY SweptFacts DEF IInv, TypeOK, Release, Freed, NoLease
<1>2. WaitingOnce'
  BY DEF IInv, TypeOK, WaitingOnce, Waiting, Release, Freed
<1>3. LeaseHasHolder'
  BY SweptFacts DEF IInv, TypeOK, LeaseHasHolder, Leased, Release, Freed
<1>4. QED
  BY <1>1, <1>2, <1>3 DEF IInv

LEMMA NextIInv == IInv /\ [Next]_vars => IInv'
<1> SUFFICES ASSUME IInv, [Next]_vars
             PROVE  IInv'
  OBVIOUS
<1>1. ASSUME NEW r \in Rts, Push(r) PROVE IInv'
  BY <1>1, PushIInv
<1>2. ASSUME NEW r \in Rts, Release(r) PROVE IInv'
  BY <1>2, ReleaseIInv
<1>3. ASSUME NEW scope \in Scopes, Pop(scope) PROVE IInv'
  BY <1>3, PopIInv
<1>4. CASE Tick
  BY <1>4 DEF Tick, IInv, TypeOK, WaitingOnce, Waiting, LeaseHasHolder, Leased
<1>5. CASE UNCHANGED vars
  BY <1>5 DEF vars, IInv, TypeOK, WaitingOnce, Waiting, LeaseHasHolder, Leased
<1>6. QED
  BY <1>1, <1>2, <1>3, <1>4, <1>5 DEF Next

\* In every reachable state the queue is well-typed, an RT waits exactly while
\* nobody was handed it, and every lease has a holder (queue_store.py push, pop,
\* release).
THEOREM QueueSafe == Spec => [](TypeOK /\ WaitingOnce /\ LeaseHasHolder)
<1>1. Spec => []IInv
  BY InitIInv, NextIInv, PTL DEF Spec
<1>2. QED
  BY <1>1, PTL DEF IInv

\* TypeOK: list, lease ledger and clock keep their shape through every push, pop, sweep
\* and release (queue_store.py).
THEOREM QueueTyped == Spec => []TypeOK
BY QueueSafe, PTL

\* No push, pop, sweep or release made for another RT takes a live lease away
\* (the comment of persona_queue_release: only the caller's own record goes).
THEOREM LeasesSurvive == Spec => LiveLeaseKept
<1> DEFINE Kept(r) == holder[r] = "out" /\ holder'[r] = "out" /\ expires[r] > clock
                         => expires'[r] = expires[r]
<1>1. ASSUME IInv, [Next]_vars, NEW r \in Rts
      PROVE  Kept(r)
  <2>1. ASSUME NEW q \in Rts, Push(q) PROVE Kept(r)
    BY <1>1, <2>1, SweptFacts DEF IInv, Push
  <2>2. ASSUME NEW q \in Rts, Release(q) PROVE Kept(r)
    BY <1>1, <2>2, SweptFacts DEF IInv, TypeOK, Release, Freed
  <2>3. ASSUME NEW scope \in Scopes, Pop(scope) PROVE Kept(r)
    <3>1. PICK k \in 1..Len(pending) :
             expires' = [Swept EXCEPT ![pending[k]] = clock + Ttl]
      BY <2>3 DEF Pop, HandOut
    <3>2. pending[k] \in Rts /\ holder[pending[k]] = "queued"
      BY <1>1 DEF IInv, TypeOK, WaitingOnce, Waiting
    <3>3. QED
      BY <1>1, <3>1, <3>2, SweptFacts DEF IInv
  <2>4. CASE Tick \/ UNCHANGED vars
    BY <2>4 DEF Tick, vars
  <2>5. QED
    BY <1>1, <2>1, <2>2, <2>3, <2>4 DEF Next
<1>2. IInv /\ [Next]_vars =>
         [\A r \in Rts :
             holder[r] = "out" /\ holder'[r] = "out" /\ expires[r] > clock
                => expires'[r] = expires[r]]_vars
  BY <1>1
<1>3. QED
  BY InitIInv, NextIInv, <1>2, PTL DEF Spec, LiveLeaseKept

\* A chain's RTs leave the list in the order they entered it, whichever scopes
\* the pops of other chains use.
THEOREM QueueFifo == Spec => ChainFifo
<1> DEFINE Ordered ==
       \A i, j \in 1..Len(pending) :
          /\ i < j
          /\ ChainOf[pending[i]] = ChainOf[pending[j]]
          /\ holder'[pending[j]] # "queued"
          => holder'[pending[i]] # "queued"
<1>1. ASSUME IInv, [Next]_vars
      PROVE  Ordered
  <2>1. \A i \in 1..Len(pending) : pending[i] \in Rts /\ holder[pending[i]] = "queued"
    BY <1>1 DEF IInv, TypeOK, WaitingOnce, Waiting
  <2>2. ASSUME NEW q \in Rts, Push(q) PROVE Ordered
    BY <1>1, <2>1, <2>2 DEF IInv, TypeOK, Push
  <2>3. ASSUME NEW q \in Rts, Release(q) PROVE Ordered
    BY <1>1, <2>1, <2>3 DEF IInv, TypeOK, Release, Freed
  <2>4. ASSUME NEW scope \in Scopes, Pop(scope) PROVE Ordered
    <3>1. PICK k \in 1..Len(pending) :
             /\ IsFirst(k, pending, scope)
             /\ holder' = [holder EXCEPT ![pending[k]] = "out"]
      BY <2>4 DEF Pop, HandOut
    <3>2. ASSUME NEW i \in 1..Len(pending), NEW j \in 1..Len(pending), i < j,
                 ChainOf[pending[i]] = ChainOf[pending[j]],
                 holder'[pending[j]] # "queued"
          PROVE  FALSE
      <4>1. j = k
        BY <1>1, <2>1, <3>1, <3>2 DEF IInv, TypeOK, WaitingOnce
      <4>2. pending[i] \in scope
        BY <2>1, <3>1, <3>2, <4>1 DEF Scopes, IsFirst
      <4>3. i \in 1..(k - 1)
        BY <3>2, <4>1
      <4>4. QED
        BY <3>1, <4>2, <4>3 DEF IsFirst
    <3>3. QED
      BY <3>2
  <2>5. CASE Tick \/ UNCHANGED vars
    BY <2>1, <2>5 DEF Tick, vars
  <2>6. QED
    BY <1>1, <2>2, <2>3, <2>4, <2>5 DEF Next
<1>2. QED
  BY <1>1, InitIInv, NextIInv, PTL DEF Spec, ChainFifo

\* The queue implements the hand-out ledger: an RT goes to one caller, once.
THEOREM QueueImplementsHandout == Spec => Implements
<1>1. Init => Handout!Init
  BY DEF Init, Handout!Init
<1>2. ASSUME IInv, [Next]_vars
      PROVE  [Handout!Next]_holder
  <2> USE DEF Handout!Next, Handout!Move
  <2>1. ASSUME NEW r \in Rts, Push(r) PROVE Handout!Next
    BY <2>1 DEF Push
  <2>2. ASSUME NEW r \in Rts, Release(r) PROVE [Handout!Next]_holder
    <3>1. CASE holder[r] = "out"
      BY <2>2, <3>1 DEF Release, Freed
    <3>2. CASE holder[r] # "out"
      BY <1>2, <2>2, <3>2 DEF Release, Freed, IInv, TypeOK
    <3>3. QED
      BY <3>1, <3>2
  <2>3. ASSUME NEW scope \in Scopes, Pop(scope) PROVE Handout!Next
    <3>1. PICK k \in 1..Len(pending) :
             holder' = [holder EXCEPT ![pending[k]] = "out"]
      BY <2>3 DEF Pop, HandOut
    <3>2. pending[k] \in Rts /\ holder[pending[k]] = "queued"
      BY <1>2 DEF IInv, TypeOK, WaitingOnce, Waiting
    <3>3. QED
      BY <3>1, <3>2
  <2>4. CASE Tick \/ UNCHANGED vars
    BY <2>4 DEF Tick, vars
  <2>5. QED
    BY <1>2, <2>1, <2>2, <2>3, <2>4 DEF Next
<1>3. QED
  BY <1>1, <1>2, InitIInv, NextIInv, PTL DEF Spec, Implements, Handout!Spec

-----------------------------------------------------------------------------
(* Texts: a separator that a text lacks cuts what is before it from what is after it. *)

Tokens == STRING \cup
    {"/", "users", "identities", ".json", "profiles", "profile.json", "idempotency",
     "refresh-tokens", "sessions", "runtime", "outputs", "media", "drawings",
     "manifest.context.yaml", "manifest.runtime.yaml", "00.dro", "conversation.json",
     "models", "manifest.models.yaml", "invention-object-model.json", "concept-maturity-model.json",
     "user-roadmap.json", "concept-discovery-stack.json",
     "manifest.drawing.yaml", "manifest.", "outputs.yaml", "manifest.json", "trail.jsonl",
     "agent_state.json", "numerals.json", "dl.json", "figure.json", "queue", "rts", "."}
Text == Seq(Tokens)
Lacks(s, x) == s \in Text /\ ~Contains(s, x)

Sep(p, x, y) == p \o <<x>> \o y

LEMMA TextFacts ==
    ASSUME NEW p \in Text
    PROVE  Len(p) \in Nat /\ DOMAIN p = 1..Len(p) /\ \A i \in 1..Len(p) : p[i] \in Tokens
BY DEF Text

LEMMA SameText ==
    ASSUME NEW p \in Text, NEW q \in Text, Len(p) = Len(q), \A i \in 1..Len(p) : p[i] = q[i]
    PROVE  p = q
BY SeqEqual DEF Text

LEMMA ConcatFacts ==
    ASSUME NEW p \in Text, NEW q \in Text
    PROVE  /\ p \o q \in Text /\ Len(p \o q) = Len(p) + Len(q)
           /\ \A i \in 1..Len(p) : (p \o q)[i] = p[i]
           /\ \A i \in 1..Len(q) : (p \o q)[Len(p) + i] = q[i]
<1> DEFINE s == p \o q
<1>1. s \in Text /\ Len(s) = Len(p) + Len(q)
      /\ \A i \in 1..Len(p) + Len(q) : s[i] = IF i <= Len(p) THEN p[i] ELSE q[i - Len(p)]
  BY ConcatProperties DEF Text
<1>2. Len(p) \in Nat /\ Len(q) \in Nat
  BY TextFacts
<1> HIDE DEF s
<1>3. ASSUME NEW i \in 1..Len(p) PROVE s[i] = p[i]
  BY <1>1, <1>2
<1>4. ASSUME NEW i \in 1..Len(q) PROVE s[Len(p) + i] = q[i]
  <2>1. Len(p) + i \in 1..Len(p) + Len(q) /\ ~(Len(p) + i <= Len(p)) /\ (Len(p) + i) - Len(p) = i
    BY <1>2
  <2>2. QED
    BY <1>1, <2>1
<1>5. QED
  BY <1>1, <1>3, <1>4 DEF s

IsJoin(s, p, x, y) ==
    /\ s \in Text /\ Len(s) = Len(p) + 1 + Len(y)
    /\ \A i \in 1..Len(p) : s[i] = p[i]
    /\ s[Len(p) + 1] = x
    /\ \A i \in 1..Len(y) : s[Len(p) + 1 + i] = y[i]

LEMMA JoinFacts ==
    ASSUME NEW p \in Text, NEW x \in Tokens, NEW y \in Text
    PROVE  IsJoin(Sep(p, x, y), p, x, y)
<1> DEFINE r == p \o <<x>>
           s == r \o y
<1>1. <<x>> \in Text /\ Len(<<x>>) = 1 /\ <<x>>[1] = x /\ 1 \in 1..Len(<<x>>)
  BY DEF Text
<1>2. Len(p) \in Nat /\ Len(y) \in Nat
  BY TextFacts
<1>3. /\ r \in Text /\ Len(r) = Len(p) + 1
      /\ \A i \in 1..Len(p) : r[i] = p[i]
      /\ r[Len(p) + 1] = x
  BY <1>1, ConcatFacts
<1> HIDE DEF r
<1>4. /\ s \in Text /\ Len(s) = Len(r) + Len(y)
      /\ \A i \in 1..Len(r) : s[i] = r[i]
      /\ \A i \in 1..Len(y) : s[Len(r) + i] = y[i]
  BY <1>3, ConcatFacts
<1> HIDE DEF s
<1>5. \A i \in 1..Len(p) : s[i] = p[i]
  BY <1>2, <1>3, <1>4
<1>6. s[Len(p) + 1] = x
  BY <1>2, <1>3, <1>4
<1>7. s = Sep(p, x, y)
  BY DEF s, r, Sep
<1>8. s \in Text /\ Len(s) = Len(p) + 1 + Len(y) /\ \A i \in 1..Len(y) : s[Len(p) + 1 + i] = y[i]
  BY <1>3, <1>4
<1>9. IsJoin(s, p, x, y)
  BY <1>5, <1>6, <1>8, Zenon DEF IsJoin
<1>10. QED
  BY <1>7, <1>9

LEMMA PrefixFacts ==
    ASSUME NEW s \in Text, NEW t \in Text
    PROVE  IsPrefix(s, t) <=> Len(s) <= Len(t) /\ \A i \in 1..Len(s) : s[i] = t[i]
BY DEF Text, IsPrefix

LEMMA AfterFacts ==
    ASSUME NEW s \in Text, NEW t \in Text, Len(s) <= Len(t)
    PROVE  /\ After(s, t) \in Text /\ Len(After(s, t)) = Len(t) - Len(s)
           /\ \A i \in 1..Len(t) - Len(s) : After(s, t)[i] = t[Len(s) + i]
BY DEF Text, After

\* A separator that both heads lack: a prefix agrees on the head, and its rest is a
\* prefix of the other's rest.
LEMMA CutPrefix ==
    ASSUME NEW x \in Tokens, NEW p, Lacks(p, x), NEW a, Lacks(a, x), NEW y \in Text, NEW q \in Text
    PROVE  /\ IsPrefix(Sep(p, x, y), Sep(a, x, q)) <=> p = a /\ IsPrefix(y, q)
           /\ IsPrefix(Sep(p, x, y), Sep(a, x, q)) =>
                 After(Sep(p, x, y), Sep(a, x, q)) = After(y, q)
<1> DEFINE s == Sep(p, x, y)
           t == Sep(a, x, q)
<1>0. p \in Text /\ a \in Text /\ Len(p) \in Nat /\ Len(a) \in Nat /\ Len(y) \in Nat /\ Len(q) \in Nat
      /\ (\A i \in 1..Len(p) : p[i] # x) /\ (\A i \in 1..Len(a) : a[i] # x)
  BY TextFacts DEF Lacks, Contains
<1>1. /\ s \in Text /\ Len(s) = Len(p) + 1 + Len(y)
      /\ \A i \in 1..Len(p) : s[i] = p[i]
      /\ s[Len(p) + 1] = x
      /\ \A i \in 1..Len(y) : s[Len(p) + 1 + i] = y[i]
  <2>1. p \in Text /\ x \in Tokens /\ y \in Text
    BY <1>0
  <2>2. IsJoin(s, p, x, y)
    BY <2>1, JoinFacts
  <2>3. QED
    BY <2>2 DEF IsJoin
<1>2. /\ t \in Text /\ Len(t) = Len(a) + 1 + Len(q)
      /\ \A i \in 1..Len(a) : t[i] = a[i]
      /\ t[Len(a) + 1] = x
      /\ \A i \in 1..Len(q) : t[Len(a) + 1 + i] = q[i]
  <2>1. a \in Text /\ x \in Tokens /\ q \in Text
    BY <1>0
  <2>2. IsJoin(t, a, x, q)
    BY <2>1, JoinFacts
  <2>3. QED
    BY <2>2 DEF IsJoin
<1> HIDE DEF s, t
<1>3. ASSUME IsPrefix(s, t) PROVE p = a /\ IsPrefix(y, q) /\ After(s, t) = After(y, q)
  <2>1. Len(s) <= Len(t) /\ \A i \in 1..Len(s) : s[i] = t[i]
    BY <1>1, <1>2, <1>3, PrefixFacts
  <2>2. Len(p) = Len(a)
    <3>1. ~(Len(p) < Len(a))
      <4>1. SUFFICES ASSUME Len(p) < Len(a) PROVE FALSE
        OBVIOUS
      <4>2. Len(p) + 1 \in 1..Len(s) /\ Len(p) + 1 \in 1..Len(a)
        BY <1>0, <1>1, <4>1
      <4>3. QED
        BY <1>0, <1>1, <1>2, <2>1, <4>2
    <3>2. ~(Len(a) < Len(p))
      <4>1. SUFFICES ASSUME Len(a) < Len(p) PROVE FALSE
        OBVIOUS
      <4>2. Len(a) + 1 \in 1..Len(s) /\ Len(a) + 1 \in 1..Len(p)
        BY <1>0, <1>1, <4>1
      <4>3. QED
        BY <1>0, <1>1, <1>2, <2>1, <4>2
    <3>3. QED
      BY <1>0, <3>1, <3>2
  <2>3. p = a
    <3>1. \A i \in 1..Len(p) : p[i] = a[i]
      BY <1>0, <1>1, <1>2, <2>1, <2>2
    <3>2. QED
      BY <1>0, <2>2, <3>1, SameText
  <2>4. \A i \in 1..Len(y) : y[i] = q[i]
    <3>1. ASSUME NEW i \in 1..Len(y) PROVE y[i] = q[i]
      <4>1. Len(p) + 1 + i \in 1..Len(s) /\ i \in 1..Len(q)
        BY <1>0, <1>1, <1>2, <2>1, <2>2
      <4>2. s[Len(p) + 1 + i] = t[Len(p) + 1 + i]
        BY <2>1, <4>1
      <4>3. QED
        BY <1>1, <1>2, <2>2, <4>1, <4>2
    <3>2. QED
      BY <3>1
  <2>5. IsPrefix(y, q)
    BY <1>0, <1>1, <1>2, <2>1, <2>2, <2>4, PrefixFacts
  <2>6. After(s, t) = After(y, q)
    <3>1. Len(y) <= Len(q)
      BY <1>0, <1>1, <1>2, <2>1, <2>2
    <3>2. /\ After(s, t) \in Text /\ Len(After(s, t)) = Len(q) - Len(y)
          /\ \A i \in 1..Len(q) - Len(y) : After(s, t)[i] = t[Len(s) + i]
      <4>1. Len(t) - Len(s) = Len(q) - Len(y)
        BY <1>0, <1>1, <1>2, <2>2
      <4>3. s \in Text /\ t \in Text /\ Len(s) <= Len(t)
        BY <1>1, <1>2, <2>1
      <4>2. QED
        BY ONLY <4>1, <4>3, AfterFacts
    <3>3. /\ After(y, q) \in Text /\ Len(After(y, q)) = Len(q) - Len(y)
          /\ \A i \in 1..Len(q) - Len(y) : After(y, q)[i] = q[Len(y) + i]
      BY <3>1, AfterFacts
    <3>4. ASSUME NEW i \in 1..Len(q) - Len(y) PROVE t[Len(s) + i] = q[Len(y) + i]
      <4>1. Len(y) + i \in 1..Len(q) /\ Len(s) + i = Len(a) + 1 + (Len(y) + i)
        BY <1>0, <1>1, <2>2, <3>1
      <4>2. QED
        BY <1>2, <4>1
    <3>5. QED
      BY <3>2, <3>3, <3>4, SameText
  <2>7. QED
    BY <2>3, <2>5, <2>6
<1>4. ASSUME p = a, IsPrefix(y, q) PROVE IsPrefix(s, t)
  <2>1. Len(y) <= Len(q) /\ \A i \in 1..Len(y) : y[i] = q[i]
    BY <1>4, PrefixFacts
  <2>2. ASSUME NEW i \in 1..Len(s) PROVE s[i] = t[i]
    <3>1. CASE i <= Len(p)
      BY <1>0, <1>1, <1>2, <1>4, <3>1
    <3>2. CASE i = Len(p) + 1
      BY <1>1, <1>2, <1>4, <3>2
    <3>3. CASE i > Len(p) + 1
      <4>1. i - (Len(p) + 1) \in 1..Len(y) /\ i = Len(p) + 1 + (i - (Len(p) + 1))
        BY <1>0, <1>1, <3>3
      <4>2. i - (Len(p) + 1) \in 1..Len(q)
        BY <1>0, <2>1, <4>1
      <4>3. s[i] = y[i - (Len(p) + 1)] /\ t[i] = q[i - (Len(p) + 1)]
        BY <1>1, <1>2, <1>4, <4>1, <4>2
      <4>4. QED
        BY <2>1, <4>1, <4>3
    <3>4. QED
      BY <1>0, <3>1, <3>2, <3>3
  <2>3. QED
    BY <1>0, <1>1, <1>2, <1>4, <2>1, <2>2, PrefixFacts
<1>5. QED
  BY <1>3, <1>4 DEF s, t

LEMMA Cut ==
    ASSUME NEW x \in Tokens, NEW p, Lacks(p, x), NEW a, Lacks(a, x), NEW y \in Text, NEW q \in Text,
           Sep(p, x, y) = Sep(a, x, q)
    PROVE  p = a /\ y = q
<1> DEFINE s == Sep(p, x, y)
<1>1. p \in Text /\ a \in Text /\ Len(p) \in Nat /\ Len(y) \in Nat /\ Len(q) \in Nat
  BY DEF Lacks, Text
<1>2. s \in Text /\ Len(s) = Len(p) + 1 + Len(y) /\ Len(s) = Len(a) + 1 + Len(q)
  <2>1. IsJoin(s, p, x, y) /\ IsJoin(s, a, x, q)
    BY <1>1, JoinFacts
  <2> HIDE DEF s
  <2>2. QED
    BY <2>1 DEF IsJoin
<1> HIDE DEF s
<1>3. IsPrefix(s, s)
  BY <1>2, PrefixFacts, TextFacts
<1>4. p = a /\ IsPrefix(y, q)
  BY <1>3, CutPrefix DEF s
<1>5. Len(y) = Len(q)
  BY <1>1, <1>2, <1>4
<1>6. QED
  BY <1>4, <1>5, PrefixFacts, SameText

\* A text without the separator neither is nor continues one that has it.
LEMMA NoCut ==
    ASSUME NEW x \in Tokens, NEW p \in Text, NEW y \in Text, NEW a, Lacks(a, x)
    PROVE  ~IsPrefix(Sep(p, x, y), a) /\ a # Sep(p, x, y)
<1> DEFINE s == Sep(p, x, y)
<1>1. s \in Text /\ Len(s) = Len(p) + 1 + Len(y) /\ s[Len(p) + 1] = x
  BY JoinFacts DEF IsJoin
<1>2. a \in Text /\ Len(a) \in Nat /\ \A i \in 1..Len(a) : a[i] # x
  BY DEF Lacks, Text, Contains
<1>3. Len(p) \in Nat /\ Len(y) \in Nat
  BY DEF Text
<1> HIDE DEF s
<1>4. ~IsPrefix(s, a)
  <2>1. SUFFICES ASSUME IsPrefix(s, a) PROVE FALSE
    OBVIOUS
  <2>2. Len(s) <= Len(a) /\ \A i \in 1..Len(s) : s[i] = a[i]
    BY <1>1, <1>2, <2>1, PrefixFacts
  <2>3. Len(p) + 1 \in 1..Len(s) /\ Len(p) + 1 \in 1..Len(a)
    BY <1>1, <1>2, <1>3, <2>2
  <2>4. QED
    BY <1>1, <1>2, <2>2, <2>3
<1>5. a # s
  <2>1. SUFFICES ASSUME a = s PROVE FALSE
    OBVIOUS
  <2>2. Len(p) + 1 \in 1..Len(a)
    BY <1>1, <1>3, <2>1
  <2>3. QED
    BY <1>1, <1>2, <2>1, <2>2
<1>6. QED
  BY <1>4, <1>5 DEF s

-----------------------------------------------------------------------------
(* Directories: "/" is the separator. *)

Plain(s) == Lacks(s, "/")

LEMMA SlashIsSep == \A p, q : p ++ q = Sep(p, "/", q)
BY DEF ++, Sep

LEMMA CutSlash ==
    ASSUME NEW p, NEW q, NEW y, NEW z, Plain(p), Plain(q), y \in Text, z \in Text, p ++ y = q ++ z
    PROVE  p = q /\ y = z
<1>1. "/" \in Tokens
  BY DEF Tokens
<1>2. Sep(p, "/", y) = Sep(q, "/", z)
  BY SlashIsSep
<1>3. QED
  BY <1>1, <1>2, Cut DEF Plain

LEMMA NoCutSlash ==
    ASSUME NEW p, NEW y, NEW q, Plain(q), p \in Text, y \in Text
    PROVE  q # p ++ y /\ ~IsPrefix(p ++ y, q)
<1>1. "/" \in Tokens
  BY DEF Tokens
<1>2. q # Sep(p, "/", y) /\ ~IsPrefix(Sep(p, "/", y), q)
  BY <1>1, NoCut DEF Plain
<1>3. QED
  BY <1>2, SlashIsSep

LEMMA ConcatAssoc ==
   ASSUME NEW p \in Text, NEW q \in Text, NEW r \in Text
   PROVE (p \o q) \o r = p \o (q \o r)
BY ConcatAssociative DEF Text

LEMMA SlashAssoc ==
   ASSUME NEW p \in Text, NEW q \in Text, NEW r \in Text
   PROVE  (p ++ q) ++ r = p ++ (q ++ r) /\ p ++ q \in Text
<1> DEFINE sl == <<"/">>
           ps == p \o sl
           qs == q \o sl
<1>1. sl \in Text
  BY DEF Text, Tokens
<1> HIDE DEF sl
<1>2. ps \in Text /\ qs \in Text
  BY <1>1, ConcatFacts
<1>3. qs \o r = q \o (sl \o r)
  BY <1>1, ConcatAssoc
<1> HIDE DEF ps
<1>4. (ps \o q) \o sl = ps \o qs
  BY <1>1, <1>2, ConcatAssoc
<1> HIDE DEF qs
<1>5. (ps \o qs) \o r = ps \o (qs \o r)
  BY <1>2, ConcatAssoc
<1>6. ps \o q \in Text
  BY <1>2, ConcatFacts
<1>7. p ++ q = ps \o q /\ (p ++ q) ++ r = ((ps \o q) \o sl) \o r /\ q ++ r = qs \o r
      /\ p ++ (q ++ r) = ps \o (qs \o r)
  BY DEF ++, ps, qs, sl
<1>8. QED
  BY <1>4, <1>5, <1>6, <1>7

LEMMA Assoc4 ==
    ASSUME NEW a \in Text, NEW b \in Text, NEW c \in Text, NEW d \in Text
    PROVE  a ++ b ++ c ++ d = a ++ (b ++ (c ++ d)) /\ a ++ b ++ c \in Text
<1>1. a ++ b \in Text /\ c ++ d \in Text /\ a ++ b ++ c \in Text
  BY SlashAssoc
<1>2. (a ++ b) ++ c ++ d = (a ++ b) ++ (c ++ d)
  BY <1>1, SlashAssoc
<1>3. (a ++ b) ++ (c ++ d) = a ++ (b ++ (c ++ d))
  BY <1>1, SlashAssoc
<1>4. QED
  BY <1>1, <1>2, <1>3

LEMMA Assoc5 ==
    ASSUME NEW a \in Text, NEW b \in Text, NEW c \in Text, NEW d \in Text, NEW e \in Text
    PROVE  a ++ b ++ c ++ d ++ e = a ++ (b ++ (c ++ (d ++ e))) /\ a ++ b ++ c ++ d \in Text
<1>1. d ++ e \in Text /\ a ++ b ++ c \in Text
  BY SlashAssoc, Assoc4
<1>2. (a ++ b ++ c) ++ d ++ e = a ++ b ++ c ++ (d ++ e) /\ (a ++ b ++ c) ++ d \in Text
  BY <1>1, SlashAssoc
<1>3. a ++ b ++ c ++ (d ++ e) = a ++ (b ++ (c ++ (d ++ e)))
  BY <1>1, Assoc4
<1>4. QED
  BY <1>2, <1>3

UserKinds == {"identity", "profile", "idempotency", "refresh"}
At(user, work, q) == Dir("sessions") ++ (user ++ (work ++ q))

\* The fixed names of the layout are single tokens.
LEMMA FixedNames ==
    \A x \in Tokens \ {"/"} : Plain(Dir(x))
BY DEF Plain, Lacks, Text, Dir, Contains

LEMMA FixedPlain ==
    /\ Plain(Dir("users")) /\ Plain(Dir("identities")) /\ Plain(Dir("profiles"))
    /\ Plain(Dir("idempotency")) /\ Plain(Dir("refresh-tokens"))
    /\ Plain(Dir("profile.json")) /\ Plain(Dir("sessions"))
    /\ Plain(Dir("runtime")) /\ Plain(Dir("outputs")) /\ Plain(Dir("media"))
    /\ Plain(Dir("drawings")) /\ Plain(Dir("models")) /\ Plain(Dir("00.dro"))
    /\ Plain(Dir("manifest.context.yaml")) /\ Plain(Dir("manifest.runtime.yaml"))
    /\ Plain(Dir("conversation.json")) /\ Plain(Dir("manifest.models.yaml"))
    /\ Plain(Dir("invention-object-model.json")) /\ Plain(Dir("concept-maturity-model.json"))
    /\ Plain(Dir("user-roadmap.json")) /\ Plain(Dir("concept-discovery-stack.json"))
    /\ Plain(Dir("manifest.drawing.yaml")) /\ Plain(Dir("manifest.json"))
    /\ Plain(Dir("trail.jsonl")) /\ Plain(Dir("agent_state.json"))
    /\ Plain(Dir("numerals.json")) /\ Plain(Dir("dl.json")) /\ Plain(Dir("figure.json"))
    /\ Plain(Dir("rts"))
BY FixedNames DEF Tokens

LEMMA PlainIsText == \A s : Plain(s) => s \in Text
BY DEF Plain, Lacks

LEMMA TwoTokens == Plain(<<"manifest.", "outputs.yaml">>) /\ Plain(<<"queue">>)
<1>1. <<"manifest.", "outputs.yaml">> \in Text /\ <<"queue">> \in Text
  BY DEF Text, Tokens
<1>2. QED
  BY <1>1 DEF Plain, Lacks, Contains

\* Ids have no separator in them.
LEMMA NameIsPlain ==
    ASSUME NEW s, IsName(s)
    PROVE  Plain(s)
<1>1. s \in Text
  <2>1. s \in Seq(STRING)
    BY DEF IsName
  <2>2. STRING \subseteq Tokens
    BY DEF Tokens
  <2>3. QED
    BY <2>1, <2>2, SeqMonotonic DEF Text
<1>2. QED
  BY <1>1 DEF IsName, Plain, Lacks

LEMMA PlainConcat ==
    ASSUME NEW s, Plain(s), NEW t, Plain(t)
    PROVE  Plain(s \o t)
<1> DEFINE r == s \o t
<1>1. s \in Text /\ t \in Text /\ Len(s) \in Nat /\ Len(t) \in Nat
      /\ (\A i \in 1..Len(s) : s[i] # "/") /\ (\A i \in 1..Len(t) : t[i] # "/")
  BY TextFacts DEF Plain, Lacks, Contains
<1>2. /\ r \in Text /\ Len(r) = Len(s) + Len(t)
      /\ \A i \in 1..Len(s) : r[i] = s[i]
      /\ \A i \in 1..Len(t) : r[Len(s) + i] = t[i]
  BY <1>1, ConcatFacts
<1> HIDE DEF r
<1>3. ASSUME NEW i \in 1..Len(r) PROVE r[i] # "/"
  <2>1. CASE i \in 1..Len(s)
    BY <1>1, <1>2, <2>1
  <2>2. CASE i \notin 1..Len(s)
    <3>1. i - Len(s) \in 1..Len(t) /\ i = Len(s) + (i - Len(s))
      BY <1>1, <1>2, <2>2
    <3>2. r[i] = t[i - Len(s)]
      BY <1>2, <3>1
    <3>3. QED
      BY <1>1, <3>1, <3>2
  <2>3. QED
    BY <2>1, <2>2
<1>4. Plain(r)
  BY <1>2, <1>3 DEF Plain, Lacks, Contains
<1>5. QED
  BY <1>4 DEF r

LEMMA FileFacts ==
    ASSUME NEW s, Plain(s)
    PROVE  Plain(File(s, ".json"))
<1>1. <<".json">> \in Text
  BY DEF Text, Tokens
<1>2. Plain(<<".json">>)
  BY <1>1 DEF Plain, Lacks, Contains
<1>3. QED
  BY <1>2, PlainConcat DEF File

\* The suffix of a file hides nothing of its id.
LEMMA FileSame ==
    ASSUME NEW s, Plain(s), NEW t, Plain(t), File(s, ".json") = File(t, ".json")
    PROVE  s = t
<1>1. s \in Text /\ t \in Text /\ Len(s) \in Nat /\ Len(t) \in Nat
  BY TextFacts DEF Plain, Lacks
<1>2. <<".json">> \in Text /\ Len(<<".json">>) = 1
  BY DEF Text, Tokens
<1> DEFINE x == <<".json">>
<1> HIDE DEF x
<1>3. s \o x = t \o x
  BY DEF File, x
<1>4. /\ Len(s \o x) = Len(s) + Len(x) /\ Len(t \o x) = Len(t) + Len(x)
      /\ \A i \in 1..Len(s) : (s \o x)[i] = s[i]
      /\ \A i \in 1..Len(t) : (t \o x)[i] = t[i]
  BY <1>1, <1>2, ConcatFacts DEF x
<1>5. Len(s) = Len(t)
  BY <1>1, <1>2, <1>3, <1>4 DEF x
<1>6. QED
  BY <1>1, <1>3, <1>4, <1>5, SameText

LEMMA DotFacts ==
    ASSUME NEW s, Plain(s), NEW t, Plain(t)
    PROVE  Plain(s \o <<".">> \o t)
<1>1. <<".">> \in Text
  BY DEF Text, Tokens
<1>2. Plain(<<".">>)
  BY <1>1 DEF Plain, Lacks, Contains
<1>3. Plain(s \o <<".">>)
  BY <1>2, PlainConcat
<1>4. QED
  BY <1>3, PlainConcat

\* A key of a work: its user, its work, and its place in the work.
LEMMA RootAssoc ==
    ASSUME NEW u, NEW v, Plain(u), Plain(v), NEW q \in Text
    PROVE  SessionRoot(u, v) ++ q = At(u, v, q) /\ SessionRoot(u, v) \in Text
<1>1. u \in Text /\ v \in Text /\ Dir("sessions") \in Text
  BY FixedPlain, PlainIsText
<1>2. QED
  BY <1>1, Assoc4 DEF SessionRoot, At

-----------------------------------------------------------------------------
(* The layout of the bucket. *)

Runtime == {"chains", "conversation", "queue", "dialog", "chain", "trail", "agent_state", "rt"}
Models == {"models", "iom", "cmm", "roadmap", "stack"}
Drawings == {"drawings", "numerals", "dl", "figure"}
OfChain == {"chain", "trail", "agent_state", "rt"}

\* The directory of a work a document is in, and the rest of its key.
Branch(d) ==
    CASE d.kind \in Runtime -> Dir("runtime")
      [] d.kind \in Models -> Dir("models")
      [] d.kind \in Drawings -> Dir("drawings")
      [] d.kind \in {"outputs", "output"} -> Dir("outputs")
      [] d.kind = "media" -> Dir("media")

ModelFile == [models |-> "manifest.models.yaml", iom |-> "invention-object-model.json",
              cmm |-> "concept-maturity-model.json", roadmap |-> "user-roadmap.json",
              stack |-> "concept-discovery-stack.json"]

InChain(d) == IF d.kind = "rt" THEN Dir("rts") ++ File(d.ids[3], ".json") ELSE ChainFile[d.kind]

Sub(d) ==
    CASE d.kind = "chains" -> Dir("manifest.runtime.yaml")
      [] d.kind = "conversation" -> Dir("00.dro") ++ Dir("conversation.json")
      [] d.kind = "queue" -> d.ids[1] ++ File(<<"queue">>, ".json")
      [] d.kind = "dialog" -> d.ids[1] ++ File(d.ids[2], ".json")
      [] d.kind \in OfChain -> d.ids[1] ++ (d.ids[2] ++ InChain(d))
      [] d.kind \in Models -> Dir(ModelFile[d.kind])
      [] d.kind = "drawings" -> Dir("manifest.drawing.yaml")
      [] d.kind \in {"numerals", "dl", "figure"} -> d.ids[1] ++ DrawingFile[d.kind]
      [] d.kind = "outputs" -> <<"manifest.", "outputs.yaml">>
      [] d.kind = "output" -> d.ids[1]
      [] d.kind = "media" -> d.ids[1] \o <<".">> \o d.ids[2]

WorkKinds == DOMAIN Ids \ UserKinds
TreeKinds == WorkKinds \ {"context"}

LEMMA KindSets ==
    /\ TreeKinds = Runtime \cup Models \cup Drawings \cup {"outputs", "output", "media"}
    /\ WorkKinds = TreeKinds \cup {"context"}
BY DEF TreeKinds, WorkKinds, Ids, UserKinds, Runtime, Models, Drawings

LEMMA IdFacts ==
    ASSUME NEW d, IsDocument(d)
    PROVE  /\ \A i \in 1..Ids[d.kind] : Plain(d.ids[i]) /\ d.ids[i] \in Text
           /\ d.kind \in WorkKinds => Plain(d.user) /\ Plain(d.work)
           /\ d.kind \in {"queue"} \cup {"numerals", "dl", "figure", "output"} => Plain(d.ids[1])
           /\ d.kind \in {"dialog", "media"} \cup OfChain => Plain(d.ids[1]) /\ Plain(d.ids[2])
           /\ d.kind = "rt" => Plain(d.ids[3])
<1>1. \A i \in 1..Ids[d.kind] : IsName(d.ids[i])
  BY DEF IsDocument
<1>2. \A i \in 1..Ids[d.kind] : Plain(d.ids[i]) /\ d.ids[i] \in Text
  BY <1>1, NameIsPlain, PlainIsText
<1>3. d.kind \in WorkKinds => IsName(d.user) /\ IsName(d.work)
  BY DEF IsDocument, WorkKinds, UserKinds
<1>4. d.kind \in WorkKinds => Plain(d.user) /\ Plain(d.work)
  BY <1>3, NameIsPlain
<1>5. /\ d.kind \in {"queue"} \cup {"numerals", "dl", "figure", "output"} => 1 \in 1..Ids[d.kind]
      /\ d.kind \in {"dialog", "media"} \cup OfChain => 1 \in 1..Ids[d.kind] /\ 2 \in 1..Ids[d.kind]
      /\ d.kind = "rt" => 3 \in 1..Ids[d.kind]
  BY DEF Ids, OfChain
<1>6. QED
  BY <1>2, <1>4, <1>5

\* Where the documents of the runtime branch are.
LEMMA LayoutRuntime ==
    ASSUME NEW d, IsDocument(d), d.kind \in Runtime
    PROVE  /\ KeyOf(d) = SessionRoot(d.user, d.work) ++ (Dir("runtime") ++ Sub(d))
           /\ Sub(d) \in Text
<1> DEFINE g == SessionRoot(d.user, d.work)
           r == Dir("runtime")
           p == d.ids[1]
           c == d.ids[2]
<1>1. d.kind \in WorkKinds
  BY KindSets
<1>2. Plain(d.user) /\ Plain(d.work) /\ <<>> \in Text
  BY <1>1, IdFacts DEF Text
<1>3. g \in Text /\ r \in Text
  BY <1>2, RootAssoc, FixedPlain, PlainIsText
<1>4. CASE d.kind = "chains"
  <2>1. KeyOf(d) = g ++ WorkFile.chains /\ Sub(d) = Dir("manifest.runtime.yaml")
    BY <1>4 DEF KeyOf, Sub, Models, OfChain, WorkFile, ChainFile, DrawingFile
  <2>2. WorkFile.chains = r ++ Dir("manifest.runtime.yaml")
    BY DEF WorkFile
  <2>3. QED
    BY <2>1, <2>2, FixedPlain, PlainIsText
<1>5. CASE d.kind = "conversation"
  <2>1. KeyOf(d) = g ++ WorkFile.conversation /\ Sub(d) = Dir("00.dro") ++ Dir("conversation.json")
    BY <1>5 DEF KeyOf, Sub, Models, OfChain, WorkFile, ChainFile, DrawingFile
  <2>2. WorkFile.conversation = r ++ Dir("00.dro") ++ Dir("conversation.json")
    BY DEF WorkFile
  <2>3. Dir("00.dro") \in Text /\ Dir("conversation.json") \in Text
    BY FixedPlain, PlainIsText
  <2> HIDE DEF g, r
  <2>4. QED
    BY <1>3, <2>1, <2>2, <2>3, SlashAssoc DEF g, r
<1>6. CASE d.kind = "queue"
  <2>1. KeyOf(d) = g ++ r ++ p ++ File(<<"queue">>, ".json") /\ Sub(d) = p ++ File(<<"queue">>, ".json")
    BY <1>6 DEF KeyOf, Sub, Models, OfChain, WorkFile, ChainFile, DrawingFile, PersonaRoot, RuntimeRoot
  <2>2. p \in Text /\ File(<<"queue">>, ".json") \in Text
    BY <1>6, IdFacts, TwoTokens, FileFacts, PlainIsText
  <2> HIDE DEF g, r, p
  <2>3. QED
    BY <1>3, <2>1, <2>2, Assoc4, SlashAssoc DEF g, r
<1>7. CASE d.kind = "dialog"
  <2>1. KeyOf(d) = g ++ r ++ p ++ File(c, ".json") /\ Sub(d) = p ++ File(c, ".json")
    BY <1>7 DEF KeyOf, Sub, Models, OfChain, WorkFile, ChainFile, DrawingFile, PersonaRoot, RuntimeRoot
  <2>2. p \in Text /\ File(c, ".json") \in Text
    BY <1>7, IdFacts, FileFacts, PlainIsText
  <2> HIDE DEF g, r, p
  <2>3. QED
    BY <1>3, <2>1, <2>2, Assoc4, SlashAssoc DEF g, r
<1>8. CASE d.kind \in OfChain
  <2> DEFINE f == InChain(d)
  <2>1. p \in Text /\ c \in Text
    BY <1>8, IdFacts, PlainIsText DEF OfChain
  <2>2. Sub(d) = p ++ (c ++ f)
    BY <1>8 DEF Sub, OfChain, Models
  <2>3. KeyOf(d) = g ++ r ++ p ++ c ++ f /\ f \in Text
    <3>1. CASE d.kind = "rt"
      <4> DEFINE t == Dir("rts")
                 n == File(d.ids[3], ".json")
                 h == g ++ r ++ p ++ c
      <4>1. KeyOf(d) = (h ++ t) ++ n /\ f = t ++ n
        BY <3>1 DEF KeyOf, WorkFile, ChainFile, DrawingFile, ChainDir, PersonaRoot, RuntimeRoot, InChain
      <4>2. t \in Text /\ n \in Text
        BY <3>1, IdFacts, FileFacts, FixedPlain, PlainIsText
      <4> HIDE DEF g, r, p, c, t, n
      <4>3. h \in Text
        BY <1>3, <2>1, Assoc4, SlashAssoc
      <4> HIDE DEF h, f
      <4>4. (h ++ t) ++ n = h ++ (t ++ n) /\ t ++ n \in Text
        BY <4>2, <4>3, SlashAssoc
      <4>5. QED
        BY <4>1, <4>4 DEF h
    <3>2. CASE d.kind \in {"chain", "trail", "agent_state"}
      <4>1. KeyOf(d) = g ++ r ++ p ++ c ++ ChainFile[d.kind] /\ f = ChainFile[d.kind]
        BY <3>2 DEF KeyOf, WorkFile, ChainFile, DrawingFile, ChainDir, PersonaRoot, RuntimeRoot, InChain
      <4>2. ChainFile[d.kind] \in Text
        BY <3>2, FixedPlain, PlainIsText DEF ChainFile
      <4>3. QED
        BY <4>1, <4>2
    <3>3. QED
      BY <1>8, <3>1, <3>2 DEF OfChain
  <2> HIDE DEF g, r, p, c, f
  <2>4. c ++ f \in Text
    BY <2>1, <2>3, SlashAssoc
  <2>5. p ++ (c ++ f) \in Text
    BY <2>1, <2>4, SlashAssoc
  <2>6. g ++ r ++ p ++ c ++ f = g ++ (r ++ (p ++ (c ++ f)))
    BY <1>3, <2>1, <2>3, Assoc5
  <2>7. QED
    BY <2>2, <2>3, <2>5, <2>6 DEF g, r
<1>9. QED
  BY <1>4, <1>5, <1>6, <1>7, <1>8 DEF Runtime, OfChain

\* Where the documents of the other branches are.
LEMMA LayoutOther ==
    ASSUME NEW d, IsDocument(d), d.kind \in TreeKinds \ Runtime
    PROVE  /\ KeyOf(d) = SessionRoot(d.user, d.work) ++ (Branch(d) ++ Sub(d))
           /\ Sub(d) \in Text
<1> DEFINE g == SessionRoot(d.user, d.work)
           p == d.ids[1]
<1>1. d.kind \in WorkKinds
  BY KindSets
<1>2. Plain(d.user) /\ Plain(d.work) /\ <<>> \in Text
  BY <1>1, IdFacts DEF Text
<1>3. g \in Text
  BY <1>2, RootAssoc, FixedPlain, PlainIsText
<1>4. CASE d.kind \in Models
  <2>1. KeyOf(d) = g ++ WorkFile[d.kind] /\ Sub(d) = Dir(ModelFile[d.kind])
    BY <1>4 DEF KeyOf, Sub, WorkFile, ChainFile, DrawingFile, Models, OfChain
  <2>2. Branch(d) = Dir("models")
    BY <1>4 DEF Models, Branch, Runtime, Drawings
  <2>5. WorkFile[d.kind] = Dir("models") ++ Dir(ModelFile[d.kind])
    BY <1>4 DEF WorkFile, ModelFile, Models
  <2>3. Plain(Dir(ModelFile[d.kind]))
    BY <1>4, FixedPlain DEF ModelFile, Models
  <2>4. QED
    BY <2>1, <2>2, <2>3, <2>5, PlainIsText
<1>5. CASE d.kind = "drawings"
  <2>1. KeyOf(d) = g ++ WorkFile.drawings /\ Sub(d) = Dir("manifest.drawing.yaml")
    BY <1>5 DEF KeyOf, Sub, WorkFile, ChainFile, DrawingFile, Models, OfChain
  <2>2. WorkFile.drawings = Dir("drawings") ++ Dir("manifest.drawing.yaml") /\ Branch(d) = Dir("drawings")
    BY <1>5 DEF WorkFile, Branch, Runtime, Models, Drawings
  <2>3. QED
    BY <2>1, <2>2, FixedPlain, PlainIsText
<1>6. CASE d.kind = "outputs"
  <2>1. KeyOf(d) = g ++ WorkFile.outputs /\ Sub(d) = <<"manifest.", "outputs.yaml">>
    BY <1>6 DEF KeyOf, Sub, WorkFile, ChainFile, DrawingFile, Models, OfChain
  <2>2. WorkFile.outputs = Dir("outputs") ++ <<"manifest.", "outputs.yaml">> /\ Branch(d) = Dir("outputs")
    BY <1>6 DEF WorkFile, Branch, Runtime, Models, Drawings
  <2>3. QED
    BY <2>1, <2>2, TwoTokens, PlainIsText
<1>7. CASE d.kind = "output"
  <2>1. KeyOf(d) = (g ++ Dir("outputs")) ++ p /\ Sub(d) = p /\ Branch(d) = Dir("outputs")
    BY <1>7 DEF KeyOf, Sub, WorkFile, ChainFile, DrawingFile, OutputsRoot, Branch, Runtime, Models,
       Drawings, OfChain
  <2>2. p \in Text /\ Dir("outputs") \in Text
    BY <1>7, IdFacts, FixedPlain, PlainIsText
  <2> HIDE DEF g, p
  <2>3. QED
    BY <1>3, <2>1, <2>2, SlashAssoc DEF g
<1>8. CASE d.kind = "media"
  <2> DEFINE n == p \o <<".">> \o d.ids[2]
  <2>1. KeyOf(d) = (g ++ Dir("media")) ++ n /\ Sub(d) = n /\ Branch(d) = Dir("media")
    BY <1>8 DEF KeyOf, Sub, WorkFile, ChainFile, DrawingFile, MediaRoot, Branch, Runtime, Models,
       Drawings, OfChain
  <2>2. n \in Text /\ Dir("media") \in Text
    BY <1>8, IdFacts, FixedPlain, PlainIsText, DotFacts
  <2> HIDE DEF g, n
  <2>3. QED
    BY <1>3, <2>1, <2>2, SlashAssoc DEF g
<1>9. CASE d.kind \in {"numerals", "dl", "figure"}
  <2> DEFINE n == DrawingFile[d.kind]
  <2>1. KeyOf(d) = g ++ Dir("drawings") ++ p ++ n /\ Sub(d) = p ++ n /\ Branch(d) = Dir("drawings")
    BY <1>9 DEF KeyOf, Sub, WorkFile, ChainFile, DrawingFile, DrawingDir, Branch, Runtime, Models,
       Drawings, OfChain
  <2>2. p \in Text /\ Dir("drawings") \in Text /\ n \in Text
    BY <1>9, IdFacts, FixedPlain, PlainIsText DEF DrawingFile
  <2> HIDE DEF g, n, p
  <2>3. QED
    BY <1>3, <2>1, <2>2, Assoc4, SlashAssoc DEF g
<1>10. QED
  BY <1>4, <1>5, <1>6, <1>7, <1>8, <1>9, KindSets DEF Drawings

LEMMA Branches ==
    ASSUME NEW d, d.kind \in TreeKinds
    PROVE  /\ d.kind \in Runtime => Branch(d) = Dir("runtime")
           /\ d.kind \in Models => Branch(d) = Dir("models")
           /\ d.kind \in Drawings => Branch(d) = Dir("drawings")
           /\ d.kind \in {"outputs", "output"} => Branch(d) = Dir("outputs")
           /\ d.kind = "media" => Branch(d) = Dir("media")
           /\ Plain(Branch(d))
<1>1. CASE d.kind \in Runtime
  BY <1>1, FixedPlain DEF Branch, Runtime, Models, Drawings
<1>2. CASE d.kind \in Models
  BY <1>2, FixedPlain DEF Branch, Runtime, Models, Drawings
<1>3. CASE d.kind \in Drawings
  BY <1>3, FixedPlain DEF Branch, Runtime, Models, Drawings
<1>4. CASE d.kind \in {"outputs", "output"}
  BY <1>4, FixedPlain DEF Branch, Runtime, Models, Drawings
<1>5. CASE d.kind = "media"
  BY <1>5, FixedPlain DEF Branch, Runtime, Models, Drawings
<1>6. QED
  BY <1>1, <1>2, <1>3, <1>4, <1>5, KindSets

Place(d) == IF d.kind = "context" THEN Dir("manifest.context.yaml") ELSE Branch(d) ++ Sub(d)

LEMMA Layout ==
    ASSUME NEW d, IsDocument(d), d.kind \in WorkKinds
    PROVE  /\ KeyOf(d) = At(d.user, d.work, Place(d))
           /\ Place(d) \in Text
           /\ Plain(d.user) /\ Plain(d.work)
<1>1. Plain(d.user) /\ Plain(d.work)
  BY IdFacts
<1>2. KeyOf(d) = SessionRoot(d.user, d.work) ++ Place(d) /\ Place(d) \in Text
  <2>1. CASE d.kind = "context"
    <3>1. KeyOf(d) = SessionRoot(d.user, d.work) ++ WorkFile[d.kind]
      BY <2>1 DEF KeyOf, WorkFile, ChainFile, DrawingFile
    <3>2. WorkFile[d.kind] = Place(d)
      BY <2>1 DEF WorkFile, Place
    <3>3. QED
      BY <2>1, <3>1, <3>2, FixedPlain, PlainIsText DEF Place
  <2>2. CASE d.kind # "context"
    <3>1. d.kind \in TreeKinds
      BY <2>2, KindSets
    <3>2. KeyOf(d) = SessionRoot(d.user, d.work) ++ (Branch(d) ++ Sub(d)) /\ Sub(d) \in Text
      <4>1. CASE d.kind \in Runtime
        <5>1. Branch(d) = Dir("runtime")
          BY <3>1, <4>1, Branches
        <5>2. QED
          BY <4>1, <5>1, LayoutRuntime
      <4>2. CASE d.kind \notin Runtime
        BY <3>1, <4>2, LayoutOther
      <4>3. QED
        BY <4>1, <4>2
    <3>3. Branch(d) \in Text
      BY <3>1, Branches, PlainIsText
    <3>4. QED
      BY <2>2, <3>2, <3>3, SlashAssoc DEF Place
  <2>3. QED
    BY <2>1, <2>2
<1>3. QED
  BY <1>1, <1>2, RootAssoc

\* Keys of two works: user, work, and the rest are told apart.
LEMMA AtSame ==
    ASSUME NEW u, NEW v, NEW w, NEW x, Plain(u), Plain(v), Plain(w), Plain(x),
           NEW y \in Text, NEW z \in Text, At(u, w, y) = At(v, x, z)
    PROVE  u = v /\ w = x /\ y = z
<1> DEFINE s == Dir("sessions")
<1>1. Plain(s)
  BY FixedPlain
<1>2. w ++ y \in Text /\ x ++ z \in Text /\ u \in Text /\ v \in Text
  BY SlashAssoc, PlainIsText
<1>3. u ++ (w ++ y) \in Text /\ v ++ (x ++ z) \in Text
  BY <1>2, SlashAssoc
<1>4. s ++ (u ++ (w ++ y)) = s ++ (v ++ (x ++ z))
  BY DEF At
<1> HIDE DEF s
<1>5. u ++ (w ++ y) = v ++ (x ++ z)
  BY <1>1, <1>3, <1>4, CutSlash
<1>6. u = v /\ w ++ y = x ++ z
  BY <1>2, <1>5, CutSlash
<1>7. QED
  BY <1>6, CutSlash

\* No persona has the directory of the runner's own conversation.
LEMMA PersonaRest ==
    ASSUME NEW d, IsDocument(d), d.kind \in Runtime \ {"chains", "conversation"}
    PROVE  d.ids[1] # Dir("00.dro")
BY DEF IsDocument, Runtime

LEMMA SubFacts ==
    ASSUME NEW d
    PROVE  /\ d.kind = "chains" => Sub(d) = Dir("manifest.runtime.yaml")
           /\ d.kind = "conversation" => Sub(d) = Dir("00.dro") ++ Dir("conversation.json")
           /\ d.kind = "queue" => Sub(d) = d.ids[1] ++ File(<<"queue">>, ".json")
           /\ d.kind = "dialog" => Sub(d) = d.ids[1] ++ File(d.ids[2], ".json")
           /\ d.kind \in OfChain => Sub(d) = d.ids[1] ++ (d.ids[2] ++ InChain(d))
           /\ d.kind \in Models => Sub(d) = Dir(ModelFile[d.kind])
           /\ d.kind = "drawings" => Sub(d) = Dir("manifest.drawing.yaml")
           /\ d.kind \in {"numerals", "dl", "figure"} => Sub(d) = d.ids[1] ++ DrawingFile[d.kind]
           /\ d.kind = "outputs" => Sub(d) = <<"manifest.", "outputs.yaml">>
           /\ d.kind = "output" => Sub(d) = d.ids[1]
           /\ d.kind = "media" => Sub(d) = d.ids[1] \o <<".">> \o d.ids[2]
BY DEF Sub, OfChain, Models

Persona(d) == IF d.kind = "conversation" THEN Dir("00.dro") ELSE d.ids[1]
InPersona(d) ==
    CASE d.kind = "conversation" -> Dir("conversation.json")
      [] d.kind = "queue" -> File(<<"queue">>, ".json")
      [] d.kind = "dialog" -> File(d.ids[2], ".json")
      [] d.kind \in OfChain -> d.ids[2] ++ InChain(d)

LEMMA InChainFacts ==
    ASSUME NEW d, IsDocument(d), d.kind \in OfChain
    PROVE  /\ InChain(d) \in Text
           /\ d.kind = "rt" => InChain(d) = Dir("rts") ++ File(d.ids[3], ".json")
           /\ d.kind # "rt" => Plain(InChain(d)) /\ InChain(d) = ChainFile[d.kind]
<1>1. CASE d.kind = "rt"
  <2>1. InChain(d) = Dir("rts") ++ File(d.ids[3], ".json")
    BY <1>1 DEF InChain
  <2>2. Dir("rts") \in Text /\ File(d.ids[3], ".json") \in Text
    BY <1>1, IdFacts, FileFacts, FixedPlain, PlainIsText
  <2>3. QED
    BY <1>1, <2>1, <2>2, SlashAssoc
<1>2. CASE d.kind # "rt"
  <2>1. InChain(d) = ChainFile[d.kind]
    BY <1>2 DEF InChain
  <2>2. Plain(ChainFile[d.kind])
    BY <1>2, FixedPlain DEF ChainFile, OfChain
  <2>3. QED
    BY <1>2, <2>1, <2>2, PlainIsText
<1>3. QED
  BY <1>1, <1>2

LEMMA InPersonaFacts ==
    ASSUME NEW d
    PROVE  /\ d.kind = "conversation" => InPersona(d) = Dir("conversation.json")
           /\ d.kind = "queue" => InPersona(d) = File(<<"queue">>, ".json")
           /\ d.kind = "dialog" => InPersona(d) = File(d.ids[2], ".json")
           /\ d.kind \in OfChain => InPersona(d) = d.ids[2] ++ InChain(d)
BY DEF InPersona, OfChain

LEMMA RuntimeForm ==
    ASSUME NEW d, IsDocument(d), d.kind \in Runtime \ {"chains"}
    PROVE  /\ Sub(d) = Persona(d) ++ InPersona(d)
           /\ Plain(Persona(d)) /\ InPersona(d) \in Text
           /\ d.kind \in OfChain => InPersona(d) = d.ids[2] ++ InChain(d) /\ Plain(d.ids[2])
           /\ d.kind \notin OfChain => Plain(InPersona(d))
           /\ d.kind = "conversation" => InPersona(d) = Dir("conversation.json")
           /\ d.kind = "queue" => InPersona(d) = File(<<"queue">>, ".json")
           /\ d.kind = "dialog" => InPersona(d) = File(d.ids[2], ".json") /\ Plain(d.ids[2])
           /\ Persona(d) = Dir("00.dro") <=> d.kind = "conversation"
           /\ d.kind # "conversation" => Persona(d) = d.ids[1]
<1>1. CASE d.kind = "conversation"
  BY <1>1, SubFacts, InPersonaFacts, FixedPlain, PlainIsText DEF Persona, OfChain
<1>2. CASE d.kind = "queue"
  BY <1>2, IdFacts, TwoTokens, FileFacts, PlainIsText, PersonaRest, SubFacts, InPersonaFacts DEF Persona, OfChain, Runtime
<1>3. CASE d.kind = "dialog"
  BY <1>3, IdFacts, FileFacts, PlainIsText, PersonaRest, SubFacts, InPersonaFacts DEF Persona, OfChain, Runtime
<1>4. CASE d.kind \in OfChain
  <2>1. Plain(d.ids[1]) /\ Plain(d.ids[2]) /\ d.ids[1] # Dir("00.dro")
    BY <1>4, IdFacts, PersonaRest DEF OfChain, Runtime
  <2>2. InPersona(d) = d.ids[2] ++ InChain(d) /\ InPersona(d) \in Text
    BY <1>4, <2>1, InChainFacts, PlainIsText, SlashAssoc, InPersonaFacts
  <2>3. Sub(d) = d.ids[1] ++ (d.ids[2] ++ InChain(d))
    BY <1>4, SubFacts
  <2>4. QED
    BY <1>4, <2>1, <2>2, <2>3 DEF Persona, OfChain
<1>5. QED
  BY <1>1, <1>2, <1>3, <1>4 DEF Runtime, OfChain

\* In the directory of a chain: its own files apart from the RTs'.
LEMMA InChainSame ==
    ASSUME NEW a, NEW b, IsDocument(a), IsDocument(b), a.kind \in OfChain, b.kind \in OfChain,
           InChain(a) = InChain(b)
    PROVE  a.kind = b.kind /\ (a.kind = "rt" => a.ids[3] = b.ids[3])
<1>1. Dir("rts") \in Text
  BY FixedPlain, PlainIsText
<1>2. ASSUME NEW d, IsDocument(d), d.kind = "rt"
      PROVE  Plain(d.ids[3]) /\ Plain(File(d.ids[3], ".json")) /\ File(d.ids[3], ".json") \in Text
  BY <1>2, IdFacts, FileFacts, PlainIsText
<1>3. CASE a.kind = "rt" /\ b.kind = "rt"
  <2>1. Dir("rts") ++ File(a.ids[3], ".json") = Dir("rts") ++ File(b.ids[3], ".json")
    BY <1>3, InChainFacts
  <2>2. File(a.ids[3], ".json") = File(b.ids[3], ".json")
    BY <1>2, <1>3, <2>1, CutSlash, FixedPlain
  <2>3. QED
    BY <1>2, <1>3, <2>2, FileSame
<1>4. CASE a.kind = "rt" /\ b.kind # "rt"
  BY <1>1, <1>2, <1>4, InChainFacts, NoCutSlash
<1>5. CASE a.kind # "rt" /\ b.kind = "rt"
  BY <1>1, <1>2, <1>5, InChainFacts, NoCutSlash
<1>6. CASE a.kind # "rt" /\ b.kind # "rt"
  <2>1. ChainFile[a.kind] = ChainFile[b.kind]
    BY <1>6, InChainFacts
  <2>2. QED
    BY <1>6, <2>1 DEF ChainFile, OfChain, Dir
<1>7. QED
  BY <1>3, <1>4, <1>5, <1>6

\* In runtime/: the index, the conversation, queues, dialogs, chains and RTs are told apart.
LEMMA RuntimeSame ==
    ASSUME NEW a, NEW b, IsDocument(a), IsDocument(b), a.kind \in Runtime, b.kind \in Runtime,
           Sub(a) = Sub(b)
    PROVE  /\ a.kind = b.kind
           /\ \A i \in 1..Ids[a.kind] : a.ids[i] = b.ids[i]
<1>1. \A d : d.kind = "chains" => Sub(d) = Dir("manifest.runtime.yaml") /\ Plain(Sub(d))
  BY FixedPlain, SubFacts
<1>2. CASE a.kind = "chains" /\ b.kind = "chains"
  BY <1>2 DEF Ids
<1>3. CASE a.kind = "chains" /\ b.kind # "chains"
  BY <1>1, <1>3, RuntimeForm, NoCutSlash, PlainIsText
<1>4. CASE a.kind # "chains" /\ b.kind = "chains"
  BY <1>1, <1>4, RuntimeForm, NoCutSlash, PlainIsText
<1>5. CASE a.kind # "chains" /\ b.kind # "chains"
  <2>1. Persona(a) = Persona(b) /\ InPersona(a) = InPersona(b)
    BY <1>5, RuntimeForm, CutSlash
  <2>2. CASE a.kind = "conversation"
    <3>1. b.kind = "conversation"
      BY <1>5, <2>1, <2>2, RuntimeForm
    <3>2. QED
      BY <2>2, <3>1 DEF Ids
  <2>3. CASE a.kind # "conversation"
    <3>1. b.kind # "conversation" /\ a.ids[1] = b.ids[1]
      BY <1>5, <2>1, <2>3, RuntimeForm
    <3>2. a.kind \in {"queue", "dialog"} \cup OfChain /\ b.kind \in {"queue", "dialog"} \cup OfChain
      BY <1>5, <2>3, <3>1 DEF Runtime, OfChain
    <3>3. CASE a.kind \in OfChain /\ b.kind \in OfChain
      <4>1. a.ids[2] = b.ids[2] /\ InChain(a) = InChain(b)
        BY <1>5, <2>1, <3>3, RuntimeForm, InChainFacts, CutSlash
      <4>2. a.kind = b.kind /\ (a.kind = "rt" => a.ids[3] = b.ids[3])
        BY <3>3, <4>1, InChainSame
      <4>3. Ids[a.kind] = IF a.kind = "rt" THEN 3 ELSE 2
        BY <3>3 DEF Ids, OfChain
      <4>4. QED
        BY <3>1, <4>1, <4>2, <4>3
    <3>4. CASE a.kind \in OfChain /\ b.kind \notin OfChain
      BY <1>5, <2>1, <3>4, RuntimeForm, InChainFacts, NoCutSlash, PlainIsText
    <3>5. CASE a.kind \notin OfChain /\ b.kind \in OfChain
      BY <1>5, <2>1, <3>5, RuntimeForm, InChainFacts, NoCutSlash, PlainIsText
    <3>6. CASE a.kind = "queue" /\ b.kind = "queue"
      BY <3>1, <3>6 DEF Ids
    <3>7. CASE a.kind = "dialog" /\ b.kind = "dialog"
      <4>1. a.ids[2] = b.ids[2]
        BY <1>5, <2>1, <3>7, RuntimeForm, FileSame
      <4>2. QED
        BY <3>1, <3>7, <4>1 DEF Ids
    <3>8. CASE a.kind = "queue" /\ b.kind = "dialog"
      <4>1. b.ids[2] = <<"queue">>
        BY <1>5, <2>1, <3>8, RuntimeForm, FileSame, TwoTokens
      <4>2. QED
        BY <3>8, <4>1 DEF IsDocument
    <3>9. CASE a.kind = "dialog" /\ b.kind = "queue"
      <4>1. a.ids[2] = <<"queue">>
        BY <1>5, <2>1, <3>9, RuntimeForm, FileSame, TwoTokens
      <4>2. QED
        BY <3>9, <4>1 DEF IsDocument
    <3>10. QED
      BY <3>2, <3>3, <3>4, <3>5, <3>6, <3>7, <3>8, <3>9
  <2>4. QED
    BY <2>2, <2>3
<1>6. QED
  BY <1>2, <1>3, <1>4, <1>5

-----------------------------------------------------------------------------
(* A key has one document. *)

\* In drawings/.
LEMMA DrawingSame ==
    ASSUME NEW a, NEW b, IsDocument(a), IsDocument(b), a.kind \in Drawings, b.kind \in Drawings,
           Sub(a) = Sub(b)
    PROVE  /\ a.kind = b.kind
           /\ \A i \in 1..Ids[a.kind] : a.ids[i] = b.ids[i]
<1>1. ASSUME NEW d, IsDocument(d), d.kind \in Drawings, d.kind # "drawings"
      PROVE  /\ Sub(d) = d.ids[1] ++ DrawingFile[d.kind]
             /\ Plain(d.ids[1]) /\ Plain(DrawingFile[d.kind]) /\ Ids[d.kind] = 1
  <2>1. d.kind \in {"numerals", "dl", "figure"}
    BY <1>1 DEF Drawings
  <2>2. Plain(DrawingFile[d.kind])
    BY <2>1, FixedPlain DEF DrawingFile
  <2>3. Ids[d.kind] = 1
    BY <2>1 DEF Ids
  <2>4. Sub(d) = d.ids[1] ++ DrawingFile[d.kind]
    BY <2>1, SubFacts
  <2>5. Plain(d.ids[1])
    BY <1>1, <2>1, IdFacts
  <2>6. QED
    BY <2>2, <2>3, <2>4, <2>5
<1>2. ASSUME NEW d, d.kind = "drawings" PROVE Plain(Sub(d)) /\ Ids[d.kind] = 0
  <2>1. Sub(d) = Dir("manifest.drawing.yaml")
    BY <1>2, SubFacts
  <2>2. QED
    BY <1>2, <2>1, FixedPlain DEF Ids
<1>3. CASE a.kind = "drawings" /\ b.kind = "drawings"
  BY <1>2, <1>3
<1>4. CASE a.kind = "drawings" /\ b.kind # "drawings"
  BY <1>1, <1>2, <1>4, NoCutSlash, PlainIsText
<1>5. CASE a.kind # "drawings" /\ b.kind = "drawings"
  BY <1>1, <1>2, <1>5, NoCutSlash, PlainIsText
<1>6. CASE a.kind # "drawings" /\ b.kind # "drawings"
  <2>1. a.ids[1] = b.ids[1] /\ DrawingFile[a.kind] = DrawingFile[b.kind]
    BY <1>1, <1>6, CutSlash, PlainIsText
  <2>2. a.kind = b.kind
    BY <1>6, <2>1 DEF DrawingFile, Drawings, Dir
  <2>3. QED
    BY <1>1, <1>6, <2>1, <2>2
<1>7. QED
  BY <1>3, <1>4, <1>5, <1>6

\* In models/.
LEMMA ModelSame ==
    ASSUME NEW a, NEW b, a.kind \in Models, b.kind \in Models, Sub(a) = Sub(b)
    PROVE  a.kind = b.kind /\ Ids[a.kind] = 0
<1>1. Dir(ModelFile[a.kind]) = Dir(ModelFile[b.kind])
  BY SubFacts
<1>2. QED
  BY <1>1 DEF Dir, ModelFile, Models, Ids

\* In outputs/: no draft has the name of the manifest.
LEMMA OutputSame ==
    ASSUME NEW a, NEW b, IsDocument(a), IsDocument(b),
           a.kind \in {"outputs", "output"}, b.kind \in {"outputs", "output"}, Sub(a) = Sub(b)
    PROVE  /\ a.kind = b.kind
           /\ \A i \in 1..Ids[a.kind] : a.ids[i] = b.ids[i]
<1>1. ASSUME NEW d, IsDocument(d), d.kind = "output"
      PROVE  Sub(d) = d.ids[1] /\ Ids[d.kind] = 1 /\ d.ids[1] # <<"manifest.", "outputs.yaml">>
  <2>0. Sub(d) = d.ids[1]
    BY <1>1, SubFacts
  <2>1. Sub(d) = d.ids[1] /\ Ids[d.kind] = 1
    BY <1>1, <2>0 DEF Ids
  <2>2. IsPrefix(<<"manifest.">>, <<"manifest.", "outputs.yaml">>)
    <3>1. <<"manifest.">> \in Text /\ <<"manifest.", "outputs.yaml">> \in Text
      BY DEF Text, Tokens
    <3>2. QED
      BY <3>1, PrefixFacts
  <2>3. QED
    BY <1>1, <2>1, <2>2 DEF IsDocument
<1>2. ASSUME NEW d, d.kind = "outputs" PROVE Sub(d) = <<"manifest.", "outputs.yaml">> /\ Ids[d.kind] = 0
  <2>1. Sub(d) = <<"manifest.", "outputs.yaml">>
    BY <1>2, SubFacts
  <2>2. QED
    BY <1>2, <2>1 DEF Ids
<1>3. QED
  BY <1>1, <1>2

\* In media/: the id of a file ends at the first point.
LEMMA MediaSame ==
    ASSUME NEW a, NEW b, IsDocument(a), IsDocument(b), a.kind = "media", b.kind = "media",
           Sub(a) = Sub(b)
    PROVE  \A i \in 1..Ids[a.kind] : a.ids[i] = b.ids[i]
<1>1. ASSUME NEW d, IsDocument(d), d.kind = "media"
      PROVE  Sub(d) = Sep(d.ids[1], ".", d.ids[2]) /\ Lacks(d.ids[1], ".") /\ d.ids[2] \in Text
  <2>1. d.ids[1] \in Text /\ d.ids[2] \in Text
    BY <1>1, IdFacts, PlainIsText
  <2>2. ~Contains(d.ids[1], ".")
    BY <1>1 DEF IsDocument
  <2>3. QED
    BY <1>1, <2>1, <2>2, SubFacts DEF Sep, Lacks
<1>2. "." \in Tokens
  BY DEF Tokens
<1>3. a.ids[1] = b.ids[1] /\ a.ids[2] = b.ids[2]
  BY <1>1, <1>2, Cut
<1>4. Ids[a.kind] = 2
  BY DEF Ids
<1>5. QED
  BY <1>3, <1>4

\* In a work: a place has one document.
LEMMA TailSame ==
    ASSUME NEW a, NEW b, IsDocument(a), IsDocument(b), a.kind \in WorkKinds, b.kind \in WorkKinds,
           Place(a) = Place(b)
    PROVE  /\ a.kind = b.kind
           /\ \A i \in 1..Ids[a.kind] : a.ids[i] = b.ids[i]
<1>1. ASSUME NEW d, IsDocument(d), d.kind \in TreeKinds
      PROVE  Place(d) = Branch(d) ++ Sub(d) /\ Plain(Branch(d)) /\ Branch(d) \in Text /\ Sub(d) \in Text
  BY <1>1, LayoutRuntime, LayoutOther, Branches, PlainIsText DEF Place, TreeKinds
<1>2. ASSUME NEW d, d.kind = "context" PROVE Plain(Place(d)) /\ Ids[d.kind] = 0
  BY <1>2, FixedPlain DEF Place, Ids
<1>3. CASE a.kind = "context" /\ b.kind = "context"
  BY <1>2, <1>3
<1>4. CASE a.kind = "context" /\ b.kind # "context"
  BY <1>1, <1>2, <1>4, KindSets, NoCutSlash
<1>5. CASE a.kind # "context" /\ b.kind = "context"
  BY <1>1, <1>2, <1>5, KindSets, NoCutSlash
<1>6. CASE a.kind # "context" /\ b.kind # "context"
  <2>1. a.kind \in TreeKinds /\ b.kind \in TreeKinds
    BY <1>6, KindSets
  <2>2. Branch(a) = Branch(b) /\ Sub(a) = Sub(b)
    BY <1>1, <2>1, CutSlash
  <2>3. \/ a.kind \in Runtime /\ b.kind \in Runtime
        \/ a.kind \in Models /\ b.kind \in Models
        \/ a.kind \in Drawings /\ b.kind \in Drawings
        \/ a.kind \in {"outputs", "output"} /\ b.kind \in {"outputs", "output"}
        \/ a.kind = "media" /\ b.kind = "media"
    <3> DEFINE name(k) == CASE k \in Runtime -> "runtime" [] k \in Models -> "models"
                            [] k \in Drawings -> "drawings" [] k \in {"outputs", "output"} -> "outputs"
                            [] OTHER -> "media"
    <3>1. \A d : d.kind \in TreeKinds => Branch(d) = Dir(name(d.kind))
      BY Branches, KindSets DEF Runtime, Models, Drawings
    <3>2. name(a.kind) = name(b.kind)
      BY <2>1, <2>2, <3>1 DEF Dir
    <3>3. QED
      BY <2>1, <3>2, KindSets DEF Runtime, Models, Drawings
  <2>4. QED
    BY <2>2, <2>3, RuntimeSame, ModelSame, DrawingSame, OutputSame, MediaSame
<1>7. QED
  BY <1>3, <1>4, <1>5, <1>6

\* Keys of users.
Section(d) ==
    CASE d.kind = "identity" -> Dir("identities")
      [] d.kind = "profile" -> Dir("profiles")
      [] d.kind = "idempotency" -> Dir("idempotency")
      [] d.kind = "refresh" -> Dir("refresh-tokens")
Owner(d) == IF d.kind = "identity" THEN d.ids[1] ELSE d.user
Leaf(d) ==
    CASE d.kind = "identity" -> File(d.ids[2], ".json")
      [] d.kind = "profile" -> Dir("profile.json")
      [] OTHER -> File(d.ids[1], ".json")

LEMMA UserLayout ==
    ASSUME NEW d, IsDocument(d), d.kind \in UserKinds
    PROVE  /\ KeyOf(d) = Dir("users") ++ (Section(d) ++ (Owner(d) ++ Leaf(d)))
           /\ Plain(Section(d)) /\ Plain(Owner(d)) /\ Plain(Leaf(d))
<1>1. Plain(Section(d))
  BY FixedPlain DEF Section, UserKinds
<1>2. \A i \in 1..Ids[d.kind] : Plain(d.ids[i])
  BY IdFacts
<1>3. d.kind # "identity" => Plain(d.user)
  BY NameIsPlain DEF IsDocument
<1>4. Plain(Owner(d)) /\ Plain(Leaf(d))
  <2>1. CASE d.kind = "identity"
    <3>1. Plain(d.ids[1]) /\ Plain(d.ids[2])
      BY <1>2, <2>1 DEF Ids
    <3>2. QED
      BY <2>1, <3>1, FileFacts DEF Owner, Leaf
  <2>2. CASE d.kind = "profile"
    BY <1>3, <2>2, FixedPlain DEF Owner, Leaf
  <2>3. CASE d.kind \in {"idempotency", "refresh"}
    <3>1. Plain(d.ids[1])
      BY <1>2, <2>3 DEF Ids
    <3>2. Plain(Owner(d)) /\ Leaf(d) = File(d.ids[1], ".json")
      BY <1>3, <2>3 DEF Owner, Leaf
    <3>3. QED
      BY <3>1, <3>2, FileFacts
  <2>4. QED
    BY <2>1, <2>2, <2>3 DEF UserKinds
<1>5. KeyOf(d) = Dir("users") ++ Section(d) ++ Owner(d) ++ Leaf(d)
  <2>1. CASE d.kind = "identity"
    BY <2>1 DEF KeyOf, WorkFile, ChainFile, DrawingFile, Section, Owner, Leaf, IdentityKey
  <2>2. CASE d.kind = "profile"
    BY <2>2 DEF KeyOf, WorkFile, ChainFile, DrawingFile, Section, Owner, Leaf, ProfileKey
  <2>3. CASE d.kind = "idempotency"
    BY <2>3 DEF KeyOf, WorkFile, ChainFile, DrawingFile, Section, Owner, Leaf, IdempotencyKey
  <2>4. CASE d.kind = "refresh"
    BY <2>4 DEF KeyOf, WorkFile, ChainFile, DrawingFile, Section, Owner, Leaf, RefreshTokenKey
  <2>5. QED
    BY <2>1, <2>2, <2>3, <2>4 DEF UserKinds
<1>6. QED
  BY <1>1, <1>4, <1>5, FixedPlain, PlainIsText, Assoc4

\* In users/: a place has one document.
LEMMA UserSame ==
    ASSUME NEW a, NEW b, IsDocument(a), IsDocument(b), a.kind \in UserKinds, b.kind \in UserKinds,
           KeyOf(a) = KeyOf(b)
    PROVE  /\ a.kind = b.kind
           /\ a.kind # "identity" => a.user = b.user
           /\ \A i \in 1..Ids[a.kind] : a.ids[i] = b.ids[i]
<1>1. ASSUME NEW d, IsDocument(d), d.kind \in UserKinds
      PROVE  /\ KeyOf(d) = Dir("users") ++ (Section(d) ++ (Owner(d) ++ Leaf(d)))
             /\ Plain(Section(d)) /\ Plain(Owner(d)) /\ Plain(Leaf(d))
             /\ Owner(d) ++ Leaf(d) \in Text /\ Leaf(d) \in Text
             /\ Section(d) ++ (Owner(d) ++ Leaf(d)) \in Text
  <2>1. /\ KeyOf(d) = Dir("users") ++ (Section(d) ++ (Owner(d) ++ Leaf(d)))
        /\ Plain(Section(d)) /\ Plain(Owner(d)) /\ Plain(Leaf(d))
    BY <1>1, UserLayout
  <2>2. Section(d) \in Text /\ Owner(d) \in Text /\ Leaf(d) \in Text
    BY <2>1, PlainIsText
  <2>3. Owner(d) ++ Leaf(d) \in Text
    BY <2>2, SlashAssoc
  <2>4. Section(d) ++ (Owner(d) ++ Leaf(d)) \in Text
    BY <2>2, <2>3, SlashAssoc
  <2>5. QED
    BY <2>1, <2>2, <2>3, <2>4
<1>2. Section(a) ++ (Owner(a) ++ Leaf(a)) = Section(b) ++ (Owner(b) ++ Leaf(b))
  BY <1>1, CutSlash, FixedPlain
<1>3. Section(a) = Section(b) /\ Owner(a) ++ Leaf(a) = Owner(b) ++ Leaf(b)
  BY <1>1, <1>2, CutSlash
<1>4. Owner(a) = Owner(b) /\ Leaf(a) = Leaf(b)
  BY <1>1, <1>3, CutSlash
<1>5. a.kind = b.kind
  BY <1>3 DEF Section, UserKinds, Dir
<1>6. CASE a.kind = "identity"
  <2>0. 2 \in 1..Ids[a.kind] /\ 2 \in 1..Ids[b.kind]
    BY <1>5, <1>6 DEF Ids
  <2>1. Plain(a.ids[2]) /\ Plain(b.ids[2])
    BY <2>0, IdFacts
  <2>2. a.ids[1] = b.ids[1] /\ a.ids[2] = b.ids[2]
    BY <1>4, <1>5, <1>6, <2>1, FileSame DEF Owner, Leaf
  <2>3. QED
    BY <1>5, <1>6, <2>2 DEF Ids
<1>7. CASE a.kind = "profile"
  BY <1>4, <1>5, <1>7 DEF Owner, Ids
<1>8. CASE a.kind \in {"idempotency", "refresh"}
  <2>0. 1 \in 1..Ids[a.kind] /\ 1 \in 1..Ids[b.kind]
    BY <1>5, <1>8 DEF Ids
  <2>1. Plain(a.ids[1]) /\ Plain(b.ids[1])
    BY <2>0, IdFacts
  <2>2. Leaf(a) = File(a.ids[1], ".json") /\ Leaf(b) = File(b.ids[1], ".json")
    BY <1>5, <1>8 DEF Leaf
  <2>3. a.ids[1] = b.ids[1]
    BY <1>4, <2>1, <2>2, FileSame
  <2>4. QED
    BY <1>4, <1>5, <1>8, <2>3 DEF Ids, Owner
<1>9. QED
  BY <1>6, <1>7, <1>8 DEF UserKinds

LEMMA UserNotWork ==
    ASSUME NEW a, NEW b, IsDocument(a), IsDocument(b), a.kind \in UserKinds, b.kind \in WorkKinds
    PROVE  KeyOf(a) # KeyOf(b)
<1>1. SUFFICES ASSUME KeyOf(a) = KeyOf(b) PROVE FALSE
  OBVIOUS
<1>2. KeyOf(a) = Dir("users") ++ (Section(a) ++ (Owner(a) ++ Leaf(a)))
      /\ Section(a) ++ (Owner(a) ++ Leaf(a)) \in Text
  <2>1. Section(a) \in Text /\ Owner(a) \in Text /\ Leaf(a) \in Text
    BY UserLayout, PlainIsText
  <2>2. Owner(a) ++ Leaf(a) \in Text
    BY <2>1, SlashAssoc
  <2>3. QED
    BY <2>1, <2>2, UserLayout, SlashAssoc
<1>3. KeyOf(b) = Dir("sessions") ++ (b.user ++ (b.work ++ Place(b)))
      /\ b.user ++ (b.work ++ Place(b)) \in Text
  <2>1. KeyOf(b) = At(b.user, b.work, Place(b)) /\ Place(b) \in Text /\ b.user \in Text /\ b.work \in Text
    BY Layout, PlainIsText
  <2>2. b.work ++ Place(b) \in Text
    BY <2>1, SlashAssoc
  <2>3. QED
    BY <2>1, <2>2, SlashAssoc DEF At
<1>4. Dir("users") = Dir("sessions")
  <2> DEFINE y == Section(a) ++ (Owner(a) ++ Leaf(a))
             z == b.user ++ (b.work ++ Place(b))
             m == Dir("users")
             n == Dir("sessions")
  <2>1. Plain(m) /\ Plain(n) /\ y \in Text /\ z \in Text /\ m ++ y = n ++ z
    BY <1>1, <1>2, <1>3, FixedPlain
  <2> HIDE DEF y, z, m, n
  <2>2. m = n
    BY <2>1, CutSlash
  <2>3. QED
    BY <2>2 DEF m, n
<1>5. QED
  BY <1>4 DEF Dir

\* A document is its kind, its user, its work and its ids.
LEMMA SameDocument ==
    ASSUME NEW a \in Documents, NEW b \in Documents, a.kind = b.kind, a.user = b.user,
           a.work = b.work, \A i \in 1..Ids[a.kind] : a.ids[i] = b.ids[i]
    PROVE  a = b
<1>1. IsDocument(a) /\ IsDocument(b)
  BY DocumentsAssumption
<1>2. /\ a.ids \in Seq(Seq(STRING)) /\ Len(a.ids) = Ids[a.kind]
      /\ b.ids \in Seq(Seq(STRING)) /\ Len(b.ids) = Ids[b.kind]
      /\ a = Doc(a.kind, a.user, a.work, a.ids) /\ b = Doc(b.kind, b.user, b.work, b.ids)
  BY <1>1 DEF IsDocument
<1>3. a.ids = b.ids
  <2> DEFINE s == a.ids
             t == b.ids
             n == Ids[a.kind]
  <2>1. s \in Seq(Seq(STRING)) /\ t \in Seq(Seq(STRING)) /\ Len(s) = n /\ Len(t) = n
        /\ \A i \in 1..n : s[i] = t[i]
    BY <1>2
  <2> HIDE DEF s, t, n
  <2>2. s = t
    BY <2>1, SeqEqual
  <2>3. QED
    BY <2>2 DEF s, t
<1>4. QED
  BY <1>2, <1>3

\* No two documents share a key.
LEMMA KeyInjective ==
    ASSUME NEW a \in Documents, NEW b \in Documents, KeyOf(a) = KeyOf(b)
    PROVE  a = b
<1>1. IsDocument(a) /\ IsDocument(b)
  BY DocumentsAssumption
<1>2. a.kind \in UserKinds \cup WorkKinds /\ b.kind \in UserKinds \cup WorkKinds
  BY <1>1 DEF IsDocument, WorkKinds
<1>3. CASE a.kind \in WorkKinds /\ b.kind \in WorkKinds
  <2>1. /\ KeyOf(a) = At(a.user, a.work, Place(a)) /\ KeyOf(b) = At(b.user, b.work, Place(b))
        /\ Place(a) \in Text /\ Place(b) \in Text
        /\ Plain(a.user) /\ Plain(a.work) /\ Plain(b.user) /\ Plain(b.work)
    BY <1>1, <1>3, Layout
  <2>2. a.user = b.user /\ a.work = b.work /\ Place(a) = Place(b)
    <3> DEFINE u == a.user
               v == b.user
               w == a.work
               x == b.work
               y == Place(a)
               z == Place(b)
    <3>1. /\ Plain(u) /\ Plain(v) /\ Plain(w) /\ Plain(x) /\ y \in Text /\ z \in Text
          /\ At(u, w, y) = At(v, x, z)
      BY <2>1
    <3> HIDE DEF u, v, w, x, y, z
    <3>2. u = v /\ w = x /\ y = z
      BY <3>1, AtSame
    <3>3. QED
      BY <3>2 DEF u, v, w, x, y, z
  <2>3. a.kind = b.kind /\ \A i \in 1..Ids[a.kind] : a.ids[i] = b.ids[i]
    BY <1>1, <1>3, <2>2, TailSame
  <2>4. QED
    BY <2>2, <2>3, SameDocument
<1>4. CASE a.kind \in UserKinds /\ b.kind \in UserKinds
  <2>1. a.kind = b.kind /\ (a.kind # "identity" => a.user = b.user)
        /\ \A i \in 1..Ids[a.kind] : a.ids[i] = b.ids[i]
    BY <1>1, <1>4, UserSame
  <2>2. a.work = b.work /\ (a.kind = "identity" => a.user = b.user)
    BY <1>4, <2>1, DocumentsAssumption DEF UserKinds
  <2>3. QED
    BY <2>1, <2>2, SameDocument
<1>5. QED
  BY <1>1, <1>2, <1>3, <1>4, UserNotWork

-----------------------------------------------------------------------------
(* Prefixes. *)

\* No two documents share a key: a PUT of one never lands on another, whatever the ids of
\* users, works, chains, RTs, drafts and files are (keys.py).
THEOREM KeysDistinct == \A a, b \in Documents : KeyOf(a) = KeyOf(b) => a = b
BY KeyInjective

LEMMA NilText == <<>> \in Text
BY DEF Text

\* Every text continues the empty one.
LEMMA EmptyPrefix ==
    ASSUME NEW q \in Text
    PROVE  IsPrefix(<<>>, q) /\ After(<<>>, q) = q /\ <<>> \in Text
<1>1. <<>> \in Text /\ Len(<<>>) = 0
  BY DEF Text
<1>2. Len(q) \in Nat
  BY TextFacts
<1>3. IsPrefix(<<>>, q)
  BY <1>1, <1>2, PrefixFacts
<1>4. After(<<>>, q) = q
  <2>1. After(<<>>, q) = SubSeq(q, 1, Len(q))
    BY <1>1 DEF After
  <2>2. QED
    BY <2>1, SubSeqFull DEF Text
<1>5. QED
  BY <1>1, <1>3, <1>4

LEMMA OpenEnd ==
    ASSUME NEW p \in Text
    PROVE  p \o <<"/">> = p ++ <<>> /\ p \o <<"/">> \in Text
<1>1. <<"/">> \in Text
  BY DEF Text, Tokens
<1>2. p \o <<"/">> \in Text
  BY <1>1, ConcatFacts
<1>3. (p \o <<"/">>) \o <<>> = p \o <<"/">>
  BY <1>2, ConcatEmptySeq DEF Text
<1>4. QED
  BY <1>2, <1>3 DEF ++

\* A prefix that ends its first directory.
LEMMA PrefixSlash ==
    ASSUME NEW p, NEW a, Plain(p), Plain(a), NEW y \in Text, NEW q \in Text
    PROVE  /\ IsPrefix(p ++ y, a ++ q) <=> p = a /\ IsPrefix(y, q)
           /\ IsPrefix(p ++ y, a ++ q) => After(p ++ y, a ++ q) = After(y, q)
<1>1. "/" \in Tokens
  BY DEF Tokens
<1>2. /\ IsPrefix(Sep(p, "/", y), Sep(a, "/", q)) <=> p = a /\ IsPrefix(y, q)
      /\ IsPrefix(Sep(p, "/", y), Sep(a, "/", q)) =>
             After(Sep(p, "/", y), Sep(a, "/", q)) = After(y, q)
  BY <1>1, CutPrefix DEF Plain
<1>3. QED
  BY <1>2, SlashIsSep

\* The prefixes of a user's and of a work's keys end the ids.
IsOpen(u, w, y, v, x, q) ==
    /\ IsPrefix(At(u, w, y), At(v, x, q)) <=> u = v /\ w = x /\ IsPrefix(y, q)
    /\ IsPrefix(At(u, w, y), At(v, x, q)) => After(At(u, w, y), At(v, x, q)) = After(y, q)

LEMMA AtPrefix ==
    ASSUME NEW u, NEW w, NEW v, NEW x, Plain(u), Plain(w), Plain(v), Plain(x),
           NEW y \in Text, NEW q \in Text
    PROVE  IsOpen(u, w, y, v, x, q)
<1> DEFINE s == Dir("sessions")
           wy == w ++ y
           xq == x ++ q
           uwy == u ++ wy
           vxq == v ++ xq
<1>1. Plain(s)
  BY FixedPlain
<1>2. u \in Text /\ w \in Text /\ v \in Text /\ x \in Text
  BY PlainIsText
<1>3. wy \in Text /\ xq \in Text
  BY <1>2, SlashAssoc
<1>4. uwy \in Text /\ vxq \in Text
  <2> HIDE DEF wy, xq
  <2>1. QED
    BY <1>2, <1>3, SlashAssoc
<1>5. /\ IsPrefix(wy, xq) <=> w = x /\ IsPrefix(y, q)
      /\ IsPrefix(wy, xq) => After(wy, xq) = After(y, q)
  BY PrefixSlash
<1>6. /\ IsPrefix(uwy, vxq) <=> u = v /\ IsPrefix(wy, xq)
      /\ IsPrefix(uwy, vxq) => After(uwy, vxq) = After(wy, xq)
  <2> HIDE DEF wy, xq
  <2>1. QED
    BY <1>3, PrefixSlash
<1>7. /\ IsPrefix(s ++ uwy, s ++ vxq) <=> s = s /\ IsPrefix(uwy, vxq)
      /\ IsPrefix(s ++ uwy, s ++ vxq) => After(s ++ uwy, s ++ vxq) = After(uwy, vxq)
  <2> HIDE DEF uwy, vxq, s
  <2>1. QED
    BY <1>1, <1>4, PrefixSlash
<1>8. At(u, w, y) = s ++ uwy /\ At(v, x, q) = s ++ vxq
  BY DEF At
<1> HIDE DEF s, wy, xq, uwy, vxq
<1>9. QED
  BY <1>5, <1>6, <1>7, <1>8 DEF IsOpen

LEMMA AtText ==
    ASSUME NEW u, NEW w, Plain(u), Plain(w), NEW y \in Text
    PROVE  At(u, w, y) \in Text /\ u ++ (w ++ y) \in Text /\ w ++ y \in Text
<1>1. u \in Text /\ w \in Text /\ Dir("sessions") \in Text
  BY FixedPlain, PlainIsText
<1>2. w ++ y \in Text
  BY <1>1, SlashAssoc
<1>3. u ++ (w ++ y) \in Text
  BY <1>1, <1>2, SlashAssoc
<1>4. QED
  BY <1>1, <1>2, <1>3, SlashAssoc DEF At

\* No key of a user is below sessions/.
LEMMA NotInSessions ==
    ASSUME NEW d, IsDocument(d), d.kind \in UserKinds, NEW y \in Text
    PROVE  ~IsPrefix(Dir("sessions") ++ y, KeyOf(d))
<1> DEFINE z == Section(d) ++ (Owner(d) ++ Leaf(d))
           m == Dir("users")
           n == Dir("sessions")
<1>1. KeyOf(d) = m ++ z /\ Plain(Section(d)) /\ Plain(Owner(d)) /\ Plain(Leaf(d))
  BY UserLayout
<1>2. Section(d) \in Text /\ Owner(d) \in Text /\ Leaf(d) \in Text
  BY <1>1, PlainIsText
<1>3. Owner(d) ++ Leaf(d) \in Text
  BY <1>2, SlashAssoc
<1>4. z \in Text
  BY <1>2, <1>3, SlashAssoc
<1>5. Plain(m) /\ Plain(n) /\ m # n
  BY FixedPlain DEF Dir
<1> HIDE DEF m, n, z
<1>6. ~IsPrefix(n ++ y, m ++ z)
  BY <1>4, <1>5, PrefixSlash
<1>7. QED
  BY <1>1, <1>6 DEF n

LEMMA WorkPrefixIsAt ==
    ASSUME NEW u, NEW w, Plain(u), Plain(w)
    PROVE  WorkPrefix(u, w) = At(u, w, <<>>)
<1>1. <<>> \in Text
  BY DEF Text
<1>2. SessionRoot(u, w) ++ <<>> = At(u, w, <<>>) /\ SessionRoot(u, w) \in Text
  BY <1>1, RootAssoc
<1>3. QED
  BY <1>2, OpenEnd DEF WorkPrefix

\* Deleting by the prefix of a work selects the documents of the work.
LEMMA WorkSelected ==
    ASSUME NEW d, IsDocument(d), NEW u, NEW w, Plain(u), Plain(w)
    PROVE  IsPrefix(WorkPrefix(u, w), KeyOf(d)) <=> d.kind \in WorkKinds /\ d.user = u /\ d.work = w
<1>1. CASE d.kind \in WorkKinds
  <2>1. KeyOf(d) = At(d.user, d.work, Place(d)) /\ Place(d) \in Text /\ Plain(d.user) /\ Plain(d.work)
    BY <1>1, Layout
  <2>2. IsOpen(u, w, <<>>, d.user, d.work, Place(d))
    BY <2>1, AtPrefix, EmptyPrefix
  <2>3. IsPrefix(<<>>, Place(d))
    BY <2>1, EmptyPrefix
  <2>4. QED
    BY <1>1, <2>1, <2>2, <2>3, WorkPrefixIsAt DEF IsOpen
<1>2. CASE d.kind \notin WorkKinds
  <2>1. d.kind \in UserKinds
    BY <1>2 DEF IsDocument, WorkKinds
  <2>2. <<>> \in Text
    BY DEF Text
  <2>3. ~IsPrefix(At(u, w, <<>>), KeyOf(d))
    BY <2>1, <2>2, NotInSessions, AtText DEF At
  <2>4. QED
    BY <1>2, <2>3, WorkPrefixIsAt
<1>3. QED
  BY <1>1, <1>2

LEMMA TailParts ==
    ASSUME NEW d, IsDocument(d), d.kind \in TreeKinds
    PROVE  Place(d) = Branch(d) ++ Sub(d) /\ Plain(Branch(d)) /\ Sub(d) \in Text
BY LayoutRuntime, LayoutOther, Branches DEF Place, TreeKinds

BranchIs(d, u, w, b, y) ==
    /\ IsPrefix(At(u, w, b ++ y), KeyOf(d)) <=>
          d.kind \in TreeKinds /\ d.user = u /\ d.work = w /\ Branch(d) = b /\ IsPrefix(y, Sub(d))
    /\ IsPrefix(At(u, w, b ++ y), KeyOf(d)) => After(At(u, w, b ++ y), KeyOf(d)) = After(y, Sub(d))

\* A prefix that ends a user, a work and a branch of it selects documents of all three.
LEMMA BranchSelected ==
    ASSUME NEW d, IsDocument(d), NEW u, NEW w, NEW b, Plain(u), Plain(w), Plain(b), NEW y \in Text
    PROVE  BranchIs(d, u, w, b, y)
<1>0. b \in Text /\ b ++ y \in Text
  BY PlainIsText, SlashAssoc
<1>1. CASE d.kind \in WorkKinds
  <2>1. KeyOf(d) = At(d.user, d.work, Place(d)) /\ Place(d) \in Text /\ Plain(d.user) /\ Plain(d.work)
    BY <1>1, Layout
  <2>2. IsOpen(u, w, b ++ y, d.user, d.work, Place(d))
    BY <1>0, <2>1, AtPrefix
  <2>3. CASE d.kind = "context"
    <3>1. Plain(Place(d)) /\ d.kind \notin TreeKinds
      BY <2>3, FixedPlain DEF Place, TreeKinds
    <3>2. ~IsPrefix(b ++ y, Place(d))
      BY <1>0, <3>1, NoCutSlash
    <3>3. QED
      BY <2>1, <2>2, <3>1, <3>2 DEF IsOpen, BranchIs
  <2>4. CASE d.kind # "context"
    <3>1. d.kind \in TreeKinds
      BY <1>1, <2>4 DEF TreeKinds
    <3>2. Place(d) = Branch(d) ++ Sub(d) /\ Plain(Branch(d)) /\ Sub(d) \in Text
      BY <3>1, TailParts
    <3>3. /\ IsPrefix(b ++ y, Branch(d) ++ Sub(d)) <=> b = Branch(d) /\ IsPrefix(y, Sub(d))
          /\ IsPrefix(b ++ y, Branch(d) ++ Sub(d)) => After(b ++ y, Branch(d) ++ Sub(d)) = After(y, Sub(d))
      BY <3>2, PrefixSlash
    <3>4. QED
      BY <2>1, <2>2, <3>1, <3>2, <3>3 DEF IsOpen, BranchIs
  <2>5. QED
    BY <2>3, <2>4
<1>2. CASE d.kind \notin WorkKinds
  <2>1. d.kind \in UserKinds /\ d.kind \notin TreeKinds
    BY <1>2 DEF IsDocument, WorkKinds, TreeKinds
  <2>2. ~IsPrefix(At(u, w, b ++ y), KeyOf(d))
    BY <1>0, <2>1, NotInSessions, AtText DEF At
  <2>3. QED
    BY <2>1, <2>2 DEF BranchIs
<1>3. QED
  BY <1>1, <1>2

\* The directory of one branch of a work.
LEMMA BranchRoot ==
    ASSUME NEW u, NEW w, NEW b, Plain(u), Plain(w), Plain(b), NEW y \in Text
    PROVE  /\ (SessionRoot(u, w) ++ b) \o <<"/">> = At(u, w, b ++ <<>>)
           /\ SessionRoot(u, w) ++ b ++ y = At(u, w, b ++ y)
<1> DEFINE g == SessionRoot(u, w)
           r == g ++ b
<1>1. b \in Text /\ <<>> \in Text /\ g \in Text
  BY PlainIsText, RootAssoc, NilText
<1>2. \A z \in Text : b ++ z \in Text /\ g ++ (b ++ z) = At(u, w, b ++ z)
  BY <1>1, SlashAssoc, RootAssoc
<1> HIDE DEF g
<1>3. r \in Text /\ \A z \in Text : r ++ z = g ++ (b ++ z)
  BY <1>1, SlashAssoc
<1> HIDE DEF r
<1>4. r \o <<"/">> = r ++ <<>>
  BY <1>3, OpenEnd
<1>5. QED
  BY <1>1, <1>2, <1>3, <1>4 DEF r, g

LEMMA MediaBranch ==
    ASSUME NEW d, IsDocument(d), d.kind \in TreeKinds
    PROVE  /\ Branch(d) = Dir("media") <=> d.kind = "media"
           /\ Branch(d) = Dir("outputs") <=> d.kind \in {"outputs", "output"}
<1>1. /\ Dir("media") # Dir("outputs")
      /\ \A n \in {"runtime", "models", "drawings"} : Dir(n) # Dir("media") /\ Dir(n) # Dir("outputs")
  BY DEF Dir
<1>2. QED
  BY <1>1, Branches, KindSets DEF Runtime, Models, Drawings

IsIn(d, root) == LET name == After(root \o <<"/">>, KeyOf(d))
                 IN  IsPrefix(root \o <<"/">>, KeyOf(d)) /\ name # <<>> /\ ~Contains(name, "/")

LEMMA InFacts ==
    ASSUME NEW D, NEW root
    PROVE  In({KeyOf(d) : d \in D}, root) = {KeyOf(d) : d \in {d \in D : IsIn(d, root)}}
BY DEF In, Under, IsIn

LEMMA MediaName ==
    ASSUME NEW d, IsDocument(d), d.kind = "media"
    PROVE  /\ Sub(d) = d.ids[1] \o <<".">> \o d.ids[2]
           /\ Plain(Sub(d)) /\ Sub(d) # <<>> /\ Sub(d) \in Text
           /\ Plain(d.ids[1]) /\ Plain(d.ids[2])
<1>1. Plain(d.ids[1]) /\ Plain(d.ids[2])
  BY IdFacts
<1>2. Sub(d) = d.ids[1] \o <<".">> \o d.ids[2]
  BY SubFacts
<1>3. d.ids[1] \in Text /\ d.ids[2] \in Text /\ "." \in Tokens
  BY <1>1, PlainIsText DEF Tokens
<1>4. Sub(d) # <<>>
  <2> DEFINE p == d.ids[1]
             q == d.ids[2]
  <2>1. p \in Text /\ q \in Text /\ Sub(d) = Sep(p, ".", q)
    BY <1>2, <1>3 DEF Sep
  <2> HIDE DEF p, q
  <2>2. IsJoin(Sub(d), p, ".", q)
    BY <1>3, <2>1, JoinFacts
  <2>3. QED
    BY <2>1, <2>2, TextFacts DEF IsJoin
<1>5. QED
  BY <1>1, <1>2, <1>4, DotFacts, PlainIsText

\* Listing uploaded files lists the files of the work.
LEMMA MediaIn ==
    ASSUME NEW d, IsDocument(d), NEW u, NEW w, Plain(u), Plain(w)
    PROVE  IsIn(d, MediaRoot(u, w)) <=> d.kind = "media" /\ d.user = u /\ d.work = w
<1> DEFINE m == Dir("media")
           pre == MediaRoot(u, w) \o <<"/">>
<1>1. Plain(m) /\ <<>> \in Text
  BY FixedPlain, NilText
<1>2. pre = At(u, w, m ++ <<>>)
  BY <1>1, BranchRoot DEF MediaRoot
<1>3. BranchIs(d, u, w, m, <<>>)
  BY <1>1, BranchSelected
<1> HIDE DEF m, pre
<1>4. CASE d.kind = "media"
  <2>1. d.kind \in TreeKinds /\ Branch(d) = m
    BY <1>4, KindSets, MediaBranch DEF m
  <2>2. Plain(Sub(d)) /\ Sub(d) # <<>> /\ Sub(d) \in Text
    BY <1>4, MediaName
  <2>3. IsPrefix(<<>>, Sub(d)) /\ After(<<>>, Sub(d)) = Sub(d)
    BY <2>2, EmptyPrefix
  <2>4. /\ IsPrefix(pre, KeyOf(d)) <=> d.user = u /\ d.work = w
        /\ IsPrefix(pre, KeyOf(d)) => After(pre, KeyOf(d)) = Sub(d)
    BY <1>2, <1>3, <2>1, <2>3 DEF BranchIs
  <2>5. ~Contains(Sub(d), "/")
    BY <2>2 DEF Plain, Lacks
  <2>6. QED
    BY <1>4, <2>2, <2>4, <2>5 DEF IsIn, pre
<1>5. CASE d.kind # "media"
  <2>1. ~IsPrefix(pre, KeyOf(d))
    BY <1>2, <1>3, <1>5, MediaBranch DEF BranchIs, m
  <2>2. QED
    BY <1>5, <2>1 DEF IsIn, pre
<1>6. QED
  BY <1>4, <1>5

\* The prefix of an uploaded file, whatever its extension.
LEMMA FileSelected ==
    ASSUME NEW d, IsDocument(d), NEW u, NEW w, NEW i, Plain(u), Plain(w), Plain(i), Lacks(i, ".")
    PROVE  IsPrefix(MediaPrefix(u, w, i), KeyOf(d)) <=>
              d.kind = "media" /\ d.user = u /\ d.work = w /\ d.ids[1] = i
<1> DEFINE m == Dir("media")
           y == i \o <<".">>
           r == SessionRoot(u, w) ++ m
<1>1. Plain(m) /\ i \in Text /\ <<".">> \in Text /\ "." \in Tokens /\ <<>> \in Text
  BY FixedPlain, PlainIsText, NilText DEF Text, Tokens
<1>2. y \in Text
  BY <1>1, ConcatFacts
<1>3. r ++ y = At(u, w, m ++ y)
  <2> HIDE DEF m, y
  <2>1. QED
    BY <1>1, <1>2, BranchRoot DEF r
<1>4. MediaPrefix(u, w, i) = r ++ y
  <2>1. m \in Text /\ SessionRoot(u, w) \in Text
    BY <1>1, RootAssoc, PlainIsText
  <2>2. r \in Text
    BY <2>1, SlashAssoc
  <2> DEFINE sl == <<"/">>
             rs == r \o sl
  <2>3. sl \in Text
    BY DEF Text, Tokens
  <2>4. MediaPrefix(u, w, i) = (rs \o i) \o <<".">> /\ r ++ y = rs \o (i \o <<".">>)
    BY DEF MediaPrefix, MediaRoot, ++
  <2> HIDE DEF r, sl
  <2>5. rs \in Text
    BY <2>2, <2>3, ConcatFacts
  <2> HIDE DEF rs
  <2>6. QED
    BY <1>1, <2>4, <2>5, ConcatAssoc
<1>5. BranchIs(d, u, w, m, y)
  <2> HIDE DEF m, y
  <2>1. QED
    BY <1>1, <1>2, BranchSelected
<1>6. y = Sep(i, ".", <<>>)
  BY <1>2, ConcatEmptySeq DEF Sep, Text
<1> HIDE DEF y, r
<1>7. CASE d.kind = "media"
  <2> DEFINE p == d.ids[1]
             q == d.ids[2]
  <2>1. d.kind \in TreeKinds /\ Branch(d) = m
    BY <1>7, KindSets, MediaBranch
  <2>2. Sub(d) = Sep(p, ".", q) /\ p \in Text /\ q \in Text
    BY <1>7, MediaName, PlainIsText DEF Sep
  <2>3. ~Contains(p, ".")
    BY <1>7 DEF IsDocument
  <2>4. Lacks(p, ".")
    BY <2>2, <2>3 DEF Lacks
  <2> HIDE DEF p, q, m
  <2>5. IsPrefix(Sep(i, ".", <<>>), Sep(p, ".", q)) <=> i = p /\ IsPrefix(<<>>, q)
    BY <1>1, <2>2, <2>4, CutPrefix
  <2>6. IsPrefix(<<>>, q)
    BY <2>2, EmptyPrefix
  <2>7. QED
    BY <1>3, <1>4, <1>5, <1>6, <1>7, <2>1, <2>2, <2>5, <2>6 DEF BranchIs, p
<1>8. CASE d.kind # "media"
  BY <1>3, <1>4, <1>5, <1>8, MediaBranch DEF BranchIs
<1>9. QED
  BY <1>7, <1>8

-----------------------------------------------------------------------------
(* What the store selects by prefix. *)

AllKeys == {KeyTable[d] : d \in Documents}

LEMMA TableFacts ==
    ASSUME NEW d \in Documents
    PROVE  KeyTable[d] = KeyOf(d) /\ KeyTable[d] \in AllKeys /\ IsDocument(d)
BY DocumentsAssumption DEF KeyTable, AllKeys

LEMMA TableInjective ==
    ASSUME NEW a \in Documents, NEW b \in Documents, KeyTable[a] = KeyTable[b]
    PROVE  a = b
BY TableFacts, KeyInjective

LEMMA PlainWork ==
    ASSUME NEW d \in Documents, d.kind \in {"context", "media"}
    PROVE  Plain(d.user) /\ Plain(d.work)
<1>1. IsDocument(d) /\ d.kind \in WorkKinds
  BY TableFacts, KindSets
<1>2. QED
  BY <1>1, IdFacts

\* What a deletion by the prefix of a work selects.
LEMMA UnderWork ==
    ASSUME NEW d \in Documents, NEW u, NEW w, Plain(u), Plain(w)
    PROVE  IsPrefix(WorkPrefix(u, w), KeyTable[d]) => d.user = u /\ d.work = w
BY TableFacts, WorkSelected

\* What a listing of uploaded files finds.
LEMMA FilesFound ==
    ASSUME NEW keys \in SUBSET AllKeys, NEW u, NEW w, Plain(u), Plain(w)
    PROVE  In(keys, MediaRoot(u, w)) =
              {KeyTable[d] : d \in {d \in Documents : /\ KeyTable[d] \in keys /\ d.kind = "media"
                                                     /\ d.user = u /\ d.work = w}}
<1> DEFINE root == MediaRoot(u, w)
           D == {d \in Documents : KeyTable[d] \in keys}
<1>1. keys = {KeyOf(d) : d \in D}
  BY TableFacts DEF AllKeys
<1>2. In(keys, root) = {KeyOf(d) : d \in {d \in D : IsIn(d, root)}}
  <2> HIDE DEF root, D
  <2>1. QED
    BY <1>1, InFacts
<1>3. \A d \in D : IsIn(d, root) <=> d.kind = "media" /\ d.user = u /\ d.work = w
  BY TableFacts, MediaIn
<1>4. \A d \in D : KeyOf(d) = KeyTable[d]
  BY TableFacts
<1> HIDE DEF root
<1>5. In(keys, root) = {KeyTable[d] : d \in {d \in D : d.kind = "media" /\ d.user = u /\ d.work = w}}
  <2> HIDE DEF D
  <2>1. QED
    BY <1>2, <1>3, <1>4, Zenon
<1>6. QED
  BY <1>5 DEF root

LEMMA FileFound ==
    ASSUME NEW keys \in SUBSET AllKeys, NEW d \in Documents, d.kind = "media"
    PROVE  Under(keys, MediaPrefix(d.user, d.work, d.ids[1])) = {KeyTable[d]} \cap keys
<1> DEFINE pre == MediaPrefix(d.user, d.work, d.ids[1])
<1>1. IsDocument(d) /\ Plain(d.user) /\ Plain(d.work) /\ Plain(d.ids[1])
  BY TableFacts, PlainWork, MediaName
<1>2. Lacks(d.ids[1], ".")
  BY <1>1, PlainIsText DEF IsDocument, Lacks
<1>3. ASSUME NEW e \in Documents
      PROVE  IsPrefix(pre, KeyTable[e]) <=> e = d
  <2>1. IsPrefix(pre, KeyTable[e]) <=>
           e.kind = "media" /\ e.user = d.user /\ e.work = d.work /\ e.ids[1] = d.ids[1]
    BY <1>1, <1>2, TableFacts, FileSelected
  <2>2. e.kind = "media" /\ e.ids[1] = d.ids[1] => e = d
    BY DocumentsAssumption
  <2>3. QED
    BY <2>1, <2>2
<1> HIDE DEF pre
<1>4. QED
  BY <1>3 DEF Under, AllKeys, pre

-----------------------------------------------------------------------------
(* The invariant of the store. *)

Tasks == [op : {"none", "list", "delete"},
          doc : {None} \cup Documents \cup WorksWithFiles,
          todo : SUBSET AllKeys, got : SUBSET AllKeys,
          asked : SUBSET MediaDocs, lost : SUBSET MediaDocs, code : {0, 200, 500}]

DoomedOf(work) == {d \in Documents : <<d.user, d.work>> = work}

\* Each listing has what it found and what is left of what it was asked for, and what it
\* was asked for is still there or was deleted meanwhile.
Listing(r, keys) ==
    /\ r.lost \subseteq r.asked
    /\ r.code # 500 => r.got \cup r.todo = {KeyTable[d] : d \in r.asked}
    /\ r.code = 200 => r.todo = {}
    /\ r.code = 500 => r.lost # {}
    /\ \A k \in r.todo : k \in {KeyTable[d] : d \in r.asked}
    /\ \A d \in r.asked : KeyTable[d] \in keys \/ d \in r.lost

Deleting(r) == r.doc \in MediaDocs /\ r.todo \subseteq {KeyTable[r.doc]} /\ r.code = 0 /\ r.asked = {}

Doing(r, keys) ==
    /\ r.op = "none" => r = Idle
    /\ r.op = "list" => Listing(r, keys)
    /\ r.op = "delete" => Deleting(r)

\* Only documents have objects; the deletion of a work has keys of the work left; and
\* every thread is in order.
StoreInv ==
    /\ Keys \subseteq AllKeys
    /\ loop \in [work : {None} \cup WorksOfDocs \cup WorksWithFiles, todo : SUBSET AllKeys]
    /\ loop.work = None => loop.todo = {}
    /\ loop.work # None => loop.todo \subseteq {KeyTable[d] : d \in DoomedOf(loop.work)}
    /\ thread \in [Threads -> Tasks]
    /\ \A t \in Threads : Doing(thread[t], Keys)

\* No object, no thread at work.
LEMMA StoreInit == ObjectsInit => StoreInv
<1>1. SUFFICES ASSUME ObjectsInit PROVE StoreInv
  OBVIOUS
<1>2. Keys = {} /\ loop = NoDeletion /\ thread = [t \in Threads |-> Idle]
  BY <1>1 DEF ObjectsInit, Keys
<1>3. Idle \in Tasks /\ Doing(Idle, Keys)
  BY DEF Idle, Tasks, Doing
<1>4. NoDeletion \in [work : {None} \cup WorksOfDocs \cup WorksWithFiles, todo : SUBSET AllKeys]
      /\ NoDeletion.work = None /\ NoDeletion.todo = {}
  BY DEF NoDeletion
<1>5. QED
  BY <1>2, <1>3, <1>4 DEF StoreInv

\* A thread while files go: its listing learns which of its own went.
LEMMA LostTask ==
    ASSUME NEW r \in Tasks, NEW keys, NEW ks, NEW files, Doing(r, keys),
           \A d \in r.asked : KeyTable[d] \in ks => d \in r.lost \/ d \in files
    PROVE  /\ [r EXCEPT !.lost = @ \cup (r.asked \cap files)] \in Tasks
           /\ Doing([r EXCEPT !.lost = @ \cup (r.asked \cap files)], keys \ ks)
<1> DEFINE s == [r EXCEPT !.lost = @ \cup (r.asked \cap files)]
<1>1. s \in Tasks
  BY DEF Tasks
<1>2. /\ s.op = r.op /\ s.doc = r.doc /\ s.todo = r.todo /\ s.got = r.got /\ s.asked = r.asked
      /\ s.code = r.code /\ s.lost = r.lost \cup (r.asked \cap files)
  BY DEF Tasks
<1>3. r = Idle => s = Idle
  BY DEF Idle
<1> HIDE DEF s
<1>4. r.op = "list" => Listing(s, keys \ ks)
  <2>1. SUFFICES ASSUME r.op = "list" PROVE Listing(s, keys \ ks)
    OBVIOUS
  <2>2. Listing(r, keys)
    BY <2>1 DEF Doing
  <2>3. QED
    BY <1>2, <2>2 DEF Listing
<1>5. r.op = "delete" => Deleting(s)
  BY <1>2 DEF Doing, Deleting
<1>6. Doing(s, keys \ ks)
  BY <1>2, <1>3, <1>4, <1>5 DEF Doing
<1>7. QED
  BY <1>1, <1>6 DEF s

\* More keys disturb no thread.
LEMMA MoreKeys ==
    ASSUME NEW r, NEW keys, NEW more, keys \subseteq more, Doing(r, keys)
    PROVE  Doing(r, more)
BY DEF Doing, Listing, Deleting

\* A write adds a key of a document.
LEMMA PutKeeps ==
    ASSUME StoreInv, NEW d \in Documents, NEW content, PutObject(d, content)
    PROVE  StoreInv' /\ Keys' = Keys \cup {KeyTable[d]}
<1>1. Keys' = Keys \cup {KeyTable[d]} /\ loop' = loop /\ thread' = thread
  BY DEF PutObject, Keys
<1>2. KeyTable[d] \in AllKeys
  BY TableFacts
<1>3. \A t \in Threads : Doing(thread[t], Keys')
  BY <1>1, MoreKeys DEF StoreInv
<1>4. Keys' \subseteq AllKeys
  BY <1>1, <1>2 DEF StoreInv
<1>5. QED
  BY <1>1, <1>3, <1>4 DEF StoreInv

LEMMA DeleteWorkKeeps ==
    ASSUME StoreInv, NEW d \in Documents, d.kind \in {"context", "media"}, DeleteWork(d.user, d.work)
    PROVE  StoreInv'
<1> DEFINE new == [work |-> <<d.user, d.work>>, todo |-> Under(Keys, WorkPrefix(d.user, d.work))]
<1>1. objects' = objects /\ thread' = thread /\ loop' = new
  BY DEF DeleteWork
<1>2. new.work \in WorksOfDocs \cup WorksWithFiles /\ new.work # None
  BY DocumentsAssumption DEF WorksOfDocs, WorksWithFiles, MediaDocs
<1>3. new.todo \subseteq {KeyTable[e] : e \in DoomedOf(new.work)} /\ new.todo \in SUBSET AllKeys
  <2>1. Keys \subseteq AllKeys
    BY DEF StoreInv
  <2>2. Plain(d.user) /\ Plain(d.work)
    BY PlainWork
  <2>3. \A e \in Documents : IsPrefix(WorkPrefix(d.user, d.work), KeyTable[e]) =>
            e.user = d.user /\ e.work = d.work
    BY <2>2, UnderWork
  <2>4. QED
    BY <2>1, <2>3 DEF Under, AllKeys, DoomedOf
<1> HIDE DEF new
<1>4. new \in [work : {None} \cup WorksOfDocs \cup WorksWithFiles, todo : SUBSET AllKeys]
  BY <1>2, <1>3 DEF new
<1>5. Keys' = Keys
  BY <1>1 DEF Keys
<1>6. QED
  BY <1>1, <1>2, <1>3, <1>4, <1>5 DEF StoreInv

LEMMA LoopGone ==
    ASSUME StoreInv, loop' = NoDeletion
    PROVE  /\ loop' \in [work : {None} \cup WorksOfDocs \cup WorksWithFiles, todo : SUBSET AllKeys]
           /\ loop'.work = None /\ loop'.todo = {}
BY DEF NoDeletion

LEMMA BatchFailsKeeps ==
    ASSUME StoreInv, BatchFails
    PROVE  StoreInv'
<1>1. objects' = objects /\ thread' = thread /\ loop' = NoDeletion
  BY DEF BatchFails
<1>2. Keys' = Keys
  BY <1>1 DEF Keys
<1>3. QED
  BY <1>1, <1>2, LoopGone DEF StoreInv

\* Objects go and every listing learns of it.
LEMMA RemoveKeeps ==
    ASSUME StoreInv, NEW ks, NEW files, objects' = Without(ks),
           \A d \in MediaDocs : KeyTable[d] \in ks /\ KeyTable[d] \in Keys => d \in files,
           NEW t \in Threads
    PROVE  /\ Keys' = Keys \ ks /\ Keys' \subseteq AllKeys
           /\ Lost(files)[t] \in Tasks /\ Doing(Lost(files)[t], Keys')
<1>1. Keys' = Keys \ ks
  BY DEF Keys, Without
<1>2. thread[t] \in Tasks /\ Doing(thread[t], Keys) /\ Keys \subseteq AllKeys
  BY DEF StoreInv
<1> DEFINE r == thread[t]
<1>3. \A d \in r.asked : KeyTable[d] \in ks => d \in r.lost \/ d \in files
  <2>1. CASE r.op = "list"
    <3>1. Listing(r, Keys) /\ r.asked \subseteq MediaDocs
      BY <1>2, <2>1 DEF Doing, Tasks
    <3>2. QED
      BY <3>1 DEF Listing
  <2>2. CASE r.op = "none"
    BY <1>2, <2>2 DEF Doing, Idle
  <2>3. CASE r.op = "delete"
    \* a deletion was not asked for files
    BY <1>2, <2>3 DEF Doing, Deleting
  <2>4. QED
    BY <1>2, <2>1, <2>2, <2>3 DEF Tasks
<1>4. Lost(files)[t] = [r EXCEPT !.lost = @ \cup (r.asked \cap files)]
  BY DEF Lost
<1>7. r \in Tasks /\ Doing(r, Keys)
  BY <1>2
<1> HIDE DEF r
<1>8. /\ [r EXCEPT !.lost = @ \cup (r.asked \cap files)] \in Tasks
      /\ Doing([r EXCEPT !.lost = @ \cup (r.asked \cap files)], Keys \ ks)
  BY <1>3, <1>7, LostTask
<1>5. Lost(files)[t] \in Tasks /\ Doing(Lost(files)[t], Keys \ ks)
  BY <1>4, <1>8
<1>6. QED
  BY <1>1, <1>2, <1>5

\* A batch takes keys of the work alone, and the listings that wanted them learn of it.
LEMMA DeleteBatchKeeps ==
    ASSUME StoreInv, DeleteBatch
    PROVE  StoreInv'
<1> DEFINE files(ks) == {d \in FilesOf(loop.work[1], loop.work[2]) : KeyTable[d] \in ks}
<1>1. PICK ks \in SUBSET loop.todo :
         /\ objects' = Without(ks)
         /\ loop' = IF loop.todo = ks THEN NoDeletion ELSE [loop EXCEPT !.todo = @ \ ks]
         /\ thread' = Lost(files(ks))
  BY DEF DeleteBatch
<1>2. \A d \in MediaDocs : KeyTable[d] \in ks /\ KeyTable[d] \in Keys => d \in files(ks)
  <2>1. SUFFICES ASSUME NEW d \in MediaDocs, KeyTable[d] \in ks, KeyTable[d] \in Keys
                 PROVE  d \in files(ks)
    OBVIOUS
  <2>2. KeyTable[d] \in loop.todo
    BY <1>1, <2>1
  <2>3. loop.work # None /\ d \in Documents /\ d.kind = "media"
    BY <2>2 DEF StoreInv, MediaDocs
  <2>4. PICK e \in DoomedOf(loop.work) : KeyTable[e] = KeyTable[d]
    BY <2>2, <2>3 DEF StoreInv
  <2>5. e = d
    BY <2>3, <2>4, TableInjective DEF DoomedOf
  <2>6. <<d.user, d.work>> = loop.work
    BY <2>5 DEF DoomedOf
  <2>7. d.user = loop.work[1] /\ d.work = loop.work[2]
    BY <2>6
  <2>8. QED
    BY <2>1, <2>3, <2>7 DEF FilesOf, Stored
<1> HIDE DEF files
<1>3. \A t \in Threads : thread'[t] \in Tasks /\ Doing(thread'[t], Keys')
  BY <1>1, <1>2, RemoveKeeps
<1>4. Keys' = Keys \ ks /\ Keys' \subseteq AllKeys
  BY <1>1 DEF Keys, Without, StoreInv
<1>5. thread' \in [Threads -> Tasks]
  BY <1>1, <1>3 DEF Lost
<1>6. /\ loop' \in [work : {None} \cup WorksOfDocs \cup WorksWithFiles, todo : SUBSET AllKeys]
      /\ loop'.work = None => loop'.todo = {}
      /\ loop'.work # None => loop'.todo \subseteq {KeyTable[d] : d \in DoomedOf(loop'.work)}
  <2>1. CASE loop.todo = ks
    BY <1>1, <2>1, LoopGone
  <2>2. CASE loop.todo # ks
    <3>1. loop' = [loop EXCEPT !.todo = @ \ ks]
      BY <1>1, <2>2
    <3>2. loop \in [work : {None} \cup WorksOfDocs \cup WorksWithFiles, todo : SUBSET AllKeys]
      BY DEF StoreInv
    <3>3. loop' \in [work : {None} \cup WorksOfDocs \cup WorksWithFiles, todo : SUBSET AllKeys]
          /\ loop'.work = loop.work /\ loop'.todo = loop.todo \ ks
      BY <3>1, <3>2
    <3>4. QED
      BY <3>3 DEF StoreInv
  <2>3. QED
    BY <2>1, <2>2
<1>7. QED
  BY <1>3, <1>4, <1>5, <1>6 DEF StoreInv

LEMMA ThreadStep ==
    ASSUME StoreInv, NEW t \in Threads, NEW s \in Tasks, Doing(s, Keys),
           objects' = objects, loop' = loop, thread' = [thread EXCEPT ![t] = s]
    PROVE  StoreInv'
<1>1. Keys' = Keys
  BY DEF Keys
<1>2. thread' \in [Threads -> Tasks]
  BY DEF StoreInv
<1>3. \A u \in Threads : Doing(thread'[u], Keys)
  BY DEF StoreInv
<1>4. QED
  BY <1>1, <1>2, <1>3 DEF StoreInv

LEMMA StartListKeeps ==
    ASSUME StoreInv, NEW t \in Threads, NEW d \in MediaDocs, StartList(t, d.user, d.work)
    PROVE  StoreInv'
<1> DEFINE files == FilesOf(d.user, d.work)
           root == MediaRoot(d.user, d.work)
           s == [Idle EXCEPT !.op = "list", !.doc = <<d.user, d.work>>, !.todo = In(Keys, root),
                             !.asked = files]
<1>1. thread' = [thread EXCEPT ![t] = s] /\ objects' = objects /\ loop' = loop
  BY DEF StartList
<1>2. Plain(d.user) /\ Plain(d.work) /\ Keys \in SUBSET AllKeys
  BY PlainWork DEF MediaDocs, StoreInv
<1>3. In(Keys, root) = {KeyTable[e] : e \in files}
  <2>1. In(Keys, root) =
           {KeyTable[e] : e \in {e \in Documents : /\ KeyTable[e] \in Keys /\ e.kind = "media"
                                                  /\ e.user = d.user /\ e.work = d.work}}
    BY <1>2, FilesFound
  <2>2. files = {e \in Documents : /\ KeyTable[e] \in Keys /\ e.kind = "media"
                                   /\ e.user = d.user /\ e.work = d.work}
    BY DEF FilesOf, Stored
  <2>3. QED
    BY <2>1, <2>2
<1>4. files \in SUBSET MediaDocs /\ In(Keys, root) \in SUBSET AllKeys
  BY <1>3, TableFacts DEF FilesOf, Stored, MediaDocs
<1>5. \A e \in files : KeyTable[e] \in Keys
  BY DEF FilesOf, Stored
<1>6. <<d.user, d.work>> \in WorksWithFiles
  BY DEF WorksWithFiles
<1> HIDE DEF root, files
<1>7. /\ s.op = "list" /\ s.doc = <<d.user, d.work>> /\ s.todo = In(Keys, root) /\ s.got = {}
      /\ s.asked = files /\ s.lost = {} /\ s.code = 0
  BY DEF Idle
<1>8. s \in Tasks
  BY <1>4, <1>6 DEF Tasks, Idle
<1> HIDE DEF s
<1>9. Listing(s, Keys)
  BY <1>3, <1>5, <1>7 DEF Listing
<1>10. Doing(s, Keys)
  BY <1>7, <1>9 DEF Doing
<1>11. QED
  BY <1>1, <1>8, <1>10, ThreadStep

\* A file that is gone before its turn was deleted on request.
LEMMA HeadOneKeeps ==
    ASSUME StoreInv, NEW t \in Threads, HeadOne(t)
    PROVE  StoreInv'
<1> DEFINE r == thread[t]
           k == CHOOSE k \in r.todo : TRUE
           s == IF r.todo = {} THEN [r EXCEPT !.code = 200]
                ELSE IF k \in Keys THEN [r EXCEPT !.todo = @ \ {k}, !.got = @ \cup {k}]
                     ELSE [r EXCEPT !.code = 500]
<1>1. thread' = [thread EXCEPT ![t] = s] /\ objects' = objects /\ loop' = loop
  BY DEF HeadOne
<1>2. r \in Tasks /\ r.op = "list" /\ r.code = 0 /\ Listing(r, Keys)
  BY DEF HeadOne, StoreInv, Doing
<1>3. r.todo # {} => k \in r.todo
  OBVIOUS
<1> HIDE DEF r, k
<1>8. r = [op |-> r.op, doc |-> r.doc, todo |-> r.todo, got |-> r.got, asked |-> r.asked,
           lost |-> r.lost, code |-> r.code]
  BY <1>2 DEF Tasks
<1>9. /\ r.op \in {"none", "list", "delete"} /\ r.doc \in {None} \cup Documents \cup WorksWithFiles
      /\ r.todo \in SUBSET AllKeys /\ r.got \in SUBSET AllKeys /\ r.asked \in SUBSET MediaDocs
      /\ r.lost \in SUBSET MediaDocs
  BY <1>2 DEF Tasks
<1>4. CASE r.todo = {}
  <2>1. s = [r EXCEPT !.code = 200]
    BY <1>4
  <2>0. s \in Tasks
    BY <1>2, <2>1 DEF Tasks
  <2> HIDE DEF s
  <2>2. s \in Tasks /\ s.op = "list" /\ s.todo = r.todo /\ s.got = r.got /\ s.asked = r.asked
        /\ s.lost = r.lost /\ s.code = 200
    BY <1>2, <1>8, <2>0, <2>1
  <2>3. Listing(s, Keys)
    BY <1>2, <1>4, <2>2 DEF Listing
  <2>4. QED
    BY <1>1, <2>2, <2>3, ThreadStep DEF Doing
<1>5. CASE r.todo # {} /\ k \in Keys
  <2>1. s = [r EXCEPT !.todo = @ \ {k}, !.got = @ \cup {k}]
    BY <1>5
  <2>2. k \in AllKeys
    BY <1>2, <1>3, <1>5 DEF Tasks
  <2>7. r.todo \ {k} \in SUBSET AllKeys /\ r.got \cup {k} \in SUBSET AllKeys
    BY <1>9, <2>2
  <2> HIDE DEF s
  <2>8. s = [op |-> r.op, doc |-> r.doc, todo |-> r.todo \ {k}, got |-> r.got \cup {k},
             asked |-> r.asked, lost |-> r.lost, code |-> r.code]
    BY <1>8, <2>1
  <2>0. s \in Tasks
    BY <1>2, <1>9, <2>7, <2>8 DEF Tasks
  <2>3. s \in Tasks /\ s.op = "list" /\ s.todo = r.todo \ {k} /\ s.got = r.got \cup {k}
        /\ s.asked = r.asked /\ s.lost = r.lost /\ s.code = 0
    BY <1>2, <1>8, <2>0, <2>1
  <2>4. s.got \cup s.todo = r.got \cup r.todo
    BY <1>3, <1>5, <2>3
  <2>5. Listing(s, Keys)
    BY <1>2, <2>3, <2>4 DEF Listing
  <2>6. QED
    BY <1>1, <2>3, <2>5, ThreadStep DEF Doing
<1>6. CASE r.todo # {} /\ k \notin Keys
  <2>1. s = [r EXCEPT !.code = 500]
    BY <1>6
  <2>0. s \in Tasks
    BY <1>2, <2>1 DEF Tasks
  <2> HIDE DEF s
  <2>2. s \in Tasks /\ s.op = "list" /\ s.todo = r.todo /\ s.got = r.got /\ s.asked = r.asked
        /\ s.lost = r.lost /\ s.code = 500
    BY <1>2, <1>8, <2>0, <2>1
  <2>3. PICK d \in r.asked : k = KeyTable[d]
    BY <1>2, <1>3, <1>6 DEF Listing
  <2>4. d \in r.lost
    BY <1>2, <1>6, <2>3 DEF Listing
  <2>5. Listing(s, Keys)
    BY <1>2, <2>2, <2>4 DEF Listing
  <2>6. QED
    BY <1>1, <2>2, <2>5, ThreadStep DEF Doing
<1>7. QED
  BY <1>4, <1>5, <1>6

LEMMA StartDeleteKeeps ==
    ASSUME StoreInv, NEW t \in Threads, NEW d \in MediaDocs, StartDelete(t, d)
    PROVE  StoreInv'
<1> DEFINE todo == Under(Keys, MediaPrefix(d.user, d.work, d.ids[1]))
           s == [Idle EXCEPT !.op = "delete", !.doc = d, !.todo = todo]
<1>1. thread' = [thread EXCEPT ![t] = s] /\ objects' = objects /\ loop' = loop
  BY DEF StartDelete
<1>2. d \in Documents /\ d.kind = "media" /\ Keys \in SUBSET AllKeys
  BY DEF MediaDocs, StoreInv
<1>3. todo = {KeyTable[d]} \cap Keys
  BY <1>2, FileFound
<1> HIDE DEF todo
<1>7. todo \in SUBSET AllKeys
  BY <1>2, <1>3
<1>8. s \in Tasks
  BY <1>2, <1>7 DEF Idle, Tasks
<1>4. s \in Tasks /\ s.op = "delete" /\ s.doc = d /\ s.todo = todo /\ s.code = 0 /\ s.asked = {}
  BY <1>8 DEF Idle
<1> HIDE DEF s
<1>5. Doing(s, Keys)
  BY <1>3, <1>4 DEF Doing, Deleting
<1>6. QED
  BY <1>1, <1>4, <1>5, ThreadStep

LEMMA IdleTask == Idle \in Tasks /\ \A keys : Doing(Idle, keys)
BY DEF Idle, Tasks, Doing

LEMMA AnswerKeeps ==
    ASSUME StoreInv, NEW t \in Threads, Answer(t)
    PROVE  StoreInv'
BY IdleTask, ThreadStep DEF Answer

\* The deletion of a file takes at most the key of the file.
LEMMA FinishDeleteKeeps ==
    ASSUME StoreInv, NEW t \in Threads, FinishDelete(t)
    PROVE  StoreInv'
<1> DEFINE ks == thread[t].todo
           files == {thread[t].doc}
<1>1. objects' = Without(ks) /\ thread' = [Lost(files) EXCEPT ![t] = Idle] /\ loop' = loop
  BY DEF FinishDelete
<1>2. thread[t].doc \in MediaDocs /\ ks \subseteq {KeyTable[thread[t].doc]}
  BY DEF FinishDelete, StoreInv, Doing, Deleting
<1>3. \A d \in MediaDocs : KeyTable[d] \in ks /\ KeyTable[d] \in Keys => d \in files
  BY <1>2, TableInjective DEF MediaDocs
<1> HIDE DEF ks, files
<1>4. \A u \in Threads : Lost(files)[u] \in Tasks /\ Doing(Lost(files)[u], Keys')
  BY <1>1, <1>3, RemoveKeeps
<1>5. Keys' \subseteq AllKeys
  BY <1>1 DEF Keys, Without, StoreInv
<1>6. DOMAIN Lost(files) = Threads
  BY DEF Lost
<1>7. thread' \in [Threads -> Tasks] /\ \A u \in Threads : Doing(thread'[u], Keys')
  <2> DEFINE l == Lost(files)
  <2>1. l = [u \in Threads |-> l[u]]
    BY DEF Lost
  <2> HIDE DEF l
  <2>2. thread' = [l EXCEPT ![t] = Idle] /\ \A u \in Threads : l[u] \in Tasks /\ Doing(l[u], Keys')
    BY <1>1, <1>4 DEF l
  <2>3. QED
    BY <2>1, <2>2, IdleTask
<1>8. QED
  BY <1>1, <1>5, <1>7 DEF StoreInv

LEMMA StoreStep == StoreInv /\ [ObjectsNext]_objectVars => StoreInv'
<1>1. SUFFICES ASSUME StoreInv, [ObjectsNext]_objectVars PROVE StoreInv'
  OBVIOUS
<1>2. CASE UNCHANGED objectVars
  BY <1>1, <1>2 DEF objectVars, StoreInv, Keys
<1>3. ASSUME NEW d \in Documents, NEW content, PutObject(d, content) PROVE StoreInv'
  BY <1>1, <1>3, PutKeeps
<1>4. ASSUME NEW w \in WorksOfDocs \cup WorksWithFiles, DeleteWork(w[1], w[2]) PROVE StoreInv'
  <2>1. PICK d \in Documents : d.kind \in {"context", "media"} /\ w = <<d.user, d.work>>
    BY <1>4 DEF WorksOfDocs, WorksWithFiles, MediaDocs
  <2>2. DeleteWork(d.user, d.work)
    BY <1>4, <2>1
  <2>3. QED
    BY <1>1, <2>1, <2>2, DeleteWorkKeeps
<1>5. ASSUME NEW t \in Threads, NEW w \in WorksWithFiles, StartList(t, w[1], w[2]) PROVE StoreInv'
  <2>1. PICK d \in MediaDocs : w = <<d.user, d.work>>
    BY <1>5 DEF WorksWithFiles
  <2>2. StartList(t, d.user, d.work)
    BY <1>5, <2>1
  <2>3. QED
    BY <1>1, <2>2, StartListKeeps
<1>6. CASE HandlerNext
  BY <1>1, <1>3, <1>4, <1>6, DeleteBatchKeeps, BatchFailsKeeps
     DEF HandlerNext, Put, Patch, Upload, Write
<1>7. CASE FileNext
  BY <1>1, <1>3, <1>4, <1>5, <1>7, DeleteBatchKeeps, BatchFailsKeeps, StartDeleteKeeps, HeadOneKeeps,
     FinishDeleteKeeps, AnswerKeeps DEF FileNext, Upload, MediaDocs
<1>8. QED
  BY <1>1, <1>2, <1>6, <1>7 DEF ObjectsNext

\* The invariant holds throughout.
LEMMA StoreInvariant == ObjectsSpec => []StoreInv
BY StoreInit, StoreStep, PTL DEF ObjectsSpec

\* list_media names every file the work had when it was asked, though its head_object
\* calls interleave with uploads, deletions of files and of whole works; it fails only
\* when one of the files it was to name was deleted meanwhile.
THEOREM MediaListings == ObjectsSpec => []MediaListingsTrue
<1>1. StoreInv => MediaListingsTrue
  <2>1. SUFFICES ASSUME StoreInv, NEW t \in Threads
                 PROVE  /\ thread[t].code = 200 => thread[t].got = {KeyTable[d] : d \in thread[t].asked}
                        /\ thread[t].code = 500 => thread[t].lost # {}
    BY DEF MediaListingsTrue
  <2>2. thread[t] \in Tasks /\ Doing(thread[t], Keys)
    BY <2>1 DEF StoreInv
  <2>3. thread[t].code # 0 => Listing(thread[t], Keys)
    BY <2>2 DEF Doing, Tasks, Deleting, Idle
  <2>4. QED
    BY <2>3 DEF Listing
<1>2. QED
  BY <1>1, StoreInvariant, PTL

-----------------------------------------------------------------------------
(* The store is a shelf of documents. *)

\* What the store shows as a shelf.
Entry(d) == [doc |-> d, content |-> objects[KeyTable[d]]]
Entries == {Entry(d) : d \in Stored}

LEMMA EntriesSame ==
    ASSUME objects' = objects
    PROVE  Entries' = Entries
BY DEF Entries, Entry, Stored, Keys

\* A write stores one document and changes no other.
LEMMA PutIsStore ==
    ASSUME StoreInv, NEW d \in Documents, NEW content, PutObject(d, content)
    PROVE  Shelf!Store
<1> DEFINE new == [doc |-> d, content |-> content]
<1>1. Keys' = Keys \cup {KeyTable[d]}
  BY PutKeeps
<1>2. loop' = loop
      /\ objects' = [k \in Keys \cup {KeyTable[d]} |-> IF k = KeyTable[d] THEN content ELSE objects[k]]
  BY DEF PutObject
<1>3. Stored' = Stored \cup {d}
  BY <1>1, TableInjective DEF Stored
<1>4. ASSUME NEW e \in Stored, e # d
      PROVE  objects'[KeyTable[e]] = objects[KeyTable[e]]
  <2>1. e \in Documents /\ KeyTable[e] \in Keys
    BY <1>4 DEF Stored
  <2>2. KeyTable[e] # KeyTable[d]
    BY <1>4, <2>1, TableInjective
  <2>3. QED
    BY <1>2, <2>1, <2>2
<1>5. objects'[KeyTable[d]] = content
  BY <1>2
<1>6. Entries' = {[doc |-> e, content |-> objects'[KeyTable[e]]] : e \in Stored \cup {d}}
  BY <1>3 DEF Entries, Entry
<1>7. \A f \in Entries' : f \in {g \in Entries : g.doc # d} \cup {new}
  <2>1. SUFFICES ASSUME NEW f \in Entries' PROVE f \in {g \in Entries : g.doc # d} \cup {new}
    OBVIOUS
  <2>2. PICK e \in Stored \cup {d} : f = [doc |-> e, content |-> objects'[KeyTable[e]]]
    BY <1>6, <2>1
  <2>3. CASE e = d
    BY <1>5, <2>2, <2>3
  <2>4. CASE e # d
    <3>1. f = Entry(e) /\ e \in Stored /\ f.doc = e
      BY <1>4, <2>2, <2>4 DEF Entry
    <3>2. QED
      BY <2>4, <3>1 DEF Entries
  <2>5. QED
    BY <2>3, <2>4
<1>8. \A f \in {g \in Entries : g.doc # d} \cup {new} : f \in Entries'
  <2>1. SUFFICES ASSUME NEW f \in {g \in Entries : g.doc # d} \cup {new} PROVE f \in Entries'
    OBVIOUS
  <2>2. CASE f = new
    BY <1>5, <1>6, <2>2
  <2>3. CASE f \in Entries /\ f.doc # d
    <3>1. PICK e \in Stored : f = Entry(e)
      BY <2>3 DEF Entries
    <3>2. e # d
      BY <2>3, <3>1 DEF Entry
    <3>3. f = [doc |-> e, content |-> objects'[KeyTable[e]]]
      BY <1>4, <3>1, <3>2 DEF Entry
    <3>4. QED
      BY <1>6, <3>3
  <2>4. QED
    BY <2>1, <2>2, <2>3
<1>9. Entries' = {f \in Entries : f.doc # new.doc} \cup {new} /\ new \in Entries'
  BY <1>7, <1>8
<1> HIDE DEF new
<1>10. QED
  BY <1>2, <1>9 DEF Shelf!Store, Entries, Entry

\* Objects go: the documents under their keys do, and no other.
LEMMA GoneEntries ==
    ASSUME StoreInv, NEW ks, objects' = Without(ks)
    PROVE  /\ Entries' = {f \in Entries : KeyTable[f.doc] \notin ks}
           /\ \A f \in Entries : f.doc \in Documents
<1>1. Keys' = Keys \ ks /\ \A k \in Keys \ ks : objects'[k] = objects[k]
  BY DEF Keys, Without
<1>2. Stored' = {d \in Stored : KeyTable[d] \notin ks}
  BY <1>1 DEF Stored
<1>3. Entries' = {[doc |-> d, content |-> objects'[KeyTable[d]]] : d \in Stored'}
  BY DEF Entries, Entry
<1>4. \A d \in Stored' : [doc |-> d, content |-> objects'[KeyTable[d]]] = Entry(d)
  BY <1>1, <1>2 DEF Entry, Stored
<1>5. Entries' = {Entry(d) : d \in Stored'}
  BY <1>3, <1>4
<1>6. \A d : Entry(d).doc = d
  BY DEF Entry
<1>7. QED
  BY <1>2, <1>5, <1>6 DEF Entries, Stored

LEMMA DeleteWorkIsClose ==
    ASSUME NEW d \in Documents, DeleteWork(d.user, d.work)
    PROVE  Shelf!Close
<1>1. loop.work = None /\ loop'.work = <<d.user, d.work>> /\ objects' = objects
  BY DEF DeleteWork, NoDeletion
<1>2. None # <<d.user, d.work>>
  BY DocumentsAssumption
<1>3. Entries' = Entries
  BY <1>1, EntriesSame
<1>4. QED
  BY <1>1, <1>2, <1>3 DEF Shelf!Close, Entries, Entry

LEMMA BatchFailsIsClose ==
    ASSUME StoreInv, BatchFails
    PROVE  Shelf!Close
<1>1. loop.todo # {} /\ loop' = NoDeletion /\ objects' = objects
  BY DEF BatchFails
<1>2. loop.work # None /\ loop'.work = None
  BY <1>1 DEF StoreInv, NoDeletion
<1>3. Entries' = Entries
  BY <1>1, EntriesSame
<1>4. QED
  BY <1>2, <1>3 DEF Shelf!Close, Entries, Entry

\* A batch removes documents of the work that is being deleted.
LEMMA DeleteBatchIsRemove ==
    ASSUME StoreInv, DeleteBatch
    PROVE  Shelf!Remove
<1>1. PICK ks \in SUBSET loop.todo :
         /\ objects' = Without(ks)
         /\ loop' = IF loop.todo = ks THEN NoDeletion ELSE [loop EXCEPT !.todo = @ \ ks]
  BY DEF DeleteBatch
<1>2. loop \in [work : {None} \cup WorksOfDocs \cup WorksWithFiles, todo : SUBSET AllKeys]
  BY DEF StoreInv
<1>3. loop.work # None
  <2>1. SUFFICES ASSUME loop.work = None PROVE FALSE
    OBVIOUS
  <2>2. loop.todo = {}
    BY <2>1 DEF StoreInv
  <2>3. loop = [work |-> loop.work, todo |-> loop.todo]
    BY <1>2
  <2>4. loop = NoDeletion
    BY <2>1, <2>2, <2>3 DEF NoDeletion
  <2>5. QED
    BY <2>4 DEF DeleteBatch
<1>4. loop'.work \in {loop.work, None}
  BY <1>1, <1>2 DEF NoDeletion
<1>5. /\ Entries' = {f \in Entries : KeyTable[f.doc] \notin ks}
      /\ \A f \in Entries : f.doc \in Documents
  BY <1>1, GoneEntries
<1>6. ASSUME NEW f \in Entries \ Entries'
      PROVE  <<f.doc.user, f.doc.work>> = loop.work
  <2>1. KeyTable[f.doc] \in loop.todo /\ f.doc \in Documents
    BY <1>5, <1>6
  <2>2. PICK e \in DoomedOf(loop.work) : KeyTable[e] = KeyTable[f.doc]
    BY <1>3, <2>1 DEF StoreInv
  <2>3. e = f.doc
    BY <2>1, <2>2, TableInjective DEF DoomedOf
  <2>4. QED
    BY <2>3 DEF DoomedOf
<1>7. Entries' \subseteq Entries
  BY <1>5
<1>8. QED
  BY <1>3, <1>4, <1>6, <1>7 DEF Shelf!Remove, Entries, Entry

\* The deletion of a file removes the file, or nothing.
LEMMA FinishDeleteIsRemoveFile ==
    ASSUME StoreInv, NEW t \in Threads, FinishDelete(t)
    PROVE  Shelf!RemoveFile \/ (Entries' = Entries /\ loop' = loop)
<1> DEFINE ks == thread[t].todo
           d == thread[t].doc
<1>1. objects' = Without(ks) /\ loop' = loop
  BY DEF FinishDelete
<1>2. d \in MediaDocs /\ ks \subseteq {KeyTable[d]}
  BY DEF FinishDelete, StoreInv, Doing, Deleting
<1> HIDE DEF ks, d
<1>3. /\ Entries' = {f \in Entries : KeyTable[f.doc] \notin ks}
      /\ \A f \in Entries : f.doc \in Documents
  BY <1>1, GoneEntries
<1>4. d \in Documents /\ d.kind = "media"
  BY <1>2 DEF MediaDocs
<1>5. \A f \in Entries : KeyTable[f.doc] \in ks => f.doc = d
  BY <1>2, <1>3, <1>4, TableInjective
<1>6. \A f, g \in Entries : f.doc = g.doc => f = g
  BY DEF Entries, Entry
<1>7. CASE \E f \in Entries : KeyTable[f.doc] \in ks
  <2>1. PICK f \in Entries : KeyTable[f.doc] \in ks
    BY <1>7
  <2>2. f.doc.kind = "media" /\ Entries' = Entries \ {f}
    BY <1>3, <1>4, <1>5, <1>6, <2>1
  <2>3. QED
    BY <1>1, <2>2 DEF Shelf!RemoveFile, Entries, Entry
<1>8. CASE ~\E f \in Entries : KeyTable[f.doc] \in ks
  BY <1>1, <1>3, <1>8
<1>9. QED
  BY <1>7, <1>8

ShelfStep == [Shelf!Next]_<<Entries, loop.work>>

LEMMA StoreSteps == StoreInv /\ [ObjectsNext]_objectVars => ShelfStep
<1>1. SUFFICES ASSUME StoreInv, [ObjectsNext]_objectVars PROVE ShelfStep
  OBVIOUS
<1>0. ASSUME objects' = objects, loop' = loop PROVE ShelfStep
  BY <1>0, EntriesSame DEF ShelfStep
<1>2. CASE UNCHANGED objectVars
  BY <1>0, <1>2 DEF objectVars
<1>3. ASSUME NEW d \in Documents, NEW content, PutObject(d, content) PROVE ShelfStep
  BY <1>1, <1>3, PutIsStore DEF ShelfStep, Shelf!Next
<1>4. ASSUME NEW w \in WorksOfDocs \cup WorksWithFiles, DeleteWork(w[1], w[2]) PROVE ShelfStep
  <2>1. PICK d \in Documents : w = <<d.user, d.work>>
    BY <1>4 DEF WorksOfDocs, WorksWithFiles, MediaDocs
  <2>2. DeleteWork(d.user, d.work)
    BY <1>4, <2>1
  <2>3. QED
    BY <2>2, DeleteWorkIsClose DEF ShelfStep, Shelf!Next
<1>5. CASE DeleteBatch
  BY <1>1, <1>5, DeleteBatchIsRemove DEF ShelfStep, Shelf!Next
<1>6. CASE BatchFails
  BY <1>1, <1>6, BatchFailsIsClose DEF ShelfStep, Shelf!Next
<1>7. ASSUME NEW t \in Threads, FinishDelete(t) PROVE ShelfStep
  <2>1. CASE Shelf!RemoveFile
    BY <2>1 DEF ShelfStep, Shelf!Next
  <2>2. CASE Entries' = Entries /\ loop' = loop
    BY <2>2 DEF ShelfStep
  <2>3. QED
    BY <1>1, <1>7, <2>1, <2>2, FinishDeleteIsRemoveFile
<1>8. CASE HandlerNext
  BY <1>3, <1>4, <1>5, <1>6, <1>8 DEF HandlerNext, Put, Patch, Upload, Write
<1>9. CASE FileNext
  BY <1>0, <1>3, <1>4, <1>5, <1>6, <1>7, <1>9
     DEF FileNext, Upload, MediaDocs, StartList, StartDelete, HeadOne, Answer
<1>10. QED
  BY <1>1, <1>2, <1>8, <1>9 DEF ObjectsNext

\* The handlers of the content manager implement a shelf of separate documents: a write
\* of one changes no other, and delete_invention and delete_media_file, which work by
\* prefix, take nothing of another work or file.
THEOREM StoreIsShelf == ObjectsSpec => StoreImplementsShelf
<1>1. ObjectsInit => Shelf!Init
  <2>1. ObjectsInit => Stored = {} /\ loop.work = None
    BY DEF ObjectsInit, Stored, Keys, NoDeletion
  <2>2. QED
    BY <2>1 DEF Shelf!Init
<1>2. StoreInv /\ [ObjectsNext]_objectVars
         => [Shelf!Next]_<<{[doc |-> d, content |-> objects[KeyTable[d]]] : d \in Stored}, loop.work>>
  BY StoreSteps DEF ShelfStep, Entries, Entry
<1>3. QED
  BY <1>1, <1>2, StoreInvariant, PTL DEF ObjectsSpec, StoreImplementsShelf, Shelf!Spec

-----------------------------------------------------------------------------
(* Listings. *)

\* Cutting at the first separator.
LEMMA SegmentFacts ==
    ASSUME NEW p, Plain(p), NEW y \in Text
    PROVE  Segment(p ++ y) = p /\ Beyond(p ++ y) = y /\ Contains(p ++ y, "/")
<1> DEFINE s == p ++ y
           n == Len(p)
           I == {i \in 1..Len(s) : s[i] = "/"}
<1>1. p \in Text /\ n \in Nat /\ (\A i \in 1..n : p[i] # "/") /\ Len(y) \in Nat /\ "/" \in Tokens
  BY TextFacts DEF Plain, Lacks, Contains, Tokens
<1>2. /\ s \in Text /\ Len(s) = n + 1 + Len(y)
      /\ \A i \in 1..n : s[i] = p[i]
      /\ s[n + 1] = "/"
      /\ \A i \in 1..Len(y) : s[n + 1 + i] = y[i]
  <2>1. IsJoin(Sep(p, "/", y), p, "/", y)
    BY <1>1, JoinFacts
  <2>2. Sep(p, "/", y) = s
    BY SlashIsSep
  <2> HIDE DEF s
  <2>3. QED
    BY <2>1, <2>2 DEF IsJoin
<1> HIDE DEF s, n
<1>3. n + 1 \in I /\ \A i \in I : n + 1 <= i
  BY <1>1, <1>2
<1>4. \A m \in I : (\A i \in I : m <= i) => m = n + 1
  BY <1>1, <1>3
<1>5. (CHOOSE m \in I : \A i \in I : m <= i) = n + 1
  <2> HIDE DEF I
  <2>1. QED
    BY <1>3, <1>4
<1>6. SelectInSeq(s, LAMBDA t : t = "/") = n + 1
  BY <1>3, <1>5 DEF SelectInSeq, Min
<1>7. Segment(s) = SubSeq(s, 1, n) /\ Beyond(s) = SubSeq(s, n + 2, Len(s))
  <2> DEFINE c == SelectInSeq(s, LAMBDA t : t = "/")
  <2>1. Segment(s) = SubSeq(s, 1, c - 1) /\ Beyond(s) = SubSeq(s, c + 1, Len(s))
    BY Zenon DEF Segment, Beyond
  <2>2. c = n + 1
    BY <1>6, Zenon
  <2> HIDE DEF c
  <2>3. c - 1 = n /\ c + 1 = n + 2
    BY <1>1, <2>2
  <2>4. QED
    BY <2>1, <2>3, Zenon
<1>8. SubSeq(s, 1, n) = p
  <2>1. SubSeq(s, 1, n) \in Text /\ Len(SubSeq(s, 1, n)) = n
        /\ \A i \in 1..n : SubSeq(s, 1, n)[i] = s[i]
    BY <1>1, <1>2 DEF Text
  <2>2. QED
    BY <1>1, <1>2, <2>1, SameText DEF n
<1>9. SubSeq(s, n + 2, Len(s)) = y
  <2>1. /\ SubSeq(s, n + 2, Len(s)) \in Text /\ Len(SubSeq(s, n + 2, Len(s))) = Len(y)
        /\ \A i \in 1..Len(y) : SubSeq(s, n + 2, Len(s))[i] = s[n + 1 + i]
    <3>1. \A i \in n + 2..Len(s) : s[i] \in Tokens
      BY <1>1, <1>2, TextFacts
    <3>2. n + 2 \in Int /\ Len(s) \in Int /\ Len(s) - (n + 2) + 1 = Len(y)
      BY <1>1, <1>2
    <3> DEFINE m == n + 2
               z == SubSeq(s, m, Len(s))
    <3>3. /\ z \in Seq(Tokens) /\ Len(z) = IF m <= Len(s) THEN Len(s) - m + 1 ELSE 0
          /\ \A i \in 1..Len(s) - m + 1 : z[i] = s[m + i - 1]
      <4> HIDE DEF m
      <4>1. QED
        BY <3>1, <3>2, SubSeqProperties DEF m
    <3> HIDE DEF z
    <3>4. z \in Text /\ Len(z) = Len(y) /\ \A i \in 1..Len(y) : z[i] = s[n + 1 + i]
      <4>1. \A i \in 1..Len(y) : m + i - 1 = n + 1 + i
        BY <1>1
      <4>2. Len(z) = Len(y)
        BY <1>1, <3>2, <3>3
      <4>3. QED
        BY <3>2, <3>3, <4>1, <4>2 DEF Text
    <3>5. QED
      BY <3>4 DEF z
  <2> DEFINE z == SubSeq(s, n + 2, Len(s))
  <2>2. z \in Text /\ Len(z) = Len(y) /\ \A i \in 1..Len(y) : z[i] = y[i]
    BY <1>2, <2>1
  <2> HIDE DEF z
  <2>3. z = y
    BY <2>2, SameText
  <2>4. QED
    BY <2>3 DEF z
<1>10. Contains(s, "/")
  BY <1>1, <1>2 DEF Contains
<1>11. QED
  BY <1>7, <1>8, <1>9, <1>10 DEF s

\* The keys of one user's works.
UserRoot(u) == (Dir("sessions") ++ u) \o <<"/">>

LEMMA UserRootIs ==
    ASSUME NEW u, Plain(u)
    PROVE  UserRoot(u) = Dir("sessions") ++ (u ++ <<>>) /\ u ++ <<>> \in Text
<1> DEFINE s == Dir("sessions")
           r == s ++ u
<1>1. s \in Text /\ u \in Text /\ <<>> \in Text
  BY FixedPlain, PlainIsText, NilText
<1> HIDE DEF s
<1>2. r \in Text /\ r ++ <<>> = s ++ (u ++ <<>>) /\ u ++ <<>> \in Text
  BY <1>1, SlashAssoc
<1> HIDE DEF r
<1>3. r \o <<"/">> = r ++ <<>>
  BY <1>2, OpenEnd
<1>4. QED
  BY <1>2, <1>3 DEF UserRoot, r, s

WorkFound(d, u) ==
    /\ IsPrefix(UserRoot(u), KeyTable[d]) <=> d.kind \in WorkKinds /\ d.user = u
    /\ IsPrefix(UserRoot(u), KeyTable[d]) =>
          /\ Contains(After(UserRoot(u), KeyTable[d]), "/")
          /\ Segment(After(UserRoot(u), KeyTable[d])) = d.work

\* The keys below a user's directory are those of the user's works.
LEMMA WorkFacts ==
    ASSUME NEW d \in Documents, NEW u, Plain(u)
    PROVE  WorkFound(d, u)
<1>1. KeyTable[d] = KeyOf(d) /\ IsDocument(d)
  BY TableFacts
<1>2. UserRoot(u) = Dir("sessions") ++ (u ++ <<>>) /\ u ++ <<>> \in Text
  BY UserRootIs
<1>3. CASE d.kind \in WorkKinds
  <2> DEFINE s == Dir("sessions")
             v == d.user
             xq == d.work ++ Place(d)
             un == u ++ <<>>
             vxq == v ++ xq
  <2>1. KeyOf(d) = s ++ vxq /\ Place(d) \in Text /\ Plain(v) /\ Plain(d.work)
    BY <1>1, <1>3, Layout DEF At
  <2>2. xq \in Text /\ vxq \in Text /\ Plain(s) /\ <<>> \in Text
    BY <2>1, AtText, FixedPlain, NilText
  <2>3. Segment(xq) = d.work /\ Contains(xq, "/")
    BY <2>1, SegmentFacts
  <2> HIDE DEF xq
  <2>4. /\ IsPrefix(un, vxq) <=> u = v /\ IsPrefix(<<>>, xq)
        /\ IsPrefix(un, vxq) => After(un, vxq) = After(<<>>, xq)
    BY <2>1, <2>2, PrefixSlash
  <2>5. IsPrefix(<<>>, xq) /\ After(<<>>, xq) = xq
    BY <2>2, EmptyPrefix
  <2> HIDE DEF un, vxq, s, v
  <2>6. /\ IsPrefix(s ++ un, s ++ vxq) <=> s = s /\ IsPrefix(un, vxq)
        /\ IsPrefix(s ++ un, s ++ vxq) => After(s ++ un, s ++ vxq) = After(un, vxq)
    BY <1>2, <2>2, PrefixSlash DEF un
  <2>7. UserRoot(u) = s ++ un /\ KeyTable[d] = s ++ vxq
    BY <1>1, <1>2, <2>1 DEF s, un
  <2>8. QED
    BY <1>3, <2>3, <2>4, <2>5, <2>6, <2>7 DEF WorkFound, v
<1>4. CASE d.kind \notin WorkKinds
  <2>1. d.kind \in UserKinds
    BY <1>1, <1>4 DEF IsDocument, WorkKinds
  <2>2. ~IsPrefix(UserRoot(u), KeyTable[d])
    BY <1>1, <1>2, <2>1, NotInSessions
  <2>3. QED
    BY <1>4, <2>2 DEF WorkFound
<1>5. QED
  BY <1>3, <1>4

LEMMA OfWork ==
    ASSUME NEW d \in Documents
    PROVE  d.kind \in WorkKinds <=> d.work # None
<1>1. d.work = None <=> d.kind \in UserKinds
  BY DocumentsAssumption DEF UserKinds
<1>2. d.kind \in DOMAIN Ids
  BY TableFacts DEF IsDocument
<1>3. QED
  BY <1>1, <1>2 DEF WorkKinds

\* list_inventions.
LEMMA WorksExact ==
    ASSUME Keys \subseteq AllKeys, NEW u, Plain(u)
    PROVE  WorksListed(Keys, u) = {d.work : d \in {d \in Stored : d.user = u /\ d.work # None}}
<1> DEFINE root == UserRoot(u)
           found == {k \in Under(Keys, root) : Contains(After(root, k), "/")}
           D == {d \in Stored : d.user = u /\ d.work # None}
<1>1. WorksListed(Keys, u) = {Segment(After(root, k)) : k \in found}
  BY DEF WorksListed, UserRoot
<1>2. ASSUME NEW d \in D
      PROVE  KeyTable[d] \in found /\ Segment(After(root, KeyTable[d])) = d.work
  <2>1. d \in Documents /\ KeyTable[d] \in Keys /\ d.kind \in WorkKinds /\ d.user = u
    BY <1>2, OfWork DEF Stored
  <2>2. WorkFound(d, u)
    BY <2>1, WorkFacts
  <2>3. QED
    BY <2>1, <2>2 DEF WorkFound, Under
<1>3. ASSUME NEW k \in found
      PROVE  \E d \in D : k = KeyTable[d]
  <2>1. k \in Keys /\ IsPrefix(root, k)
    BY <1>3 DEF Under
  <2>2. PICK d \in Documents : k = KeyTable[d]
    BY <2>1 DEF AllKeys
  <2>3. WorkFound(d, u)
    BY <2>2, WorkFacts
  <2>4. d \in D
    BY <2>1, <2>2, <2>3, OfWork DEF WorkFound, Stored
  <2>5. QED
    BY <2>2, <2>4
<1> HIDE DEF root, found, D
<1>4. {Segment(After(root, k)) : k \in found} = {d.work : d \in D}
  <2>1. ASSUME NEW k \in found PROVE Segment(After(root, k)) \in {d.work : d \in D}
    BY <1>2, <1>3
  <2>2. ASSUME NEW d \in D PROVE d.work \in {Segment(After(root, k)) : k \in found}
    BY <1>2
  <2>3. QED
    BY <2>1, <2>2
<1>5. QED
  BY <1>1, <1>4 DEF D

\* list_outputs.
OutputFound(d, u, w) ==
    /\ IsIn(d, OutputsRoot(u, w)) <=> d.kind \in {"outputs", "output"} /\ d.user = u /\ d.work = w
    /\ IsIn(d, OutputsRoot(u, w)) => After(OutputsRoot(u, w) \o <<"/">>, KeyOf(d)) = Sub(d)

LEMMA OutputName ==
    ASSUME NEW d, IsDocument(d), d.kind \in {"outputs", "output"}
    PROVE  /\ Plain(Sub(d)) /\ Sub(d) # <<>> /\ Sub(d) \in Text
           /\ IsPrefix(<<"manifest.">>, Sub(d)) <=> d.kind = "outputs"
           /\ d.kind = "output" => Sub(d) = d.ids[1]
<1>1. CASE d.kind = "outputs"
  <2>1. Sub(d) = <<"manifest.", "outputs.yaml">>
    BY <1>1, SubFacts
  <2>2. IsPrefix(<<"manifest.">>, <<"manifest.", "outputs.yaml">>)
    <3>1. <<"manifest.">> \in Text /\ <<"manifest.", "outputs.yaml">> \in Text
      BY DEF Text, Tokens
    <3>2. QED
      BY <3>1, PrefixFacts
  <2>3. QED
    BY <1>1, <2>1, <2>2, TwoTokens, PlainIsText
<1>2. CASE d.kind = "output"
  <2>1. Sub(d) = d.ids[1]
    BY <1>2, SubFacts
  <2>2. 1 \in 1..Ids[d.kind]
    BY <1>2 DEF Ids
  <2>3. IsName(d.ids[1]) /\ ~IsPrefix(<<"manifest.">>, d.ids[1])
    BY <1>2, <2>2 DEF IsDocument
  <2>4. d.ids[1] # <<>> /\ Plain(d.ids[1])
    BY <2>3, NameIsPlain DEF IsName
  <2>5. QED
    BY <1>2, <2>1, <2>3, <2>4, PlainIsText
<1>3. QED
  BY <1>1, <1>2

LEMMA OutputIn ==
    ASSUME NEW d, IsDocument(d), NEW u, NEW w, Plain(u), Plain(w)
    PROVE  OutputFound(d, u, w)
<1> DEFINE m == Dir("outputs")
           pre == OutputsRoot(u, w) \o <<"/">>
<1>1. Plain(m) /\ <<>> \in Text
  BY FixedPlain, NilText
<1>2. pre = At(u, w, m ++ <<>>)
  BY <1>1, BranchRoot DEF OutputsRoot
<1>3. BranchIs(d, u, w, m, <<>>)
  BY <1>1, BranchSelected
<1> HIDE DEF m, pre
<1>4. CASE d.kind \in {"outputs", "output"}
  <2>1. d.kind \in TreeKinds /\ Branch(d) = m
    BY <1>4, KindSets, MediaBranch DEF m
  <2>2. Plain(Sub(d)) /\ Sub(d) # <<>> /\ Sub(d) \in Text
    BY <1>4, OutputName
  <2>3. IsPrefix(<<>>, Sub(d)) /\ After(<<>>, Sub(d)) = Sub(d)
    BY <2>2, EmptyPrefix
  <2>4. /\ IsPrefix(pre, KeyOf(d)) <=> d.user = u /\ d.work = w
        /\ IsPrefix(pre, KeyOf(d)) => After(pre, KeyOf(d)) = Sub(d)
    BY <1>2, <1>3, <2>1, <2>3 DEF BranchIs
  <2>5. ~Contains(Sub(d), "/")
    BY <2>2 DEF Plain, Lacks
  <2>6. QED
    BY <1>4, <2>2, <2>4, <2>5 DEF IsIn, OutputFound, pre
<1>5. CASE d.kind \notin {"outputs", "output"}
  <2>1. ~IsPrefix(pre, KeyOf(d))
    BY <1>2, <1>3, <1>5, MediaBranch DEF BranchIs, m
  <2>2. QED
    BY <1>5, <2>1 DEF IsIn, OutputFound, pre
<1>6. QED
  BY <1>4, <1>5

LEMMA OutputsExact ==
    ASSUME Keys \subseteq AllKeys, NEW u, NEW w, Plain(u), Plain(w)
    PROVE  OutputsListed(Keys, u, w) =
              {d.ids[1] : d \in {d \in Stored : d.kind = "output" /\ <<d.user, d.work>> = <<u, w>>}}
<1> DEFINE root == OutputsRoot(u, w)
           name(k) == After(root \o <<"/">>, k)
           found == {k \in In(Keys, root) : ~IsPrefix(<<"manifest.">>, name(k))}
           D == {d \in Stored : d.kind = "output" /\ <<d.user, d.work>> = <<u, w>>}
<1>1. OutputsListed(Keys, u, w) = {name(k) : k \in found}
  BY DEF OutputsListed
<1>2. In(Keys, root) = {KeyOf(d) : d \in {d \in Stored : IsIn(d, root)}}
  <2>1. Keys = {KeyOf(d) : d \in Stored}
    BY TableFacts DEF AllKeys, Stored
  <2> HIDE DEF root
  <2>2. QED
    BY <2>1, InFacts
<1>3. ASSUME NEW d \in Stored
      PROVE  /\ IsIn(d, root) <=> d.kind \in {"outputs", "output"} /\ d.user = u /\ d.work = w
             /\ IsIn(d, root) => name(KeyOf(d)) = Sub(d)
             /\ d.kind \in {"outputs", "output"} =>
                    (IsPrefix(<<"manifest.">>, Sub(d)) <=> d.kind = "outputs")
             /\ d.kind = "output" => Sub(d) = d.ids[1]
  <2>1. IsDocument(d)
    BY TableFacts DEF Stored
  <2>2. QED
    BY <2>1, OutputIn, OutputName DEF OutputFound
<1> HIDE DEF root
<1>4. ASSUME NEW d \in D PROVE KeyOf(d) \in found /\ name(KeyOf(d)) = d.ids[1]
  <2>1. d \in Stored /\ d.kind = "output" /\ d.user = u /\ d.work = w
    BY <1>4
  <2>2. IsIn(d, root) /\ name(KeyOf(d)) = Sub(d) /\ ~IsPrefix(<<"manifest.">>, Sub(d))
        /\ Sub(d) = d.ids[1]
    BY <1>3, <2>1
  <2>3. QED
    BY <1>2, <2>1, <2>2
<1>5. ASSUME NEW k \in found PROVE \E d \in D : name(k) = d.ids[1]
  <2>1. k \in In(Keys, root) /\ ~IsPrefix(<<"manifest.">>, name(k))
    BY <1>5
  <2>2. PICK d \in Stored : IsIn(d, root) /\ k = KeyOf(d)
    BY <1>2, <2>1
  <2>3. QED
    BY <1>3, <2>1, <2>2
<1> HIDE DEF found, D, name
<1>6. {name(k) : k \in found} = {d.ids[1] : d \in D}
  BY <1>4, <1>5
<1>7. QED
  BY <1>1, <1>6 DEF D

\* The token that many places from the end.
End(s, i) == s[Len(s) - i]

Suffix == <<"/", "runtime", "/", "manifest.runtime.yaml">>

EndsAs(k) ==
    /\ Len(k) >= 4
    /\ End(k, 0) = "manifest.runtime.yaml" /\ End(k, 1) = "/"
    /\ End(k, 2) = "runtime" /\ End(k, 3) = "/"

\* A suffix of four tokens is the last four tokens.
LEMMA SuffixFacts ==
    ASSUME NEW k \in Text
    PROVE  IsSuffix(Suffix, k) <=> EndsAs(k)
<1> DEFINE r == Reverse(Suffix)
           t == Reverse(k)
           n == Len(k)
<1>1. n \in Nat
  BY TextFacts
<1>2. Len(r) = 4 /\ r \in Text /\ r[1] = "manifest.runtime.yaml" /\ r[2] = "/" /\ r[3] = "runtime"
      /\ r[4] = "/"
  BY DEF Reverse, Suffix, Text, Tokens
<1>3. t \in Text /\ Len(t) = n /\ \A i \in 1..n : t[i] = k[n - i + 1]
  BY <1>1, TextFacts DEF Reverse, Text
<1>4. IsSuffix(Suffix, k) <=> IsPrefix(r, t)
  BY DEF IsSuffix
<1> HIDE DEF r, t, n
<1>5. IsPrefix(r, t) <=> 4 <= n /\ \A i \in 1..4 : r[i] = t[i]
  BY <1>2, <1>3, PrefixFacts
<1>6. ASSUME 4 <= n
      PROVE  t[1] = k[n - 0] /\ t[2] = k[n - 1] /\ t[3] = k[n - 2] /\ t[4] = k[n - 3]
  <2>1. 1 \in 1..n /\ 2 \in 1..n /\ 3 \in 1..n /\ 4 \in 1..n
        /\ n - 1 + 1 = n - 0 /\ n - 2 + 1 = n - 1 /\ n - 3 + 1 = n - 2 /\ n - 4 + 1 = n - 3
    BY <1>1, <1>6
  <2>2. QED
    BY <1>3, <2>1
<1>7. (\A i \in 1..4 : r[i] = t[i]) <=> r[1] = t[1] /\ r[2] = t[2] /\ r[3] = t[3] /\ r[4] = t[4]
  <2>1. \A i : i \in 1..4 <=> i = 1 \/ i = 2 \/ i = 3 \/ i = 4
    OBVIOUS
  <2>2. QED
    BY <2>1
<1>8. EndsAs(k) <=> 4 <= n /\ k[n - 0] = "manifest.runtime.yaml" /\ k[n - 1] = "/"
                    /\ k[n - 2] = "runtime" /\ k[n - 3] = "/"
  BY <1>1 DEF EndsAs, End, n
<1>9. QED
  BY <1>2, <1>4, <1>5, <1>6, <1>7, <1>8

LEMMA EndFacts ==
    ASSUME NEW p \in Text, NEW q \in Text
    PROVE  /\ p ++ q \in Text /\ Len(p ++ q) = Len(p) + 1 + Len(q)
           /\ \A i \in Nat : i < Len(q) => End(p ++ q, i) = End(q, i)
           /\ End(p ++ q, Len(q)) = "/"
           /\ \A i \in Nat : i < Len(p) => End(p ++ q, Len(q) + 1 + i) = End(p, i)
<1> DEFINE s == p ++ q
           m == Len(p)
           n == Len(q)
<1>1. m \in Nat /\ n \in Nat /\ "/" \in Tokens
  BY TextFacts DEF Tokens
<1>2. /\ s \in Text /\ Len(s) = m + 1 + n
      /\ \A i \in 1..m : s[i] = p[i]
      /\ s[m + 1] = "/"
      /\ \A i \in 1..n : s[m + 1 + i] = q[i]
  <2>1. IsJoin(Sep(p, "/", q), p, "/", q)
    BY <1>1, JoinFacts
  <2>2. Sep(p, "/", q) = s
    BY SlashIsSep
  <2> HIDE DEF s
  <2>3. QED
    BY <2>1, <2>2 DEF IsJoin
<1>3. \A x : End(s, x) = s[Len(s) - x] /\ End(p, x) = p[m - x] /\ End(q, x) = q[n - x]
  BY DEF End
<1> HIDE DEF s, m, n
<1>4. ASSUME NEW i \in Nat, i < n PROVE End(s, i) = End(q, i)
  <2>1. n - i \in 1..n /\ Len(s) - i = m + 1 + (n - i)
    BY <1>1, <1>2, <1>4
  <2>2. QED
    BY <1>2, <1>3, <2>1
<1>5. End(s, n) = "/"
  <2>1. Len(s) - n = m + 1
    BY <1>1, <1>2
  <2>2. QED
    BY <1>2, <1>3, <2>1
<1>6. ASSUME NEW i \in Nat, i < m PROVE End(s, n + 1 + i) = End(p, i)
  <2>1. m - i \in 1..m /\ Len(s) - (n + 1 + i) = m - i
    BY <1>1, <1>2, <1>6
  <2>2. QED
    BY <1>2, <1>3, <2>1
<1>7. QED
  BY <1>2, <1>4, <1>5, <1>6 DEF s, m, n

\* The last token of a text that is not empty.
IsLast(s, x) == s \in Text /\ Len(s) >= 1 /\ End(s, 0) = x

LEMMA LastOfDir == \A x \in Tokens : IsLast(Dir(x), x) /\ Len(Dir(x)) = 1
BY DEF IsLast, Dir, End, Text

LEMMA LastOfFile ==
    ASSUME NEW s \in Text
    PROVE  IsLast(File(s, ".json"), ".json")
<1> DEFINE x == <<".json">>
<1>1. x \in Text /\ Len(x) = 1 /\ x[1] = ".json"
  BY DEF Text, Tokens
<1> HIDE DEF x
<1> DEFINE z == s \o x
           n == Len(s)
<1>2. /\ z \in Text /\ Len(z) = n + Len(x)
      /\ \A i \in 1..Len(x) : z[n + i] = x[i]
  BY <1>1, ConcatFacts
<1>3. File(s, ".json") = z /\ n \in Nat
  BY TextFacts DEF File, x
<1> HIDE DEF z, n
<1>4. Len(z) = n + 1 /\ z[n + 1] = ".json" /\ (n + 1) - 0 = n + 1
  BY <1>1, <1>2, <1>3
<1>5. End(z, 0) = z[Len(z) - 0]
  BY DEF End
<1>6. End(z, 0) = ".json" /\ Len(z) >= 1
  BY <1>3, <1>4, <1>5
<1>7. QED
  BY <1>2, <1>3, <1>6 DEF IsLast

LEMMA LastOfJoin ==
    ASSUME NEW p \in Text, NEW q, NEW x, IsLast(q, x)
    PROVE  IsLast(p ++ q, x)
<1>1. q \in Text /\ Len(q) >= 1 /\ End(q, 0) = x /\ Len(q) \in Nat /\ Len(p) \in Nat
  BY TextFacts DEF IsLast
<1>2. p ++ q \in Text /\ Len(p ++ q) = Len(p) + 1 + Len(q) /\ End(p ++ q, 0) = End(q, 0)
  BY <1>1, EndFacts
<1>3. QED
  BY <1>1, <1>2 DEF IsLast

Manifest == "manifest.runtime.yaml"

\* Only the index of chains, an output or an uploaded file can end as the index does.
LEMMA OtherEnds ==
    ASSUME NEW d, IsDocument(d), d.kind \in WorkKinds \ {"chains", "output", "media"}
    PROVE  \E x : x # Manifest /\ IsLast(Place(d), x)
<1>1. CASE d.kind = "context"
  <2>1. Place(d) = Dir("manifest.context.yaml") /\ "manifest.context.yaml" \in Tokens
        /\ "manifest.context.yaml" # Manifest
    BY <1>1 DEF Place, Tokens, Manifest
  <2>2. QED
    BY <2>1, LastOfDir
<1>2. ASSUME d.kind \in TreeKinds, NEW x, x # Manifest, IsLast(Sub(d), x)
      PROVE  \E y : y # Manifest /\ IsLast(Place(d), y)
  <2>1. Place(d) = Branch(d) ++ Sub(d) /\ Branch(d) \in Text
    BY <1>2, TailParts, PlainIsText
  <2>2. QED
    BY <1>2, <2>1, LastOfJoin
<1>3. CASE d.kind = "conversation"
  <2>1. Sub(d) = Dir("00.dro") ++ Dir("conversation.json")
    BY <1>3, SubFacts
  <2>2. Dir("00.dro") \in Text /\ "conversation.json" \in Tokens /\ "conversation.json" # Manifest
    BY FixedPlain, PlainIsText DEF Tokens, Manifest
  <2>3. IsLast(Sub(d), "conversation.json")
    BY <2>1, <2>2, LastOfDir, LastOfJoin
  <2>4. QED
    BY <1>2, <1>3, <2>2, <2>3, KindSets DEF Runtime
<1>4. CASE d.kind \in {"queue", "dialog"}
  <2>1. Sub(d) = d.ids[1] ++ File(IF d.kind = "queue" THEN <<"queue">> ELSE d.ids[2], ".json")
    BY <1>4, SubFacts
  <2>2. d.ids[1] \in Text /\ (IF d.kind = "queue" THEN <<"queue">> ELSE d.ids[2]) \in Text
    BY <1>4, IdFacts, TwoTokens, PlainIsText
  <2>3. IsLast(Sub(d), ".json")
    BY <2>1, <2>2, LastOfFile, LastOfJoin
  <2>4. ".json" # Manifest
    BY DEF Manifest
  <2>5. QED
    BY <1>2, <1>4, <2>3, <2>4, KindSets DEF Runtime
<1>5. CASE d.kind \in OfChain
  <2>1. Sub(d) = d.ids[1] ++ (d.ids[2] ++ InChain(d)) /\ d.ids[1] \in Text /\ d.ids[2] \in Text
    BY <1>5, SubFacts, IdFacts, PlainIsText
  <2>2. \E x : x # Manifest /\ IsLast(InChain(d), x)
    <3>1. CASE d.kind = "rt"
      <4>1. InChain(d) = Dir("rts") ++ File(d.ids[3], ".json") /\ d.ids[3] \in Text /\ Dir("rts") \in Text
        BY <1>5, <3>1, InChainFacts, IdFacts, FixedPlain, PlainIsText
      <4>2. IsLast(InChain(d), ".json")
        BY <4>1, LastOfFile, LastOfJoin
      <4>3. ".json" # Manifest
        BY DEF Manifest
      <4>4. QED
        BY <4>2, <4>3
    <3>2. CASE d.kind # "rt"
      <4>1. InChain(d) = ChainFile[d.kind] /\ d.kind \in {"chain", "trail", "agent_state"}
        BY <1>5, <3>2, InChainFacts DEF OfChain
      <4>2. \E x \in Tokens : x # Manifest /\ ChainFile[d.kind] = Dir(x)
        BY <4>1 DEF ChainFile, Tokens, Manifest
      <4>3. QED
        BY <4>1, <4>2, LastOfDir
    <3>3. QED
      BY <3>1, <3>2
  <2>3. PICK x : x # Manifest /\ IsLast(InChain(d), x)
    BY <2>2
  <2>4. IsLast(d.ids[2] ++ InChain(d), x)
    BY <2>1, <2>3, LastOfJoin
  <2>5. IsLast(Sub(d), x)
    BY <2>1, <2>4, LastOfJoin
  <2>6. d.kind \in TreeKinds
    BY <1>5, KindSets DEF Runtime, OfChain
  <2>7. QED
    BY <1>2, <2>3, <2>5, <2>6
<1>6. CASE d.kind \in Models
  <2>1. Sub(d) = Dir(ModelFile[d.kind]) /\ d.kind \in TreeKinds
    BY <1>6, SubFacts, KindSets
  <2>2. ModelFile[d.kind] \in Tokens /\ ModelFile[d.kind] # Manifest
    BY <1>6 DEF Models, ModelFile, Tokens, Manifest
  <2>3. QED
    BY <1>2, <2>1, <2>2, LastOfDir
<1>7. CASE d.kind = "drawings"
  <2>1. Sub(d) = Dir("manifest.drawing.yaml") /\ d.kind \in TreeKinds
    BY <1>7, SubFacts, KindSets DEF Drawings
  <2>2. "manifest.drawing.yaml" \in Tokens /\ "manifest.drawing.yaml" # Manifest
    BY DEF Tokens, Manifest
  <2>3. QED
    BY <1>2, <2>1, <2>2, LastOfDir
<1>8. CASE d.kind \in {"numerals", "dl", "figure"}
  <2>1. Sub(d) = d.ids[1] ++ DrawingFile[d.kind] /\ d.ids[1] \in Text
    BY <1>8, SubFacts, IdFacts, PlainIsText
  <2>2. \E x \in Tokens : x # Manifest /\ DrawingFile[d.kind] = Dir(x)
    BY <1>8 DEF DrawingFile, Tokens, Manifest
  <2>3. PICK x \in Tokens : x # Manifest /\ DrawingFile[d.kind] = Dir(x)
    BY <2>2
  <2>4. IsLast(Sub(d), x)
    BY <2>1, <2>3, LastOfDir, LastOfJoin
  <2>5. d.kind \in TreeKinds
    BY <1>8, KindSets DEF Drawings
  <2>6. QED
    BY <1>2, <2>3, <2>4, <2>5
<1>9. CASE d.kind = "outputs"
  <2> DEFINE s == <<"manifest.", "outputs.yaml">>
  <2>1. Sub(d) = s /\ d.kind \in TreeKinds
    BY <1>9, SubFacts, KindSets
  <2>2. Len(s) = 2 /\ s[2] = "outputs.yaml" /\ s \in Text /\ 2 - 0 = 2
    BY TwoTokens, PlainIsText
  <2> HIDE DEF s
  <2>3. IsLast(s, "outputs.yaml") /\ "outputs.yaml" # Manifest
    BY <2>2 DEF IsLast, End, Manifest
  <2>4. QED
    BY <1>2, <2>1, <2>3
<1>10. QED
  BY <1>1, <1>3, <1>4, <1>5, <1>6, <1>7, <1>8, <1>9, KindSets DEF Runtime, OfChain, Drawings

\* An ending of a text that is plain has no separator in it.
LEMMA PlainEnd ==
    ASSUME NEW s, Plain(s), NEW i \in Nat, i < Len(s)
    PROVE  End(s, i) # "/"
<1>1. s \in Text /\ Len(s) \in Nat /\ \A j \in 1..Len(s) : s[j] # "/"
  BY TextFacts DEF Plain, Lacks, Contains
<1>2. Len(s) - i \in 1..Len(s)
  BY <1>1
<1>3. QED
  BY <1>1, <1>2 DEF End

LEMMA NotSoLong ==
    ASSUME NEW p \in Text, NEW s, Plain(s), Len(s) >= 2
    PROVE  ~EndsAs(p ++ s)
<1>1. s \in Text /\ Len(s) \in Nat
  BY PlainIsText, TextFacts
<1>2. End(p ++ s, 1) = End(s, 1)
  BY <1>1, EndFacts
<1>3. End(s, 1) # "/"
  BY <1>1, PlainEnd
<1>4. QED
  BY <1>2, <1>3 DEF EndsAs

LEMMA EndOne ==
    ASSUME NEW p \in Text, NEW q \in Text, Len(q) = 1
    PROVE  /\ p ++ q \in Text /\ Len(p ++ q) = Len(p) + 2
           /\ End(p ++ q, 0) = End(q, 0) /\ End(p ++ q, 1) = "/"
           /\ Len(p) >= 1 => End(p ++ q, 2) = End(p, 0)
           /\ Len(p) >= 2 => End(p ++ q, 3) = End(p, 1)
<1> DEFINE s == p ++ q
           m == Len(p)
<1>1. /\ s \in Text /\ Len(s) = m + 1 + Len(q)
      /\ \A i \in Nat : i < Len(q) => End(s, i) = End(q, i)
      /\ End(s, Len(q)) = "/"
      /\ \A i \in Nat : i < m => End(s, Len(q) + 1 + i) = End(p, i)
  BY EndFacts
<1>2. m \in Nat
  BY TextFacts
<1> HIDE DEF s, m
<1>3. Len(s) = m + 2
  BY <1>1, <1>2
<1>4. m >= 1 => End(s, 2) = End(p, 0)
  <2>1. 0 \in Nat /\ Len(q) + 1 + 0 = 2
    OBVIOUS
  <2>2. m >= 1 => 0 < m
    BY <1>2
  <2>3. QED
    BY <1>1, <2>1, <2>2
<1>5. m >= 2 => End(s, 3) = End(p, 1)
  <2>1. 1 \in Nat /\ Len(q) + 1 + 1 = 3
    OBVIOUS
  <2>2. m >= 2 => 1 < m
    BY <1>2
  <2>3. QED
    BY <1>1, <2>1, <2>2
<1>6. End(s, 0) = End(q, 0) /\ End(s, 1) = "/"
  BY <1>1
<1>7. QED
  BY <1>1, <1>3, <1>4, <1>5, <1>6 DEF s, m

\* The index of a work's chains, and nothing else, ends as it.
LEMMA OnlyChains ==
    ASSUME NEW d, IsDocument(d), d.kind \in WorkKinds
    PROVE  EndsAs(KeyOf(d)) <=> d.kind = "chains"
<1> DEFINE g == SessionRoot(d.user, d.work)
           t == Place(d)
<1>1. KeyOf(d) = g ++ t /\ g \in Text /\ t \in Text
  BY Layout, RootAssoc
<1>2. d.kind \in TreeKinds => t = Branch(d) ++ Sub(d) /\ Branch(d) \in Text /\ Sub(d) \in Text
  BY TailParts, PlainIsText
<1> HIDE DEF g
<1>3. CASE d.kind \notin {"chains", "output", "media"}
  <2>1. PICK x : x # Manifest /\ IsLast(t, x)
    BY <1>3, OtherEnds
  <2>2. IsLast(g ++ t, x)
    BY <1>1, <2>1, LastOfJoin
  <2>3. QED
    BY <1>1, <1>3, <2>1, <2>2 DEF IsLast, EndsAs, Manifest
<1>4. CASE d.kind = "chains"
  <2> DEFINE r == Dir("runtime")
             f == Dir("manifest.runtime.yaml")
             h == g ++ r
  <2>1. d.kind \in TreeKinds /\ Branch(d) = r /\ Sub(d) = f
    BY <1>4, KindSets, SubFacts, Branches DEF Runtime
  <2>2. t = r ++ f /\ r \in Text /\ f \in Text
    BY <1>2, <2>1
  <2>3. /\ Len(r) = 1 /\ Len(f) = 1 /\ End(r, 0) = "runtime" /\ End(f, 0) = "manifest.runtime.yaml"
    <3>1. "runtime" \in Tokens /\ "manifest.runtime.yaml" \in Tokens
      BY DEF Tokens
    <3>2. QED
      BY <3>1, LastOfDir DEF IsLast
  <2> HIDE DEF r, f, t
  <2>4. h \in Text /\ Len(h) = Len(g) + 2 /\ End(h, 0) = "runtime" /\ End(h, 1) = "/"
    BY <1>1, <2>2, <2>3, EndOne
  <2>5. KeyOf(d) = h ++ f
    BY <1>1, <2>2, SlashAssoc
  <2> HIDE DEF h
  <2>6. Len(g) \in Nat /\ Len(h) \in Nat
    BY <1>1, <2>4, TextFacts
  <2>10. Len(h) >= 1 /\ Len(h) >= 2
    BY <2>4, <2>6
  <2>7. /\ Len(h ++ f) = Len(h) + 2 /\ End(h ++ f, 0) = End(f, 0) /\ End(h ++ f, 1) = "/"
        /\ End(h ++ f, 2) = End(h, 0) /\ End(h ++ f, 3) = End(h, 1)
    BY <2>2, <2>3, <2>4, <2>10, EndOne
  <2>8. EndsAs(h ++ f)
    BY <2>3, <2>4, <2>6, <2>7 DEF EndsAs
  <2>9. QED
    BY <1>4, <2>5, <2>8
<1>5. CASE d.kind = "output"
  <2> DEFINE o == Dir("outputs")
             n == Sub(d)
             h == g ++ o
  <2>1. d.kind \in TreeKinds /\ Branch(d) = o /\ Plain(n) /\ n # <<>> /\ n \in Text
    BY <1>5, KindSets, MediaBranch, OutputName
  <2>2. t = o ++ n /\ o \in Text /\ KeyOf(d) = h ++ n
    BY <1>1, <1>2, <2>1, SlashAssoc
  <2>3. Len(o) = 1 /\ End(o, 0) = "outputs"
    <3>1. "outputs" \in Tokens
      BY DEF Tokens
    <3>2. QED
      BY <3>1, LastOfDir DEF IsLast
  <2>4. Len(n) \in Nat /\ Len(n) # 0
    BY <2>1, EmptySeq DEF Text
  <2> HIDE DEF o, n, t
  <2>9. h \in Text /\ End(h, 0) = "outputs" /\ Len(h) = Len(g) + 2
    BY <1>1, <2>2, <2>3, EndOne
  <2>5. h \in Text /\ End(h, 0) = "outputs" /\ Len(h) >= 1
    BY <1>1, <2>9, TextFacts
  <2> HIDE DEF h
  <2>6. CASE Len(n) = 1
    <3>2. End(h ++ n, 2) = "outputs"
      BY <2>1, <2>5, <2>6, EndOne
    <3>3. QED
      BY <1>5, <2>2, <3>2 DEF EndsAs
  <2>7. CASE Len(n) >= 2
    BY <1>5, <2>1, <2>2, <2>5, <2>7, NotSoLong
  <2>8. QED
    BY <2>4, <2>6, <2>7
<1>6. CASE d.kind = "media"
  <2> DEFINE o == Dir("media")
             n == Sub(d)
             h == g ++ o
  <2>1. d.kind \in TreeKinds /\ Branch(d) = o /\ Plain(n) /\ n \in Text
    BY <1>6, KindSets, MediaBranch, MediaName
  <2>2. t = o ++ n /\ o \in Text /\ KeyOf(d) = h ++ n /\ h \in Text
    BY <1>1, <1>2, <2>1, SlashAssoc
  <2>3. Len(n) >= 2
    <3> DEFINE p == d.ids[1]
               q == d.ids[2]
    <3>1. p \in Text /\ q \in Text /\ n = Sep(p, ".", q) /\ "." \in Tokens
      BY <1>6, MediaName, PlainIsText DEF Sep, Tokens
    <3>2. p # <<>>
      <4>1. 1 \in 1..Ids[d.kind]
        BY <1>6 DEF Ids
      <4>2. QED
        BY <4>1 DEF IsDocument, IsName
    <3> HIDE DEF p, q, n
    <3>3. Len(n) = Len(p) + 1 + Len(q)
      BY <3>1, JoinFacts DEF IsJoin
    <3>4. Len(p) \in Nat /\ Len(q) \in Nat /\ Len(p) # 0
      BY <3>1, <3>2, EmptySeq, TextFacts DEF Text
    <3>5. QED
      BY <3>3, <3>4
  <2>4. QED
    BY <1>6, <2>1, <2>2, <2>3, NotSoLong
<1>7. QED
  BY <1>3, <1>4, <1>5, <1>6

SessionsRoot == Dir("sessions") \o <<"/">>

IndexFound(d) ==
    /\ IsPrefix(SessionsRoot, KeyTable[d]) /\ IsSuffix(Suffix, KeyTable[d]) <=> d.kind = "chains"
    /\ d.kind = "chains" =>
          /\ Segment(Beyond(KeyTable[d])) = d.user
          /\ Segment(Beyond(Beyond(KeyTable[d]))) = d.work

\* The suffix list_active_chains looks for selects the indexes of chains.
LEMMA IndexFacts ==
    ASSUME NEW d \in Documents
    PROVE  IndexFound(d)
<1> DEFINE s == Dir("sessions")
           k == KeyTable[d]
<1>1. KeyTable[d] = KeyOf(d) /\ IsDocument(d)
  BY TableFacts
<1>2. SessionsRoot = s ++ <<>> /\ <<>> \in Text /\ Plain(s)
  BY FixedPlain, PlainIsText, NilText, OpenEnd DEF SessionsRoot
<1>3. CASE d.kind \in WorkKinds
  <2> DEFINE v == d.user
             w == d.work
             wq == w ++ Place(d)
             vwq == v ++ wq
  <2>1. KeyOf(d) = s ++ vwq /\ Place(d) \in Text /\ Plain(v) /\ Plain(w)
    BY <1>1, <1>3, Layout DEF At
  <2>2. wq \in Text /\ vwq \in Text
    BY <2>1, AtText
  <2>3. Segment(wq) = w
    BY <2>1, SegmentFacts
  <2>4. EndsAs(KeyOf(d)) <=> d.kind = "chains"
    BY <1>1, <1>3, OnlyChains
  <2> HIDE DEF wq
  <2>5. Segment(vwq) = v /\ Beyond(vwq) = wq
    BY <2>1, <2>2, SegmentFacts
  <2> HIDE DEF vwq, s
  <2>6. Beyond(s ++ vwq) = vwq
    BY <1>2, <2>2, SegmentFacts
  <2>7. IsPrefix(s ++ <<>>, s ++ vwq)
    BY <1>2, <2>2, PrefixSlash, EmptyPrefix
  <2>8. s ++ vwq \in Text
    BY <1>2, <2>2, PlainIsText, SlashAssoc
  <2>9. IsSuffix(Suffix, KeyTable[d]) <=> d.kind = "chains"
    BY <1>1, <2>1, <2>4, <2>8, SuffixFacts
  <2>10. IsPrefix(SessionsRoot, KeyTable[d])
    BY <1>1, <1>2, <2>1, <2>7
  <2>11. Segment(Beyond(KeyTable[d])) = d.user /\ Segment(Beyond(Beyond(KeyTable[d]))) = d.work
    BY <1>1, <2>1, <2>3, <2>5, <2>6
  <2>12. QED
    BY <2>9, <2>10, <2>11 DEF IndexFound
<1>4. CASE d.kind \notin WorkKinds
  <2>1. d.kind \in UserKinds /\ d.kind # "chains"
    BY <1>1, <1>4 DEF IsDocument, WorkKinds, UserKinds, Ids
  <2>2. ~IsPrefix(s ++ <<>>, KeyOf(d))
    BY <1>1, <1>2, <2>1, NotInSessions
  <2>3. QED
    BY <1>1, <1>2, <2>1, <2>2 DEF IndexFound
<1>5. QED
  BY <1>3, <1>4

\* list_active_chains.
LEMMA IndexesExact ==
    ASSUME Keys \subseteq AllKeys
    PROVE  IndexedWorks(Keys) = {<<d.user, d.work>> : d \in {d \in Stored : d.kind = "chains"}}
<1> DEFINE found == {k \in Under(Keys, SessionsRoot) : IsSuffix(Suffix, k)}
           of(k) == <<Segment(Beyond(k)), Segment(Beyond(Beyond(k)))>>
           D == {d \in Stored : d.kind = "chains"}
<1>1. IndexedWorks(Keys) = {of(k) : k \in found}
  BY DEF IndexedWorks, SessionsRoot, Suffix
<1>2. ASSUME NEW d \in D PROVE KeyTable[d] \in found /\ of(KeyTable[d]) = <<d.user, d.work>>
  <2>1. d \in Documents /\ KeyTable[d] \in Keys /\ d.kind = "chains"
    BY <1>2 DEF Stored
  <2>2. IndexFound(d)
    BY <2>1, IndexFacts
  <2>3. QED
    BY <2>1, <2>2 DEF IndexFound, Under
<1>3. ASSUME NEW k \in found PROVE \E d \in D : k = KeyTable[d]
  <2>1. k \in Keys /\ IsPrefix(SessionsRoot, k) /\ IsSuffix(Suffix, k)
    BY <1>3 DEF Under
  <2>2. PICK d \in Documents : k = KeyTable[d]
    BY <2>1 DEF AllKeys
  <2>3. IndexFound(d)
    BY <2>2, IndexFacts
  <2>4. d \in D
    BY <2>1, <2>2, <2>3 DEF IndexFound, Stored
  <2>5. QED
    BY <2>2, <2>4
<1> HIDE DEF found, D, of
<1>4. {of(k) : k \in found} = {<<d.user, d.work>> : d \in D}
  <2>1. ASSUME NEW k \in found PROVE of(k) \in {<<d.user, d.work>> : d \in D}
    BY <1>2, <1>3
  <2>2. ASSUME NEW d \in D PROVE <<d.user, d.work>> \in {of(k) : k \in found}
    <3>1. of(KeyTable[d]) = <<d.user, d.work>> /\ KeyTable[d] \in found
      BY <1>2, <2>2
    <3>2. QED
      BY <3>1
  <2>3. QED
    BY <2>1, <2>2
<1>5. QED
  BY <1>1, <1>4 DEF D

\* What the listings by prefix find is what is stored: list_inventions the works of a user,
\* list_outputs the drafts without the manifest, list_active_chains the works with an index
\* of chains, and the prefix of an uploaded file that file.
THEOREM Listings == ObjectsSpec => []ListingsExact
<1>1. StoreInv => ListingsExact
  <2>1. SUFFICES ASSUME StoreInv PROVE ListingsExact
    OBVIOUS
  <2>2. Keys \subseteq AllKeys
    BY <2>1 DEF StoreInv
  <2>3. ASSUME NEW w \in WorksOfDocs
        PROVE  /\ Plain(w[1]) /\ Plain(w[2]) /\ w = <<w[1], w[2]>>
    <3>1. PICK d \in Documents : d.kind = "context" /\ w = <<d.user, d.work>>
      BY <2>3 DEF WorksOfDocs
    <3>2. QED
      BY <3>1, PlainWork
  <2>4. ASSUME NEW w \in WorksOfDocs
        PROVE  /\ WorksListed(Keys, w[1]) =
                      {d.work : d \in {d \in Stored : d.user = w[1] /\ d.work # None}}
               /\ OutputsListed(Keys, w[1], w[2]) =
                      {d.ids[1] : d \in {d \in Stored : /\ d.kind = "output"
                                                       /\ <<d.user, d.work>> = w}}
    <3>1. Plain(w[1]) /\ Plain(w[2]) /\ w = <<w[1], w[2]>>
      BY <2>3, <2>4
    <3>2. OutputsListed(Keys, w[1], w[2]) =
             {d.ids[1] : d \in {d \in Stored : /\ d.kind = "output"
                                              /\ <<d.user, d.work>> = <<w[1], w[2]>>}}
      BY <2>2, <3>1, OutputsExact
    <3>3. WorksListed(Keys, w[1]) =
             {d.work : d \in {d \in Stored : d.user = w[1] /\ d.work # None}}
      BY <2>2, <3>1, WorksExact
    <3>4. QED
      BY <3>1, <3>2, <3>3
  <2>5. ASSUME NEW d \in MediaDocs
        PROVE  Under(Keys, MediaPrefix(d.user, d.work, d.ids[1])) = {KeyTable[d]} \cap Keys
    BY <2>2, <2>5, FileFound DEF MediaDocs
  <2>6. QED
    BY <2>2, <2>4, <2>5, IndexesExact DEF ListingsExact
<1>2. QED
  BY <1>1, StoreInvariant, PTL
=============================================================================
