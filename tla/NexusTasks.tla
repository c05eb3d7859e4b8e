------------------------------ MODULE NexusTasks ------------------------------
(***************************************************************************)
(* The requests Nexus handles at once.  A request is a task that makes its *)
(* calls one after the other and is suspended in each of them, so requests *)
(* interleave at every call; a call itself is atomic, for the content      *)
(* manager is one process whose handlers do not yield.  Nexus keeps        *)
(* nothing between two requests.                                           *)
(***************************************************************************)
EXTENDS Naturals, Sequences, FiniteSets

CONSTANTS
    Requests,       \* requests the clients may send, each once
    MaxFaults,      \* bound: calls that fail
    None

Kinds == {"login", "connect", "disconnect", "alias",
          "works", "rename", "phase", "media", "delete", "answer",
          "build", "abandoned"}

ASSUME TaskAssumption == MaxFaults \in Nat /\ None \notin Nat /\ None \notin Kinds

VARIABLES
    req,        \* req[q]: the calls still to make, what the request is about, what
                \* its calls returned, and the status code once it is answered
    faults

NotSent == [kind |-> None, calls |-> <<>>, who |-> None, what |-> None, key |-> None,
            shown |-> None, seen |-> None, code |-> 0]

TasksInit ==
    /\ req = [q \in Requests |-> NotSent]
    /\ faults = 0

Open(q) == req[q].calls # <<>>

At(q, call) == Open(q) /\ Head(req[q].calls) = call

Sent(q, kind, calls, who, what, key) ==
    /\ req[q] = NotSent
    /\ req' = [req EXCEPT ![q] = [NotSent EXCEPT !.kind = kind, !.calls = calls,
                                     !.who = who, !.what = what, !.key = key]]

\* The call returned r; after the last one the request is answered.
Went(q, r) ==
    [r EXCEPT !.calls = Tail(@), !.code = IF Len(r.calls) = 1 THEN 200 ELSE 0]

Proceed(q) == req' = [req EXCEPT ![q] = Went(q, @)]
ProceedWith(q, seen) == req' = [req EXCEPT ![q] = [Went(q, @) EXCEPT !.seen = seen]]

\* The request is answered with code before its last call.
Answered(q, code) == req' = [req EXCEPT ![q].calls = <<>>, ![q].code = code]

Fault ==
    /\ faults < MaxFaults
    /\ faults' = faults + 1

-----------------------------------------------------------------------------
(* Safety. *)

Edits == {q \in Requests : req[q].kind \in {"alias", "rename"} /\ req[q].seen # None}

\* A PUT or PATCH that passes its If-Match check finds the alias or title its client
\* was shown with that ETag, whatever was written to the document in between: every
\* writer of it renews updated_at.  The check says nothing of writes that come between
\* it and the patch: those are overwritten unseen.
EtagNamesContent == \A q \in Edits : req[q].seen.content = req[q].shown.content
=============================================================================
