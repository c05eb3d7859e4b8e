------------------------------ MODULE QueueOps ------------------------------
(***************************************************************************)
(* Operators on the `pending` list of a persona queue                      *)
(* (400.CM/src/queue_store.py).  An entry is an RT identifier; a scope is  *)
(* the set of entries a pop may take: the entries of one chain for         *)
(* pop(chain_id=...), every entry for a pop without chain_id.              *)
(***************************************************************************)
EXTENDS Naturals, Sequences, SequencesExt

\* The list holds an entry of the scope.
HasEntry(list, scope) == \E i \in 1..Len(list) : list[i] \in scope

\* Mutant: any entry of the scope.
IsAny(i, list, scope) == i \in 1..Len(list) /\ list[i] \in scope

\* Position i holds the first entry of the scope.
IsFirst(i, list, scope) ==
    /\ i \in 1..Len(list)
    /\ list[i] \in scope
    /\ \A j \in 1..(i - 1) : list[j] \notin scope
=============================================================================
