---------------------------- MODULE DocumentShelf ----------------------------
(***************************************************************************)
(* What the content manager promises about the documents it keeps: an      *)
(* operation on one document changes no other, and what goes with a work   *)
(* is documents of that work.                                              *)
(***************************************************************************)
EXTENDS FiniteSets

CONSTANT None

VARIABLES
    shelf,      \* the stored documents, each with its content
    closing     \* the user and work that are being deleted, or None

Init == shelf = {} /\ closing = None

\* One document is created, replaced or changed.
Store ==
    /\ \E e \in shelf' : shelf' = {f \in shelf : f.doc # e.doc} \cup {e}
    /\ UNCHANGED closing

\* One uploaded file is removed.
RemoveFile ==
    /\ \E e \in shelf : e.doc.kind = "media" /\ shelf' = shelf \ {e}
    /\ UNCHANGED closing

Close == closing' # closing /\ UNCHANGED shelf

\* Some documents go, all of the work that is being deleted.
Remove ==
    /\ closing # None
    /\ shelf' \subseteq shelf
    /\ \A e \in shelf \ shelf' : <<e.doc.user, e.doc.work>> = closing
    /\ closing' \in {closing, None}

Next == Store \/ RemoveFile \/ Close \/ Remove

Spec == Init /\ [][Next]_<<shelf, closing>>
=============================================================================
