---------------------------- MODULE MCObjectStore ----------------------------
(***************************************************************************)
(* Two users and three works whose ids begin alike (a and ab, w and wx), a *)
(* work with one document of every kind, and files whose ids begin alike.  *)
(* Documents without a thread need no interleaving, so an instance looks   *)
(* either at all documents or at the files with their threads.             *)
(***************************************************************************)
EXTENDS ObjectStore, TLC

CONSTANTS th1, th2

A == <<"a">>
AB == <<"a", "b">>
W == <<"w">>
WX == <<"w", "x">>
Works == {<<A, W>>, <<A, WX>>, <<AB, W>>}

Files == {Doc("media", A, W, <<id, <<"pdf">>>>) : id \in {<<"m">>, <<"m", "n">>}}

OfWork(user, work, persona) ==
    {Doc(kind, user, work, <<>>) :
        kind \in {"chains", "outputs", "conversation", "iom", "roadmap", "stack",
                 "models", "cmm", "drawings"}}
    \cup {Doc(kind, user, work, <<persona, <<"c">>>>) : kind \in {"chain", "trail", "agent_state"}}
    \cup {Doc(kind, user, work, <<<<"g">>>>) : kind \in {"numerals", "dl", "figure"}}
    \cup {Doc("queue", user, work, <<persona>>),
          Doc("dialog", user, work, <<persona, <<"analysis">>>>),
          Doc("rt", user, work, <<persona, <<"c">>, <<"r">>>>),
          Doc("output", user, work, <<<<"draft.docx">>>>)}

OfUser(user) ==
    {Doc("profile", user, None, <<>>)}
    \cup {Doc(kind, user, None, <<<<"h">>>>) : kind \in {"idempotency", "refresh"}}
    \cup {Doc("identity", None, None, <<<<"google">>, <<"h">>>>)}

AllDocuments ==
    {Doc("context", w[1], w[2], <<>>) : w \in Works}
    \cup OfWork(A, W, <<"02.director">>) \cup OfUser(A)
    \cup Files \cup {Doc("output", A, WX, <<<<"draft.docx">>>>)}

ThreadSymmetry == Permutations(Threads)

VARIABLE area

Init == area \in {"documents", "files"} /\ ObjectsInit

Next ==
    \/ area = "documents" /\ HandlerNext /\ UNCHANGED area
    \/ area = "files" /\ FileNext /\ UNCHANGED area

Spec == Init /\ [][Next]_<<area, objectVars>>
=============================================================================
