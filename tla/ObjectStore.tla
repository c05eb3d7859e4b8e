----------------------------- MODULE ObjectStore -----------------------------
(***************************************************************************)
(* The document endpoints of the content manager on the objects of the     *)
(* bucket.  A handler never yields between its read and its write, so each *)
(* write of a document is one step.  The deletion of a work makes many     *)
(* calls and keeps the event loop meanwhile; listing and deleting uploaded *)
(* files run in threads, so their calls interleave with everything, and so *)
(* do the uploads that browsers send to S3 with a ticket.                  *)
(***************************************************************************)
EXTENDS ObjectKeys, FiniteSets

CONSTANTS
    Documents,      \* the documents that may be stored
    Threads,        \* worker threads of the content manager
    Batch,          \* keys per delete_objects call
    MaxObjects,     \* bound: objects in the bucket
    None

ASSUME StoreAssumption == Batch \in Nat \ {0} /\ MaxObjects \in Nat

\* What the code makes sure of: its names are ids of its own, names of the repository, and
\* hashes; the id of an uploaded file is a fresh uuid.
ASSUME DocumentsAssumption ==
    /\ \A d \in Documents :
          /\ IsDocument(d) /\ None # <<d.user, d.work>>
          /\ d.work = None <=> d.kind \in {"identity", "profile", "idempotency", "refresh"}
          /\ d.kind = "identity" => d.user = None
    /\ \A d, e \in Documents :
          (d.kind = "media" /\ e.kind = "media" /\ d.ids[1] = e.ids[1]) => d = e

VARIABLES
    objects,    \* the bucket: from keys to contents
    loop,       \* the deletion of a work that holds the event loop: of which, and what is left
    thread      \* what each thread is doing

objectVars == <<objects, loop, thread>>

KeyTable == [d \in Documents |-> KeyOf(d)]
MediaDocs == {d \in Documents : d.kind = "media"}
WorksOfDocs == {<<d.user, d.work>> : d \in {d \in Documents : d.kind = "context"}}
WorksWithFiles == {<<d.user, d.work>> : d \in MediaDocs}

Keys == DOMAIN objects
Stored == {d \in Documents : KeyTable[d] \in Keys}
FilesOf(user, work) == {d \in Stored : d.kind = "media" /\ d.user = user /\ d.work = work}

Idle == [op |-> "none", doc |-> None, todo |-> {}, got |-> {}, asked |-> {}, lost |-> {}, code |-> 0]
NoDeletion == [work |-> None, todo |-> {}]

ObjectsInit ==
    /\ objects = <<>>
    /\ loop = NoDeletion
    /\ thread = [t \in Threads |-> Idle]

Without(ks) == [k \in Keys \ ks |-> objects[k]]

\* The listings under way when files are deleted on request.
Lost(files) ==
    [t \in Threads |-> [thread[t] EXCEPT !.lost = @ \cup (thread[t].asked \cap files)]]

-----------------------------------------------------------------------------
(* Handlers that do not yield. *)

\* An object is replaced as a whole.
PutObject(d, content) ==
    /\ Cardinality(Keys \cup {KeyTable[d]}) <= MaxObjects
    /\ objects' = [k \in Keys \cup {KeyTable[d]} |-> IF k = KeyTable[d] THEN content ELSE objects[k]]
    /\ UNCHANGED <<loop, thread>>

Write(d, content) == loop = NoDeletion /\ PutObject(d, content)

\* Documents that are JSON objects and have a PATCH endpoint.
Patched == {"context", "iom", "cmm", "stack", "drawings", "dialog", "profile"}

Put(d) == d.kind # "media" /\ Write(d, {"put"})

\* A PATCH of a document that is not there makes one.
Patch(d) ==
    /\ d.kind \in Patched
    /\ Write(d, {"patch"} \cup IF KeyTable[d] \in Keys THEN objects[KeyTable[d]] ELSE {})

\* delete_invention lists the work once, then removes its objects batch by batch; when
\* a batch fails the rest stays.
DeleteWork(user, work) ==
    /\ loop = NoDeletion
    /\ loop' = [work |-> <<user, work>>, todo |-> Under(Keys, WorkPrefix(user, work))]
    /\ UNCHANGED <<objects, thread>>

DeleteBatch ==
    /\ loop # NoDeletion
    /\ \E ks \in SUBSET loop.todo :
          /\ Cardinality(ks) = IF Cardinality(loop.todo) < Batch THEN Cardinality(loop.todo)
                               ELSE Batch
          /\ objects' = Without(ks)
          /\ loop' = IF loop.todo = ks THEN NoDeletion ELSE [loop EXCEPT !.todo = @ \ ks]
          /\ thread' = Lost({d \in FilesOf(loop.work[1], loop.work[2]) : KeyTable[d] \in ks})

BatchFails ==
    /\ loop # NoDeletion /\ loop.todo # {}
    /\ loop' = NoDeletion
    /\ UNCHANGED <<objects, thread>>

-----------------------------------------------------------------------------
(* Uploaded files. *)

\* A browser uses its ticket.
Upload(d) == d.kind = "media" /\ PutObject(d, {"put"})

StartList(t, user, work) ==
    /\ thread[t] = Idle
    /\ thread' = [thread EXCEPT ![t] =
                     [Idle EXCEPT !.op = "list", !.doc = <<user, work>>,
                                  !.todo = In(Keys, MediaRoot(user, work)),
                                  !.asked = FilesOf(user, work)]]
    /\ UNCHANGED <<objects, loop>>

\* head_object of the next file; one that is gone fails the listing.
HeadOne(t) ==
    /\ thread[t].op = "list" /\ thread[t].code = 0
    /\ LET r == thread[t]
       IN  thread' = [thread EXCEPT ![t] =
              IF r.todo = {} THEN [r EXCEPT !.code = 200]
              ELSE LET k == CHOOSE k \in r.todo : TRUE
                   IN  IF k \in Keys THEN [r EXCEPT !.todo = @ \ {k}, !.got = @ \cup {k}]
                       ELSE [r EXCEPT !.code = 500]]
    /\ UNCHANGED <<objects, loop>>

StartDelete(t, d) ==
    /\ thread[t] = Idle
    /\ thread' = [thread EXCEPT ![t] =
                     [Idle EXCEPT !.op = "delete", !.doc = d,
                                  !.todo = Under(Keys, MediaPrefix(d.user, d.work, d.ids[1]))]]
    /\ UNCHANGED <<objects, loop>>

FinishDelete(t) ==
    /\ thread[t].op = "delete"
    /\ objects' = Without(thread[t].todo)
    /\ thread' = [Lost({thread[t].doc}) EXCEPT ![t] = Idle]
    /\ UNCHANGED loop

Answer(t) ==
    /\ thread[t].code # 0
    /\ thread' = [thread EXCEPT ![t] = Idle]
    /\ UNCHANGED <<objects, loop>>

HandlerNext ==
    \/ \E d \in Documents : Put(d) \/ Patch(d) \/ Upload(d)
    \/ \E w \in WorksOfDocs : DeleteWork(w[1], w[2])
    \/ DeleteBatch \/ BatchFails

FileNext ==
    \/ \E d \in MediaDocs : Upload(d)
    \/ \E w \in WorksWithFiles : DeleteWork(w[1], w[2])
    \/ DeleteBatch \/ BatchFails
    \/ \E t \in Threads : \/ \E w \in WorksWithFiles : StartList(t, w[1], w[2])
                          \/ \E d \in MediaDocs : StartDelete(t, d)
                          \/ HeadOne(t) \/ FinishDelete(t) \/ Answer(t)

ObjectsNext == HandlerNext \/ FileNext

ObjectsSpec == ObjectsInit /\ [][ObjectsNext]_objectVars

-----------------------------------------------------------------------------
(* Correctness. *)

Shelf == INSTANCE DocumentShelf WITH
            shelf <- {[doc |-> d, content |-> objects[KeyTable[d]]] : d \in Stored},
            closing <- loop.work

\* The handlers of the content manager, with their keys built from names and their
\* deletions by prefix, implement a shelf of separate documents: no two documents share
\* a key, and deleting a work or a file takes nothing of another one, one whose id
\* continues the deleted id included.
StoreImplementsShelf == Shelf!Spec

\* What the listings by prefix find is what is stored: the works of a user, the output
\* files of a work without its manifest, the works whose unfinished chains the runner
\* recovers, and the object of an uploaded file.
ListingsExact ==
    /\ IndexedWorks(Keys) = {<<d.user, d.work>> : d \in {d \in Stored : d.kind = "chains"}}
    /\ \A w \in WorksOfDocs :
          /\ WorksListed(Keys, w[1]) =
                {d.work : d \in {d \in Stored : d.user = w[1] /\ d.work # None}}
          /\ OutputsListed(Keys, w[1], w[2]) =
                {d.ids[1] : d \in {d \in Stored : /\ d.kind = "output"
                                                 /\ <<d.user, d.work>> = w}}
    /\ \A d \in MediaDocs :
          Under(Keys, MediaPrefix(d.user, d.work, d.ids[1])) = {KeyTable[d]} \cap Keys

\* list_media, whose calls other threads interleave with, names all files the work had
\* when it was asked; it fails only when one of them was deleted before its turn.
MediaListingsTrue ==
    \A t \in Threads :
        /\ thread[t].code = 200 => thread[t].got = {KeyTable[d] : d \in thread[t].asked}
        /\ thread[t].code = 500 => thread[t].lost # {}
=============================================================================
