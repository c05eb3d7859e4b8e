---------------------------- MODULE WorkDocuments ----------------------------
(***************************************************************************)
(* The works of one user: creation and upload tickets under idempotency    *)
(* keys, the context manifest that renames and phase changes edit, the     *)
(* files of a work, and the roadmap, which both the user's answers and the *)
(* assessment chains of P02.R00 write.                                     *)
(*                                                                         *)
(* Works are numbered in the order of their creation; work 1 exists at     *)
(* first and is the one with a roadmap.  Uploaded files go from the        *)
(* browser to S3 with a ticket and pass no process of the engine.          *)
(***************************************************************************)
EXTENDS NexusTasks

CONSTANTS
    Keys,           \* Idempotency-Key values of the clients
    Items,          \* items of the roadmap
    Cap,            \* max_files_per_work
    MaxWorks        \* bound: works

ASSUME WorkAssumption == Cap \in Nat \ {0} /\ MaxWorks \in Nat \ {0}

VARIABLES
    manifest,   \* manifest[w]: title, phase, and updated_at as a counter
    media,      \* media[w]: the files of work w, named by the request of their ticket
    tickets,    \* upload tickets: work and request
    idem,       \* idem[scope, key]: the record of an idempotency key
    made,       \* made[scope, key]: what requests with the key have brought about
    shaky,      \* keys whose claim got older than 30 s, or whose effect is unknown
    roadmap,    \* the items of the roadmap that are satisfied
    turns,      \* roadmap.answer turns of the conversation, named by their request
    assess,     \* the assessment chains of work 1: one that waits, one that runs
    missed      \* turns that only assessments that failed have read

keyVars == <<idem, made, shaky>>
planVars == <<roadmap, turns, assess, missed>>
workVars == <<manifest, media, tickets, keyVars, planVars>>

Works == 1..Len(manifest)
Scopes == {"works", "media"}

NoRecord == [state |-> "none", fresh |-> FALSE]
NoAssessment == [waits |-> FALSE, at |-> "idle", read |-> {}, list |-> {}]

WorksInit ==
    /\ manifest = <<[title |-> None, phase |-> "discovery", stamp |-> 1]>>
    /\ media = [w \in 1..MaxWorks |-> {}]
    /\ tickets = {}
    /\ idem = [k \in Scopes \X Keys |-> NoRecord]
    /\ made = [k \in Scopes \X Keys |-> {}]
    /\ shaky = {}
    /\ roadmap = {} /\ turns = {}
    /\ assess = NoAssessment
    /\ missed = {}

-----------------------------------------------------------------------------
(* Idempotency keys. *)

Key(q) == <<req[q].kind, req[q].key>>
Keyed(q) == req[q].kind \in Scopes /\ req[q].key # None

\* claim_idempotency finds no record, or a claim older than 30 s.
Claimable(k) == idem[k].state # "done" /\ ~idem[k].fresh

ClaimKey(k) == idem' = [idem EXCEPT ![k] = [state |-> "claimed", fresh |-> TRUE]]

\* _idem_begin: a finished request is answered again, one under way is a conflict; a
\* claim older than 30 s is taken over.
Begin(q) ==
    LET rec == idem[Key(q)]
    IN  /\ At(q, "claim")
        /\ \/ ~Keyed(q) /\ Proceed(q) /\ UNCHANGED idem
           \/ Keyed(q) /\ rec.state = "done" /\ Answered(q, 201) /\ UNCHANGED idem
           \/ Keyed(q) /\ rec.state = "claimed" /\ rec.fresh /\ Answered(q, 409) /\ UNCHANGED idem
           \/ Keyed(q) /\ Claimable(Key(q)) /\ Proceed(q) /\ ClaimKey(Key(q))
        /\ UNCHANGED <<manifest, media, tickets, made, shaky, planVars, faults>>

\* _idem_finish.
Record(q) ==
    /\ At(q, "finish")
    /\ idem' = IF Keyed(q) THEN [idem EXCEPT ![Key(q)] = [NoRecord EXCEPT !.state = "done"]]
               ELSE idem

Finish(q) ==
    /\ Record(q)
    /\ Proceed(q)
    /\ UNCHANGED <<manifest, media, tickets, made, shaky, planVars, faults>>

\* _idem_release, whoever holds the claim by now.
Release(q) ==
    /\ At(q, "release")
    /\ idem' = IF Keyed(q) THEN [idem EXCEPT ![Key(q)] = NoRecord] ELSE idem
    /\ req' = [req EXCEPT ![q].calls = <<>>]
    /\ UNCHANGED <<manifest, media, tickets, made, shaky, planVars, faults>>

\* A claim grows older than 30 s: its holder is slow, failed to finish, or died.
ClaimExpires(k) ==
    /\ idem[k].state = "claimed" /\ idem[k].fresh
    /\ idem' = [idem EXCEPT ![k].fresh = FALSE]
    /\ shaky' = shaky \cup {k}
    /\ UNCHANGED <<manifest, media, tickets, made, planVars, req, faults>>

\* Mutant: a failure after the effect releases the key as well.
ReleasesAlways(q) == req[q].calls # <<>>

\* The try block ends before _idem_finish: a failure there leaves the claim.
ReleasesOnFailure(q) == Head(req[q].calls) \notin {"claim", "finish", "release"}

Effects(q, e) == made' = IF Keyed(q) THEN [made EXCEPT ![Key(q)] = @ \cup {e}] ELSE made

\* The request gives up: straight away, or after it has given its key back.
GivesUp(q, code) ==
    req' = [req EXCEPT ![q].calls = IF Keyed(q) /\ ReleasesOnFailure(q) THEN <<"release">>
                                    ELSE <<>>,
                       ![q].code = code]

-----------------------------------------------------------------------------
(* Works and their manifests. *)

WorkCalls == <<"claim", "create", "finish">>
RenameCalls == <<"showMeta", "checkMeta", "patchTitle">>
PhaseCalls == <<"readPhase", "patchPhase">>

CreateWork(q) ==
    /\ \E k \in Keys \cup {None} : Sent(q, "works", WorkCalls, None, None, k)
    /\ UNCHANGED <<workVars, faults>>

Rename(q) ==
    /\ \E w \in Works : Sent(q, "rename", RenameCalls, None, w, None)
    /\ UNCHANGED <<workVars, faults>>

NextPhase(q) ==
    /\ \E w \in Works : Sent(q, "phase", PhaseCalls, None, w, None)
    /\ UNCHANGED <<workVars, faults>>

NewManifest(q) ==
    /\ At(q, "create") /\ Len(manifest) < MaxWorks
    /\ manifest' = Append(manifest, [title |-> None, phase |-> "discovery", stamp |-> 1])
    /\ Effects(q, Len(manifest) + 1)

CreateSession(q) ==
    /\ NewManifest(q)
    /\ Proceed(q)
    /\ UNCHANGED <<media, tickets, idem, shaky, planVars, faults>>

ShowMeta(q) ==
    LET doc == manifest[req[q].what]
    IN  /\ At(q, "showMeta")
        /\ req' = [req EXCEPT ![q] = [Went(q, @) EXCEPT
                      !.shown = [content |-> doc.title, etag |-> doc.stamp]]]
        /\ UNCHANGED <<workVars, faults>>

CheckIfMatch(q) ==
    LET doc == manifest[req[q].what]
    IN  /\ At(q, "checkMeta")
        /\ \/ req[q].shown.etag = doc.stamp /\ ProceedWith(q, [content |-> doc.title])
           \/ req[q].shown.etag # doc.stamp /\ Answered(q, 412)
        /\ UNCHANGED <<workVars, faults>>

\* Mutant: the patch leaves updated_at alone; CM only stamps last_updated.
TitleOnly(w, q) == manifest' = [manifest EXCEPT ![w].title = q]

PatchTitle(w, q) == manifest' = [manifest EXCEPT ![w].title = q, ![w].stamp = @ + 1]
PatchPhase(w, p) == manifest' = [manifest EXCEPT ![w].phase = p, ![w].stamp = @ + 1]

NewTitle(q) ==
    /\ At(q, "patchTitle")
    /\ PatchTitle(req[q].what, q)
    /\ UNCHANGED made

\* The phase that is written was computed from the one that was read.
ReadPhase(q) ==
    /\ At(q, "readPhase")
    /\ ProceedWith(q, manifest[req[q].what].phase)
    /\ UNCHANGED <<workVars, faults>>

NewPhase(q) ==
    /\ At(q, "patchPhase")
    /\ PatchPhase(req[q].what, IF req[q].seen = "discovery" THEN "drafting" ELSE req[q].seen)
    /\ UNCHANGED made

Edit(q) ==
    /\ NewTitle(q) \/ NewPhase(q)
    /\ Proceed(q)
    /\ UNCHANGED <<media, tickets, keyVars, planVars, faults>>

-----------------------------------------------------------------------------
(* Files. *)

MediaCalls == <<"claim", "guard", "room", "sign", "finish">>

\* The client may name a work that does not exist.
UploadUrl(q) ==
    /\ \E k \in Keys \cup {None}, w \in 1..MaxWorks :
          Sent(q, "media", MediaCalls, None, w, k)
    /\ UNCHANGED <<workVars, faults>>

RequireWork(q) ==
    /\ At(q, "guard") /\ req[q].kind = "media"
    /\ IF req[q].what \in Works THEN Proceed(q) ELSE GivesUp(q, 404)
    /\ UNCHANGED <<workVars, faults>>

\* Only files count, not tickets that are still to be used.
CheckRoom(q) ==
    /\ At(q, "room")
    /\ IF Cardinality(media[req[q].what]) < Cap THEN Proceed(q) ELSE GivesUp(q, 409)
    /\ UNCHANGED <<workVars, faults>>

Sign(q) ==
    /\ At(q, "sign")
    /\ tickets' = tickets \cup {<<req[q].what, q>>}
    /\ Effects(q, q)
    /\ Proceed(q)
    /\ UNCHANGED <<manifest, media, idem, shaky, planVars, faults>>

\* The browser uses a ticket, as often as it likes until the ticket expires.
Upload(t) ==
    /\ media' = [media EXCEPT ![t[1]] = @ \cup {t[2]}]
    /\ UNCHANGED <<manifest, tickets, keyVars, planVars, req, faults>>

TicketExpires(t) ==
    /\ tickets' = tickets \ {t}
    /\ UNCHANGED <<manifest, media, keyVars, planVars, req, faults>>

DeleteMedia(q) ==
    /\ \E w \in Works : \E f \in media[w] :
          /\ req[q] = NotSent
          /\ req' = [req EXCEPT ![q].kind = "delete", ![q].code = 204]
          /\ media' = [media EXCEPT ![w] = @ \ {f}]
    /\ UNCHANGED <<manifest, tickets, keyVars, planVars, faults>>

-----------------------------------------------------------------------------
(* The roadmap. *)

AnswerCalls == <<"setItem", "append", "spawn">>

Answer(q) ==
    /\ \E i \in Items : Sent(q, "answer", AnswerCalls, None, i, None)
    /\ UNCHANGED <<workVars, faults>>

\* set_array_item_by_id, in one step whatever the position of the item is by now.
SetItem(q) ==
    /\ At(q, "setItem")
    /\ roadmap' = roadmap \cup {req[q].what}
    /\ UNCHANGED <<turns, assess>>

\* write_user_turn: without a correlation_id every turn is appended.
AppendTurn(q) ==
    /\ At(q, "append")
    /\ turns' = turns \cup {q}
    /\ UNCHANGED <<roadmap, assess>>

\* Mutant: an assessment that runs absorbs the new one.
AbsorbedByRunning == assess.waits \/ assess.at # "idle"

\* A waiting chain of the same pipeline absorbs the new one.
Absorbed == assess.waits

Spawn(q) ==
    /\ At(q, "spawn")
    /\ assess' = IF Absorbed THEN assess ELSE [assess EXCEPT !.waits = TRUE]
    /\ UNCHANGED <<roadmap, turns>>

AnswerStep(q) ==
    /\ SetItem(q) \/ AppendTurn(q) \/ Spawn(q)
    /\ Proceed(q)
    /\ UNCHANGED <<manifest, media, tickets, keyVars, missed, faults>>

\* The worker of persona 2 takes the waiting chain.
Assess ==
    /\ assess.waits /\ assess.at = "idle"
    /\ assess' = [NoAssessment EXCEPT !.at = "read"]
    /\ UNCHANGED <<manifest, media, tickets, keyVars, roadmap, turns, missed, req, faults>>

\* The context of step 6: the conversation, then the roadmap.
ReadTurns ==
    /\ assess.at = "read"
    /\ assess' = [assess EXCEPT !.at = "list", !.read = turns]
    /\ UNCHANGED <<manifest, media, tickets, keyVars, roadmap, turns, missed, req, faults>>

ReadRoadmap ==
    /\ assess.at = "list"
    /\ assess' = [assess EXCEPT !.at = "plan", !.list = roadmap]
    /\ UNCHANGED <<manifest, media, tickets, keyVars, roadmap, turns, missed, req, faults>>

\* Steps 6 and 7: the model writes a whole new list, which keeps the items that were
\* answered when it was asked, and roadmap.persist puts it over the old one.
Persist ==
    /\ assess.at = "plan"
    /\ roadmap' = assess.list \cup {req[q].what : q \in assess.read}
    /\ missed' = missed \ assess.read
    /\ assess' = [assess EXCEPT !.at = "idle", !.read = {}, !.list = {}]
    /\ UNCHANGED <<manifest, media, tickets, keyVars, turns, req, faults>>

AssessFails ==
    /\ Fault /\ assess.at # "idle"
    /\ missed' = missed \cup (IF assess.at = "read" THEN turns ELSE assess.read)
    /\ assess' = [assess EXCEPT !.at = "idle", !.read = {}, !.list = {}]
    /\ UNCHANGED <<manifest, media, tickets, keyVars, roadmap, turns, req>>

-----------------------------------------------------------------------------
WorkCall(q) ==
    \/ Begin(q) \/ Finish(q) \/ Release(q)
    \/ CreateSession(q) \/ ShowMeta(q) \/ CheckIfMatch(q) \/ ReadPhase(q) \/ Edit(q)
    \/ RequireWork(q) \/ CheckRoom(q) \/ Sign(q) \/ AnswerStep(q)

\* A call fails before it is executed, or its answer is lost.
WorkCallFails(q) ==
    /\ Fault /\ Open(q)
    /\ \/ UNCHANGED <<manifest, made, idem, roadmap, turns, assess, shaky>>
       \/ /\ NewManifest(q)
          /\ shaky' = shaky \cup {Key(q)}
          /\ UNCHANGED <<idem, roadmap, turns, assess>>
       \/ NewTitle(q) /\ UNCHANGED <<idem, roadmap, turns, assess, shaky>>
       \/ NewPhase(q) /\ UNCHANGED <<idem, roadmap, turns, assess, shaky>>
       \/ /\ SetItem(q) \/ AppendTurn(q) \/ Spawn(q)
          /\ UNCHANGED <<manifest, made, idem, shaky>>
       \/ /\ \/ At(q, "claim") /\ Keyed(q) /\ Claimable(Key(q)) /\ ClaimKey(Key(q))
             \/ Record(q)
          /\ UNCHANGED <<manifest, made, roadmap, turns, assess, shaky>>
    /\ GivesUp(q, 500)
    /\ UNCHANGED <<media, tickets, missed>>

WorksNext ==
    \/ \E q \in Requests :
          \/ CreateWork(q) \/ Rename(q) \/ NextPhase(q) \/ UploadUrl(q)
          \/ DeleteMedia(q) \/ Answer(q)
          \/ WorkCall(q) \/ WorkCallFails(q)
    \/ \E k \in Scopes \X Keys : ClaimExpires(k)
    \/ \E t \in tickets : Upload(t) \/ TicketExpires(t)
    \/ Assess \/ ReadTurns \/ ReadRoadmap \/ Persist \/ AssessFails

-----------------------------------------------------------------------------
(* Safety. *)

\* However often a request is repeated under its key, it makes one work, or signs one
\* upload: a second one means that a claim outlived its 30 s, or that the answer of the
\* content manager was lost.
OneResultPerKey ==
    \A k \in DOMAIN made : Cardinality(made[k]) > 1 => k \in shaky

Accepted == {q \in Requests : req[q].kind = "answer" /\ req[q].code = 200}

\* An answer that was accepted does not go lost when an assessment that read the
\* roadmap before it writes the whole list afterwards: the item is satisfied, or a
\* chain waits or runs that knows the turn, unless the chain that knew it failed.
AnswersKept ==
    \A q \in Accepted :
       \/ req[q].what \in roadmap
       \/ assess.waits \/ assess.at = "read"
       \/ q \in assess.read \/ q \in missed
=============================================================================
