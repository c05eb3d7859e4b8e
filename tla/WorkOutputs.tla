----------------------------- MODULE WorkOutputs -----------------------------
(***************************************************************************)
(* The draft of a work as a document: Nexus asks the pipeline runner for   *)
(* it, which reads the invention object model, builds the document, stores *)
(* it and announces it on the event stream.  The model itself is written   *)
(* by no part of the engine yet, only through the content manager.         *)
(***************************************************************************)
EXTENDS NexusTasks

CONSTANT MaxIom     \* bound: writes of the invention object model

ASSUME OutputAssumption == MaxIom \in Nat

VARIABLES
    iom,        \* the invention object model, as the number of its writes; 0 is none
    uploads,    \* the builds that stored draft.docx, in order; the last one's is kept
    ready       \* the builds that output_ready was sent for

outputVars == <<iom, uploads, ready>>

OutputsInit == iom = 0 /\ uploads = <<>> /\ ready = {}

PutIom ==
    /\ iom < MaxIom
    /\ iom' = iom + 1
    /\ UNCHANGED <<req, uploads, ready, faults>>

\* Mutant: the draft is announced before it is stored.
BuildCallsEarly == <<"readIom", "readDrawings", "ready", "upload", "touch">>

BuildCalls == <<"readIom", "readDrawings", "upload", "ready", "touch">>

\* The model of the time of the request is remembered for the property.
BuildDraft(q) ==
    /\ Sent(q, "build", BuildCalls, None, iom, None)
    /\ UNCHANGED <<outputVars, faults>>

\* Without a model the build ends, and Nexus answers 404 too.
ReadIom(q) ==
    /\ At(q, "readIom")
    /\ IF iom = 0 THEN Answered(q, 404) ELSE ProceedWith(q, iom)
    /\ UNCHANGED <<outputVars, faults>>

\* The manifest of drawings is read next; without one the draft has no drawings.
ReadDrawings(q) ==
    /\ At(q, "readDrawings")
    /\ Proceed(q)
    /\ UNCHANGED <<outputVars, faults>>

\* The other builds under way are remembered for the property.
Uploaded(q) ==
    req' = [req EXCEPT ![q] = [Went(q, @) EXCEPT !.shown = {p \in Requests : Open(p)} \ {q}]]

UploadDraft(q) ==
    /\ At(q, "upload")
    /\ uploads' = Append(uploads, q)
    /\ Uploaded(q)
    /\ UNCHANGED <<iom, ready, faults>>

AnnounceDraft(q) ==
    /\ At(q, "ready")
    /\ ready' = ready \cup {q}
    /\ Proceed(q)
    /\ UNCHANGED <<iom, uploads, faults>>

\* Nexus notes the activity in the context manifest, then answers.
TouchWork(q) ==
    /\ At(q, "touch")
    /\ Proceed(q)
    /\ UNCHANGED <<outputVars, faults>>

\* Nexus waits no longer, so its own last call is not made; the runner does not notice.
OutputTimesOut(q) ==
    /\ Open(q) /\ req[q].kind = "build" /\ ~At(q, "touch")
    /\ req' = [req EXCEPT ![q].kind = "abandoned",
                          ![q].calls = SubSeq(@, 1, Len(@) - 1)]
    /\ UNCHANGED <<outputVars, faults>>

\* An upload that fails may have been stored.
OutputCallFails(q) ==
    /\ Open(q) /\ Fault
    /\ Answered(q, 500)
    /\ \/ UNCHANGED uploads
       \/ At(q, "upload") /\ uploads' = Append(uploads, q)
    /\ UNCHANGED <<iom, ready>>

OutputsNext ==
    \/ PutIom
    \/ \E q \in Requests :
          \/ BuildDraft(q) \/ ReadIom(q) \/ ReadDrawings(q) \/ UploadDraft(q)
          \/ AnnounceDraft(q) \/ TouchWork(q)
          \/ OutputTimesOut(q) \/ OutputCallFails(q)

-----------------------------------------------------------------------------
(* Safety. *)

\* The client was told that its draft is there, by the answer or by the event.
Told == ready \cup {q \in Requests : req[q].kind = "build" /\ req[q].code = 200}

\* Once a client is told that the draft is built, a download finds one, and it is made
\* from the model of the time of the request or a later one, unless a build that
\* overlapped with the client's stored its own afterwards.
DraftKeepsPromise ==
    \A q \in Told :
        /\ uploads # <<>>
        /\ LET last == uploads[Len(uploads)]
           IN  req[last].seen >= req[q].what \/ last \in req[q].shown
=============================================================================
