------------------------------ MODULE ObjectKeys ------------------------------
(***************************************************************************)
(* The layout of the S3 bucket: which key a document is kept under, and    *)
(* which keys a listing or a deletion by prefix selects.                   *)
(*                                                                         *)
(* A key is a string, here a sequence of tokens: a fixed name is one       *)
(* token, "/" and "." are tokens of their own where the code cuts or       *)
(* compares there, and an id is a sequence of letters, so that one id can  *)
(* be a prefix of another.                                                 *)
(***************************************************************************)
EXTENDS Naturals, Sequences, SequencesExt

p ++ q == p \o <<"/">> \o q

Doc(kind, user, work, ids) == [kind |-> kind, user |-> user, work |-> work, ids |-> ids]

Dir(name) == <<name>>
File(id, suffix) == id \o <<suffix>>

-----------------------------------------------------------------------------
(* users/ *)

IdentityKey(provider, sub) == Dir("users") ++ Dir("identities") ++ provider ++ File(sub, ".json")
ProfileKey(user) == Dir("users") ++ Dir("profiles") ++ user ++ Dir("profile.json")
IdempotencyKey(user, hash) == Dir("users") ++ Dir("idempotency") ++ user ++ File(hash, ".json")
RefreshTokenKey(user, family) ==
    Dir("users") ++ Dir("refresh-tokens") ++ user ++ File(family, ".json")

-----------------------------------------------------------------------------
(* sessions/ *)

SessionRoot(user, work) == Dir("sessions") ++ user ++ work
RuntimeRoot(user, work) == SessionRoot(user, work) ++ Dir("runtime")
PersonaRoot(user, work, persona) == RuntimeRoot(user, work) ++ persona
ChainDir(user, work, persona, chain) == PersonaRoot(user, work, persona) ++ chain
OutputsRoot(user, work) == SessionRoot(user, work) ++ Dir("outputs")
MediaRoot(user, work) == SessionRoot(user, work) ++ Dir("media")
DrawingDir(user, work, drawing) == SessionRoot(user, work) ++ Dir("drawings") ++ drawing

\* Files of a directory that all works, personas or chains have under one name.
WorkFile == [context |-> Dir("manifest.context.yaml"),
             chains |-> Dir("runtime") ++ Dir("manifest.runtime.yaml"),
             conversation |-> Dir("runtime") ++ Dir("00.dro") ++ Dir("conversation.json"),
             models |-> Dir("models") ++ Dir("manifest.models.yaml"),
             iom |-> Dir("models") ++ Dir("invention-object-model.json"),
             cmm |-> Dir("models") ++ Dir("concept-maturity-model.json"),
             roadmap |-> Dir("models") ++ Dir("user-roadmap.json"),
             stack |-> Dir("models") ++ Dir("concept-discovery-stack.json"),
             drawings |-> Dir("drawings") ++ Dir("manifest.drawing.yaml"),
             outputs |-> Dir("outputs") ++ <<"manifest.", "outputs.yaml">>]
ChainFile == [chain |-> Dir("manifest.json"), trail |-> Dir("trail.jsonl"),
              agent_state |-> Dir("agent_state.json")]
DrawingFile == [numerals |-> Dir("numerals.json"), dl |-> Dir("dl.json"),
                figure |-> Dir("figure.json")]

KeyOf(d) ==
    CASE d.kind = "identity" -> IdentityKey(d.ids[1], d.ids[2])
      [] d.kind = "profile" -> ProfileKey(d.user)
      [] d.kind = "idempotency" -> IdempotencyKey(d.user, d.ids[1])
      [] d.kind = "refresh" -> RefreshTokenKey(d.user, d.ids[1])
      [] d.kind \in DOMAIN WorkFile -> SessionRoot(d.user, d.work) ++ WorkFile[d.kind]
      [] d.kind = "queue" -> PersonaRoot(d.user, d.work, d.ids[1]) ++ File(<<"queue">>, ".json")
      [] d.kind = "dialog" -> PersonaRoot(d.user, d.work, d.ids[1]) ++ File(d.ids[2], ".json")
      [] d.kind \in DOMAIN ChainFile ->
             ChainDir(d.user, d.work, d.ids[1], d.ids[2]) ++ ChainFile[d.kind]
      [] d.kind = "rt" ->
             ChainDir(d.user, d.work, d.ids[1], d.ids[2]) ++ Dir("rts") ++ File(d.ids[3], ".json")
      [] d.kind \in DOMAIN DrawingFile ->
             DrawingDir(d.user, d.work, d.ids[1]) ++ DrawingFile[d.kind]
      [] d.kind = "output" -> OutputsRoot(d.user, d.work) ++ d.ids[1]
      [] d.kind = "media" -> MediaRoot(d.user, d.work) ++ (d.ids[1] \o <<".">> \o d.ids[2])

-----------------------------------------------------------------------------
(* Prefixes. *)

Under(keys, prefix) == {k \in keys : IsPrefix(prefix, k)}

After(prefix, k) == SubSeq(k, Len(prefix) + 1, Len(k))

\* key.split("/"): what comes before the first separator, and after it.
Segment(k) == SubSeq(k, 1, SelectInSeq(k, LAMBDA t : t = "/") - 1)
Beyond(k) == SubSeq(k, SelectInSeq(k, LAMBDA t : t = "/") + 1, Len(k))

\* What lies directly in a directory.
In(keys, dir) ==
    {k \in Under(keys, dir \o <<"/">>) :
        LET name == After(dir \o <<"/">>, k) IN name # <<>> /\ ~Contains(name, "/")}

\* Mutant: the prefix of a work does not end its id.
WorkPrefixOpen(user, work) == SessionRoot(user, work)

\* Everything of a work.
WorkPrefix(user, work) == SessionRoot(user, work) \o <<"/">>

\* Mutant: the prefix of a file does not end its id.
MediaPrefixOpen(user, work, id) == MediaRoot(user, work) ++ id

\* The object of an uploaded file, whatever its extension.
MediaPrefix(user, work, id) == (MediaRoot(user, work) ++ id) \o <<".">>

\* list_inventions: the directories below the user's own.
WorksListed(keys, user) ==
    LET root == (Dir("sessions") ++ user) \o <<"/">>
    IN  {Segment(After(root, k)) : k \in {k \in Under(keys, root) : Contains(After(root, k), "/")}}

\* Mutant: the manifest counts as an output.
OutputsWithManifest(keys, user, work) ==
    LET root == OutputsRoot(user, work) IN {After(root \o <<"/">>, k) : k \in In(keys, root)}

\* list_outputs: the files of the directory but for its manifest.
OutputsListed(keys, user, work) ==
    LET root == OutputsRoot(user, work)
        name(k) == After(root \o <<"/">>, k)
    IN  {name(k) : k \in {k \in In(keys, root) : ~IsPrefix(<<"manifest.">>, name(k))}}

\* list_active_chains: the works with an index of chains.
IndexedWorks(keys) ==
    LET suffix == <<"/", "runtime", "/", "manifest.runtime.yaml">>
    IN  {<<Segment(Beyond(k)), Segment(Beyond(Beyond(k)))>> :
            k \in {k \in Under(keys, Dir("sessions") \o <<"/">>) : IsSuffix(suffix, k)}}

-----------------------------------------------------------------------------
(* The documents of the program. *)

\* How many ids a kind of document has, besides its user and its work.
Ids == [identity |-> 2, profile |-> 0, idempotency |-> 1, refresh |-> 1,
        context |-> 0, chains |-> 0, conversation |-> 0, models |-> 0, iom |-> 0, cmm |-> 0,
        roadmap |-> 0, stack |-> 0, drawings |-> 0, outputs |-> 0,
        queue |-> 1, dialog |-> 2, chain |-> 2, trail |-> 2, agent_state |-> 2, rt |-> 3,
        numerals |-> 1, dl |-> 1, figure |-> 1, output |-> 1, media |-> 2]

\* An id is not empty and has no separator in it.
IsName(s) == s \in Seq(STRING) /\ s # <<>> /\ ~Contains(s, "/")

\* A document is of a user or a work, or of neither; a dialog has one of the names of
\* DIALOG_NAMES and a persona a directory of PERSONA_DIRS; outputs are drafts.
IsDocument(d) ==
    /\ d = Doc(d.kind, d.user, d.work, d.ids)
    /\ d.kind \in DOMAIN Ids
    /\ d.ids \in Seq(Seq(STRING)) /\ Len(d.ids) = Ids[d.kind]
    /\ \A i \in 1..Ids[d.kind] : IsName(d.ids[i])
    /\ d.kind # "identity" => IsName(d.user)
    /\ d.kind \notin {"identity", "profile", "idempotency", "refresh"} => IsName(d.work)
    /\ d.kind \in {"queue", "dialog", "chain", "trail", "agent_state", "rt"} => d.ids[1] # Dir("00.dro")
    /\ d.kind = "media" => ~Contains(d.ids[1], ".")
    /\ d.kind = "dialog" => d.ids[2] # <<"queue">>
    /\ d.kind = "output" => ~IsPrefix(<<"manifest.">>, d.ids[1])
=============================================================================
