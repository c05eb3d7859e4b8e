----------------------------- MODULE AccountLinks -----------------------------
(***************************************************************************)
(* Accounts and the logins that lead to them: which account a subject of   *)
(* a login provider belongs to (the identity documents) and which subjects *)
(* an account says it is linked with (its profile), two documents of the   *)
(* content manager that Nexus keeps in step by separate calls.             *)
(*                                                                         *)
(* Accounts are numbered in the order in which they are minted.            *)
(***************************************************************************)
EXTENDS NexusTasks

CONSTANTS
    Subs,           \* subjects of the login providers
    ProviderOf      \* the provider of each

VARIABLES
    ident,      \* ident[s]: the account a login of subject s leads to
    profile,    \* profile[u]: linked subjects, alias, and updated_at as a counter
    sessions,   \* accounts that somebody is logged in to
    cut,        \* subject and account whose mapping was written, and the profile not
    met         \* accounts that once had two requests for their links at a time

documents == <<ident, profile>>
accountVars == <<ident, profile, sessions, cut, met>>

Accounts == DOMAIN profile

\* One account, linked with one subject.
AccountsInit ==
    /\ \E s \in Subs : /\ ident = [t \in Subs |-> IF t = s THEN 1 ELSE None]
                       /\ profile = <<[subs |-> {s}, alias |-> None, stamp |-> 1]>>
    /\ sessions = {1}
    /\ cut = {} /\ met = {}

-----------------------------------------------------------------------------
(* The documents.  A profile that was never written reads as an empty one. *)

NoProfile == [subs |-> {}, alias |-> None, stamp |-> 0]

WriteIdentity(s, u) == ident' = [ident EXCEPT ![s] = u]

\* Mutant: the mapping is deleted whoever it leads to.
DeleteAnyones(s, u) == ident' = [ident EXCEPT ![s] = None]

\* delete_identity with expected_user_id.
DeleteIdentity(s, u) ==
    ident' = IF ident[s] = u THEN [ident EXCEPT ![s] = None] ELSE ident

\* write_profile stamps updated_at.
WriteProfile(u, data) ==
    profile' = [profile EXCEPT ![u] = [data EXCEPT !.stamp = profile[u].stamp + 1]]

PatchProviders(u, subs) == WriteProfile(u, [profile[u] EXCEPT !.subs = subs])
PatchAlias(u, q) == WriteProfile(u, [profile[u] EXCEPT !.alias = q])

-----------------------------------------------------------------------------
(* Requests. *)

LoginCalls == <<"getIdentity", "putIdentity", "putProfile">>
ConnectCalls == <<"getIdentity", "putIdentity", "getProfile", "patchProviders">>

\* Mutant: the profile first.
ProfileFirst == <<"getProfile", "patchProviders", "deleteIdentities">>

DisconnectCalls == <<"getProfile", "deleteIdentities", "patchProviders">>

\* The client gets the alias and its ETag some time before it sends the new one.
AliasCalls == <<"showAlias", "checkAlias", "patchAlias">>

Linking == {"login", "connect", "disconnect"}

\* Another request that changes the links of account u is under way.
Meets(q, u) ==
    \E p \in Requests \ {q} : Open(p) /\ req[p].who = u /\ req[p].kind \in Linking

Login(q) ==
    /\ \E s \in Subs : Sent(q, "login", LoginCalls, None, s, None)
    /\ UNCHANGED <<accountVars, faults>>

Connect(q) ==
    /\ \E u \in sessions, s \in Subs :
          /\ Sent(q, "connect", ConnectCalls, u, s, None)
          /\ met' = IF Meets(q, u) THEN met \cup {u} ELSE met
    /\ UNCHANGED <<documents, sessions, cut, faults>>

Disconnect(q) ==
    /\ \E u \in sessions, p \in {ProviderOf[s] : s \in Subs} :
          /\ Sent(q, "disconnect", DisconnectCalls, u, p, None)
          /\ met' = IF Meets(q, u) THEN met \cup {u} ELSE met
    /\ UNCHANGED <<documents, sessions, cut, faults>>

SetAlias(q) ==
    /\ \E u \in sessions : Sent(q, "alias", AliasCalls, u, None, None)
    /\ UNCHANGED <<accountVars, faults>>

-----------------------------------------------------------------------------
(* The calls of the requests. *)

\* A known subject is logged in, an unknown one gets a new account; a subject of
\* another account is not linked.
GetIdentity(q) ==
    LET u == ident[req[q].what]
    IN  /\ At(q, "getIdentity")
        /\ \/ /\ req[q].kind = "login" /\ u # None
              /\ sessions' = sessions \cup {u}
              /\ Answered(q, 200)
           \/ /\ req[q].kind = "connect" /\ u \notin {None, req[q].who}
              /\ Answered(q, 409)
              /\ UNCHANGED sessions
           \/ /\ u \in {None, req[q].who}
              /\ Proceed(q)
              /\ UNCHANGED sessions
        /\ UNCHANGED <<documents, cut, met, faults>>

\* A new account has no profile yet.
MintIdentity(q) ==
    /\ At(q, "putIdentity") /\ req[q].kind = "login"
    /\ profile' = Append(profile, NoProfile)
    /\ WriteIdentity(req[q].what, Len(profile) + 1)

LinkIdentity(q) ==
    /\ At(q, "putIdentity") /\ req[q].kind = "connect"
    /\ WriteIdentity(req[q].what, req[q].who)
    /\ UNCHANGED profile

NewProfile(q) ==
    /\ At(q, "putProfile")
    /\ WriteProfile(req[q].who, [NoProfile EXCEPT !.subs = {req[q].what}])
    /\ UNCHANGED ident

NewProviders(q) ==
    /\ At(q, "patchProviders")
    /\ PatchProviders(req[q].who, req[q].seen.keep)
    /\ UNCHANGED ident

NewAlias(q) ==
    /\ At(q, "patchAlias")
    /\ PatchAlias(req[q].who, q)
    /\ UNCHANGED ident

\* One call per subject of the provider.
Unlink(q, s) ==
    /\ At(q, "deleteIdentities") /\ s \in req[q].seen.remove
    /\ DeleteIdentity(s, req[q].who)
    /\ UNCHANGED profile

Mint(q) ==
    /\ MintIdentity(q)
    /\ req' = [req EXCEPT ![q] = [Went(q, @) EXCEPT !.who = Len(profile')]]
    /\ UNCHANGED <<sessions, cut, met, faults>>

PutProfile(q) ==
    /\ NewProfile(q)
    /\ sessions' = sessions \cup {req[q].who}
    /\ Proceed(q)
    /\ UNCHANGED <<cut, met, faults>>

Patch(q) ==
    /\ \/ LinkIdentity(q) /\ UNCHANGED cut
       \/ NewProviders(q) /\ cut' = cut \ (req[q].seen.keep \X {req[q].who})
       \/ NewAlias(q) /\ UNCHANGED cut
    /\ Proceed(q)
    /\ UNCHANGED <<sessions, met, faults>>

DeleteIdentities(q) ==
    /\ \/ /\ At(q, "deleteIdentities") /\ req[q].seen.remove = {}
          /\ Proceed(q)
          /\ UNCHANGED documents
       \/ \E s \in Subs :
             /\ Unlink(q, s)
             /\ req' = [req EXCEPT ![q].seen.remove = @ \ {s}]
    /\ UNCHANGED <<sessions, cut, met, faults>>

\* What is read here decides what is written later.
GetProfile(q) ==
    LET subs == profile[req[q].who].subs
        of(p) == {s \in subs : ProviderOf[s] = p}
    IN  /\ At(q, "getProfile")
        /\ \/ /\ req[q].kind = "connect" /\ req[q].what \in subs
              /\ Answered(q, 200)
           \/ /\ req[q].kind = "connect" /\ req[q].what \notin subs
              /\ ProceedWith(q, [keep |-> subs \cup {req[q].what}, remove |-> {}])
           \/ /\ req[q].kind = "disconnect"
              /\ ProceedWith(q, [keep |-> subs \ of(req[q].what),
                                 remove |-> of(req[q].what)])
        /\ UNCHANGED <<accountVars, faults>>

ShowAlias(q) ==
    LET p == profile[req[q].who]
    IN  /\ At(q, "showAlias")
        /\ req' = [req EXCEPT ![q] = [Went(q, @) EXCEPT
                      !.shown = [content |-> p.alias, etag |-> p.stamp]]]
        /\ UNCHANGED <<accountVars, faults>>

CheckAlias(q) ==
    LET p == profile[req[q].who]
    IN  /\ At(q, "checkAlias")
        /\ \/ req[q].shown.etag = p.stamp /\ ProceedWith(q, [content |-> p.alias])
           \/ req[q].shown.etag # p.stamp /\ Answered(q, 412)
        /\ UNCHANGED <<accountVars, faults>>

AccountCall(q) ==
    \/ GetIdentity(q) \/ Mint(q) \/ PutProfile(q) \/ GetProfile(q)
    \/ DeleteIdentities(q) \/ Patch(q) \/ ShowAlias(q) \/ CheckAlias(q)

\* The mapping of the request's subject is, or may be, written by now.
Mapped(q) ==
    /\ req[q].kind \in {"login", "connect"}
    /\ Head(req[q].calls) # "getIdentity"

Holder(q) == IF req[q].who = None THEN Len(profile) + 1 ELSE req[q].who

\* A call fails before it is executed, or its answer is lost: the request ends with a
\* 5xx, and nothing it did is undone.
AccountCallFails(q) ==
    /\ Fault /\ Open(q)
    /\ \/ UNCHANGED documents
       \/ MintIdentity(q) \/ LinkIdentity(q) \/ NewProfile(q)
       \/ NewProviders(q) \/ NewAlias(q)
       \/ \E s \in Subs : Unlink(q, s)
    /\ cut' = IF Mapped(q) THEN cut \cup {<<req[q].what, Holder(q)>>} ELSE cut
    /\ Answered(q, 500)
    /\ UNCHANGED <<sessions, met>>

AccountsNext ==
    \E q \in Requests :
       \/ Login(q) \/ Connect(q) \/ Disconnect(q) \/ SetAlias(q)
       \/ AccountCall(q) \/ AccountCallFails(q)

-----------------------------------------------------------------------------
(* Safety. *)

\* A login leads to no account whose profile hides it: unlinking works from the
\* profile, so the mapping could not be removed and the login would bring the account
\* back.  A disconnect cut short at any call keeps this; the causes left are a login or
\* connect that failed between its two writes, and two link requests of one account at
\* a time, of which the later writes the list it read before the other's change.
NoHiddenMapping ==
    \A s \in Subs : ident[s] # None =>
       \/ s \in profile[ident[s]].subs
       \/ <<s, ident[s]>> \in cut \/ ident[s] \in met
       \/ \E q \in Requests : Open(q) /\ req[q].who = ident[s] /\ req[q].what = s

\* A subject's mapping is removed by nobody but the account it leads to: a disconnect
\* that is repeated with an old profile leaves the account alone that the subject was
\* given in the meantime.
OthersMappingsKept ==
    [][\A s \in Subs : ident[s] # None /\ ident'[s] = None =>
          \E q \in Requests : At(q, "deleteIdentities") /\ req[q].who = ident[s]]_ident
=============================================================================
