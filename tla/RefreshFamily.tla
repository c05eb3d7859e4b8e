---------------------------- MODULE RefreshFamily ----------------------------
(***************************************************************************)
(* The refresh-token family of one login: the record in the content        *)
(* manager, the refresh and logout endpoints of Nexus, and the one cookie  *)
(* jar from which all tabs of the browser send their requests.             *)
(*                                                                         *)
(* A token is named by the number of rotations before it, from 1; 0 stands *)
(* for no token.  Nexus keeps nothing between requests.                    *)
(***************************************************************************)
EXTENDS Naturals, FiniteSets

CONSTANTS
    Requests,   \* refresh requests the tabs may send, each once
    MaxLost,    \* bound: requests or answers that are lost on their way
    Timely      \* no request is under way for longer than the grace window

ASSUME RefreshAssumption == MaxLost \in Nat /\ Timely \in BOOLEAN

VARIABLES
    current,    \* current_jti of the family
    prev,       \* prev_jti
    grace,      \* at most 30 s have passed since the last rotation
    revoked,
    jar,        \* the refresh cookie of the browser
    reqs,       \* reqs[r]: a refresh request on its way, or its answer
    logout,     \* the logout request: not sent, on its way, its answer, or over
    lost

family == <<current, prev, grace, revoked>>
familyVars == <<family, jar, reqs, logout, lost>>

Results == {"rotated", "concurrent", "rejected"}

TypeOK ==
    /\ current \in Nat /\ prev \in Nat
    /\ grace \in BOOLEAN /\ revoked \in BOOLEAN
    /\ logout \in {"idle", "sent", "answered", "over"}
    /\ jar \in 0..current
    /\ reqs \in [Requests -> [pc : {"idle", "sent", "answered", "over"},
                              jti : 0..current, result : Results \cup {"none"},
                              new : 0..current]]
    /\ lost \in 0..MaxLost

\* After the login: put_refresh_family and the two cookies.
FamilyInit ==
    /\ current = 1 /\ prev = 0
    /\ grace = FALSE /\ revoked = FALSE
    /\ jar = 1
    /\ reqs = [r \in Requests |->
                  [pc |-> "idle", jti |-> 0, result |-> "none", new |-> 0]]
    /\ logout = "idle"
    /\ lost = 0

UnderWay == {r \in Requests : reqs[r].pc \in {"sent", "answered"}}

\* A tab sends the cookie it finds in the jar.
Send(r) ==
    /\ reqs[r].pc = "idle" /\ jar # 0
    /\ reqs' = [reqs EXCEPT ![r].pc = "sent", ![r].jti = jar]
    /\ UNCHANGED <<family, jar, logout, lost>>

Answer(r, result, new) ==
    reqs' = [reqs EXCEPT ![r].pc = "answered", ![r].result = result, ![r].new = new]

\* Mutant: no comparison with the current token.
AnyToken(jti) == TRUE

IsCurrent(jti) == jti = current

\* Mutant: no grace for the previous token.
NoGrace(jti) == FALSE

InGrace(jti) == jti = prev /\ grace

\* rotate_refresh_family: one step of the content manager, answered by Nexus.
Rotate(r) ==
    LET jti == reqs[r].jti
    IN  /\ reqs[r].pc = "sent"
        /\ \/ /\ revoked
              /\ Answer(r, "rejected", 0)
              /\ UNCHANGED family
           \/ /\ ~revoked /\ IsCurrent(jti)
              /\ prev' = jti /\ current' = current + 1 /\ grace' = TRUE
              /\ Answer(r, "rotated", current + 1)
              /\ UNCHANGED revoked
           \/ /\ ~revoked /\ ~IsCurrent(jti) /\ InGrace(jti)
              /\ Answer(r, "concurrent", 0)
              /\ UNCHANGED family
           \/ /\ ~revoked /\ ~IsCurrent(jti) /\ ~InGrace(jti)
              /\ revoked' = TRUE
              /\ Answer(r, "rejected", 0)
              /\ UNCHANGED <<current, prev, grace>>
        /\ UNCHANGED <<jar, logout, lost>>

\* Mutant: a concurrent request clears the cookies.
ClearedUnlessRotated(r) == reqs[r].new

\* The cookie after the answer: the new token, the one there is, or none.
CookieAfter(r) ==
    CASE reqs[r].result = "rotated" -> reqs[r].new
      [] reqs[r].result = "concurrent" -> jar
      [] reqs[r].result = "rejected" -> 0

Deliver(r) ==
    /\ reqs[r].pc = "answered"
    /\ jar' = CookieAfter(r)
    /\ reqs' = [reqs EXCEPT ![r].pc = "over"]
    /\ UNCHANGED <<family, logout, lost>>

\* The connection breaks before or after the family was rotated, or the call to the
\* content manager fails: the tab gets no cookie.
Lose(r) ==
    /\ lost < MaxLost /\ r \in UnderWay
    /\ lost' = lost + 1
    /\ reqs' = [reqs EXCEPT ![r].pc = "over"]
    /\ UNCHANGED <<family, jar, logout>>

GraceEnds ==
    /\ grace /\ (Timely => UnderWay = {})
    /\ grace' = FALSE
    /\ UNCHANGED <<current, prev, revoked, jar, reqs, logout, lost>>

\* auth_logout: the family is revoked if the call succeeds; the answer takes the
\* cookies whether it did or not.
SendLogout ==
    /\ logout = "idle" /\ jar # 0
    /\ logout' = "sent"
    /\ UNCHANGED <<family, jar, reqs, lost>>

Revoke ==
    /\ logout = "sent"
    /\ logout' = "answered"
    /\ revoked' \in {TRUE, revoked}
    /\ UNCHANGED <<current, prev, grace, jar, reqs, lost>>

DeliverLogout ==
    /\ logout = "answered"
    /\ logout' = "over"
    /\ jar' = 0
    /\ UNCHANGED <<family, reqs, lost>>

FamilyNext ==
    \/ \E r \in Requests : Send(r) \/ Rotate(r) \/ Deliver(r) \/ Lose(r)
    \/ GraceEnds \/ SendLogout \/ Revoke \/ DeliverLogout

FamilySpec == FamilyInit /\ [][FamilyNext]_familyVars

-----------------------------------------------------------------------------
\* A token is rotated for one request only, however many tabs send it.
RotatedOnce ==
    \A q, r \in Requests :
       /\ reqs[q].result = "rotated" /\ reqs[r].result = "rotated"
       /\ reqs[q].jti = reqs[r].jti
       => q = r

\* Once nothing is under way, the browser holds the current token: no order of the
\* answers leaves it with one the next refresh would be rejected for.
KeepsUsableToken ==
    UnderWay = {} /\ logout = "idle" /\ ~revoked /\ lost = 0 => jar = current

\* A session ends without its user only after a lost answer, or when a request was
\* overtaken by two rotations: one concurrent refresh never costs the login.
LogoutExplained ==
    revoked /\ logout = "idle" =>
       \/ lost > 0
       \/ \E r \in Requests : reqs[r].result = "rejected" /\ reqs[r].jti + 1 < current

=============================================================================
