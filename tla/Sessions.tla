-------------------------------- MODULE Sessions --------------------------------
(* Signed session cookies (review_api/session.py), the requests that carry them     *)
(* (auth.py), logout (auth_routes.py) and the denylist in Redis that ends a session *)
(* early (session_revocation.py). Redis may fail a request, and has no volume: its     *)
(* restart loses the denylist. The wall clock does not run backwards.               *)
EXTENDS Integers, Sequences

CONSTANTS
  People,     \* reviewers who log in
  Slots,      \* requests in progress at the same time
  Ttl,        \* SESSION_TTL_SECONDS
  Ticks,      \* steps of the clock per second
  MaxTime,     \* bound: the clock
  MaxLogins,  \* bound: logins
  MaxDenylistFaults   \* bound: failed calls and restarts of Redis

ASSUME SessionAssumption ==
  /\ Ttl \in Nat \ {0} /\ Ticks \in Nat \ {0}
  /\ MaxTime \in Nat /\ MaxLogins \in Nat /\ MaxDenylistFaults \in Nat

VARIABLES
  time,     \* time.time(), in ticks
  logins,  \* the cookies issued, in order, and whether their holder has logged out
  denied,  \* denied[k]: when the entry session_revoked:k ends; 0 if there is none
  request,    \* request[c]: a request, how far it is and what it found
  denylistFaults,  \* failures of Redis so far
  unrecorded   \* logouts Redis did not record or has forgotten

sessionVars == <<time, logins, denied, request, denylistFaults, unrecorded>>

\* int(time.time())
Seconds == time \div Ticks

\* Reviewer and exp are all a cookie holds: they make its signature.
Cookies == [reviewer : People, exp : Nat]
Cookie(i) == [reviewer |-> logins[i].reviewer, exp |-> logins[i].exp]

\* Mutant: one entry for all sessions of a reviewer.
MutantKey(k) == [k EXCEPT !.exp = 0]

\* The entry is named after the signature.
Key(k) == k

Expired(i) == logins[i].exp * Ticks < time

\* Mutant: a second too short.
MutantRemaining(i) == logins[i].exp - Seconds - 1

\* ttl_seconds of revoke().
Remaining(i) == logins[i].exp - Seconds

NoRequest == [step |-> "idle"]

SessionInit ==
  /\ time = 0
  /\ logins = <<>>
  /\ denied = [k \in [reviewer : People, exp : 0..(MaxTime + Ttl)] |-> 0]
  /\ request = [c \in Slots |-> NoRequest]
  /\ denylistFaults = 0
  /\ unrecorded = {}

SessionTick ==
  /\ time < MaxTime
  /\ time' = time + 1
  /\ UNCHANGED <<logins, denied, request, denylistFaults, unrecorded>>

Login(r) ==
  /\ Len(logins) < MaxLogins
  /\ logins' = Append(logins, [reviewer |-> r, exp |-> Seconds + Ttl, issued |-> time,
                               out |-> FALSE])
  /\ UNCHANGED <<time, denied, request, denylistFaults, unrecorded>>

\* decode_session: a request, or a logout, on the i-th cookie. A later use of the same
\* client replaces what is known of its last request.
Decode(c, i, step) ==
  /\ request[c].step \notin {"checking", "revoking"}
  /\ request' = [request EXCEPT ![c] =
       IF Expired(i) THEN NoRequest ELSE [step |-> step, login |-> i, out |-> logins[i].out]]
  /\ UNCHANGED <<time, logins, denied, denylistFaults, unrecorded>>

\* is_revoked, when Redis answers.
CheckRevoked(c) ==
  /\ request[c].step = "checking"
  /\ request' = [request EXCEPT ![c].step =
       IF time < denied[Key(Cookie(request[c].login))] THEN "refused" ELSE "admitted"]
  /\ UNCHANGED <<time, logins, denied, denylistFaults, unrecorded>>

DenylistFault == denylistFaults < MaxDenylistFaults /\ denylistFaults' = denylistFaults + 1

\* is_revoked, when it does not: the session counts as not revoked and gets in.
RevocationUnchecked(c) ==
  /\ request[c].step = "checking"
  /\ DenylistFault
  /\ request' = [request EXCEPT ![c] = NoRequest]
  /\ UNCHANGED <<time, logins, denied, unrecorded>>

LoggedOut(c) ==
  /\ logins' = [logins EXCEPT ![request[c].login].out = TRUE]
  /\ request' = [request EXCEPT ![c] = NoRequest]
  /\ UNCHANGED time

Deny(i) ==
  denied' = IF Remaining(i) <= 0 THEN denied
            ELSE [denied EXCEPT ![Key(Cookie(i))] = time + Remaining(i) * Ticks]

Revoke(c) ==
  /\ request[c].step = "revoking"
  /\ Deny(request[c].login)
  /\ LoggedOut(c)
  /\ UNCHANGED <<denylistFaults, unrecorded>>

\* SET raises; Redis may have done it all the same.
RevokeFails(c) ==
  /\ request[c].step = "revoking"
  /\ DenylistFault
  /\ Deny(request[c].login) \/ UNCHANGED denied
  /\ unrecorded' = unrecorded \cup {request[c].login}
  /\ LoggedOut(c)

DenylistLost ==
  /\ DenylistFault
  /\ denied' = [k \in DOMAIN denied |-> 0]
  /\ unrecorded' = unrecorded \cup {i \in DOMAIN logins : logins[i].out}
  /\ UNCHANGED <<time, logins, request>>

SessionNext ==
  \/ SessionTick
  \/ \E r \in People : Login(r)
  \/ \E c \in Slots :
       \/ \E i \in DOMAIN logins : Decode(c, i, "checking") \/ Decode(c, i, "revoking")
       \/ CheckRevoked(c) \/ RevocationUnchecked(c)
       \/ Revoke(c) \/ RevokeFails(c)
  \/ DenylistLost

SessionSpec == SessionInit /\ [][SessionNext]_sessionVars

-------------------------------------------------------------------------------
(* Properties *)

\* A copy of the cookie "can't keep working" after logout (auth_routes.py:58-63). The
\* entry "never outlives the session" (session_revocation.py:9-10); this is the other
\* half, that it does not end before it does: a request that comes after the logout was
\* answered gets in only if Redis failed one of the two or forgot, or in the instant exp
\* itself.
RevokedStaysOut ==
  \A c \in Slots :
    request[c].step = "admitted" /\ request[c].out =>
      request[c].login \in unrecorded \/ time >= logins[request[c].login].exp * Ticks

\* Logging out ends no other session than one of the same reviewer from the same second,
\* whose cookie is the same (session.py:35-39, session_revocation.py:38-39).
TwinsOnly ==
  \A c \in Slots :
    request[c].step = "refused" =>
      \E i \in DOMAIN logins :
        /\ logins[i].out
        /\ logins[i].reviewer = logins[request[c].login].reviewer
        /\ logins[i].issued \div Ticks = logins[request[c].login].issued \div Ticks
===============================================================================
