------------------------------- MODULE AccessProofs -------------------------------
(* What sessions and rate limits promise, for any people, clients and processes.     *)
EXTENDS Sessions, RateLimit, SequenceTheorems, TLAPS

-------------------------------------------------------------------------------
(* Sessions *)

SessionKeys == [reviewer : People, exp : 0..(MaxTime + Ttl)]
LoginType   == [reviewer : People, exp : Nat, issued : Nat, out : BOOLEAN]
Started     == [step : {"checking", "revoking", "admitted", "refused"}, login : DOMAIN logins,
                out : BOOLEAN]

SessionTypes ==
  /\ time \in 0..MaxTime
  /\ logins \in Seq(LoginType)
  /\ denied \in [SessionKeys -> Nat]
  /\ request \in [Slots -> Started \cup {NoRequest}]

\* exp follows from the second of the login, which is past.
IssueInv ==
  \A i \in DOMAIN logins :
    logins[i].exp = logins[i].issued \div Ticks + Ttl /\ logins[i].issued <= time

IsOver(i) == time >= logins[i].exp * Ticks

\* A logout that Redis has recorded, and not forgotten, lasts as long as the session.
LogoutsLast ==
  \A i \in DOMAIN logins :
    logins[i].out /\ i \notin unrecorded =>
      denied[Cookie(i)] >= logins[i].exp * Ticks \/ IsOver(i)

\* Every entry is there because of a logout with its cookie.
EntriesInv ==
  \A k \in SessionKeys : denied[k] > 0 => \E i \in DOMAIN logins : logins[i].out /\ Cookie(i) = k

\* Whoever was logged out when a request came is still.
RequestInv ==
  \A c \in Slots : request[c] # NoRequest /\ request[c].out => logins[request[c].login].out

SessionInv ==
  /\ SessionTypes /\ IssueInv /\ LogoutsLast /\ EntriesInv /\ RequestInv
  /\ RevokedStaysOut /\ TwinsOnly

LEMMA ClockFacts ==
  ASSUME NEW n \in Nat \ {0}, NEW t \in Nat
  PROVE  t \div n \in Nat /\ (t \div n) * n <= t /\ t \div n <= t
OBVIOUS

\* The entry of a session that has time left lasts at least until its exp.
LEMMA EntryCovers ==
  ASSUME NEW n \in Nat \ {0}, NEW t \in Nat, NEW e \in Nat
  PROVE  /\ e - t \div n > 0 => t + (e - t \div n) * n \in Nat \ {0} /\ t + (e - t \div n) * n >= e * n
         /\ e - t \div n <= 0 => t >= e * n
<1>1. PICK d \in Nat : d = t \div n /\ d * n <= t
  BY ClockFacts
<1>2. (e - d) * n = e * n - d * n /\ e * n \in Nat /\ d * n \in Nat
  OBVIOUS
<1>3. ASSUME e - d > 0 PROVE t + (e - d) * n \in Nat \ {0} /\ t + (e - d) * n >= e * n
  <2>1. e * n > 0
    BY <1>3
  <2> QED BY <1>1, <1>2, <2>1
<1>4. ASSUME e - d <= 0 PROVE t >= e * n
  <2>1. e <= d
    BY <1>4
  <2>2. e * n <= d * n
    BY <2>1
  <2> QED BY <1>1, <1>2, <2>2
<1> QED BY <1>1, <1>3, <1>4

LEMMA SessionInitInv == SessionAssumption /\ SessionInit => SessionInv
<1> SUFFICES ASSUME SessionAssumption, SessionInit PROVE SessionInv
  OBVIOUS
<1>1. logins = <<>> /\ DOMAIN logins = {} /\ <<>> \in Seq(LoginType)
  BY DEF SessionInit
<1>2. SessionTypes
  BY <1>1 DEF SessionInit, SessionTypes, SessionKeys, SessionAssumption
<1>3. IssueInv /\ LogoutsLast /\ EntriesInv
  BY <1>1 DEF SessionInit, IssueInv, LogoutsLast, EntriesInv, SessionKeys
<1>4. RequestInv /\ RevokedStaysOut /\ TwinsOnly
  BY DEF SessionInit, RequestInv, RevokedStaysOut, TwinsOnly, NoRequest
<1> QED BY <1>2, <1>3, <1>4 DEF SessionInv

\* A cookie is a key of the denylist.
LEMMA CookieIsKey ==
  ASSUME SessionAssumption, SessionInv, NEW i \in DOMAIN logins
  PROVE  Cookie(i) \in SessionKeys /\ logins[i] \in LoginType
<1>1. logins[i] \in LoginType
  BY DEF SessionInv, SessionTypes
<1>2. logins[i].exp \in 0..(MaxTime + Ttl)
  <2>1. logins[i].issued \div Ticks <= logins[i].issued /\ logins[i].issued \div Ticks \in Nat
    BY <1>1, ClockFacts DEF LoginType, SessionAssumption
  <2> QED BY <1>1, <2>1 DEF SessionInv, SessionTypes, IssueInv, LoginType, SessionAssumption
<1> QED BY <1>1, <1>2 DEF Cookie, SessionKeys, LoginType

LEMMA TickKeepsSessions ==
  ASSUME SessionAssumption, SessionInv, SessionTick
  PROVE  SessionInv'
<1>1. time' \in 0..MaxTime /\ time' >= time
  BY DEF SessionTick, SessionInv, SessionTypes, SessionAssumption
<1>2. UNCHANGED <<logins, denied, request, unrecorded>>
  BY DEF SessionTick
<1>3. SessionTypes' /\ EntriesInv' /\ RequestInv' /\ TwinsOnly'
  BY <1>1, <1>2 DEF SessionInv, SessionTypes, Started, EntriesInv, Cookie, RequestInv, TwinsOnly
<1>4. \A i \in DOMAIN logins : logins[i].issued \in Nat /\ logins[i].exp * Ticks \in Nat
  BY CookieIsKey DEF LoginType, SessionAssumption
<1>5. time \in Nat /\ time' \in Nat
  BY <1>1 DEF SessionInv, SessionTypes
<1>6. IssueInv'
  BY <1>1, <1>2, <1>4, <1>5 DEF SessionInv, IssueInv
<1>7. LogoutsLast'
  BY <1>1, <1>2, <1>4, <1>5 DEF SessionInv, LogoutsLast, IsOver, Cookie
<1>8. RevokedStaysOut'
  <2> SUFFICES ASSUME NEW c \in Slots, request[c].step = "admitted", request[c].out
               PROVE  request[c].login \in unrecorded \/ time' >= logins[request[c].login].exp * Ticks
    BY <1>2 DEF RevokedStaysOut
  <2>1. request[c].login \in DOMAIN logins
    BY DEF SessionInv, SessionTypes, Started, NoRequest
  <2> QED BY <1>1, <1>4, <1>5, <2>1 DEF SessionInv, RevokedStaysOut
<1> QED BY <1>3, <1>6, <1>7, <1>8 DEF SessionInv

LEMMA LoginKeeps ==
  ASSUME SessionAssumption, SessionInv, NEW r \in People, Login(r)
  PROVE  SessionInv'
<1> DEFINE new == [reviewer |-> r, exp |-> Seconds + Ttl, issued |-> time, out |-> FALSE]
<1>1. time \in Nat /\ Seconds \in Nat /\ new \in LoginType
  BY ClockFacts DEF SessionInv, SessionTypes, Seconds, SessionAssumption, LoginType
<1>2. logins' = Append(logins, new) /\ UNCHANGED <<time, denied, request, unrecorded>>
  BY DEF Login
<1>3. /\ logins' \in Seq(LoginType) /\ DOMAIN logins' = DOMAIN logins \cup {Len(logins) + 1}
      /\ logins'[Len(logins) + 1] = new /\ \A i \in DOMAIN logins : logins'[i] = logins[i]
  <2>1. logins \in Seq(LoginType)
    BY DEF SessionInv, SessionTypes
  <2> HIDE DEF new
  <2> QED BY <1>1, <1>2, <2>1, AppendProperties
<1>4. new.out = FALSE /\ new.exp = time \div Ticks + Ttl /\ new.issued = time
  BY DEF Seconds
<1> HIDE DEF new
<1>5. \A i \in DOMAIN logins : Cookie(i)' = Cookie(i)
  BY <1>3 DEF Cookie
<1>6. \A c \in Slots : request[c] # NoRequest => request[c].login \in DOMAIN logins
  BY DEF SessionInv, SessionTypes, Started
<1>7. SessionTypes'
  BY <1>2, <1>3 DEF SessionInv, SessionTypes, Started
<1>8. IssueInv'
  <2> SUFFICES ASSUME NEW i \in DOMAIN logins'
               PROVE  logins'[i].exp = logins'[i].issued \div Ticks + Ttl /\ logins'[i].issued <= time
    BY <1>2 DEF IssueInv
  <2>1. CASE i \in DOMAIN logins
    BY <1>3, <2>1 DEF SessionInv, IssueInv
  <2>2. CASE i = Len(logins) + 1
    <3>1. logins'[i] = new
      BY <1>3, <2>2
    <3> QED BY <1>1, <1>4, <3>1
  <2> QED BY <1>3, <2>1, <2>2
<1>9. LogoutsLast'
  BY <1>2, <1>3, <1>4, <1>5 DEF SessionInv, LogoutsLast, IsOver
<1>10. EntriesInv'
  BY <1>2, <1>3, <1>5 DEF SessionInv, EntriesInv, SessionKeys
<1>11. RequestInv'
  BY <1>2, <1>3, <1>6 DEF SessionInv, RequestInv
<1>12. RevokedStaysOut' /\ TwinsOnly'
  BY <1>2, <1>3, <1>6 DEF SessionInv, RevokedStaysOut, TwinsOnly, NoRequest
<1> QED BY <1>7, <1>8, <1>9, <1>10, <1>11, <1>12 DEF SessionInv

\* What a step on requests alone leaves.
LEMMA RequestsOnly ==
  ASSUME SessionInv, UNCHANGED <<time, logins, denied, unrecorded>>,
         request' \in [Slots -> Started \cup {NoRequest}]
  PROVE  SessionTypes' /\ IssueInv' /\ LogoutsLast' /\ EntriesInv'
BY DEF SessionInv, SessionTypes, Started, IssueInv, LogoutsLast, IsOver, EntriesInv, Cookie

LEMMA DecodeKeeps ==
  ASSUME SessionAssumption, SessionInv, NEW c \in Slots, NEW i \in DOMAIN logins,
         NEW step \in {"checking", "revoking"}, Decode(c, i, step)
  PROVE  SessionInv'
<1> DEFINE new == [step |-> step, login |-> i, out |-> logins[i].out]
<1>1. new \in Started /\ new.step \notin {"admitted", "refused"} /\ new.login = i
        /\ new.out = logins[i].out
  BY CookieIsKey DEF Started, LoginType
<1>2. \/ request' = [request EXCEPT ![c] = new]
      \/ request' = [request EXCEPT ![c] = NoRequest]
  BY DEF Decode
<1> HIDE DEF new
<1>3. request' \in [Slots -> Started \cup {NoRequest}]
  BY <1>1, <1>2 DEF SessionInv, SessionTypes
<1>4. UNCHANGED <<time, logins, denied, unrecorded>>
  BY DEF Decode
<1>5. RequestInv'
  BY <1>1, <1>2, <1>4 DEF SessionInv, SessionTypes, RequestInv
<1>6. RevokedStaysOut' /\ TwinsOnly'
  <2>1. ASSUME NEW d \in Slots
        PROVE  request'[d] = request[d] \/ request'[d].step \notin {"admitted", "refused"}
    BY <1>1, <1>2 DEF SessionInv, SessionTypes, NoRequest
  <2> QED BY <1>4, <2>1 DEF SessionInv, RevokedStaysOut, TwinsOnly
<1> QED BY <1>3, <1>4, <1>5, <1>6, RequestsOnly DEF SessionInv

\* Redis knows of a logout until the session is over, and of nothing else.
LEMMA CheckKeeps ==
  ASSUME SessionAssumption, SessionInv, NEW c \in Slots, CheckRevoked(c)
  PROVE  SessionInv'
<1> DEFINE i    == request[c].login
           key  == Cookie(i)
           step == IF time < denied[key] THEN "refused" ELSE "admitted"
           new  == [request[c] EXCEPT !.step = step]
<1>1. request[c] \in Started /\ i \in DOMAIN logins
  BY DEF CheckRevoked, SessionInv, SessionTypes, Started, NoRequest
<1>2. new \in Started /\ new.step = step /\ new.login = i /\ new.out = request[c].out
  BY <1>1 DEF Started
<1>3. request' = [request EXCEPT ![c] = new] /\ UNCHANGED <<time, logins, denied, unrecorded>>
  BY DEF CheckRevoked, Key
<1>4. request' \in [Slots -> Started \cup {NoRequest}]
  BY <1>2, <1>3 DEF SessionInv, SessionTypes
<1>5. request[c] # NoRequest
  BY DEF CheckRevoked, NoRequest
<1>6. RequestInv'
  BY <1>2, <1>3, <1>5 DEF SessionInv, SessionTypes, RequestInv
<1>7. key \in SessionKeys /\ denied[key] \in Nat /\ time \in Nat /\ logins[i].exp * Ticks \in Nat
  BY <1>1, CookieIsKey DEF SessionInv, SessionTypes, LoginType, SessionAssumption
<1>8. step = "admitted" /\ request[c].out => i \in unrecorded \/ time >= logins[i].exp * Ticks
  BY <1>1, <1>5, <1>7 DEF SessionInv, RequestInv, LogoutsLast, IsOver
<1>9. step = "refused" =>
        \E j \in DOMAIN logins :
          /\ logins[j].out /\ logins[j].reviewer = logins[i].reviewer
          /\ logins[j].issued \div Ticks = logins[i].issued \div Ticks
  <2> SUFFICES ASSUME step = "refused"
               PROVE  \E j \in DOMAIN logins :
                        /\ logins[j].out /\ logins[j].reviewer = logins[i].reviewer
                        /\ logins[j].issued \div Ticks = logins[i].issued \div Ticks
    OBVIOUS
  <2>1. denied[key] > 0
    BY <1>7
  <2>2. PICK j \in DOMAIN logins : logins[j].out /\ Cookie(j) = Cookie(i)
    BY <1>7, <2>1 DEF SessionInv, EntriesInv
  <2>3. logins[j].reviewer = logins[i].reviewer /\ logins[j].exp = logins[i].exp
    BY <2>2 DEF Cookie
  <2>4. PICK m \in Nat, n \in Nat : m = logins[j].issued \div Ticks /\ n = logins[i].issued \div Ticks
    BY <1>1, CookieIsKey, ClockFacts DEF LoginType, SessionAssumption
  <2>5. m = n
    BY <1>1, <2>3, <2>4 DEF SessionInv, IssueInv, SessionAssumption
  <2> QED BY <2>2, <2>3, <2>4, <2>5
<1> HIDE DEF new, step, key, i
<1>10. RevokedStaysOut'
  BY <1>2, <1>3, <1>8 DEF SessionInv, SessionTypes, RevokedStaysOut
<1>11. TwinsOnly'
  BY <1>2, <1>3, <1>9 DEF SessionInv, SessionTypes, TwinsOnly
<1> QED BY <1>3, <1>4, <1>6, <1>10, <1>11, RequestsOnly DEF SessionInv

\* A logout changes nothing of the cookies but that their holders are out.
LEMMA LogoutLands ==
  ASSUME SessionInv, NEW c \in Slots, request[c].step = "revoking", LoggedOut(c)
  PROVE  /\ request[c].login \in DOMAIN logins
         /\ logins' \in Seq(LoginType) /\ DOMAIN logins' = DOMAIN logins
         /\ \A i \in DOMAIN logins :
              /\ logins'[i].exp = logins[i].exp /\ logins'[i].issued = logins[i].issued
              /\ logins'[i].reviewer = logins[i].reviewer /\ Cookie(i)' = Cookie(i)
              /\ logins'[i].out <=> logins[i].out \/ i = request[c].login
<1> DEFINE i   == request[c].login
           new == [logins[i] EXCEPT !.out = TRUE]
<1>1. i \in DOMAIN logins
  BY DEF SessionInv, SessionTypes, Started, NoRequest
<1>2. logins \in Seq(LoginType) /\ logins[i] \in LoginType /\ \A j \in DOMAIN logins : logins[j] \in LoginType
  BY <1>1 DEF SessionInv, SessionTypes
<1>3. /\ new \in LoginType /\ new.out = TRUE /\ new.exp = logins[i].exp
      /\ new.issued = logins[i].issued /\ new.reviewer = logins[i].reviewer
  BY <1>2 DEF LoginType
<1>4. logins' = [logins EXCEPT ![i] = new]
  BY DEF LoggedOut
<1> HIDE DEF new, i
<1>5. /\ logins' \in Seq(LoginType) /\ DOMAIN logins' = DOMAIN logins
      /\ logins'[i] = new /\ \A j \in DOMAIN logins \ {i} : logins'[j] = logins[j]
  BY <1>1, <1>2, <1>3, <1>4, ExceptSeq
<1>6. \A j \in DOMAIN logins :
        /\ logins'[j].exp = logins[j].exp /\ logins'[j].issued = logins[j].issued
        /\ logins'[j].reviewer = logins[j].reviewer
        /\ logins'[j].out <=> logins[j].out \/ j = i
  <2> TAKE j \in DOMAIN logins
  <2>1. CASE j = i
    BY <1>3, <1>5, <2>1
  <2>2. CASE j # i
    BY <1>5, <2>2
  <2> QED BY <2>1, <2>2
<1>7. \A j \in DOMAIN logins : Cookie(j)' = Cookie(j)
  BY <1>6 DEF Cookie
<1> QED BY <1>1, <1>5, <1>6, <1>7 DEF i

\* Whether Redis records it or not: a logout that is not recorded is known to be none.
LEMMA LogoutKeeps ==
  ASSUME SessionAssumption, SessionInv, NEW c \in Slots, request[c].step = "revoking", LoggedOut(c),
         unrecorded \subseteq unrecorded',
         Deny(request[c].login) \/ (UNCHANGED denied /\ request[c].login \in unrecorded')
  PROVE  SessionInv'
<1> DEFINE i == request[c].login
           until == time + Remaining(i) * Ticks
<1>1. /\ i \in DOMAIN logins
      /\ logins' \in Seq(LoginType) /\ DOMAIN logins' = DOMAIN logins
      /\ \A j \in DOMAIN logins :
           /\ logins'[j].exp = logins[j].exp /\ logins'[j].issued = logins[j].issued
           /\ logins'[j].reviewer = logins[j].reviewer /\ Cookie(j)' = Cookie(j)
           /\ logins'[j].out <=> logins[j].out \/ j = i
  BY LogoutLands
<1>2. UNCHANGED time /\ request' = [request EXCEPT ![c] = NoRequest]
  BY DEF LoggedOut
<1>3. /\ Cookie(i) \in SessionKeys /\ logins[i].exp \in Nat /\ time \in Nat
      /\ \A j \in DOMAIN logins : logins[j].exp * Ticks \in Nat
  <2>1. \A j \in DOMAIN logins : Cookie(j) \in SessionKeys /\ logins[j].exp \in Nat
    BY CookieIsKey DEF LoginType
  <2>2. time \in Nat /\ Ticks \in Nat
    BY DEF SessionInv, SessionTypes, SessionAssumption
  <2>3. \A j \in DOMAIN logins : logins[j].exp * Ticks \in Nat
    BY <2>1, <2>2
  <2> QED BY <1>1, <2>1, <2>2, <2>3
<1>4. /\ Remaining(i) > 0 => until \in Nat \ {0} /\ until >= logins[i].exp * Ticks
      /\ Remaining(i) <= 0 => IsOver(i)
  BY <1>3, EntryCovers DEF Remaining, Seconds, IsOver, SessionAssumption
<1>5. \/ UNCHANGED denied /\ (i \in unrecorded' \/ IsOver(i))
      \/ Remaining(i) > 0 /\ denied' = [denied EXCEPT ![Cookie(i)] = until]
  <2>1. CASE Deny(i)
    <3>1. Remaining(i) \in Int
      BY <1>3, ClockFacts DEF Remaining, Seconds, SessionAssumption
    <3> QED BY <2>1, <3>1, <1>4 DEF Deny, Key
  <2>2. CASE ~Deny(i)
    BY <2>2
  <2> QED BY <2>1, <2>2
<1> HIDE DEF until
<1>6. SessionTypes'
  <2>1. denied' \in [SessionKeys -> Nat]
    BY <1>4, <1>5 DEF SessionInv, SessionTypes
  <2>2. request' \in [Slots -> Started \cup {NoRequest}]
    BY <1>2 DEF SessionInv, SessionTypes
  <2> QED BY <1>1, <1>2, <2>1, <2>2 DEF SessionInv, SessionTypes, Started
<1>7. IssueInv'
  BY <1>1, <1>2 DEF SessionInv, IssueInv
<1>8. LogoutsLast'
  <2> SUFFICES ASSUME NEW j \in DOMAIN logins, logins'[j].out, j \notin unrecorded'
               PROVE  denied'[Cookie(j)] >= logins[j].exp * Ticks \/ time >= logins[j].exp * Ticks
    BY <1>1, <1>2 DEF LogoutsLast, IsOver
  <2>1. Cookie(j) \in SessionKeys /\ denied[Cookie(j)] \in Nat
    BY CookieIsKey DEF SessionInv, SessionTypes
  <2>2. CASE denied'[Cookie(j)] = until /\ Cookie(j) = Cookie(i) /\ Remaining(i) > 0
    <3>1. logins[j].exp = logins[i].exp
      BY <2>2 DEF Cookie
    <3> QED BY <2>2, <3>1, <1>4
  <2>3. CASE denied'[Cookie(j)] = denied[Cookie(j)] /\ j # i
    BY <1>1, <2>3 DEF SessionInv, LogoutsLast, IsOver
  <2>4. CASE j = i /\ UNCHANGED denied
    <3>1. CASE i \in unrecorded' \/ IsOver(i)
      BY <2>4, <3>1 DEF IsOver
    <3>2. CASE Remaining(i) > 0 /\ denied' = [denied EXCEPT ![Cookie(i)] = until]
      <4>1. denied'[Cookie(i)] = until
        BY <2>1, <2>4, <3>2 DEF SessionInv, SessionTypes
      <4> QED BY <2>2, <2>4, <3>2, <4>1
    <3> QED BY <1>5, <3>1, <3>2
  <2> QED BY <1>3, <1>5, <2>1, <2>2, <2>3, <2>4 DEF SessionInv, SessionTypes
<1>9. EntriesInv'
  <2> SUFFICES ASSUME NEW k \in SessionKeys, denied'[k] > 0
               PROVE  \E j \in DOMAIN logins : logins'[j].out /\ Cookie(j) = k
    BY <1>1 DEF EntriesInv, SessionKeys
  <2>1. CASE k = Cookie(i)
    <3>1. CASE UNCHANGED denied
      BY <1>1, <2>1, <3>1 DEF SessionInv, EntriesInv
    <3>2. CASE ~UNCHANGED denied
      BY <1>1, <2>1
    <3> QED BY <3>1, <3>2
  <2>2. CASE k # Cookie(i)
    <3>1. denied'[k] = denied[k]
      BY <1>5, <2>2 DEF SessionInv, SessionTypes
    <3> QED BY <1>1, <3>1 DEF SessionInv, EntriesInv
  <2> QED BY <2>1, <2>2
<1>10. \A s \in Slots : request'[s] # NoRequest =>
         s # c /\ request'[s] = request[s] /\ request[s].login \in DOMAIN logins
  BY <1>2 DEF SessionInv, SessionTypes, Started
<1>11. RequestInv'
  BY <1>1, <1>10 DEF SessionInv, RequestInv
<1>12. RevokedStaysOut'
  <2> SUFFICES ASSUME NEW s \in Slots, request'[s].step = "admitted", request'[s].out
               PROVE  request'[s].login \in unrecorded' \/ time >= logins'[request'[s].login].exp * Ticks
    BY <1>2 DEF RevokedStaysOut
  <2>1. s # c /\ request'[s] = request[s] /\ request[s].login \in DOMAIN logins
    BY <1>10 DEF NoRequest
  <2> QED BY <1>1, <2>1 DEF SessionInv, RevokedStaysOut
<1>13. TwinsOnly'
  <2> SUFFICES ASSUME NEW s \in Slots, request'[s].step = "refused"
               PROVE  \E j \in DOMAIN logins' :
                        /\ logins'[j].out
                        /\ logins'[j].reviewer = logins'[request'[s].login].reviewer
                        /\ logins'[j].issued \div Ticks = logins'[request'[s].login].issued \div Ticks
    BY DEF TwinsOnly
  <2>1. s # c /\ request'[s] = request[s] /\ request[s].login \in DOMAIN logins
    BY <1>10 DEF NoRequest
  <2>2. PICK j \in DOMAIN logins :
          /\ logins[j].out
          /\ logins[j].reviewer = logins[request[s].login].reviewer
          /\ logins[j].issued \div Ticks = logins[request[s].login].issued \div Ticks
    BY <2>1 DEF SessionInv, TwinsOnly
  <2> QED BY <1>1, <2>1, <2>2
<1> QED BY <1>6, <1>7, <1>8, <1>9, <1>11, <1>12, <1>13 DEF SessionInv

\* Redis restarts: every logout so far counts as forgotten.
LEMMA LostKeepsSessions ==
  ASSUME SessionAssumption, SessionInv, DenylistLost
  PROVE  SessionInv'
<1>1. /\ UNCHANGED <<time, logins, request>> /\ unrecorded \subseteq unrecorded'
      /\ \A i \in DOMAIN logins : logins[i].out => i \in unrecorded'
      /\ denied' = [k \in SessionKeys |-> 0]
  BY DEF DenylistLost, SessionInv, SessionTypes
<1>2. SessionTypes' /\ IssueInv' /\ RequestInv' /\ TwinsOnly'
  BY <1>1 DEF SessionInv, SessionTypes, Started, IssueInv, RequestInv, TwinsOnly
<1>3. LogoutsLast' /\ EntriesInv'
  BY <1>1 DEF LogoutsLast, EntriesInv, SessionKeys
<1>4. RevokedStaysOut'
  BY <1>1 DEF SessionInv, RevokedStaysOut
<1> QED BY <1>2, <1>3, <1>4 DEF SessionInv

LEMMA SessionAlways == SessionSpec => []SessionInv
<1>1. SessionInv /\ [SessionNext]_sessionVars => SessionInv'
  <2> SUFFICES ASSUME SessionInv, [SessionNext]_sessionVars PROVE SessionInv'
    OBVIOUS
  <2> USE SessionAssumption
  <2>1. CASE UNCHANGED sessionVars
    BY <2>1 DEF sessionVars, SessionInv, SessionTypes, Started, IssueInv, LogoutsLast, IsOver, EntriesInv,
       Cookie, RequestInv, RevokedStaysOut, TwinsOnly
  <2>2. ASSUME NEW c \in Slots, RevocationUnchecked(c) PROVE SessionInv'
    <3>1. /\ UNCHANGED <<time, logins, denied, unrecorded>>
          /\ request' = [request EXCEPT ![c] = NoRequest]
          /\ request' \in [Slots -> Started \cup {NoRequest}]
      BY <2>2 DEF RevocationUnchecked, SessionInv, SessionTypes
    <3>2. RequestInv' /\ RevokedStaysOut' /\ TwinsOnly'
      BY <3>1 DEF SessionInv, SessionTypes, RequestInv, RevokedStaysOut, TwinsOnly, NoRequest
    <3> QED BY <3>1, <3>2, RequestsOnly DEF SessionInv
  <2>3. ASSUME NEW c \in Slots, Revoke(c) PROVE SessionInv'
    <3>1. request[c].step = "revoking" /\ LoggedOut(c) /\ Deny(request[c].login) /\ UNCHANGED unrecorded
      BY <2>3 DEF Revoke
    <3>2. unrecorded \subseteq unrecorded'
      BY <3>1
    <3>3. Deny(request[c].login) \/ (UNCHANGED denied /\ request[c].login \in unrecorded')
      BY <3>1, Zenon
    <3> QED BY <3>1, <3>2, <3>3, LogoutKeeps, Zenon
  <2>4. ASSUME NEW c \in Slots, RevokeFails(c) PROVE SessionInv'
    BY <2>4, LogoutKeeps DEF RevokeFails
  <2> QED BY <2>1, <2>2, <2>3, <2>4, TickKeepsSessions, LoginKeeps, DecodeKeeps, CheckKeeps,
             LostKeepsSessions DEF SessionNext
<1> QED BY <1>1, SessionInitInv, SessionAssumption, PTL DEF SessionSpec

\* Whoever logged out stays out for as long as the cookie is valid, unless Redis failed.
THEOREM LogoutHolds == SessionSpec => []RevokedStaysOut
<1>1. SessionInv => RevokedStaysOut
  BY DEF SessionInv
<1> QED BY <1>1, SessionAlways, PTL

\* Only a session of the same reviewer, from the same second, goes with it.
THEOREM LogoutSpares == SessionSpec => []TwinsOnly
<1>1. SessionInv => TwinsOnly
  BY DEF SessionInv
<1> QED BY <1>1, SessionAlways, PTL

-------------------------------------------------------------------------------
(* RateLimit *)

Tally == [passed : Nat, changed : Nat, tooMany : Nat, unavailable : Nat, early : BOOLEAN]

LimitTypes ==
  /\ now \in Nat /\ failedAt \in Int /\ lost \in BOOLEAN
  /\ count \in [Ips -> Nat] /\ circuit \in [Processes -> Nat] /\ asked \in [Clients -> Tally]

\* A circuit is open only for a while after a check that failed.
CircuitInv == failedAt <= now /\ \A p \in Processes : circuit[p] <= failedAt + Cooldown

\* The counter of a client's address is of its requests only, and of all that passed
\* while Redis could be asked and remembered.
CountInv ==
  \A c \in Clients :
    /\ count[c] <= Arrived(c)
    /\ Outage \/ lost \/ (asked[c].passed <= count[c] /\ asked[c].passed <= Limit)
    /\ FailClosed => lost \/ (asked[c].changed <= count[c] /\ asked[c].changed <= Limit)
    /\ ~asked[c].early

LimitInv == LimitTypes /\ CircuitInv /\ CountInv

\* Behind a trusted proxy or not, whatever it sends, a client counts under its own address.
LEMMA OwnAddress ==
  ASSUME ProxyAssumption
  PROVE  (\A r \in Requests : ClientIp(r) = r.client) /\ Ips = Clients
BY DEF ProxyAssumption, ClientIp, Ips, Clients

LEMMA NoneAskedTally == NoneAsked \in Tally
BY DEF NoneAsked, Tally

LEMMA LimitInitInv == LimitAssumption /\ ProxyAssumption /\ LimitInit => LimitInv
<1> SUFFICES ASSUME LimitAssumption, ProxyAssumption, LimitInit PROVE LimitInv
  OBVIOUS
<1>1. LimitTypes
  <2>1. -Cooldown \in Int
    BY DEF LimitAssumption
  <2> QED BY <2>1, NoneAskedTally DEF LimitInit, LimitTypes
<1>3. CircuitInv
  BY DEF LimitInit, CircuitInv, LimitAssumption
<1>2. CountInv
  BY OwnAddress DEF LimitInit, CountInv, NoneAsked, Arrived, LimitAssumption
<1> QED BY <1>1, <1>2, <1>3 DEF LimitInv

\* Within a window an outage stays one.
LEMMA WindowFacts ==
  ASSUME LimitAssumption, NEW t \in Nat
  PROVE  /\ (t \div Window) * Window \in Nat /\ (t \div Window) * Window <= t
         /\ (t + 1) % Window # 0 => (t + 1) \div Window = t \div Window
BY DEF LimitAssumption

LEMMA LimitTickKeeps ==
  ASSUME LimitAssumption, ProxyAssumption, LimitInv, LimitTick
  PROVE  LimitInv'
<1>1. now' = now + 1 /\ UNCHANGED <<circuit, failedAt>>
  BY DEF LimitTick
<1>2. CASE now' % Window = 0
  <2>1. /\ count' = [ip \in Ips |-> 0] /\ asked' = [c \in Clients |-> NoneAsked] /\ lost' = FALSE
    BY <1>2 DEF LimitTick
  <2>2. LimitTypes' /\ CircuitInv'
    <3>1. now' \in Nat
      BY <1>1 DEF LimitInv, LimitTypes
    <3>2. LimitTypes'
      BY <1>1, <2>1, <3>1, NoneAskedTally DEF LimitInv, LimitTypes
    <3>3. CircuitInv'
      BY <1>1 DEF LimitInv, LimitTypes, CircuitInv
    <3> QED BY <3>2, <3>3
  <2>3. CountInv'
    BY <2>1, OwnAddress DEF CountInv, Arrived, NoneAsked, LimitAssumption
  <2> QED BY <2>2, <2>3 DEF LimitInv
<1>3. CASE now' % Window # 0
  <2>1. UNCHANGED <<count, asked, lost>>
    BY <1>3 DEF LimitTick
  <2>2. LimitTypes' /\ CircuitInv'
    BY <1>1, <2>1 DEF LimitInv, LimitTypes, CircuitInv, LimitAssumption
  <2>3. Outage' <=> Outage
    BY <1>1, <1>3, WindowFacts DEF Outage, LimitInv, LimitTypes
  <2>4. CountInv'
    BY <2>1, <2>3 DEF LimitInv, CountInv, Arrived
  <2> QED BY <2>2, <2>4 DEF LimitInv
<1> QED BY <1>2, <1>3

\* What a request that passes, or is told that the limiter is unavailable, adds.
LEMMA TallyChanges ==
  ASSUME LimitTypes, LimitAssumption, NEW r \in Requests
  PROVE  /\ r.client \in Clients /\ r.mutating \in BOOLEAN /\ asked[r.client] \in Tally
         /\ Passed(r) =>
              /\ asked' \in [Clients -> Tally]
              /\ asked'[r.client].passed = asked[r.client].passed + 1
              /\ asked'[r.client].changed = asked[r.client].changed + (IF r.mutating THEN 1 ELSE 0)
              /\ asked'[r.client].early = asked[r.client].early
              /\ Arrived(r.client)' = Arrived(r.client) + 1
              /\ \A c \in Clients \ {r.client} : asked'[c] = asked[c]
         /\ Unlimited(r) =>
              /\ asked' \in [Clients -> Tally]
              /\ FailClosed => asked'[r.client].changed = asked[r.client].changed
              /\ asked'[r.client].early = asked[r.client].early
              /\ Arrived(r.client)' = Arrived(r.client) + 1
              /\ \A c \in Clients \ {r.client} : asked'[c] = asked[c]
<1> DEFINE t    == asked[r.client]
           pass == [t EXCEPT !.passed = @ + 1, !.changed = IF r.mutating THEN @ + 1 ELSE @]
           busy == [t EXCEPT !.unavailable = @ + 1]
<1>1. r.client \in Clients /\ r.mutating \in BOOLEAN /\ t \in Tally
  BY DEF Clients, LimitAssumption, Request, LimitTypes
<1>2. /\ pass \in Tally /\ pass.passed = t.passed + 1 /\ pass.early = t.early
      /\ pass.changed = t.changed + (IF r.mutating THEN 1 ELSE 0)
      /\ pass.tooMany = t.tooMany /\ pass.unavailable = t.unavailable
  <2>1. PICK n \in Nat : n = IF r.mutating THEN t.changed + 1 ELSE t.changed
    BY <1>1 DEF Tally
  <2>2. pass = [t EXCEPT !.passed = t.passed + 1, !.changed = n]
    BY <2>1
  <2>3. n = t.changed + (IF r.mutating THEN 1 ELSE 0)
    BY <1>1, <2>1 DEF Tally
  <2> HIDE DEF pass, t
  <2>4. t.passed + 1 \in Nat
    BY <1>1 DEF Tally
  <2>5. /\ pass \in Tally /\ pass.passed = t.passed + 1 /\ pass.early = t.early /\ pass.changed = n
        /\ pass.tooMany = t.tooMany /\ pass.unavailable = t.unavailable
    BY <1>1, <2>1, <2>2, <2>4 DEF Tally
  <2> QED BY <2>3, <2>5
<1>3. /\ busy \in Tally /\ busy.passed = t.passed /\ busy.early = t.early /\ busy.changed = t.changed
      /\ busy.tooMany = t.tooMany /\ busy.unavailable = t.unavailable + 1
  BY <1>1 DEF Tally
<1>4. ASSUME Passed(r)
      PROVE  /\ asked' \in [Clients -> Tally] /\ asked'[r.client] = pass
             /\ \A c \in Clients \ {r.client} : asked'[c] = asked[c]
  <2>1. asked' = [asked EXCEPT ![r.client] = pass]
    BY <1>4 DEF Passed
  <2> HIDE DEF pass
  <2> QED BY <1>1, <1>2, <2>1 DEF LimitTypes
<1>5. ASSUME asked' = [asked EXCEPT ![r.client].unavailable = @ + 1]
      PROVE  /\ asked' \in [Clients -> Tally] /\ asked'[r.client] = busy
             /\ \A c \in Clients \ {r.client} : asked'[c] = asked[c]
  <2>1. asked' = [asked EXCEPT ![r.client] = busy]
    BY <1>5
  <2> HIDE DEF busy
  <2> QED BY <1>1, <1>3, <2>1 DEF LimitTypes
<1> HIDE DEF pass, busy
<1>6. ASSUME Passed(r) PROVE Arrived(r.client)' = Arrived(r.client) + 1
  BY <1>1, <1>2, <1>4, <1>6 DEF Arrived, Tally
<1>7. ASSUME Unlimited(r)
      PROVE  /\ asked' \in [Clients -> Tally]
             /\ FailClosed => asked'[r.client].changed = asked[r.client].changed
             /\ asked'[r.client].early = asked[r.client].early
             /\ Arrived(r.client)' = Arrived(r.client) + 1
             /\ \A c \in Clients \ {r.client} : asked'[c] = asked[c]
  <2>1. CASE FailClosed /\ r.mutating
    BY <1>1, <1>3, <1>5, <1>7, <2>1 DEF Unlimited, Arrived, Tally
  <2>2. CASE ~(FailClosed /\ r.mutating)
    BY <1>1, <1>2, <1>4, <1>6, <1>7, <2>2 DEF Unlimited, Tally, LimitAssumption
  <2> QED BY <2>1, <2>2
<1> QED BY <1>1, <1>2, <1>4, <1>6, <1>7

LEMMA IncrementedFacts ==
  ASSUME LimitTypes, ProxyAssumption, NEW r \in Requests
  PROVE  /\ Incremented(r) \in [Ips -> Nat] /\ Incremented(r)[r.client] = count[r.client] + 1
         /\ \A c \in Clients \ {r.client} : Incremented(r)[c] = count[c]
<1>1. r.client \in Ips /\ ClientIp(r) = r.client /\ Ips = Clients
  BY OwnAddress DEF Clients
<1> QED BY <1>1 DEF Incremented, LimitTypes

LEMMA CircuitOpenKeeps ==
  ASSUME LimitAssumption, ProxyAssumption, LimitInv, NEW p \in Processes, NEW r \in Requests,
         CircuitOpen(p, r), UNCHANGED <<now, lost>>
  PROVE  LimitInv'
<1>1. Outage /\ Outage'
  BY WindowFacts DEF CircuitOpen, Outage, LimitInv, LimitTypes, CircuitInv, LimitAssumption
<1>2. /\ asked' \in [Clients -> Tally] /\ r.client \in Clients
      /\ FailClosed => asked'[r.client].changed = asked[r.client].changed
      /\ asked'[r.client].early = asked[r.client].early
      /\ Arrived(r.client)' = Arrived(r.client) + 1
      /\ \A c \in Clients \ {r.client} : asked'[c] = asked[c]
  BY TallyChanges DEF CircuitOpen, LimitInv
<1>3. LimitTypes' /\ CircuitInv'
  BY <1>2 DEF CircuitOpen, LimitInv, LimitTypes, CircuitInv
<1>4. CountInv'
  <2> SUFFICES ASSUME NEW c \in Clients
               PROVE  /\ count[c] <= Arrived(c)'
                      /\ FailClosed => lost \/ (asked'[c].changed <= count[c] /\ asked'[c].changed <= Limit)
                      /\ ~asked'[c].early
    BY <1>1 DEF CountInv, CircuitOpen
  <2>1. count[c] \in Nat /\ Arrived(c) \in Nat
    BY OwnAddress DEF LimitInv, LimitTypes, Arrived, Tally
  <2>2. CASE c = r.client
    BY <1>2, <2>1, <2>2 DEF LimitInv, CountInv
  <2>3. CASE c # r.client
    BY <1>2, <2>3 DEF LimitInv, CountInv, Arrived
  <2> QED BY <2>2, <2>3
<1> QED BY <1>3, <1>4 DEF LimitInv

\* A check that Redis answers counts the request, and lets Limit of them pass.
LEMMA CountKeeps ==
  ASSUME LimitAssumption, ProxyAssumption, LimitInv, NEW p \in Processes, NEW r \in Requests,
         Count(p, r), UNCHANGED <<now, lost>>
  PROVE  LimitInv'
<1> DEFINE c == r.client
           t == asked[c]
<1>1. c \in Clients /\ ClientIp(r) = c /\ t \in Tally /\ r.mutating \in BOOLEAN
  BY OwnAddress, TallyChanges DEF LimitInv
<1>2. /\ count' \in [Ips -> Nat] /\ count'[c] = count[c] + 1
      /\ \A d \in Clients \ {c} : count'[d] = count[d]
  BY IncrementedFacts DEF Count, LimitInv
<1>3. Outage' <=> Outage
  BY DEF Count, Outage
<1>4. count[c] \in Nat /\ Arrived(c) \in Nat /\ Limit \in Nat /\ count[c] <= Arrived(c)
  BY <1>1, OwnAddress DEF LimitInv, LimitTypes, CountInv, Arrived, Tally, LimitAssumption
<1>5. /\ asked' \in [Clients -> Tally] /\ Arrived(c)' = Arrived(c) + 1
      /\ ~asked'[c].early
      /\ \A d \in Clients \ {c} : asked'[d] = asked[d]
      /\ \/ asked'[c].passed = t.passed /\ asked'[c].changed = t.changed
         \/ /\ count'[c] <= Limit
            /\ asked'[c].passed = t.passed + 1
            /\ asked'[c].changed \in {t.changed, t.changed + 1}
  <2>1. CASE count'[c] > Limit
    <3> DEFINE much == [t EXCEPT !.tooMany = @ + 1, !.early = @ \/ Arrived(c) < Limit]
    <3>1. asked' = [asked EXCEPT ![c] = much]
      BY <1>1, <2>1 DEF Count
    <3>2. /\ much \in Tally /\ much.passed = t.passed /\ much.changed = t.changed
          /\ much.unavailable = t.unavailable /\ much.tooMany = t.tooMany + 1
          /\ much.early <=> t.early \/ Arrived(c) < Limit
      <4>1. (t.early \/ Arrived(c) < Limit) \in BOOLEAN /\ t.tooMany + 1 \in Nat
        BY <1>1 DEF Tally
      <4> QED BY <1>1, <4>1 DEF Tally
    <3>3. ~much.early
      BY <1>1, <1>2, <1>4, <2>1, <3>2 DEF LimitInv, CountInv
    <3> HIDE DEF much
    <3>4. asked' \in [Clients -> Tally] /\ asked'[c] = much /\ \A d \in Clients \ {c} : asked'[d] = asked[d]
      BY <1>1, <3>1, <3>2 DEF LimitInv, LimitTypes
    <3>5. Arrived(c)' = Arrived(c) + 1
      <4>1. PICK n1 \in Nat, n2 \in Nat, n3 \in Nat :
              n1 = t.passed /\ n2 = t.tooMany /\ n3 = t.unavailable
        BY <1>1 DEF Tally
      <4>2. Arrived(c) = n1 + n2 + n3 /\ Arrived(c)' = n1 + (n2 + 1) + n3
        BY <3>2, <3>4, <4>1 DEF Arrived
      <4> QED BY <4>2
    <3> QED BY <3>2, <3>3, <3>4, <3>5
  <2>2. CASE ~(count'[c] > Limit)
    <3>1. Passed(r)
      BY <1>1, <2>2 DEF Count
    <3>2. /\ asked' \in [Clients -> Tally]
          /\ asked'[c].passed = t.passed + 1
          /\ asked'[c].changed = t.changed + (IF r.mutating THEN 1 ELSE 0)
          /\ asked'[c].early = t.early
          /\ Arrived(c)' = Arrived(c) + 1
          /\ \A d \in Clients \ {c} : asked'[d] = asked[d]
      BY <3>1, TallyChanges DEF LimitInv
    <3>3. ~t.early
      BY <1>1 DEF LimitInv, CountInv
    <3>4. asked'[c].changed \in {t.changed, t.changed + 1}
      BY <1>1, <3>2 DEF Tally
    <3> QED BY <1>2, <1>4, <2>2, <3>2, <3>3, <3>4
  <2> QED BY <2>1, <2>2
<1>6. LimitTypes' /\ CircuitInv'
  BY <1>2, <1>5 DEF Count, LimitInv, LimitTypes, CircuitInv
<1>7. CountInv'
  <2> SUFFICES ASSUME NEW d \in Clients
               PROVE  /\ count'[d] <= Arrived(d)'
                      /\ Outage \/ lost \/ (asked'[d].passed <= count'[d] /\ asked'[d].passed <= Limit)
                      /\ FailClosed => lost \/ (asked'[d].changed <= count'[d] /\ asked'[d].changed <= Limit)
                      /\ ~asked'[d].early
    BY <1>3 DEF CountInv
  <2>1. CASE d = c
    <3>1. t.passed \in Nat /\ t.changed \in Nat
      BY <1>1 DEF Tally
    <3>2. /\ Outage \/ lost \/ (t.passed <= count[c] /\ t.passed <= Limit)
          /\ FailClosed => lost \/ (t.changed <= count[c] /\ t.changed <= Limit)
      BY <1>1 DEF LimitInv, CountInv
    <3>3. count'[d] <= Arrived(d)' /\ ~asked'[d].early
      BY <1>2, <1>4, <1>5, <2>1
    <3>4. /\ count'[c] = count[c] + 1
          /\ asked'[c].passed = t.passed \/ (asked'[c].passed = t.passed + 1 /\ count'[c] <= Limit)
      BY <1>2, <1>5
    <3>5. /\ asked'[c].changed \in {t.changed, t.changed + 1}
          /\ asked'[c].changed = t.changed \/ count'[c] <= Limit
      BY <1>5
    <3>6. ASSUME ~Outage, ~lost PROVE asked'[c].passed <= count'[c] /\ asked'[c].passed <= Limit
      <4>1. t.passed <= count[c] /\ t.passed <= Limit
        BY <3>2, <3>6
      <4> QED BY <1>4, <3>1, <3>4, <4>1
    <3>7. ASSUME FailClosed, ~lost
          PROVE  asked'[c].changed <= count'[c] /\ asked'[c].changed <= Limit
      <4>1. t.changed <= count[c] /\ t.changed <= Limit
        BY <3>2, <3>7
      <4> QED BY <1>4, <3>1, <3>4, <3>5, <4>1
    <3> QED BY <2>1, <3>3, <3>6, <3>7
  <2>2. CASE d # c
    BY <1>2, <1>5, <2>2 DEF LimitInv, CountInv, Arrived
  <2> QED BY <2>1, <2>2
<1> QED BY <1>6, <1>7 DEF LimitInv

\* A check that fails is an outage of this window.
LEMMA CountFailsKeeps ==
  ASSUME LimitAssumption, ProxyAssumption, LimitInv, NEW p \in Processes, NEW r \in Requests,
         CountFails(p, r), UNCHANGED <<now, lost>>
  PROVE  LimitInv'
<1>1. Outage'
  <2>1. failedAt' = now /\ now \in Nat
    BY DEF CountFails, LimitInv, LimitTypes
  <2> QED BY <2>1, WindowFacts DEF Outage, LimitAssumption
<1>2. /\ asked' \in [Clients -> Tally] /\ r.client \in Clients
      /\ FailClosed => asked'[r.client].changed = asked[r.client].changed
      /\ asked'[r.client].early = asked[r.client].early
      /\ Arrived(r.client)' = Arrived(r.client) + 1
      /\ \A c \in Clients \ {r.client} : asked'[c] = asked[c]
  BY TallyChanges DEF CountFails, LimitInv
<1>3. /\ count' \in [Ips -> Nat] /\ count'[r.client] \in {count[r.client], count[r.client] + 1}
      /\ \A c \in Clients \ {r.client} : count'[c] = count[c]
  BY IncrementedFacts DEF CountFails, LimitInv, LimitTypes
<1>4. LimitTypes' /\ CircuitInv'
  BY <1>2, <1>3 DEF CountFails, LimitInv, LimitTypes, CircuitInv, LimitAssumption
<1>5. CountInv'
  <2> SUFFICES ASSUME NEW c \in Clients
               PROVE  /\ count'[c] <= Arrived(c)'
                      /\ FailClosed => lost \/ (asked'[c].changed <= count'[c] /\ asked'[c].changed <= Limit)
                      /\ ~asked'[c].early
    BY <1>1 DEF CountInv
  <2>1. count[c] \in Nat /\ Arrived(c) \in Nat /\ asked[c].changed \in Nat
    BY OwnAddress DEF LimitInv, LimitTypes, Arrived, Tally
  <2>2. CASE c = r.client
    <3>1. /\ count[c] <= Arrived(c) /\ ~asked[c].early
          /\ FailClosed => lost \/ (asked[c].changed <= count[c] /\ asked[c].changed <= Limit)
      BY DEF LimitInv, CountInv
    <3>2. /\ count'[c] \in {count[c], count[c] + 1} /\ Arrived(c)' = Arrived(c) + 1
          /\ FailClosed => asked'[c].changed = asked[c].changed
          /\ asked'[c].early = asked[c].early
      BY <1>2, <1>3, <2>2
    <3> QED BY <2>1, <3>1, <3>2
  <2>3. CASE c # r.client
    BY <1>2, <1>3, <2>3 DEF LimitInv, CountInv, Arrived
  <2> QED BY <2>2, <2>3
<1> QED BY <1>4, <1>5 DEF LimitInv

LEMMA CountersLostKeeps ==
  ASSUME LimitAssumption, ProxyAssumption, LimitInv, CountersLost
  PROVE  LimitInv'
<1>1. LimitTypes' /\ CircuitInv'
  BY DEF CountersLost, LimitInv, LimitTypes, CircuitInv
<1>2. CountInv'
  BY OwnAddress DEF CountersLost, LimitInv, LimitTypes, CountInv, Arrived, Tally
<1> QED BY <1>1, <1>2 DEF LimitInv

LEMMA LimitAlways == LimitSpec => []LimitInv
<1>1. LimitInv /\ [LimitNext]_limitVars => LimitInv'
  <2> SUFFICES ASSUME LimitInv, [LimitNext]_limitVars PROVE LimitInv'
    OBVIOUS
  <2> USE LimitAssumption, ProxyAssumption
  <2>1. CASE UNCHANGED limitVars
    BY <2>1 DEF limitVars, LimitInv, LimitTypes, CircuitInv, CountInv, Arrived, Outage
  <2>2. ASSUME NEW p \in Processes, NEW r \in Requests, Enforce(p, r) PROVE LimitInv'
    BY <2>2, CircuitOpenKeeps, CountKeeps, CountFailsKeeps DEF Enforce
  <2> QED BY <2>1, <2>2, LimitTickKeeps, CountersLostKeeps DEF LimitNext
<1> QED BY <1>1, LimitInitInv, LimitAssumption, ProxyAssumption, PTL DEF LimitSpec

\* Behind whatever trusted proxies, and whatever it sends of its own, a client gets Limit
\* requests of a window through unless Redis fails, and is not told of too many before.
THEOREM LimitHolds == LimitSpec => []LimitKept
<1>1. LimitInv => LimitKept
  <2> SUFFICES ASSUME LimitInv, NEW c \in Clients
               PROVE  /\ asked[c].passed > Limit => Outage \/ lost
                      /\ FailClosed /\ asked[c].changed > Limit => lost
                      /\ ~asked[c].early
    BY DEF LimitKept
  <2>1. asked[c].passed \in Nat /\ asked[c].changed \in Nat /\ Limit \in Nat
    BY LimitAssumption DEF LimitInv, LimitTypes, Tally, LimitAssumption
  <2> QED BY <2>1 DEF LimitInv, CountInv
<1> QED BY <1>1, LimitAlways, PTL
===============================================================================
