-------------------------------- MODULE RateLimit -------------------------------
(* The fixed-window limiter every route goes through (review_api/rate_limit.py), for *)
(* one path: counters in Redis that the API's processes share, and in each process a *)
(* circuit that stays open for a while after a failed check. A process handles one   *)
(* check at a time: _enforce blocks its event loop.                                  *)
EXTENDS Integers, Sequences, FiniteSets

CONSTANTS
  Processes,  \* processes of the API
  Requests,   \* what requests look like: who sends them, and how they arrive
  Trusted,    \* trusted_proxy_ips; "any" trusts every peer
  Limit,      \* requests a window allows
  Window,     \* its length
  Cooldown,   \* _CIRCUIT_COOLDOWN_SECONDS
  FailClosed, \* rate_limit_fail_closed_mutating
  MaxNow,     \* bound: the clock
  MaxPerWindow, \* bound: requests of a client in a window
  MaxLimitFaults   \* bound: failed checks and restarts of Redis

\* The client behind a request, the peer of its connection, X-Forwarded-For, and whether
\* the method changes anything.
Request == [client : STRING, remote : STRING, forwarded : Seq(STRING), mutating : BOOLEAN]

ASSUME LimitAssumption ==
  /\ Requests \subseteq Request
  /\ Trusted \subseteq STRING
  /\ Limit \in Nat /\ Window \in Nat \ {0} /\ Cooldown \in Nat \ {0} /\ FailClosed \in BOOLEAN
  /\ MaxNow \in Nat /\ MaxPerWindow \in Nat /\ MaxLimitFaults \in Nat

\* The peer counts as a proxy.
Proxied(r) == "any" \in Trusted \/ r.remote \in Trusted

\* What trusted_proxy_ips says of the deployment: those peers, and no others, stand
\* between a client and the API, and append its address to the header.
ASSUME ProxyAssumption ==
  \A r \in Requests :
    IF Proxied(r) THEN r.forwarded # <<>> /\ r.forwarded[Len(r.forwarded)] = r.client
    ELSE r.remote = r.client

\* Mutant: the leftmost entry, which the client may have sent itself.
MutantClientIp(r) ==
  IF r.forwarded = <<>> \/ ~Proxied(r) THEN r.remote ELSE Head(r.forwarded)

\* client_ip: a trusted proxy puts the client last; nothing else of the header counts.
ClientIp(r) ==
  IF r.forwarded = <<>> \/ ~Proxied(r) THEN r.remote ELSE r.forwarded[Len(r.forwarded)]

Ips     == {ClientIp(r) : r \in Requests}
Clients == {r.client : r \in Requests}

VARIABLES
  now,      \* the clock
  count,    \* count[ip]: the counter of the current window
  circuit,  \* circuit[p]: until when p does not ask Redis
  asked,    \* asked[c]: requests of client c in this window, by what became of them
  failedAt, \* when a check failed last; -Cooldown if none did
  lost,     \* Redis lost the counters in this window
  limitFaults    \* failures of Redis so far

limitVars == <<now, count, circuit, asked, failedAt, lost, limitFaults>>

NoneAsked == [passed |-> 0, changed |-> 0, tooMany |-> 0, unavailable |-> 0, early |-> FALSE]
Arrived(c) == asked[c].passed + asked[c].tooMany + asked[c].unavailable

LimitInit ==
  /\ now = 0
  /\ count = [ip \in Ips |-> 0]
  /\ circuit = [p \in Processes |-> 0]
  /\ asked = [c \in Clients |-> NoneAsked]
  /\ failedAt = -Cooldown
  /\ lost = FALSE
  /\ limitFaults = 0

\* Every window has keys of its own.
LimitTick ==
  /\ now < MaxNow
  /\ now' = now + 1
  /\ IF now' % Window = 0
     THEN /\ count' = [ip \in Ips |-> 0]
          /\ asked' = [c \in Clients |-> NoneAsked]
          /\ lost' = FALSE
     ELSE UNCHANGED <<count, asked, lost>>
  /\ UNCHANGED <<circuit, failedAt, limitFaults>>

Passed(r) ==
  asked' = [asked EXCEPT ![r.client].passed = @ + 1,
                         ![r.client].changed = IF r.mutating THEN @ + 1 ELSE @]

\* 503 for a request that changes something, if so configured; else it passes uncounted.
Unlimited(r) ==
  IF FailClosed /\ r.mutating
  THEN asked' = [asked EXCEPT ![r.client].unavailable = @ + 1]
  ELSE Passed(r)

CircuitOpen(p, r) ==
  /\ now < circuit[p]
  /\ Unlimited(r)
  /\ UNCHANGED <<count, circuit, failedAt>>

Incremented(r) == [count EXCEPT ![ClientIp(r)] = @ + 1]

\* INCR and EXPIRE in one transaction; EXPIRE outlives the window.
Count(p, r) ==
  /\ now >= circuit[p]
  /\ count' = Incremented(r)
  /\ IF count'[ClientIp(r)] > Limit
     THEN asked' = [asked EXCEPT ![r.client].tooMany = @ + 1,
                                 ![r.client].early = @ \/ Arrived(r.client) < Limit]
     ELSE Passed(r)
  /\ UNCHANGED <<circuit, failedAt>>

\* The call raises, whether Redis has counted the request or not.
CountFails(p, r) ==
  /\ now >= circuit[p]
  /\ count' \in {count, Incremented(r)}
  /\ circuit' = [circuit EXCEPT ![p] = now + Cooldown]
  /\ failedAt' = now
  /\ Unlimited(r)

LimitFault == limitFaults < MaxLimitFaults /\ limitFaults' = limitFaults + 1

Enforce(p, r) ==
  /\ Arrived(r.client) < MaxPerWindow
  /\ \/ (CircuitOpen(p, r) \/ Count(p, r)) /\ UNCHANGED limitFaults
     \/ CountFails(p, r) /\ LimitFault
  /\ UNCHANGED <<now, lost>>

CountersLost ==
  /\ LimitFault
  /\ count' = [ip \in Ips |-> 0]
  /\ lost' = TRUE
  /\ UNCHANGED <<now, circuit, asked, failedAt>>

LimitNext ==
  \/ LimitTick
  \/ \E p \in Processes : \E r \in Requests : Enforce(p, r)
  \/ CountersLost

LimitSpec == LimitInit /\ [][LimitNext]_limitVars

-------------------------------------------------------------------------------
(* Properties *)

\* A circuit was open, or a check failed, in this window.
Outage == failedAt + Cooldown > (now \div Window) * Window

\* A client gets Limit requests of a window through, whatever it writes into
\* X-Forwarded-For, unless Redis fails or forgets; fail-closed, not even an outage lets
\* more of its changes through. Nobody is told of too many requests who has not sent
\* Limit of them before (rate_limit.py:34-104).
LimitKept ==
  \A c \in Clients :
    /\ asked[c].passed > Limit => Outage \/ lost
    /\ FailClosed /\ asked[c].changed > Limit => lost
    /\ ~asked[c].early
===============================================================================
