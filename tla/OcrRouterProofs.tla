----------------------------- MODULE OcrRouterProofs -----------------------------
(* What OcrRouter promises, for any number of regions and attempts and whatever    *)
(* the backends do.                                                                *)
EXTENDS OcrRouter, FiniteSetTheorems, TLAPS

\* The main thread is in a region.
Active == step \in {"submit", "wait", "sleep"}

\* Calls made before the one the main thread is about.
Before(c) ==
  \/ c[1] < now[1]
  \/ /\ c[1] = now[1]
     /\ c[2] < now[2] \/ (c[2] = now[2] /\ c[3] = "primary" /\ now[3] = "fallback")

\* Calls come one after the other, and the earlier ones for this region have failed.
InOrder ==
  Active =>
    /\ \A r \in Crops : r >= now[1] => outcome[r] = "none"
    /\ \A c \in Calls : c # now /\ ~Before(c) => at[c] = "none" /\ c \notin given
    /\ \A c \in Calls : c[1] = now[1] /\ Before(c) => Failed(c)
    /\ step = "submit" => at[now] = "none" /\ now \notin given
    /\ step = "wait" => at[now] # "none" /\ now \notin given
    /\ step = "sleep" => now[3] = "fallback" /\ now[2] < MaxAttempts /\ Failed(now)

-------------------------------------------------------------------------------
(* Calls *)

LEMMA CropsAreNumbers ==
  /\ Crops = 1..Len(Kind)
  /\ Len(Kind) \in Nat \ {0}
  /\ 1 \in Crops /\ 1 \in Attempts
  /\ \A r \in Crops : Kind[r] \in {"typed", "handwritten"}
<1>1. Kind \in Seq({"typed", "handwritten"}) /\ Kind # <<>> /\ MaxAttempts \in Nat \ {0}
  BY RouterAssumption
<1>2. Len(Kind) \in Nat /\ DOMAIN Kind = 1..Len(Kind) /\ Len(Kind) # 0
  BY <1>1
<1> QED BY <1>1, <1>2 DEF Crops, Attempts

LEMMA CallShape ==
  ASSUME NEW c \in Calls
  PROVE  /\ c[1] \in Crops /\ c[2] \in Attempts /\ c[3] \in Roles
         /\ c = <<c[1], c[2], c[3]>>
BY DEF Calls

-------------------------------------------------------------------------------
(* Types *)

LEMMA CallFailedTypes ==
  ASSUME RouterTypeOK, CallFailed
  PROVE  /\ step' \in {"submit", "sleep", "done"}
         /\ now' \in Calls
         /\ outcome' \in [Crops -> {"none", "ok", "ocr_partial", "failed"}]
BY CallShape, CropsAreNumbers DEF RouterTypeOK, CallFailed, Return, Calls, Roles

LEMMA InitialTypes == RouterInit => RouterTypeOK
<1>1. "primary" \in Roles
  BY DEF Roles
<1>2. <<1, 1, "primary">> \in Calls
  BY <1>1, CropsAreNumbers DEF Calls
<1> SUFFICES ASSUME RouterInit PROVE RouterTypeOK
  OBVIOUS
<1>3. now \in Calls
  BY <1>2 DEF RouterInit
<1>4. at \in [Calls -> {"none", "check", "loadProcessor", "loadModel", "read",
                        "returned", "raised"}]
  BY DEF RouterInit
<1>5. outcome \in [Crops -> {"none", "ok", "ocr_partial", "failed"}]
  BY DEF RouterInit
<1> QED BY <1>3, <1>4, <1>5 DEF RouterInit, RouterTypeOK

LEMMA ThreadStepTypes ==
  ASSUME NEW c \in Calls, RouterTypeOK, ThreadStep(c)
  PROVE  RouterTypeOK'
<1> USE DEF RouterTypeOK
<1>1. CASE CheckModel(c)
  BY <1>1 DEF CheckModel
<1>2. CASE LoadProcessor(c)
  BY <1>2 DEF LoadProcessor
<1>3. CASE LoadModel(c)
  BY <1>3 DEF LoadModel
<1>4. CASE ReadCrop(c)
  BY <1>4 DEF ReadCrop
<1>5. CASE Raise(c)
  BY <1>5 DEF Raise
<1> QED BY <1>1, <1>2, <1>3, <1>4, <1>5 DEF ThreadStep

LEMMA StepTypes ==
  ASSUME RouterTypeOK, InOrder, [RouterNext]_routerVars
  PROVE  RouterTypeOK'
<1>1. CASE Submit
  BY <1>1 DEF Submit, RouterTypeOK
<1>2. CASE TakeResult
  BY <1>2, CallShape, CropsAreNumbers DEF TakeResult, Return, RouterTypeOK, Calls, Roles
<1>3. CASE BackendRaised
  BY <1>3, CallFailedTypes DEF BackendRaised, RouterTypeOK
<1>4. CASE TimedOut
  BY <1>4, CallFailedTypes DEF TimedOut, RouterTypeOK
<1>5. CASE SoftLimitSwallowed
  BY <1>5, CallFailedTypes DEF SoftLimitSwallowed, RouterTypeOK
<1>6. CASE SoftLimitRaised
  BY <1>6 DEF SoftLimitRaised, RouterTypeOK
<1>7. CASE Backoff
  <2>1. now[1] \in Crops /\ now[2] + 1 \in Attempts /\ "primary" \in Roles
    BY <1>7, CallShape, RouterAssumption DEF Backoff, InOrder, Active, RouterTypeOK, Attempts, Roles
  <2>2. now' \in Calls
    BY <1>7, <2>1 DEF Backoff, Calls
  <2> QED BY <1>7, <2>2 DEF Backoff, RouterTypeOK
<1>8. ASSUME NEW c \in Calls, ThreadStep(c) PROVE RouterTypeOK'
  BY <1>8, ThreadStepTypes
<1>9. CASE UNCHANGED routerVars
  BY <1>9 DEF routerVars, RouterTypeOK
<1> QED BY <1>1, <1>2, <1>3, <1>4, <1>5, <1>6, <1>7, <1>8, <1>9 DEF RouterNext, MainStep

-------------------------------------------------------------------------------
(* The order of the calls *)

\* What a thread may change of its call.
LEMMA ThreadFrame ==
  ASSUME NEW c \in Calls, RouterTypeOK, ThreadStep(c)
  PROVE  /\ UNCHANGED <<step, now, given, outcome, struck>>
         /\ at[c] \notin {"none", "returned", "raised"} /\ at'[c] # "none"
         /\ \A d \in Calls : d # c => at'[d] = at[d]
BY DEF ThreadStep, CheckModel, LoadProcessor, LoadModel, ReadCrop, Raise, RouterTypeOK

\* The call after this one: the fallback, the next attempt or the next region.
LEMMA NextInRegion ==
  ASSUME now \in Calls, now' \in Calls,
         \/ now[3] = "primary" /\ now' = <<now[1], now[2], "fallback">>
         \/ now[3] = "fallback" /\ now' = <<now[1], now[2] + 1, "primary">>
  PROVE  /\ now'[1] = now[1] /\ now' # now /\ ~Before(now')
         /\ \A c \in Calls : Before(c)' <=> Before(c) \/ c = now
<1>n. /\ Crops \subseteq Nat /\ Attempts \subseteq Nat
      /\ \A c \in Calls : c[1] \in Crops /\ c[2] \in Attempts /\ c[3] \in {"primary", "fallback"}
                          /\ c = <<c[1], c[2], c[3]>>
  BY CallShape, CropsAreNumbers, RouterAssumption DEF Attempts, Roles
<1>1. now'[1] = now[1] /\ now' # now /\ ~Before(now')
  BY <1>n DEF Before
<1>2. ASSUME NEW c \in Calls
      PROVE  Before(c)' <=> Before(c) \/ c = now
  <2>0. /\ c[1] \in Nat /\ c[2] \in Nat /\ c[3] \in {"primary", "fallback"}
        /\ now[1] \in Nat /\ now[2] \in Nat /\ now[3] \in {"primary", "fallback"}
        /\ c = now <=> c[1] = now[1] /\ c[2] = now[2] /\ c[3] = now[3]
    BY <1>n
  <2>1. CASE now[3] = "primary" /\ now' = <<now[1], now[2], "fallback">>
    <3>1. now'[1] = now[1] /\ now'[2] = now[2] /\ now'[3] = "fallback"
      BY <2>1
    <3> QED BY <2>0, <2>1, <3>1 DEF Before
  <2>2. CASE now[3] = "fallback" /\ now' = <<now[1], now[2] + 1, "primary">>
    <3>1. now'[1] = now[1] /\ now'[2] = now[2] + 1 /\ now'[3] = "primary"
      BY <2>2
    <3> QED BY <2>0, <2>2, <3>1 DEF Before
  <2> QED BY <2>1, <2>2
<1> QED BY <1>1, <1>2

LEMMA NextRegion ==
  ASSUME now \in Calls, now' = <<now[1] + 1, 1, "primary">>, now' \in Calls
  PROVE  /\ now'[1] = now[1] + 1 /\ now' # now /\ ~Before(now')
         /\ \A c \in Calls : Before(c)' <=> c[1] <= now[1]
         /\ \A c \in Calls : Before(c) \/ c = now => c[1] <= now[1]
<1>n. /\ Crops \subseteq Nat
      /\ \A c \in Calls : c[1] \in Crops /\ c[2] \in Nat /\ c[2] >= 1
  BY CallShape, CropsAreNumbers, RouterAssumption DEF Attempts
<1>1. now'[1] = now[1] + 1 /\ now'[2] = 1 /\ now'[3] = "primary"
  OBVIOUS
<1>2. now' # now /\ ~Before(now')
  BY <1>n, <1>1 DEF Before
<1>3. ASSUME NEW c \in Calls PROVE Before(c)' <=> c[1] <= now[1]
  <2>1. c[1] \in Nat /\ c[2] \in Nat /\ c[2] >= 1 /\ now[1] \in Nat
    BY <1>n
  <2> QED BY <2>1, <1>1 DEF Before
<1>4. ASSUME NEW c \in Calls, Before(c) \/ c = now PROVE c[1] <= now[1]
  <2>1. c[1] \in Nat /\ now[1] \in Nat
    BY <1>n
  <2> QED BY <2>1, <1>4 DEF Before
<1> QED BY <1>1, <1>2, <1>3, <1>4

\* A region that has its outcome leaves the next one untouched.
LEMMA InOrderAfterReturn ==
  ASSUME RouterTypeOK, RouterTypeOK', InOrder, Active, NEW x, Return(x), at' = at,
         given' \subseteq given \cup {now}
  PROVE  InOrder'
<1>1. CASE step' = "done"
  BY <1>1 DEF InOrder, Active
<1>2. CASE step' = "submit" /\ now' = <<now[1] + 1, 1, "primary">>
  <2>0. now \in Calls /\ now' \in Calls /\ now[1] \in Nat /\ Crops \subseteq Nat
    BY CallShape, CropsAreNumbers DEF RouterTypeOK
  <2>n. /\ now'[1] = now[1] + 1 /\ now' # now /\ ~Before(now')
        /\ \A c \in Calls : Before(c)' <=> c[1] <= now[1]
        /\ \A c \in Calls : Before(c) \/ c = now => c[1] <= now[1]
        /\ \A c \in Calls : c[1] \in Nat
    BY <1>2, <2>0, NextRegion, CallShape
  <2>1. \A r \in Crops : r >= now'[1] => outcome'[r] = "none"
    BY <2>0, <2>n DEF Return, RouterTypeOK, InOrder
  <2>2. \A c \in Calls : ~Before(c)' => at'[c] = "none" /\ c \notin given'
    BY <2>0, <2>n DEF InOrder
  <2>3. \A c \in Calls : c[1] = now'[1] => ~Before(c)'
    BY <2>0, <2>n
  <2>4. at'[now'] = "none" /\ now' \notin given'
    BY <2>0, <2>2, <2>3
  <2> QED BY <1>2, <2>1, <2>2, <2>3, <2>4 DEF InOrder, Active
<1> QED BY <1>1, <1>2 DEF Return

\* A failed call moves the main thread to the next one, and to the next region only
\* after the last attempt.
LEMMA InOrderAfterFailure ==
  ASSUME RouterTypeOK, RouterTypeOK', InOrder, step \in {"submit", "wait"}, CallFailed, at' = at,
         given' = given \/ given' = given \cup {now},
         now \in given' \/ at[now] = "raised"
  PROVE  InOrder'
<1>0. now \in Calls /\ now' \in Calls /\ Active
  BY DEF RouterTypeOK, Active
<1>1. CASE now[3] = "primary" /\ step' = "submit" /\ now' = <<now[1], now[2], "fallback">>
            /\ outcome' = outcome
  <2>n. /\ now'[1] = now[1] /\ now' # now /\ ~Before(now')
        /\ \A c \in Calls : Before(c)' <=> Before(c) \/ c = now
    BY <1>0, <1>1, NextInRegion
  <2> QED BY <1>0, <1>1, <2>n DEF InOrder, Active, Failed
<1>2. CASE now[3] = "fallback" /\ now[2] < MaxAttempts /\ step' = "sleep"
            /\ UNCHANGED <<now, outcome>>
  <2>1. \A c \in Calls : Before(c)' <=> Before(c)
    BY <1>2 DEF Before
  <2> QED BY <1>0, <1>2, <2>1 DEF InOrder, Active, Failed
<1>3. CASE now[3] = "fallback" /\ now[2] = MaxAttempts /\ Return("failed")
  BY <1>0, <1>3, InOrderAfterReturn
<1> QED BY <1>1, <1>2, <1>3 DEF CallFailed

LEMMA StepKeepsOrder ==
  ASSUME RouterTypeOK, RouterTypeOK', InOrder, [RouterNext]_routerVars
  PROVE  InOrder'
<1>t. now \in Calls /\ now' \in Calls
  BY DEF RouterTypeOK
<1>1. CASE Submit
  BY <1>1, <1>t DEF Submit, InOrder, Active, Before, Failed, RouterTypeOK
<1>2. CASE TakeResult
  BY <1>2, InOrderAfterReturn DEF TakeResult, Active
<1>3. CASE BackendRaised
  BY <1>3, InOrderAfterFailure DEF BackendRaised
<1>4. CASE TimedOut
  BY <1>4, InOrderAfterFailure DEF TimedOut
<1>5. CASE SoftLimitSwallowed
  BY <1>5, InOrderAfterFailure DEF SoftLimitSwallowed
<1>6. CASE SoftLimitRaised
  BY <1>6 DEF SoftLimitRaised, InOrder, Active
<1>7. CASE Backoff
  <2>n. /\ now'[1] = now[1] /\ now' # now /\ ~Before(now')
        /\ \A c \in Calls : Before(c)' <=> Before(c) \/ c = now
    BY <1>7, <1>t, NextInRegion DEF Backoff, InOrder, Active
  <2> QED BY <1>7, <1>t, <2>n DEF Backoff, InOrder, Active, Failed
<1>8. ASSUME NEW c \in Calls, ThreadStep(c) PROVE InOrder'
  BY <1>8, <1>t, ThreadFrame DEF InOrder, Active, Before, Failed
<1>9. CASE UNCHANGED routerVars
  BY <1>9 DEF routerVars, InOrder, Active, Before, Failed
<1> QED BY <1>1, <1>2, <1>3, <1>4, <1>5, <1>6, <1>7, <1>8, <1>9 DEF RouterNext, MainStep

LEMMA InitialOrder == RouterInit => InOrder
<1>1. \A c \in Calls : c[1] \in Nat /\ c[1] >= 1 /\ c[2] \in Nat /\ c[2] >= 1
  BY CallShape, CropsAreNumbers, RouterAssumption DEF Attempts
<1> QED BY <1>1, InitialTypes DEF RouterInit, InOrder, Active, Before, RouterTypeOK

\* Types and order, the invariant everything else rests on.
LEMMA OrderInvariant == RouterSpec => [](RouterTypeOK /\ InOrder)
<1>1. RouterInit => RouterTypeOK /\ InOrder
  BY InitialTypes, InitialOrder
<1>2. (RouterTypeOK /\ InOrder) /\ [RouterNext]_routerVars => (RouterTypeOK /\ InOrder)'
  BY StepTypes, StepKeepsOrder
<1> QED BY <1>1, <1>2, PTL DEF RouterSpec

\* Every step keeps the variables in their types.
THEOREM RouterTypes == RouterSpec => []RouterTypeOK
BY OrderInvariant, PTL

-------------------------------------------------------------------------------
(* Outcomes *)

\* A call does not fail or return and then do something else; a call of a region that
\* has its outcome is not given up any more.
LEMMA CallsAreFinal ==
  ASSUME RouterTypeOK, InOrder, [RouterNext]_routerVars
  PROVE  /\ \A c \in Calls : at[c] \in {"returned", "raised"} => at'[c] = at[c]
         /\ given \subseteq given'
         /\ \A c \in Calls : outcome[c[1]] # "none" => (c \in given' <=> c \in given)
<1>1. CASE Submit
  BY <1>1 DEF Submit, InOrder, Active, RouterTypeOK
<1>2. CASE TakeResult \/ BackendRaised \/ Backoff \/ SoftLimitRaised \/ UNCHANGED routerVars
  BY <1>2 DEF TakeResult, BackendRaised, Backoff, SoftLimitRaised, routerVars
<1>3. CASE TimedOut \/ SoftLimitSwallowed
  <2>1. now \in Calls /\ now[1] \in Crops /\ now[1] \in Nat
    BY CallShape, CropsAreNumbers DEF RouterTypeOK
  <2>2. at' = at /\ given' = given \cup {now} /\ Active
    BY <1>3 DEF TimedOut, SoftLimitSwallowed, Active
  <2>3. outcome[now[1]] = "none"
    BY <2>1, <2>2 DEF InOrder
  <2> QED BY <2>2, <2>3
<1>4. ASSUME NEW c \in Calls, ThreadStep(c)
      PROVE  /\ \A d \in Calls : at[d] \in {"returned", "raised"} => at'[d] = at[d]
             /\ given' = given
  BY <1>4, ThreadFrame
<1> QED BY <1>1, <1>2, <1>3, <1>4 DEF RouterNext, MainStep

\* What was true of the calls of a region with an outcome stays true.
Earned(r) ==
  /\ outcome[r] = "ok" =>
       \E n \in Attempts : <<r, n, "primary">> \notin given /\ at[<<r, n, "primary">>] = "returned"
  /\ outcome[r] = "ocr_partial" =>
       \E n \in Attempts :
         /\ Failed(<<r, n, "primary">>)
         /\ <<r, n, "fallback">> \notin given /\ at[<<r, n, "fallback">>] = "returned"
  /\ outcome[r] = "failed" => \A n \in Attempts : \A k \in Roles : Failed(<<r, n, k>>)

LEMMA EarnedStays ==
  ASSUME RouterTypeOK, InOrder, [RouterNext]_routerVars,
         NEW r \in Crops, Earned(r), outcome[r] # "none", outcome'[r] = outcome[r]
  PROVE  Earned(r)'
<1>1. \A n \in Attempts : \A k \in Roles :
        /\ <<r, n, k>> \in Calls
        /\ <<r, n, k>> \in given' <=> <<r, n, k>> \in given
        /\ at[<<r, n, k>>] \in {"returned", "raised"} => at'[<<r, n, k>>] = at[<<r, n, k>>]
  BY CallsAreFinal DEF Calls
<1>2. \A n \in Attempts : \A k \in Roles : Failed(<<r, n, k>>) => Failed(<<r, n, k>>)'
  BY <1>1 DEF Failed
<1>3. "primary" \in Roles /\ "fallback" \in Roles
  BY DEF Roles
<1>4. CASE outcome[r] = "ok"
  BY <1>1, <1>3, <1>4 DEF Earned
<1>5. CASE outcome[r] = "ocr_partial"
  BY <1>1, <1>2, <1>3, <1>5 DEF Earned
<1>6. CASE outcome[r] = "failed"
  BY <1>2, <1>6 DEF Earned
<1>7. outcome[r] \in {"ok", "ocr_partial", "failed"}
  BY DEF RouterTypeOK
<1> QED BY <1>4, <1>5, <1>6, <1>7

\* The last attempt fails when its fallback does.
LEMMA FailureIsEarned ==
  ASSUME RouterTypeOK, InOrder, step \in {"submit", "wait"}, at' = at, given \subseteq given',
         now \in given' \/ at[now] = "raised",
         now[3] = "fallback", now[2] = MaxAttempts, NEW r \in Crops, r = now[1], Return("failed")
  PROVE  Earned(r)'
<1>0. now \in Calls /\ now[1] \in Crops /\ Active
  BY CallShape DEF RouterTypeOK, Active
<1>1. ASSUME NEW n \in Attempts, NEW k \in Roles
      PROVE  Failed(<<r, n, k>>)'
  <2>1. PICK c \in Calls : c = <<r, n, k>> /\ c[1] = now[1] /\ c[2] = n /\ c[3] = k
    <3>1. <<r, n, k>> \in Calls
      BY DEF Calls
    <3> QED BY <3>1
  <2>2. c = now \/ Before(c)
    <3>1. n < MaxAttempts \/ n = MaxAttempts
      BY RouterAssumption DEF Attempts
    <3>2. k = "primary" \/ k = "fallback"
      BY DEF Roles
    <3>3. now = <<now[1], now[2], now[3]>>
      BY <1>0, CallShape
    <3> QED BY <2>1, <3>1, <3>2, <3>3 DEF Before
  <2>3. CASE c = now
    BY <2>1, <2>3 DEF Failed
  <2>4. CASE Before(c)
    BY <1>0, <2>1, <2>4 DEF InOrder, Failed
  <2> QED BY <2>2, <2>3, <2>4
<1>2. outcome'[r] = "failed"
  BY <1>0 DEF Return, RouterTypeOK
<1> QED BY <1>1, <1>2 DEF Earned

LEMMA OutcomeAfterFailure ==
  ASSUME RouterTypeOK, InOrder, step \in {"submit", "wait"}, CallFailed, at' = at,
         given \subseteq given', now \in given' \/ at[now] = "raised",
         NEW r \in Crops, Earned(r), outcome'[r] # outcome[r]
  PROVE  Earned(r)'
<1>1. now[3] = "fallback" /\ now[2] = MaxAttempts /\ Return("failed")
  BY DEF CallFailed
<1>2. r = now[1]
  BY <1>1 DEF Return, RouterTypeOK
<1> QED BY <1>1, <1>2, FailureIsEarned

LEMMA StepEarns ==
  ASSUME RouterTypeOK, InOrder, [RouterNext]_routerVars, NEW r \in Crops, Earned(r)
  PROVE  Earned(r)'
<1>1. CASE outcome'[r] = outcome[r]
  <2>1. CASE outcome[r] = "none"
    BY <1>1, <2>1 DEF Earned
  <2> QED BY <1>1, <2>1, EarnedStays
<1>2. CASE outcome'[r] # outcome[r]
  <2>1. CASE TakeResult
    <3>0. now \in Calls /\ now[2] \in Attempts /\ now = <<now[1], now[2], now[3]>>
          /\ now[3] \in {"primary", "fallback"}
      BY CallShape DEF RouterTypeOK, Roles
    <3>1. r = now[1]
      BY <1>2, <2>1 DEF TakeResult, Return, RouterTypeOK
    <3>2. now \notin given /\ at[now] = "returned" /\ Active /\ given' = given /\ at' = at
      BY <2>1 DEF TakeResult, InOrder, Active
    <3>3. CASE now[3] = "primary"
      <4>0. PICK n \in Attempts : <<r, n, "primary">> = now
        BY <3>0, <3>1, <3>3
      <4>1. outcome'[r] = "ok"
        BY <2>1, <3>1, <3>3 DEF TakeResult, Return, RouterTypeOK
      <4>2. <<r, n, "primary">> \notin given' /\ at'[<<r, n, "primary">>] = "returned"
        BY <3>2, <4>0
      <4> QED BY <4>1, <4>2 DEF Earned
    <3>4. CASE now[3] = "fallback"
      <4>1. outcome'[r] = "ocr_partial"
        BY <2>1, <3>1, <3>4 DEF TakeResult, Return, RouterTypeOK
      <4>0. PICK n \in Attempts : n = now[2]
        BY <3>0
      <4>2. PICK c \in Calls : c = <<r, n, "primary">> /\ c[1] = now[1] /\ c[2] = now[2]
                               /\ c[3] = "primary"
        <5>1. <<r, n, "primary">> \in Calls
          BY DEF Calls, Roles
        <5> QED BY <3>1, <4>0, <5>1
      <4>3. Failed(c)
        BY <3>2, <3>4, <4>2 DEF InOrder, Before
      <4>4. Failed(c)'
        BY <3>2, <4>3 DEF Failed
      <4>5. PICK d \in Calls : d = <<r, n, "fallback">> /\ d = now
        BY <3>0, <3>1, <3>4, <4>0
      <4> QED BY <3>2, <4>1, <4>2, <4>4, <4>5 DEF Earned
    <3> QED BY <3>0, <3>3, <3>4
  <2>2. CASE BackendRaised
    BY <1>2, <2>2, OutcomeAfterFailure DEF BackendRaised
  <2>3. CASE TimedOut
    BY <1>2, <2>3, OutcomeAfterFailure DEF TimedOut
  <2>4. CASE SoftLimitSwallowed
    BY <1>2, <2>4, OutcomeAfterFailure DEF SoftLimitSwallowed
  <2>5. CASE Submit \/ Backoff \/ SoftLimitRaised \/ UNCHANGED routerVars
    BY <1>2, <2>5 DEF Submit, Backoff, SoftLimitRaised, routerVars
  <2>6. ASSUME NEW c \in Calls, ThreadStep(c) PROVE FALSE
    BY <1>2, <2>6, ThreadFrame
  <2> QED BY <2>1, <2>2, <2>3, <2>4, <2>5, <2>6 DEF RouterNext, MainStep
<1> QED BY <1>1, <1>2

\* What is said of a region is what its own calls came to; a late result is not used.
THEOREM OutcomesEarned == RouterSpec => []OutcomeIsEarned
<1> DEFINE All == \A r \in Crops : Earned(r)
<1>1. RouterInit => All
  BY DEF RouterInit, Earned
<1>2. RouterTypeOK /\ InOrder /\ All /\ [RouterNext]_routerVars => All'
  BY StepEarns
<1>3. All => OutcomeIsEarned
  BY DEF Earned, OutcomeIsEarned
<1> QED BY <1>1, <1>2, <1>3, OrderInvariant, PTL DEF RouterSpec

-------------------------------------------------------------------------------
(* The shared model *)

\* The processor is set before the model, and nothing is unset.
LoadOrder ==
  /\ model => processor
  /\ \A c \in Calls : at[c] = "loadModel" => processor
  /\ \A c \in Calls : Backend(c) = "trocr" /\ at[c] = "read" => model
  /\ \A c \in Calls : at[c] \in {"check", "loadProcessor", "loadModel"} => Backend(c) = "trocr"

LEMMA StepKeepsLoadOrder ==
  ASSUME RouterTypeOK, InOrder, LoadOrder, [RouterNext]_routerVars
  PROVE  LoadOrder'
<1>b. \A c \in Calls : Backend(c)' = Backend(c)
  BY DEF Backend
<1>1. CASE Submit
  <2>1. now \in Calls /\ Backend(now) \in {"tesseract", "trocr"}
    BY DEF RouterTypeOK, Backend
  <2> QED BY <1>1, <1>b, <2>1 DEF Submit, LoadOrder, RouterTypeOK
<1>2. CASE TakeResult \/ BackendRaised \/ TimedOut \/ SoftLimitSwallowed \/ Backoff
             \/ SoftLimitRaised \/ UNCHANGED routerVars
  <2>1. UNCHANGED <<at, processor, model>>
    BY <1>2 DEF TakeResult, BackendRaised, TimedOut, SoftLimitSwallowed, Backoff,
                SoftLimitRaised, routerVars
  <2> QED BY <1>b, <2>1 DEF LoadOrder
<1>3. ASSUME NEW c \in Calls, ThreadStep(c) PROVE LoadOrder'
  <2> USE <1>b DEF LoadOrder, RouterTypeOK
  <2>1. CASE CheckModel(c)
    BY <2>1 DEF CheckModel
  <2>2. CASE LoadProcessor(c)
    BY <2>2 DEF LoadProcessor
  <2>3. CASE LoadModel(c)
    BY <2>3 DEF LoadModel
  <2>4. CASE ReadCrop(c)
    BY <2>4 DEF ReadCrop
  <2>5. CASE Raise(c)
    BY <2>5 DEF Raise
  <2> QED BY <1>3, <2>1, <2>2, <2>3, <2>4, <2>5 DEF ThreadStep
<1> QED BY <1>1, <1>2, <1>3 DEF RouterNext, MainStep

LEMMA LoadOrderInvariant == RouterSpec => []LoadOrder
<1>1. RouterInit => LoadOrder
  BY DEF RouterInit, LoadOrder
<1> QED BY <1>1, StepKeepsLoadOrder, OrderInvariant, PTL DEF RouterSpec

\* A thread that finds the model finds the processor too, whoever loaded them.
THEOREM NeverHalf == RouterSpec => []NeverHalfLoaded
<1>1. LoadOrder => NeverHalfLoaded
  BY DEF LoadOrder, NeverHalfLoaded
<1> QED BY <1>1, LoadOrderInvariant, PTL

\* A thread at work that was not given up is waited for.
Awaited ==
  \A c \in Calls :
    at[c] \notin {"none", "returned", "raised"} /\ c \notin given => c = now /\ step = "wait"

LEMMA StepKeepsAwaited ==
  ASSUME RouterTypeOK, Awaited, [RouterNext]_routerVars
  PROVE  Awaited'
<1>1. CASE Submit
  BY <1>1 DEF Submit, Awaited, RouterTypeOK
<1>2. CASE TakeResult \/ BackendRaised
  BY <1>2 DEF TakeResult, BackendRaised, Awaited
<1>3. CASE TimedOut \/ SoftLimitSwallowed
  BY <1>3 DEF TimedOut, SoftLimitSwallowed, Awaited
<1>4. CASE Backoff \/ SoftLimitRaised \/ UNCHANGED routerVars
  BY <1>4 DEF Backoff, SoftLimitRaised, routerVars, Awaited
<1>5. ASSUME NEW c \in Calls, ThreadStep(c) PROVE Awaited'
  BY <1>5, ThreadFrame DEF Awaited
<1> QED BY <1>1, <1>2, <1>3, <1>4, <1>5 DEF RouterNext, MainStep

LEMMA AwaitedInvariant == RouterSpec => []Awaited
<1>1. RouterInit => Awaited
  BY DEF RouterInit, Awaited
<1> QED BY <1>1, StepKeepsAwaited, OrderInvariant, PTL DEF RouterSpec

Loading == {"check", "loadProcessor", "loadModel"}

\* Calls given up that do not load (any more).
Settled == {c \in given : Backend(c) = "trocr" /\ at[c] \notin Loading}

\* Each load but one was made by a call that is settled; while the current call loads,
\* all were.
LoadTally ==
  /\ IsFiniteSet(given)
  /\ ~model => loads = 0
  /\ loads <= Cardinality(Settled) + 1
  /\ step = "wait" /\ at[now] \in {"loadProcessor", "loadModel"} => loads <= Cardinality(Settled)

LEMMA SettledCounts ==
  ASSUME IsFiniteSet(given), IsFiniteSet(given'), Settled \subseteq Settled'
  PROVE  /\ Cardinality(Settled) \in Nat /\ Cardinality(Settled') \in Nat
         /\ Cardinality(Settled) <= Cardinality(Settled')
<1>1. Settled \subseteq given /\ Settled' \subseteq given'
  BY DEF Settled
<1>2. IsFiniteSet(Settled) /\ IsFiniteSet(Settled')
  BY <1>1, FS_Subset
<1> QED BY <1>2, FS_Subset, FS_CardinalityType

LEMMA StepKeepsTally ==
  ASSUME RouterTypeOK, RouterTypeOK', InOrder, LoadOrder, Awaited, LoadTally, [RouterNext]_routerVars
  PROVE  LoadTally'
<1>b. \A c \in Calls : Backend(c)' = Backend(c)
  BY DEF Backend
<1>t. now \in Calls /\ loads \in Nat /\ given \subseteq Calls
  BY DEF RouterTypeOK
<1>1. CASE Submit
  <2>1. at[now] = "none" /\ now \notin given /\ given' = given
    BY <1>1 DEF Submit, InOrder, Active
  <2>2. Settled' = Settled
    BY <1>1, <1>b, <1>t, <2>1 DEF Submit, Settled, RouterTypeOK
  <2>3. at'[now] \in {"check", "read"} /\ now' = now /\ loads' = loads /\ model' = model
    BY <1>1, <1>t DEF Submit, RouterTypeOK
  <2> QED BY <2>1, <2>2, <2>3 DEF LoadTally
<1>2. CASE TakeResult \/ BackendRaised \/ TimedOut \/ SoftLimitSwallowed \/ Backoff
             \/ SoftLimitRaised \/ UNCHANGED routerVars
  <2>1. /\ UNCHANGED <<at, model, loads>>
        /\ given' = given \/ given' = given \cup {now}
        /\ step' # "wait" \/ (step' = step /\ now' = now)
    BY <1>2 DEF TakeResult, BackendRaised, TimedOut, SoftLimitSwallowed, Backoff,
                SoftLimitRaised, routerVars, CallFailed, Return
  <2>2. IsFiniteSet(given')
    BY <2>1, FS_AddElement DEF LoadTally
  <2>3. Settled \subseteq Settled'
    BY <1>b, <1>t, <2>1 DEF Settled
  <2>4. /\ Cardinality(Settled) \in Nat /\ Cardinality(Settled') \in Nat
        /\ Cardinality(Settled) <= Cardinality(Settled')
    BY <2>2, <2>3, SettledCounts DEF LoadTally
  <2> QED BY <1>t, <2>1, <2>2, <2>4 DEF LoadTally
<1>3. ASSUME NEW c \in Calls, ThreadStep(c) PROVE LoadTally'
  <2>1. /\ UNCHANGED <<step, now, given>>
        /\ \A d \in Calls : d # c => at'[d] = at[d]
        /\ at[c] \notin {"none", "returned", "raised"}
    BY <1>3, ThreadFrame
  <2>2. IsFiniteSet(given')
    BY <2>1 DEF LoadTally
  <2>3. at[c] \notin Loading => at'[c] \notin Loading
    BY <1>3 DEF ThreadStep, CheckModel, LoadProcessor, LoadModel, ReadCrop, Raise, RouterTypeOK,
                Loading
  <2>4. Settled \subseteq Settled'
    BY <1>b, <1>t, <2>1, <2>3 DEF Settled
  <2>5. /\ Cardinality(Settled) \in Nat /\ Cardinality(Settled') \in Nat
        /\ Cardinality(Settled) <= Cardinality(Settled')
    BY <2>2, <2>4, SettledCounts DEF LoadTally
  <2>6. CASE LoadModel(c)
    <3>1. at[c] = "loadModel" /\ at'[c] = "read" /\ loads' = loads + 1 /\ model'
      BY <2>6 DEF LoadModel, RouterTypeOK
    <3>2. CASE c \in given
      <4>1. c \in Settled' /\ c \notin Settled
        BY <1>b, <2>1, <3>1, <3>2 DEF Settled, Loading, LoadOrder
      <4>2. Settled' = Settled \cup {c}
        BY <1>b, <1>t, <2>1, <2>4, <4>1 DEF Settled
      <4>3. IsFiniteSet(Settled)
        BY FS_Subset DEF Settled, LoadTally
      <4>4. Cardinality(Settled') = Cardinality(Settled) + 1
        BY <4>1, <4>2, <4>3, FS_AddElement
      <4>5. at'[now] \in {"loadProcessor", "loadModel"} => at[now] \in {"loadProcessor", "loadModel"}
        BY <1>t, <2>1, <3>1
      <4> QED BY <1>t, <2>1, <2>2, <2>5, <3>1, <4>4, <4>5 DEF LoadTally
    <3>3. CASE c \notin given
      <4>1. c = now /\ step = "wait"
        BY <2>1, <3>3 DEF Awaited
      <4>2. loads <= Cardinality(Settled)
        BY <3>1, <4>1 DEF LoadTally
      <4>3. loads' <= Cardinality(Settled') + 1 /\ at'[now'] = "read" /\ model'
        BY <1>t, <2>1, <2>5, <3>1, <4>1, <4>2
      <4> QED BY <2>2, <4>3 DEF LoadTally
    <3> QED BY <3>2, <3>3
  <2>7. CASE ~LoadModel(c)
    <3>1. model' = model /\ loads' = loads
      BY <1>3, <2>7 DEF ThreadStep, CheckModel, LoadProcessor, ReadCrop, Raise
    <3>2. /\ at'[now] \in {"loadProcessor", "loadModel"}
          /\ at[now] \notin {"loadProcessor", "loadModel"}
          => ~model
      BY <1>3, <1>t, <2>7 DEF ThreadStep, CheckModel, LoadProcessor, ReadCrop, Raise, RouterTypeOK
    <3> QED BY <1>t, <2>1, <2>2, <2>5, <3>1, <3>2 DEF LoadTally
  <2> QED BY <2>6, <2>7
<1> QED BY <1>1, <1>2, <1>3 DEF RouterNext, MainStep

LEMMA LoadTallyInvariant == RouterSpec => []LoadTally
<1>1. RouterInit => LoadTally
  <2>1. ASSUME RouterInit PROVE IsFiniteSet(given) /\ Settled = {} /\ loads = 0 /\ step = "submit"
    BY <2>1, FS_EmptySet DEF RouterInit, Settled
  <2> QED BY <2>1, FS_EmptySet DEF LoadTally
<1>2. (RouterTypeOK /\ InOrder /\ LoadOrder /\ Awaited) /\ RouterTypeOK' /\ LoadTally
        /\ [RouterNext]_routerVars => LoadTally'
  BY StepKeepsTally
<1> QED BY <1>1, <1>2, OrderInvariant, LoadOrderInvariant, AwaitedInvariant, PTL DEF RouterSpec

\* The weights are read again only for calls that were given up.
THEOREM ReloadsBounded == RouterSpec => []ReloadsAreTimeouts
<1>1. RouterTypeOK /\ LoadTally => ReloadsAreTimeouts
  <2> SUFFICES ASSUME RouterTypeOK, LoadTally PROVE ReloadsAreTimeouts
    OBVIOUS
  <2> DEFINE G == {c \in given : Backend(c) = "trocr"}
  <2>1. G \subseteq given /\ Settled \subseteq G
    BY DEF Settled
  <2>2. IsFiniteSet(G)
    BY <2>1, FS_Subset DEF LoadTally
  <2>3. Cardinality(Settled) <= Cardinality(G) /\ Cardinality(G) \in Nat
    BY <2>1, <2>2, FS_Subset, FS_CardinalityType
  <2>4. Cardinality(Settled) \in Nat
    BY <2>1, <2>2, FS_Subset, FS_CardinalityType
  <2>5. loads \in Nat /\ loads <= Cardinality(Settled) + 1
    BY DEF RouterTypeOK, LoadTally
  <2> QED BY <2>3, <2>4, <2>5 DEF ReloadsAreTimeouts
<1> QED BY <1>1, OrderInvariant, LoadTallyInvariant, PTL
=============================================================================
