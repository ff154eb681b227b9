--------------------------- MODULE BwClientProofs ---------------------------
(***************************************************************************)
(* Proofs about BwClient. The invariant describes where a fetch stands:    *)
(* what was requested, what was answered and how many sessions it may have *)
(* obtained, for each request that can be waited for.                      *)
(***************************************************************************)
EXTENDS BwClient, TLAPS

(* The fetch goes through its endpoints in order.                           *)
Order ==
    /\ index = 1 => tries[2] = 0
    /\ index = 2 => verdict[1] = "absent"
    /\ pc # "idle" => outcome = "none" /\ tries[index] <= 1

(* What has happened before each kind of request.                           *)
Stage ==
    /\ pc = "discovery" => index = 1 /\ tries[1] = 0 /\ sessions = 0
    /\ pc = "session" => sessions <= index - 1 + tries[index]
    /\ pc = "read" /\ tries[index] = 0 => sessions <= index
    /\ pc \in {"session", "read"} /\ tries[index] = 1 => mode = "basic"
    /\ pc = "read" /\ tries[index] = 1 => sessions > 0

IInv ==
    /\ TypeOK /\ FrozenSession /\ ReadsAreInSession /\ BoundedRequests
    /\ ExpiryIsInvisible /\ FallbackOnlyIfAbsent
    /\ Order /\ Stage

LEMMA InitInvariant == Init => IInv
<1> SUFFICES ASSUME Init PROVE IInv
  OBVIOUS
<1> USE DEF Init, Modes, Statuses, CountMax
<1>1. TypeOK
  <2>1. cookies \in [CookieNames -> {"none", "file", "server"}]
    OBVIOUS
  <2>2. tries \in [1..2 -> 0..CountMax] /\ verdict \in [1..2 -> Statuses \cup {"none"}]
    OBVIOUS
  <2>3. age \in 0..(TTL + 1) /\ startAge \in 0..(TTL + 1) /\ sessions \in 0..CountMax
    BY ClientAssumption
  <2>4. endpoints \in 1..2 /\ index \in 1..endpoints
    OBVIOUS
  <2> QED
    BY <2>1, <2>2, <2>3, <2>4 DEF TypeOK
<1>2. FrozenSession /\ ReadsAreInSession
  BY ClientAssumption DEF FrozenSession, ReadsAreInSession
<1>3. BoundedRequests /\ ExpiryIsInvisible /\ FallbackOnlyIfAbsent /\ Order /\ Stage
  BY DEF BoundedRequests, ExpiryIsInvisible, FallbackOnlyIfAbsent, Order, Stage
<1> QED
  BY <1>1, <1>2, <1>3 DEF IInv

LEMMA CookiesStay ==
    ASSUME IInv, NEW set \in SUBSET CookieNames, UpdateCookies(set), mode' = mode
    PROVE  /\ cookies' \in [CookieNames -> {"none", "file", "server"}]
           /\ mode = "frozen" => \A c \in FileCookies : cookies'[c] = "file"
BY ClientAssumption DEF UpdateCookies, IInv, TypeOK, FrozenSession, FrozenNames

LEMMA StartFetchStep == IInv /\ StartFetch => IInv'
<1> SUFFICES ASSUME IInv, StartFetch PROVE IInv'
  OBVIOUS
<1> USE DEF StartFetch, EnsureSession, session, Stale, CountMax, Modes, Statuses
<1>1. TypeOK'
  <2>1. tries' \in [1..2 -> 0..CountMax] /\ verdict' \in [1..2 -> Statuses \cup {"none"}]
    OBVIOUS
  <2>2. endpoints' \in 1..2 /\ index' \in 1..endpoints'
    OBVIOUS
  <2> QED
    BY <2>1, <2>2 DEF IInv, TypeOK
<1>2. FrozenSession' /\ ReadsAreInSession' /\ BoundedRequests'
  BY ClientAssumption DEF IInv, TypeOK, FrozenSession, ReadsAreInSession, BoundedRequests
<1>3. ExpiryIsInvisible' /\ FallbackOnlyIfAbsent' /\ Order' /\ Stage'
  BY DEF IInv, TypeOK, ExpiryIsInvisible, FallbackOnlyIfAbsent, Order, Stage
<1> QED
  BY <1>1, <1>2, <1>3 DEF IInv

LEMMA DiscoveryStep ==
    ASSUME IInv, NEW set \in SUBSET CookieNames, DiscoveryAnswer(set) PROVE IInv'
<1> USE DEF DiscoveryAnswer, EnsureSession, Stale, CountMax, Modes, Statuses
<1>1. TypeOK'
  BY CookiesStay DEF IInv, TypeOK
<1>2. FrozenSession' /\ ReadsAreInSession' /\ BoundedRequests'
  BY CookiesStay, ClientAssumption
     DEF IInv, TypeOK, FrozenSession, ReadsAreInSession, BoundedRequests
<1>3. ExpiryIsInvisible' /\ FallbackOnlyIfAbsent' /\ Order' /\ Stage'
  BY DEF IInv, TypeOK, ExpiryIsInvisible, FallbackOnlyIfAbsent, Order, Stage
<1> QED
  BY <1>1, <1>2, <1>3 DEF IInv

LEMMA SessionGrantedStep ==
    ASSUME IInv, NEW set \in SUBSET CookieNames, SessionGranted(set) PROVE IInv'
<1> USE DEF SessionGranted, Counted, CountMax, Modes, Statuses
<1>1. TypeOK'
  BY CookiesStay, ClientAssumption DEF IInv, TypeOK
<1>2. sessions' = sessions + 1
  BY DEF IInv, TypeOK, Stage, Order
<1>3. FrozenSession' /\ ReadsAreInSession'
  BY <1>2, CookiesStay DEF IInv, TypeOK, FrozenSession, ReadsAreInSession
<1>4. BoundedRequests' /\ Order' /\ Stage'
  BY <1>2 DEF IInv, TypeOK, BoundedRequests, Order, Stage
<1>5. ExpiryIsInvisible' /\ FallbackOnlyIfAbsent'
  BY DEF IInv, TypeOK, Order, ExpiryIsInvisible, FallbackOnlyIfAbsent
<1> QED
  BY <1>1, <1>3, <1>4, <1>5 DEF IInv

LEMMA SessionRefusedStep ==
    ASSUME IInv, NEW set \in SUBSET CookieNames, SessionRefused(set) PROVE IInv'
<1> USE DEF SessionRefused, End, progress, CountMax, Modes, Statuses
<1>1. TypeOK'
  BY CookiesStay DEF IInv, TypeOK
<1>2. FrozenSession' /\ ReadsAreInSession' /\ BoundedRequests'
  BY CookiesStay DEF IInv, TypeOK, FrozenSession, ReadsAreInSession, BoundedRequests
<1>3. ExpiryIsInvisible' /\ FallbackOnlyIfAbsent' /\ Order' /\ Stage'
  BY DEF IInv, TypeOK, ExpiryIsInvisible, FallbackOnlyIfAbsent, Order, Stage
<1> QED
  BY <1>1, <1>2, <1>3 DEF IInv

LEMMA ReadLostStep == IInv /\ ReadLost => IInv'
<1> SUFFICES ASSUME IInv, ReadLost PROVE IInv'
  OBVIOUS
<1> USE DEF ReadLost, End, session, Counted, CountMax, Modes, Statuses
<1>1. TypeOK'
  BY DEF IInv, TypeOK
<1>2. FrozenSession' /\ ReadsAreInSession'
  BY DEF IInv, TypeOK, FrozenSession, ReadsAreInSession
<1>3. BoundedRequests'
  BY DEF IInv, TypeOK, BoundedRequests, Order, Stage
<1>4. ExpiryIsInvisible' /\ FallbackOnlyIfAbsent' /\ Order' /\ Stage'
  BY DEF IInv, TypeOK, ExpiryIsInvisible, FallbackOnlyIfAbsent, Order, Stage
<1> QED
  BY <1>1, <1>2, <1>3, <1>4 DEF IInv

LEMMA EnvironmentStep == IInv /\ (Tick \/ Expire) => IInv'
<1> SUFFICES ASSUME IInv, Tick \/ Expire PROVE IInv'
  OBVIOUS
<1> USE DEF Tick, Expire, progress, CountMax, Modes, Statuses
<1>1. TypeOK'
  BY ClientAssumption DEF IInv, TypeOK
<1>2. FrozenSession' /\ ReadsAreInSession' /\ BoundedRequests'
  BY DEF IInv, TypeOK, FrozenSession, ReadsAreInSession, BoundedRequests
<1>3. ExpiryIsInvisible' /\ FallbackOnlyIfAbsent' /\ Order' /\ Stage'
  BY DEF IInv, TypeOK, ExpiryIsInvisible, FallbackOnlyIfAbsent, Order, Stage
<1> QED
  BY <1>1, <1>2, <1>3 DEF IInv

(* The answer to a read: what all three continuations have in common.       *)
LEMMA ReadAnswerCounts ==
    ASSUME IInv, NEW status \in Statuses, NEW set \in SUBSET CookieNames,
           ReadAnswer(status, set)
    PROVE  /\ tries' = [tries EXCEPT ![index] = tries[index] + 1]
           /\ verdict' = [verdict EXCEPT ![index] = status]
           /\ tries' \in [1..2 -> 0..CountMax]
           /\ verdict' \in [1..2 -> Statuses \cup {"none"}]
           /\ tries'[index] = tries[index] + 1 /\ verdict'[index] = status
           /\ tries'[index] <= IF mode = "basic" THEN 2 ELSE 1
           /\ \A i \in 1..2 : i # index => tries'[i] = tries[i] /\ verdict'[i] = verdict[i]
<1>1. index \in 1..2 /\ tries[index] \in 0..1 /\ (mode # "basic" => tries[index] = 0)
  BY DEF ReadAnswer, IInv, TypeOK, Order, Stage, CountMax
<1>2. Counted(tries[index]) = tries[index] + 1 /\ tries[index] + 1 \in 0..CountMax
  BY <1>1 DEF Counted, CountMax
<1>3. tries' = [tries EXCEPT ![index] = tries[index] + 1]
  BY <1>2, Zenon DEF ReadAnswer
<1>4. verdict' = [verdict EXCEPT ![index] = status]
  BY DEF ReadAnswer
<1>5. tries \in [1..2 -> 0..CountMax] /\ verdict \in [1..2 -> Statuses \cup {"none"}]
  BY DEF IInv, TypeOK
<1>6. tries' \in [1..2 -> 0..CountMax] /\ tries'[index] = tries[index] + 1
      /\ \A i \in 1..2 : i # index => tries'[i] = tries[i]
  BY <1>1, <1>2, <1>3, <1>5
<1>7. verdict' \in [1..2 -> Statuses \cup {"none"}] /\ verdict'[index] = status
      /\ \A i \in 1..2 : i # index => verdict'[i] = verdict[i]
  BY <1>1, <1>4, <1>5
<1> QED
  BY <1>1, <1>3, <1>4, <1>6, <1>7

LEMMA ReadAnswerStep ==
    ASSUME IInv, NEW status \in Statuses, NEW set \in SUBSET CookieNames,
           ReadAnswer(status, set)
    PROVE  IInv'
<1>a. /\ tries' \in [1..2 -> 0..CountMax] /\ verdict' \in [1..2 -> Statuses \cup {"none"}]
      /\ tries'[index] = tries[index] + 1 /\ verdict'[index] = status
      /\ tries'[index] <= IF mode = "basic" THEN 2 ELSE 1
      /\ \A i \in 1..2 : i # index => tries'[i] = tries[i] /\ verdict'[i] = verdict[i]
  BY ReadAnswerCounts
<1>b. /\ cookies' \in [CookieNames -> {"none", "file", "server"}]
      /\ mode = "frozen" => \A c \in FileCookies : cookies'[c] = "file"
  <2> UpdateCookies(set) /\ mode' = mode
    BY DEF ReadAnswer
  <2> QED
    BY CookiesStay
<1>c. /\ pc = "read" /\ UNCHANGED <<mode, discovered, endpoints, sessions, startAge>>
      /\ denied' = (denied \/ (status = "auth" /\ token = "good"))
  BY DEF ReadAnswer
<1> USE <1>a, <1>b, <1>c
<1>1. CASE Retry(status) /\ RetryRead
  <2> USE <1>1 DEF Retry, RetryRead, ClearSession, Stale
  <2>1. TypeOK'
    BY ClientAssumption DEF IInv, TypeOK
  <2>2. FrozenSession' /\ ReadsAreInSession'
    BY DEF IInv, TypeOK, FrozenSession, ReadsAreInSession
  <2>3. BoundedRequests' /\ Order' /\ Stage'
    BY DEF IInv, TypeOK, BoundedRequests, Order, Stage
  <2>4. ExpiryIsInvisible' /\ FallbackOnlyIfAbsent'
    BY DEF IInv, TypeOK, ExpiryIsInvisible, FallbackOnlyIfAbsent, Order
  <2> QED
    BY <2>1, <2>2, <2>3, <2>4 DEF IInv
<1>2. CASE ~Retry(status) /\ FallBack(status) /\ index' = index + 1
           /\ UNCHANGED <<token, age, pc, outcome>>
  <2> USE <1>2 DEF FallBack
  <2>0. index = 1 /\ endpoints = 2 /\ index' = 2 /\ verdict'[1] = "absent" /\ tries'[2] = 0
    BY DEF IInv, TypeOK, Order
  <2>1. TypeOK'
    BY <2>0 DEF IInv, TypeOK
  <2>2. FrozenSession' /\ ReadsAreInSession'
    BY DEF IInv, TypeOK, FrozenSession, ReadsAreInSession
  <2>3. BoundedRequests' /\ Order' /\ Stage'
    BY <2>0 DEF IInv, TypeOK, BoundedRequests, Order, Stage
  <2>4. ExpiryIsInvisible' /\ FallbackOnlyIfAbsent'
    BY <2>0 DEF IInv, TypeOK, ExpiryIsInvisible, FallbackOnlyIfAbsent, Order
  <2> QED
    BY <2>1, <2>2, <2>3, <2>4 DEF IInv
<1>3. CASE ~Retry(status) /\ ~FallBack(status) /\ End(Result(status))
           /\ UNCHANGED <<token, age, index>>
  <2> USE <1>3 DEF End, Result
  <2>1. TypeOK'
    BY DEF IInv, TypeOK, Statuses
  <2>2. FrozenSession' /\ ReadsAreInSession' /\ BoundedRequests'
    BY DEF IInv, TypeOK, FrozenSession, ReadsAreInSession, BoundedRequests
  <2>3. Order' /\ Stage'
    BY DEF IInv, TypeOK, Order, Stage
  <2>4. ExpiryIsInvisible'
    <3> SUFFICES ASSUME status = "auth", mode = "basic", outcome' = "auth"
                 PROVE  denied' \/ (sessions > 0 /\ token = "expired")
      BY DEF ExpiryIsInvisible
    <3>1. tries[index] = 1
      BY DEF Retry, IInv, TypeOK, Order
    <3>2. sessions > 0 /\ token \in {"good", "expired"}
      BY <3>1 DEF IInv, TypeOK, Stage, ReadsAreInSession
    <3> QED
      BY <3>2
  <2>5. FallbackOnlyIfAbsent'
    BY DEF IInv, TypeOK, FallBack, FallbackOnlyIfAbsent, Order, Statuses
  <2> QED
    BY <2>1, <2>2, <2>3, <2>4, <2>5 DEF IInv
<1> QED
  BY <1>1, <1>2, <1>3 DEF ReadAnswer

LEMMA Invariance == Spec => []IInv
<1>1. IInv /\ [Next]_vars => IInv'
  <2> SUFFICES ASSUME IInv, [Next]_vars PROVE IInv'
    OBVIOUS
  <2>1. CASE StartFetch
    BY <2>1, StartFetchStep
  <2>2. CASE Answer
    BY <2>2, DiscoveryStep, SessionGrantedStep, SessionRefusedStep, ReadAnswerStep DEF Answer
  <2>3. CASE ReadLost
    BY <2>3, ReadLostStep
  <2>4. CASE Tick \/ Expire
    BY <2>4, EnvironmentStep
  <2>5. CASE UNCHANGED vars
    BY <2>5 DEF vars, session, progress, IInv, TypeOK, FrozenSession, ReadsAreInSession,
                BoundedRequests, ExpiryIsInvisible, FallbackOnlyIfAbsent, Order, Stage
  <2> QED
    BY <2>1, <2>2, <2>3, <2>4, <2>5 DEF Next
<1> QED
  BY <1>1, InitInvariant, PTL DEF Spec

(* Every variable of the client keeps its type: the counters of requests    *)
(* stay within their bound, the endpoint within the list (client.py:225).   *)
THEOREM TypeCorrect == Spec => []TypeOK
<1>1. IInv => TypeOK
  BY DEF IInv
<1> QED
  BY <1>1, Invariance, PTL

(* Whatever the lifetime of a token and the cookies: no read without a      *)
(* session, and no session with frozen cookies (client.py:225-232).         *)
THEOREM Sessions == Spec => [](ReadsAreInSession /\ FrozenSession)
<1>1. IInv => ReadsAreInSession /\ FrozenSession
  BY DEF IInv
<1> QED
  BY <1>1, Invariance, PTL

(* One retry for each endpoint, never a loop (client.py:246-252).           *)
THEOREM OneRetry == Spec => []BoundedRequests
<1>1. IInv => BoundedRequests
  BY DEF IInv
<1> QED
  BY <1>1, Invariance, PTL

(* A session that ran out before or during a fetch is not reported.         *)
THEOREM InvisibleExpiry == Spec => []ExpiryIsInvisible
<1>1. IInv => ExpiryIsInvisible
  BY DEF IInv
<1> QED
  BY <1>1, Invariance, PTL

(* The inactive version of a query is read only if the active one is absent.*)
THEOREM Fallback == Spec => []FallbackOnlyIfAbsent
<1>1. IInv => FallbackOnlyIfAbsent
  BY DEF IInv
<1> QED
  BY <1>1, Invariance, PTL
=============================================================================
