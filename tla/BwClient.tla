------------------------------ MODULE BwClient ------------------------------
(***************************************************************************)
(* BwClient (src/src/bwli/client.py): one client that answers one fetch    *)
(* after the other with read calls. A fetch of an object has one endpoint, *)
(* a fetch of a query two (the active and the inactive version), preceded  *)
(* by the discovery of media types. Each request is a step that ends with  *)
(* its answer; the BW system may give up the session at any moment.        *)
(*                                                                         *)
(* Times count ticks and stop at one more than the lifetime of a token.    *)
(* Not covered: the text of addresses and headers, parsing of the payload, *)
(* the NO_PROXY setting.                                                   *)
(***************************************************************************)
EXTENDS Integers

CONSTANTS CookieNames, FileCookies,  \* all names, and those of the cookie file
          TTL                        \* CSRF_TOKEN_TTL_SECONDS

ASSUME ClientAssumption ==
    /\ FileCookies \subseteq CookieNames /\ FileCookies # {}
    /\ TTL \in Nat

Modes == {"basic",      \* user and password
          "frozen",     \* a cookie file whose cookies the server cannot replace
          "renewed"}    \* a cookie file whose cookies it can (no frozen names)

Statuses == {"ok", "auth", "absent", "error"}   \* auth: 401, 403; absent: 404, 406, 415

VARIABLES
    mode,        \* how the client signs in
    token,       \* _csrf_token: none, or whether BW still accepts it
    age,         \* time since _csrf_token_fetched_at
    cookies,     \* _cookies: where the value of each name comes from
    discovered,  \* _discovery_attempted
    pc,          \* idle, or the request that is waited for
    endpoints,   \* how many endpoints the fetch has
    index,       \* the endpoint requested
    tries,       \* [endpoint -> requests made to it]
    verdict,     \* [endpoint -> its last status]
    sessions,    \* tokens obtained by this fetch
    startAge,    \* age of the token when this fetch looked at it
    denied,      \* BW refused a request of this fetch that carried a good token
    outcome      \* how the fetch ended

session == <<token, age, cookies>>
progress == <<tries, verdict, sessions, startAge, denied>>
vars == <<mode, session, discovered, pc, endpoints, index, progress, outcome>>

Init ==
    /\ mode \in Modes
    /\ token = "none" /\ age = 0
    /\ cookies = [c \in CookieNames |->
                    IF mode # "basic" /\ c \in FileCookies THEN "file" ELSE "none"]
    /\ discovered = FALSE
    /\ pc = "idle" /\ endpoints = 1 /\ index = 1
    /\ tries = [i \in 1..2 |-> 0] /\ verdict = [i \in 1..2 |-> "none"]
    /\ sessions = 0 /\ startAge = 0 /\ denied = FALSE
    /\ outcome = "none"

-----------------------------------------------------------------------------
(* Session and cookies.                                                     *)

CountMax == 4    \* counters of requests stop here, above what any property allows

Counted(n) == IF n < CountMax THEN n + 1 ELSE n

StaleNever == token = "none"    \* mutant: the lifetime is not looked at

Stale == token = "none" \/ age > TTL

FrozenNames == IF mode = "frozen" THEN FileCookies ELSE {}

UpdateCookies(set) ==
    cookies' = [c \in CookieNames |->
                  IF mode # "basic" /\ c \in set \ FrozenNames THEN "server" ELSE cookies[c]]

(* _ensure_session, skipped with frozen cookies: what the fetch waits for.  *)
EnsureSession ==
    /\ pc' = IF mode # "frozen" /\ Stale THEN "session" ELSE "read"
    /\ startAge' = age

End(result) == pc' = "idle" /\ outcome' = result

-----------------------------------------------------------------------------
(* The requests of a fetch.                                                 *)

StartFetch ==
    /\ pc = "idle"
    /\ endpoints' \in {1, 2} /\ index' = 1
    /\ tries' = [i \in 1..2 |-> 0] /\ verdict' = [i \in 1..2 |-> "none"]
    /\ sessions' = 0 /\ denied' = FALSE /\ outcome' = "none"
    /\ IF endpoints' = 2 /\ ~discovered
       THEN pc' = "discovery" /\ discovered' = TRUE /\ UNCHANGED startAge
       ELSE EnsureSession /\ UNCHANGED discovered
    /\ UNCHANGED <<mode, session>>

(* The answer, or the failure, of the discovery is not fatal.               *)
DiscoveryAnswer(set) ==
    /\ pc = "discovery"
    /\ UpdateCookies(set)
    /\ EnsureSession
    /\ UNCHANGED <<mode, token, age, discovered, endpoints, index, tries, verdict,
                   sessions, denied, outcome>>

SessionGranted(set) ==
    /\ pc = "session"
    /\ UpdateCookies(set)
    /\ token' = "good" /\ age' = 0
    /\ sessions' = Counted(sessions)
    /\ pc' = "read"
    /\ UNCHANGED <<mode, discovered, endpoints, index, tries, verdict, startAge, denied,
                   outcome>>

(* An error status, an answer without a token, or no answer at all.         *)
SessionRefused(set) ==
    /\ pc = "session"
    /\ UpdateCookies(set)
    /\ End("noSession")
    /\ UNCHANGED <<mode, token, age, discovered, endpoints, index, progress>>

RetryInCookieModeToo(status) == status = "auth" /\ tries[index] = 0    \* mutant
RetryForever(status) == mode = "basic" /\ status = "auth"              \* mutant

(* _request_read_with_auth_retry: an endpoint is asked a second time after  *)
(* a refusal, with a new session, except with cookies.                      *)
Retry(status) == mode = "basic" /\ status = "auth" /\ tries[index] = 0

FallBack(status) == status = "absent" /\ index < endpoints

(* _response_payload: with cookies every error is called one of the cookie. *)
Result(status) == IF status # "ok" /\ mode # "basic" THEN "cookie" ELSE status

KeepToken == UNCHANGED <<token, age>>    \* mutant: retries with the token it has

ClearSession == token' = "none" /\ age' = 0

RetryRead ==
    /\ ClearSession
    /\ pc' = IF Stale' THEN "session" ELSE "read"
    /\ UNCHANGED <<index, outcome>>

ReadAnswer(status, set) ==
    /\ pc = "read"
    /\ tries' = [tries EXCEPT ![index] = Counted(tries[index])]
    /\ verdict' = [verdict EXCEPT ![index] = status]
    /\ denied' = (denied \/ (status = "auth" /\ token = "good"))
    /\ UpdateCookies(set)
    /\ \/ Retry(status) /\ RetryRead
       \/ /\ ~Retry(status) /\ FallBack(status)
          /\ index' = index + 1
          /\ UNCHANGED <<token, age, pc, outcome>>
       \/ /\ ~Retry(status) /\ ~FallBack(status)
          /\ End(Result(status))
          /\ UNCHANGED <<token, age, index>>
    /\ UNCHANGED <<mode, discovered, endpoints, sessions, startAge>>

(* A timeout or a broken connection ends the fetch.                         *)
ReadLost ==
    /\ pc = "read"
    /\ tries' = [tries EXCEPT ![index] = Counted(tries[index])]
    /\ End("lost")
    /\ UNCHANGED <<mode, session, discovered, endpoints, index, verdict, sessions, startAge,
                   denied>>

-----------------------------------------------------------------------------
(* The environment.                                                         *)

Tick ==
    /\ token # "none" /\ age <= TTL
    /\ age' = age + 1
    /\ UNCHANGED <<mode, token, cookies, discovered, pc, endpoints, index, progress, outcome>>

Expire ==
    /\ token = "good"
    /\ token' = "expired"
    /\ UNCHANGED <<mode, age, cookies, discovered, pc, endpoints, index, progress, outcome>>

Answer ==
    \E set \in SUBSET CookieNames :
        \/ DiscoveryAnswer(set) \/ SessionGranted(set) \/ SessionRefused(set)
        \/ \E status \in Statuses : ReadAnswer(status, set)

Next == StartFetch \/ Answer \/ ReadLost \/ Tick \/ Expire

Spec == Init /\ [][Next]_vars

(* A request that is made ends: the HTTP client has a time limit.           *)
LiveSpec == Spec /\ WF_vars(Answer \/ ReadLost)

-----------------------------------------------------------------------------
TypeOK ==
    /\ mode \in Modes
    /\ token \in {"none", "good", "expired"} /\ age \in 0..(TTL + 1)
    /\ cookies \in [CookieNames -> {"none", "file", "server"}]
    /\ discovered \in BOOLEAN
    /\ pc \in {"idle", "discovery", "session", "read"}
    /\ endpoints \in 1..2 /\ index \in 1..endpoints
    /\ tries \in [1..2 -> 0..CountMax] /\ verdict \in [1..2 -> Statuses \cup {"none"}]
    /\ sessions \in 0..CountMax /\ startAge \in 0..(TTL + 1) /\ denied \in BOOLEAN
    /\ outcome \in Statuses \cup {"none", "cookie", "noSession", "lost"}

(* A client with frozen cookies never holds or asks for a token, and the    *)
(* cookies of its file stay those of the file (client.py:231, 378).         *)
FrozenSession ==
    mode = "frozen" =>
        /\ token = "none" /\ sessions = 0 /\ pc # "session"
        /\ \A c \in FileCookies : cookies[c] = "file"

(* Otherwise every read carries a token that this fetch obtained or that    *)
(* was within its lifetime when the fetch looked at it (client.py:322, 351).*)
ReadsAreInSession ==
    pc = "read" /\ mode # "frozen" =>
        token # "none" /\ (sessions > 0 \/ startAge <= TTL)

(* An endpoint is requested at most twice, and only with password; a fetch  *)
(* makes at most one session more than it has gone to endpoints             *)
(* (client.py:246-252: one retry, no loop).                                 *)
BoundedRequests ==
    /\ \A i \in 1..2 : tries[i] <= IF mode = "basic" THEN 2 ELSE 1
    /\ sessions <= 1 + index

(* A session that ran out is renewed without the caller noticing: a fetch   *)
(* reports a refusal only if BW refused a good token or gave up a session   *)
(* that this very fetch had obtained.                                       *)
ExpiryIsInvisible ==
    outcome = "auth" => denied \/ (sessions > 0 /\ token = "expired")

(* The second endpoint is asked only when the first one is absent, and      *)
(* "absent" is reported only when every endpoint is (client.py:178-194).    *)
FallbackOnlyIfAbsent ==
    /\ tries[2] > 0 => verdict[1] = "absent"
    /\ outcome = "absent" => \A i \in 1..endpoints : verdict[i] = "absent"

(* A fetch ends, whatever the BW system answers.                            *)
FetchesEnd == pc # "idle" ~> pc = "idle"
=============================================================================
