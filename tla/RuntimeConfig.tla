---------------------------- MODULE RuntimeConfig ----------------------------
(***************************************************************************)
(* The process-wide runtime configuration of the backend                   *)
(* (src/src/bwli/server.py): one RuntimeConfigState object, shared without *)
(* a lock by the handlers FastAPI runs in a thread pool, and the project   *)
(* .env file from which it is rebuilt on start-up.                         *)
(*                                                                         *)
(* Covered: saving (PUT, with and without persist_to_env), clearing and    *)
(* resetting (DELETE, both API versions), the connection test, the gate of *)
(* every live read-only call, a crash or restart of the process at any     *)
(* moment, a failing write of .env.                                        *)
(* Not covered: the redacted views (GET), what the fields contain, the     *)
(* "storage" display field, requests rejected before they touch the state. *)
(*                                                                         *)
(* A BW configuration is abstracted to a setting (every material field but *)
(* the credentials), a password and the state of the cookie file; an LLM   *)
(* configuration to its API key. The legacy endpoints under /api/live and  *)
(* /api/collect check only that a configuration exists, never the status,  *)
(* and touch none of this state: they have no action here.                 *)
(***************************************************************************)
CONSTANTS
    Workers,     \* threads that run handlers
    Settings,    \* the BW settings that can be told apart
    Secrets,     \* real secrets (passwords and API keys)
    Marker,      \* the "[REDACTED]" text the API shows instead of a secret
    None,        \* an absent value
    Keep,        \* "this section is not in the request"
    PutRequests, \* the PUT bodies clients send
    EnvStarts,   \* the .env files the process may find at first start
    ProcessEnv   \* the process environment, which overrides .env

CookieFiles == {"none", "valid", "broken"}
BwState     == [setting : Settings \cup {None}, secret : Secrets \cup {None},
                cookie : CookieFiles]
LlmState    == Secrets \cup {None}
EnvFile     == [setting : Settings \cup {None}, secret : Secrets \cup {Marker, None},
                cookie : CookieFiles, llm : Secrets \cup {Marker, None}]
PutRequest  == [setting : Settings \cup {Keep}, secret : Secrets \cup {Marker},
                llm : Secrets \cup {Marker, None, Keep}, persist : BOOLEAN]

ASSUME ConstantsAssumption ==
    /\ None \notin Settings \cup Secrets
    /\ Marker \notin Secrets \cup {None}
    /\ Keep \notin Settings \cup Secrets \cup {Marker, None}
    /\ PutRequests \subseteq PutRequest
    /\ EnvStarts \subseteq EnvFile
    /\ ProcessEnv \in EnvFile

Statuses == {"unconfigured", "untested", "ok", "failed", "stale"}
PutSteps == {"copyRest", "readEnv", "writeEnv", "publishStatus", "publishBw", "publishLlm"}
ResetSteps == {"resetBw", "resetStatus", "resetLlm"}
TestSteps == {"testGate", "testing"}
LiveSteps == {"liveGate", "liveStatus", "liveCall"}

VARIABLES
    status, bw, llm,   \* the fields of the shared RuntimeConfigState
    env,               \* the project .env file
    pc,                \* pc[w]: the next step of worker w, "idle" between requests
    req,               \* req[w]: the PUT body w works on
    nxt,               \* nxt[w]: w's private copy (a PUT's next_state, a gate's state)
    file,              \* file[w]: the .env contents w has read
    tested,            \* history: BW states a test succeeded with in this process
    called,            \* history: BW states live calls were made with in this process
    saved              \* history: the sections last written to .env by a save

shared == <<status, bw, llm>>
vars   == <<status, bw, llm, env, pc, req, nxt, file, tested, called, saved>>

NoBw  == [setting |-> None, secret |-> None, cookie |-> "none"]
NoReq == [setting |-> Keep, secret |-> Marker, llm |-> Keep, persist |-> FALSE]
NoNext == [status |-> "unconfigured", bw |-> NoBw, llm |-> None]
NoFile == [setting |-> None, secret |-> None, cookie |-> "none", llm |-> None]
Nothing == [bw |-> NoBw, llm |-> Keep]    \* no section was saved yet

Configured(b) == b.setting # None

-----------------------------------------------------------------------------
(* Loading a configuration from the environment. *)

Override(value, absent, default) == IF value = absent THEN default ELSE value

Overlay(f) ==
    [setting |-> Override(ProcessEnv.setting, None, f.setting),
     secret  |-> Override(ProcessEnv.secret, None, f.secret),
     cookie  |-> Override(ProcessEnv.cookie, "none", f.cookie),
     llm     |-> Override(ProcessEnv.llm, None, f.llm)]

RealSecret(s) == IF s = Marker THEN None ELSE s

EnvBw(e) ==
    IF \/ e.setting = None
       \/ e.cookie = "none" /\ RealSecret(e.secret) = None
       \/ e.cookie = "broken"
    THEN NoBw
    ELSE [setting |-> e.setting, secret |-> RealSecret(e.secret), cookie |-> e.cookie]

EnvLlm(e) == RealSecret(e.llm)

FreshStatus(b) == IF Configured(b) THEN "untested" ELSE "unconfigured"

(* Applying a request to a copy of the state. *)

Coalesce(candidate, previous) == IF candidate # Marker THEN candidate ELSE previous

BuildBw(r, previous) ==
    [setting |-> r.setting, secret |-> Coalesce(r.secret, previous.secret), cookie |-> "none"]

BuildLlm(r, previous) == IF r.llm = None THEN None ELSE Coalesce(r.llm, previous)

Rejected(r, cur) ==
    \/ r.setting # Keep /\ Coalesce(r.secret, cur.bw.secret) = None
    \/ r.llm \notin {Keep, None} /\ Coalesce(r.llm, cur.llm) = None

StatusKept(old, oldBw, newBw) ==    \* mutant: the change is not looked at
    IF old = "ok" THEN "ok" ELSE "untested"

StatusAfter(old, oldBw, newBw) ==
    CASE old = "ok" /\ oldBw = newBw                      -> "ok"
      [] old = "ok" /\ oldBw # newBw /\ Configured(oldBw) -> "stale"
      [] OTHER                                            -> "untested"

Applied(r, cur) ==
    LET newBw  == IF r.setting = Keep THEN cur.bw ELSE BuildBw(r, cur.bw)
        newLlm == IF r.llm = Keep THEN cur.llm ELSE BuildLlm(r, cur.llm)
    IN  [status |-> IF r.setting = Keep THEN cur.status
                    ELSE StatusAfter(cur.status, cur.bw, newBw),
         bw |-> newBw, llm |-> newLlm]

EnvUpdatedIfSet(f, r, n) ==    \* mutant: switching the LLM off leaves its key behind
    [f EXCEPT !.setting = IF r.setting = Keep THEN @ ELSE n.bw.setting,
              !.secret  = IF r.setting = Keep THEN @ ELSE n.bw.secret,
              !.llm     = IF r.llm = Keep \/ n.llm = None THEN @ ELSE n.llm]

EnvUpdated(f, r, n) ==
    [f EXCEPT !.setting = IF r.setting = Keep THEN @ ELSE n.bw.setting,
              !.secret  = IF r.setting = Keep THEN @ ELSE n.bw.secret,
              !.llm     = IF r.llm = Keep THEN @ ELSE n.llm]

-----------------------------------------------------------------------------
Goto(w, l) == pc' = [pc EXCEPT ![w] = l]

Done(w) ==     \* the handler returns or raises: its local variables are gone
    /\ Goto(w, "idle")
    /\ req' = [req EXCEPT ![w] = NoReq]
    /\ nxt' = [nxt EXCEPT ![w] = NoNext]
    /\ file' = [file EXCEPT ![w] = NoFile]

Init ==
    /\ env \in EnvStarts
    /\ bw = EnvBw(Overlay(env))
    /\ status = FreshStatus(bw)
    /\ llm = EnvLlm(Overlay(env))
    /\ pc = [w \in Workers |-> "idle"]
    /\ req = [w \in Workers |-> NoReq]
    /\ nxt = [w \in Workers |-> NoNext]
    /\ file = [w \in Workers |-> NoFile]
    /\ tested = {}
    /\ called = {}
    /\ saved = Nothing

(* PUT /api/v1/runtime-config. The deep copy reads the fields one by one. *)

PutCopyStatus(w, r) ==
    /\ pc[w] = "idle"
    /\ req' = [req EXCEPT ![w] = r]
    /\ nxt' = [nxt EXCEPT ![w].status = status]
    /\ Goto(w, "copyRest")
    /\ UNCHANGED <<shared, env, file, tested, called, saved>>

PutCopyRest(w) ==
    /\ pc[w] = "copyRest"
    /\ LET cur == [status |-> nxt[w].status, bw |-> bw, llm |-> llm] IN
         \/ /\ Rejected(req[w], cur)
            /\ Done(w)
         \/ /\ ~Rejected(req[w], cur)
            /\ nxt' = [nxt EXCEPT ![w] = Applied(req[w], cur)]
            /\ Goto(w, IF req[w].persist THEN "readEnv" ELSE "publishStatus")
            /\ UNCHANGED <<req, file>>
    /\ UNCHANGED <<shared, env, tested, called, saved>>

PutReadEnv(w) ==
    /\ pc[w] = "readEnv"
    /\ file' = [file EXCEPT ![w] = env]
    /\ Goto(w, "writeEnv")
    /\ UNCHANGED <<shared, env, req, nxt, tested, called, saved>>

ReplaceEnv(w) ==
    /\ env' = EnvUpdated(file[w], req[w], nxt[w])
    /\ saved' = [bw  |-> IF req[w].setting = Keep THEN saved.bw ELSE nxt[w].bw,
                 llm |-> IF req[w].llm = Keep THEN saved.llm ELSE nxt[w].llm]

PutWriteEnv(w) ==
    /\ pc[w] = "writeEnv"
    /\ ReplaceEnv(w)
    /\ Goto(w, "publishStatus")
    /\ UNCHANGED <<shared, req, nxt, file, tested, called>>

PutWriteFails(w) ==    \* OSError before os.replace, or in the chmod after it
    /\ pc[w] = "writeEnv"
    /\ \/ UNCHANGED <<env, saved>>
       \/ ReplaceEnv(w)
    /\ Done(w)
    /\ UNCHANGED <<shared, tested, called>>

(* DELETE /api/runtime-config publishes the empty state the same way. *)

Clear(w) ==
    /\ pc[w] = "idle"
    /\ nxt' = [nxt EXCEPT ![w] = NoNext]
    /\ Goto(w, "publishStatus")
    /\ UNCHANGED <<shared, env, req, file, tested, called, saved>>

PublishStatus(w) ==
    /\ pc[w] = "publishStatus"
    /\ status' = nxt[w].status
    /\ Goto(w, "publishBw")
    /\ UNCHANGED <<bw, llm, env, req, nxt, file, tested, called, saved>>

PublishBw(w) ==
    /\ pc[w] = "publishBw"
    /\ bw' = nxt[w].bw
    /\ Goto(w, "publishLlm")
    /\ UNCHANGED <<status, llm, env, req, nxt, file, tested, called, saved>>

PublishLlm(w) ==
    /\ pc[w] = "publishLlm"
    /\ llm' = nxt[w].llm
    /\ Done(w)
    /\ UNCHANGED <<status, bw, env, tested, called, saved>>

(* DELETE /api/v1/runtime-config falls back to the .env of this moment. *)

ResetReadEnv(w) ==
    /\ pc[w] = "idle"
    /\ file' = [file EXCEPT ![w] = Overlay(env)]
    /\ Goto(w, "resetBw")
    /\ UNCHANGED <<shared, env, req, nxt, tested, called, saved>>

ResetBw(w) ==
    /\ pc[w] = "resetBw"
    /\ bw' = EnvBw(file[w])
    /\ Goto(w, "resetStatus")
    /\ UNCHANGED <<status, llm, env, req, nxt, file, tested, called, saved>>

ResetStatus(w) ==
    /\ pc[w] = "resetStatus"
    /\ status' = FreshStatus(bw)
    /\ Goto(w, "resetLlm")
    /\ UNCHANGED <<bw, llm, env, req, nxt, file, tested, called, saved>>

ResetLlm(w) ==
    /\ pc[w] = "resetLlm"
    /\ llm' = EnvLlm(file[w])
    /\ Done(w)
    /\ UNCHANGED <<status, bw, env, tested, called, saved>>

(* The gate checks state.bw.configured, then reads state.bw a second time. *)

OpenGate(w) ==
    /\ pc[w] = "idle"
    /\ Configured(bw)
    /\ \/ Goto(w, "testGate")
       \/ Goto(w, "liveGate")
    /\ UNCHANGED <<shared, env, req, nxt, file, tested, called, saved>>

PassGate(w) ==
    /\ pc[w] \in {"testGate", "liveGate"}
    /\ nxt' = [nxt EXCEPT ![w].bw = bw]
    /\ Goto(w, IF pc[w] = "testGate" THEN "testing" ELSE "liveStatus")
    /\ UNCHANGED <<shared, env, req, file, tested, called, saved>>

TestSucceeds(w) ==
    /\ pc[w] = "testing"
    /\ Configured(nxt[w].bw)
    /\ tested' = tested \cup {nxt[w].bw}
    /\ status' = "ok"
    /\ Done(w)
    /\ UNCHANGED <<bw, llm, env, called, saved>>

TestFails(w) ==
    /\ pc[w] = "testing"
    /\ status' = "failed"
    /\ Done(w)
    /\ UNCHANGED <<bw, llm, env, tested, called, saved>>

LiveCheckStatus(w) ==
    /\ pc[w] = "liveStatus"
    /\ IF status = "ok" THEN Goto(w, "liveCall") /\ UNCHANGED <<req, nxt, file>>
                        ELSE Done(w)
    /\ UNCHANGED <<shared, env, tested, called, saved>>

LiveCall(w) ==        \* an incomplete configuration makes the client factory raise
    /\ pc[w] = "liveCall"
    /\ called' = IF Configured(nxt[w].bw) THEN called \cup {nxt[w].bw} ELSE called
    /\ Done(w)
    /\ UNCHANGED <<shared, env, tested, saved>>

Restart ==            \* crash or restart: only .env is left
    /\ bw' = EnvBw(Overlay(env))
    /\ status' = FreshStatus(bw')
    /\ llm' = EnvLlm(Overlay(env))
    /\ pc' = [w \in Workers |-> "idle"]
    /\ req' = [w \in Workers |-> NoReq]
    /\ nxt' = [w \in Workers |-> NoNext]
    /\ file' = [w \in Workers |-> NoFile]
    /\ tested' = {}
    /\ called' = {}
    /\ UNCHANGED <<env, saved>>

Handler(w) ==
    \/ \E r \in PutRequests : PutCopyStatus(w, r)
    \/ PutCopyRest(w) \/ PutReadEnv(w) \/ PutWriteEnv(w) \/ PutWriteFails(w)
    \/ Clear(w) \/ PublishStatus(w) \/ PublishBw(w) \/ PublishLlm(w)
    \/ ResetReadEnv(w) \/ ResetBw(w) \/ ResetStatus(w) \/ ResetLlm(w)
    \/ OpenGate(w) \/ PassGate(w) \/ TestSucceeds(w) \/ TestFails(w)
    \/ LiveCheckStatus(w) \/ LiveCall(w)

Next == Restart \/ \E w \in Workers : Handler(w)

Spec == Init /\ [][Next]_vars

(* The discipline the web client does not enforce and the server does not  *)
(* either: a change of the configuration overlaps no other request.        *)
Changing(w) == pc[w] \in PutSteps \cup ResetSteps

ChangesRunAlone ==
    \A w, v \in Workers : Changing(w) /\ v # w => pc[v] = "idle"

SerialSpec == Init /\ [][Next /\ ChangesRunAlone']_vars

-----------------------------------------------------------------------------
(* Every variable has the type its code gives it. *)
TypeOK ==
    /\ status \in Statuses /\ bw \in BwState /\ llm \in LlmState
    /\ env \in EnvFile
    /\ pc \in [Workers -> {"idle"} \cup PutSteps \cup ResetSteps \cup TestSteps \cup LiveSteps]
    /\ req \in [Workers -> PutRequest]
    /\ nxt \in [Workers -> [status : Statuses, bw : BwState, llm : LlmState]]
    /\ file \in [Workers -> EnvFile]
    /\ tested \subseteq BwState /\ called \subseteq BwState
    /\ saved \in [bw : BwState, llm : LlmState \cup {Keep}]

Marked(e) == e.secret = Marker \/ e.llm = Marker

(* The comment of _persist_runtime_env (server.py 1497): a redaction marker *)
(* submitted by the UI never reaches disk, whatever saves overlap and in    *)
(* whichever of them a crash or an error comes, unless the first .env holds *)
(* one: a late save may then put the old line back.                         *)
MarkerNeverReachesDisk == (\A e \in EnvStarts : ~Marked(e)) => ~Marked(env)

(* Every gate of a live call (server.py 736, 1852, 1987): however handlers  *)
(* interleave, no live call is made in a process in which no connection     *)
(* test has succeeded, not even with a status copied from a shared state.   *)
LiveCallsNeedATest == called # {} => tested # {}

(* The same gates, read as a promise about the configuration used: a live   *)
(* call reaches only a system that was tested with exactly the URL, user    *)
(* and password of the call. Needs changes of the configuration to run      *)
(* alone.                                                                   *)
LiveCallsUseTestedBw == called \subseteq tested

(* README.md:70: what a save wrote survives a restart: the configuration    *)
(* the next process would load is the one last saved, section by section.   *)
RestartLoadsSaved ==
    /\ saved.bw # NoBw => EnvBw(Overlay(env)) = saved.bw
    /\ saved.llm # Keep => EnvLlm(Overlay(env)) = saved.llm
=============================================================================
