------------------------ MODULE RuntimeConfigProofs ------------------------
(***************************************************************************)
(* Theorems about RuntimeConfig, for any number of handler threads and any *)
(* set of settings, secrets, requests and .env files.                      *)
(***************************************************************************)
EXTENDS RuntimeConfig, TLAPS

NextState == [status : Statuses, bw : BwState, llm : LlmState]

-----------------------------------------------------------------------------
(* What loading and building a configuration returns. *)

LEMMA OverlayType == \A f \in EnvFile : Overlay(f) \in EnvFile
  BY ConstantsAssumption DEF Overlay, Override, EnvFile, CookieFiles

LEMMA EnvTypes ==
  \A e \in EnvFile : EnvBw(e) \in BwState /\ EnvLlm(e) \in LlmState
<1> TAKE e \in EnvFile
<1>1. EnvLlm(e) \in LlmState
  BY ConstantsAssumption DEF EnvLlm, RealSecret, EnvFile, LlmState
<1>2. RealSecret(e.secret) \in Secrets \cup {None}
  BY ConstantsAssumption DEF RealSecret, EnvFile
<1>3. EnvBw(e) \in BwState
  BY <1>2 DEF EnvBw, NoBw, EnvFile, BwState, CookieFiles
<1> QED BY <1>1, <1>3

LEMMA ConstantTypes ==
  /\ NoReq \in PutRequest /\ NoNext \in NextState /\ NoFile \in EnvFile
  /\ Nothing \in [bw : BwState, llm : LlmState \cup {Keep}]
  BY DEF NoReq, PutRequest, NoNext, NextState, Statuses, NoBw, BwState, CookieFiles,
         LlmState, NoFile, EnvFile, Nothing

LEMMA AppliedType ==
  ASSUME NEW r \in PutRequest, NEW cur \in NextState
  PROVE  Applied(r, cur) \in NextState
<1>1. r.setting # Keep => BuildBw(r, cur.bw) \in BwState
  BY ConstantsAssumption DEF BuildBw, Coalesce, PutRequest, NextState, BwState, CookieFiles
<1>2. r.llm # Keep => BuildLlm(r, cur.llm) \in LlmState
  BY ConstantsAssumption DEF BuildLlm, Coalesce, PutRequest, NextState, LlmState
<1>3. \A s, b, n : StatusAfter(s, b, n) \in Statuses
  BY DEF StatusAfter, Statuses
<1> QED BY <1>1, <1>2, <1>3 DEF Applied, NextState

LEMMA EnvUpdatedType ==
  ASSUME NEW f \in EnvFile, NEW r \in PutRequest, NEW n \in NextState
  PROVE  EnvUpdated(f, r, n) \in EnvFile
  BY DEF EnvUpdated, EnvFile, NextState, BwState, LlmState

-----------------------------------------------------------------------------
(* Type correctness: no step stores anything but real secrets, known        *)
(* statuses and complete records, in memory or in a handler's copy.         *)
THEOREM TypeCorrect == Spec => []TypeOK
<1> USE ConstantTypes DEF TypeOK, NextState
<1>1. Init => TypeOK
  <2> SUFFICES ASSUME Init PROVE TypeOK OBVIOUS
  <2>1. env \in EnvFile
    BY ConstantsAssumption DEF Init
  <2>2. bw \in BwState /\ llm \in LlmState
    BY <2>1, OverlayType, EnvTypes DEF Init
  <2>3. status \in Statuses
    BY DEF Init, FreshStatus, Statuses
  <2> QED BY <2>1, <2>2, <2>3 DEF Init
<1>2. TypeOK /\ [Next]_vars => TypeOK'
  <2> SUFFICES ASSUME TypeOK, [Next]_vars PROVE TypeOK' OBVIOUS
  <2>1. CASE Restart
    <3>1. bw' \in BwState /\ llm' \in LlmState
      BY <2>1, OverlayType, EnvTypes DEF Restart
    <3>2. status' \in Statuses
      BY <2>1 DEF Restart, FreshStatus, Statuses
    <3> QED BY <2>1, <3>1, <3>2 DEF Restart
  <2> SUFFICES ASSUME NEW w \in Workers, Handler(w) PROVE TypeOK'
    BY <2>1 DEF Next, vars, shared
  <2>2. CASE \E r \in PutRequests : PutCopyStatus(w, r)
    <3>1. PICK r \in PutRequests : PutCopyStatus(w, r)
      BY <2>2
    <3>2. r \in PutRequest
      BY ConstantsAssumption
    <3> QED BY <3>1, <3>2 DEF PutCopyStatus, Goto, PutSteps, shared
  <2>3. CASE PutCopyRest(w)
    <3> DEFINE cur == [status |-> nxt[w].status, bw |-> bw, llm |-> llm]
    <3>1. cur \in NextState
      OBVIOUS
    <3>2. Applied(req[w], cur) \in NextState
      BY <3>1, AppliedType
    <3>3. CASE Rejected(req[w], cur) /\ Done(w)
      BY <2>3, <3>3 DEF PutCopyRest, Done, Goto, shared
    <3>4. CASE /\ nxt' = [nxt EXCEPT ![w] = Applied(req[w], cur)]
               /\ Goto(w, IF req[w].persist THEN "readEnv" ELSE "publishStatus")
               /\ UNCHANGED <<req, file>>
      BY <2>3, <3>2, <3>4 DEF PutCopyRest, Goto, PutSteps, shared
    <3> QED BY <2>3, <3>3, <3>4 DEF PutCopyRest
  <2>4. CASE PutReadEnv(w)
    BY <2>4 DEF PutReadEnv, Goto, PutSteps, shared
  <2>5. ASSUME ReplaceEnv(w) PROVE env' \in EnvFile /\ saved' \in [bw : BwState, llm : LlmState \cup {Keep}]
    <3>1. env' \in EnvFile
      BY <2>5, EnvUpdatedType DEF ReplaceEnv
    <3> QED BY <2>5, <3>1 DEF ReplaceEnv
  <2>6. CASE PutWriteEnv(w)
    BY <2>5, <2>6 DEF PutWriteEnv, Goto, PutSteps, shared
  <2>7. CASE PutWriteFails(w)
    BY <2>5, <2>7 DEF PutWriteFails, Done, Goto, shared
  <2>8. CASE Clear(w)
    BY <2>8 DEF Clear, Goto, PutSteps, shared
  <2>9. CASE PublishStatus(w) \/ PublishBw(w) \/ PublishLlm(w)
    <3>1. nxt[w].status \in Statuses /\ nxt[w].bw \in BwState /\ nxt[w].llm \in LlmState
      OBVIOUS
    <3>2. CASE PublishStatus(w)
      BY <3>1, <3>2 DEF PublishStatus, Goto, PutSteps
    <3>3. CASE PublishBw(w)
      BY <3>1, <3>3 DEF PublishBw, Goto, PutSteps
    <3>4. CASE PublishLlm(w)
      BY <3>1, <3>4 DEF PublishLlm, Done, Goto
    <3> QED BY <2>9, <3>2, <3>3, <3>4
  <2>10. CASE ResetReadEnv(w)
    <3>1. Overlay(env) \in EnvFile
      BY OverlayType
    <3> QED BY <2>10, <3>1 DEF ResetReadEnv, Goto, ResetSteps, shared
  <2>11. CASE ResetBw(w) \/ ResetLlm(w)
    <3>1. EnvBw(file[w]) \in BwState /\ EnvLlm(file[w]) \in LlmState
      BY EnvTypes
    <3>2. CASE ResetBw(w)
      BY <3>1, <3>2 DEF ResetBw, Goto, ResetSteps
    <3>3. CASE ResetLlm(w)
      BY <3>1, <3>3 DEF ResetLlm, Done, Goto
    <3> QED BY <2>11, <3>2, <3>3
  <2>12. CASE ResetStatus(w)
    BY <2>12 DEF ResetStatus, FreshStatus, Statuses, Goto, ResetSteps
  <2>13. CASE OpenGate(w) \/ PassGate(w)
    BY <2>13 DEF OpenGate, PassGate, Goto, TestSteps, LiveSteps, shared
  <2>14. CASE TestSucceeds(w) \/ TestFails(w)
    <3>1. nxt[w].bw \in BwState
      OBVIOUS
    <3>2. "ok" \in Statuses /\ "failed" \in Statuses
      BY DEF Statuses
    <3>3. CASE TestSucceeds(w)
      BY <3>1, <3>2, <3>3 DEF TestSucceeds, Done, Goto
    <3>4. CASE TestFails(w)
      BY <3>2, <3>4 DEF TestFails, Done, Goto
    <3> QED BY <2>14, <3>3, <3>4
  <2>15. CASE LiveCheckStatus(w) \/ LiveCall(w)
    <3>1. nxt[w].bw \in BwState
      OBVIOUS
    <3>2. CASE LiveCheckStatus(w)
      <4>1. CASE status = "ok"
        BY <3>2, <4>1 DEF LiveCheckStatus, Goto, LiveSteps, shared
      <4>2. CASE status # "ok"
        <5>1. Done(w) /\ UNCHANGED <<status, bw, llm, env, tested, called, saved>>
          BY <3>2, <4>2 DEF LiveCheckStatus, shared
        <5> QED BY <5>1 DEF Done, Goto
      <4> QED BY <4>1, <4>2
    <3>3. called' \subseteq BwState
      BY <2>15, <3>1 DEF LiveCheckStatus, LiveCall
    <3>4. CASE LiveCall(w)
      <4>1. Done(w) /\ UNCHANGED <<status, bw, llm, env, tested, saved>>
        BY <3>4 DEF LiveCall, shared
      <4> QED BY <3>3, <4>1 DEF Done, Goto
    <3> QED BY <2>15, <3>2, <3>4
  <2> QED BY <2>2, <2>3, <2>4, <2>6, <2>7, <2>8, <2>9, <2>10, <2>11, <2>12, <2>13,
             <2>14, <2>15 DEF Handler
<1> QED BY <1>1, <1>2, PTL DEF Spec

-----------------------------------------------------------------------------
(* The session gate. A status "ok" can be copied, published late and         *)
(* overwritten by other handlers, but it never appears from nothing: no copy *)
(* and no shared status is "ok" before the first successful test.            *)

NoTestNoOk ==
    tested = {} =>
        /\ status # "ok"
        /\ \A w \in Workers : nxt[w].status # "ok" /\ pc[w] # "liveCall"
        /\ called = {}

(* Whatever handlers overlap, no live call is made in a process in which no  *)
(* connection test succeeded.                                                *)
THEOREM SessionGate == Spec => []LiveCallsNeedATest
<1>1. Init => NoTestNoOk
  BY DEF Init, NoTestNoOk, FreshStatus, NoNext
<1>2. TypeOK /\ NoTestNoOk /\ [Next]_vars => NoTestNoOk'
  <2> SUFFICES ASSUME TypeOK, NoTestNoOk, [Next]_vars, tested' = {}
               PROVE  /\ status' # "ok"
                      /\ \A w \in Workers : nxt'[w].status # "ok" /\ pc'[w] # "liveCall"
                      /\ called' = {}
    BY DEF NoTestNoOk
  <2> USE DEF TypeOK, NoNext
  <2>1. CASE Restart
    BY <2>1 DEF Restart, FreshStatus
  <2>2. CASE UNCHANGED vars
    BY <2>2 DEF vars, NoTestNoOk
  <2> SUFFICES ASSUME NEW w \in Workers, Handler(w)
               PROVE  /\ status' # "ok"
                      /\ \A v \in Workers : nxt'[v].status # "ok" /\ pc'[v] # "liveCall"
                      /\ called' = {}
    BY <2>1, <2>2 DEF Next
  <2>4. CASE TestSucceeds(w)
    BY <2>4 DEF TestSucceeds
  <2>5. ASSUME ~TestSucceeds(w) PROVE tested = {}
    BY <2>5 DEF Handler, PutCopyStatus, PutCopyRest, PutReadEnv, PutWriteEnv, PutWriteFails, Clear,
         PublishStatus, PublishBw, PublishLlm, ResetReadEnv, ResetBw, ResetStatus, ResetLlm,
         OpenGate, PassGate, TestFails, LiveCheckStatus, LiveCall
  <2> SUFFICES ASSUME tested = {}, ~TestSucceeds(w)
               PROVE  /\ status' # "ok"
                      /\ \A v \in Workers : nxt'[v].status # "ok" /\ pc'[v] # "liveCall"
                      /\ called' = {}
    BY <2>4, <2>5
  <2>6. /\ status # "ok" /\ called = {}
        /\ \A v \in Workers : nxt[v].status # "ok" /\ pc[v] # "liveCall"
    BY DEF NoTestNoOk
  <2>7. CASE PutCopyRest(w)
    <3> DEFINE cur == [status |-> nxt[w].status, bw |-> bw, llm |-> llm]
    <3>1. Applied(req[w], cur).status # "ok"
      BY <2>6 DEF Applied, StatusAfter
    <3> QED BY <2>6, <2>7, <3>1 DEF PutCopyRest, Done, Goto, shared
  <2>8. CASE \E r \in PutRequests : PutCopyStatus(w, r)
    BY <2>6, <2>8 DEF PutCopyStatus, Goto, shared
  <2>9. CASE PutReadEnv(w) \/ PutWriteEnv(w) \/ PutWriteFails(w) \/ Clear(w)
    BY <2>6, <2>9 DEF PutReadEnv, PutWriteEnv, PutWriteFails, Clear, Done, Goto, shared
  <2>10. CASE PublishStatus(w) \/ PublishBw(w) \/ PublishLlm(w)
    BY <2>6, <2>10 DEF PublishStatus, PublishBw, PublishLlm, Done, Goto
  <2>11. CASE ResetReadEnv(w) \/ ResetBw(w) \/ ResetStatus(w) \/ ResetLlm(w)
    BY <2>6, <2>11 DEF ResetReadEnv, ResetBw, ResetStatus, ResetLlm, FreshStatus, Done, Goto,
         shared
  <2>12. CASE OpenGate(w) \/ PassGate(w)
    BY <2>6, <2>12 DEF OpenGate, PassGate, Goto, shared
  <2>13. CASE TestFails(w) \/ LiveCheckStatus(w) \/ LiveCall(w)
    BY <2>6, <2>13 DEF TestFails, LiveCheckStatus, LiveCall, Done, Goto, shared
  <2> QED BY <2>7, <2>8, <2>9, <2>10, <2>11, <2>12, <2>13 DEF Handler
<1>3. NoTestNoOk => LiveCallsNeedATest
  BY DEF NoTestNoOk, LiveCallsNeedATest
<1> QED BY <1>1, <1>2, <1>3, TypeCorrect, PTL DEF Spec

-----------------------------------------------------------------------------
(* Changes that run alone. While no change is under way the status "ok"      *)
(* vouches for the BW configuration next to it, and whoever holds a copy of  *)
(* the configuration holds the current one. A change keeps the promise since *)
(* a PUT publishes the status before the configuration.                      *)

Vouched ==
    (\A w \in Workers : pc[w] \notin {"publishBw", "resetStatus"}) =>
        (status = "ok" => bw \in tested)

HandlerVouched(w) ==
    /\ pc[w] = "copyRest" => nxt[w].status = status
    /\ pc[w] \in {"readEnv", "writeEnv", "publishStatus", "publishBw"} =>
           (nxt[w].status = "ok" => nxt[w].bw \in tested)
    /\ pc[w] = "publishBw" => status = nxt[w].status
    /\ pc[w] \in {"testing", "liveStatus", "liveCall"} => nxt[w].bw = bw
    /\ pc[w] = "liveCall" => nxt[w].bw \in tested

SerialInv ==
    /\ ChangesRunAlone
    /\ Vouched
    /\ \A w \in Workers : HandlerVouched(w)
    /\ called \subseteq tested

LEMMA SerialSpecRefinesSpec == SerialSpec => Spec
<1>1. [Next /\ ChangesRunAlone']_vars => [Next]_vars
  OBVIOUS
<1> QED BY <1>1, PTL DEF SerialSpec, Spec

(* A handler step leaves the local variables of the other handlers alone.    *)
LEMMA OthersUntouched ==
  ASSUME TypeOK, NEW w \in Workers, Handler(w), NEW v \in Workers, v # w
  PROVE  /\ pc'[v] = pc[v] /\ nxt'[v] = nxt[v]
         /\ req'[v] = req[v] /\ file'[v] = file[v]
<1> USE DEF TypeOK
<1>1. CASE \E r \in PutRequests : PutCopyStatus(w, r)
  BY <1>1 DEF PutCopyStatus, Goto
<1>2. CASE PutCopyRest(w)
  BY <1>2 DEF PutCopyRest, Done, Goto
<1>3. CASE PutReadEnv(w) \/ PutWriteEnv(w) \/ PutWriteFails(w) \/ Clear(w)
  BY <1>3 DEF PutReadEnv, PutWriteEnv, PutWriteFails, Clear, Done, Goto
<1>4. CASE PublishStatus(w) \/ PublishBw(w) \/ PublishLlm(w)
  BY <1>4 DEF PublishStatus, PublishBw, PublishLlm, Done, Goto
<1>5. CASE ResetReadEnv(w) \/ ResetBw(w) \/ ResetStatus(w) \/ ResetLlm(w)
  BY <1>5 DEF ResetReadEnv, ResetBw, ResetStatus, ResetLlm, Done, Goto
<1>6. CASE OpenGate(w) \/ PassGate(w) \/ TestSucceeds(w) \/ TestFails(w)
  BY <1>6 DEF OpenGate, PassGate, TestSucceeds, TestFails, Done, Goto
<1>7. CASE LiveCheckStatus(w) \/ LiveCall(w)
  BY <1>7 DEF LiveCheckStatus, LiveCall, Done, Goto
<1> QED BY <1>1, <1>2, <1>3, <1>4, <1>5, <1>6, <1>7 DEF Handler

(* What a step of handler w does to the promise, w's own part first.         *)
LEMMA HandlerKeepsVouched ==
  ASSUME TypeOK, SerialInv, ChangesRunAlone', NEW w \in Workers, Handler(w)
  PROVE  Vouched' /\ HandlerVouched(w)' /\ (called \subseteq tested)'
<1> USE DEF TypeOK, SerialInv
<1> DEFINE Alone == \A v \in Workers : v # w => pc[v] = "idle"
<1>1. HandlerVouched(w) /\ called \subseteq tested /\ Vouched
  OBVIOUS
<1>2. Changing(w) => Alone
  BY DEF ChangesRunAlone
<1>3. Changing(w)' => \A v \in Workers : v # w => pc'[v] = "idle"
  BY DEF ChangesRunAlone
<1>4. \A v \in Workers : v # w => pc'[v] = pc[v]
  BY OthersUntouched
<1>5. pc[w] # "idle" => \A v \in Workers : v # w => ~Changing(v)
  BY DEF ChangesRunAlone
<1>6. CASE \E r \in PutRequests : PutCopyStatus(w, r)
  BY <1>1, <1>4, <1>6 DEF PutCopyStatus, Goto, Vouched, HandlerVouched, shared
<1>7. CASE PutCopyRest(w)
  <2> DEFINE cur == [status |-> nxt[w].status, bw |-> bw, llm |-> llm]
  <2>1. Changing(w) /\ pc[w] = "copyRest"
    BY <1>7 DEF PutCopyRest, Changing, PutSteps
  <2>2. status = "ok" => bw \in tested
    BY <1>1, <1>2, <2>1 DEF Vouched
  <2>3. nxt[w].status = status
    BY <1>1, <2>1 DEF HandlerVouched
  <2>4. Applied(req[w], cur).status = "ok" => Applied(req[w], cur).bw \in tested
    BY <2>2, <2>3 DEF Applied, StatusAfter
  <2>5. Vouched' /\ (called \subseteq tested)'
    BY <1>1, <1>4, <1>7, <2>2 DEF PutCopyRest, Vouched, shared
  <2>6. HandlerVouched(w)'
    BY <1>7, <2>4 DEF PutCopyRest, HandlerVouched, Done, Goto
  <2> QED BY <2>5, <2>6
<1>8. CASE PutReadEnv(w) \/ PutWriteEnv(w) \/ PutWriteFails(w)
  BY <1>1, <1>4, <1>8
     DEF PutReadEnv, PutWriteEnv, PutWriteFails, Done, Goto, Vouched, HandlerVouched, shared
<1>9. CASE Clear(w)
  BY <1>1, <1>4, <1>9 DEF Clear, NoNext, Goto, Vouched, HandlerVouched, shared
<1>10. CASE PublishStatus(w)
  BY <1>1, <1>4, <1>10 DEF PublishStatus, Goto, Vouched, HandlerVouched
<1>11. CASE PublishBw(w)
  BY <1>1, <1>4, <1>11 DEF PublishBw, Goto, Vouched, HandlerVouched
<1>12. CASE PublishLlm(w)
  <2>1. Changing(w)
    BY <1>12 DEF PublishLlm, Changing, PutSteps
  <2> QED BY <1>1, <1>2, <1>12, <2>1 DEF PublishLlm, Done, Goto, Vouched, HandlerVouched
<1>13. CASE ResetReadEnv(w)
  BY <1>1, <1>4, <1>13 DEF ResetReadEnv, Goto, Vouched, HandlerVouched, shared
<1>14. CASE ResetBw(w)
  BY <1>1, <1>14 DEF ResetBw, Goto, Vouched, HandlerVouched
<1>15. CASE ResetStatus(w)
  BY <1>1, <1>15 DEF ResetStatus, FreshStatus, Goto, Vouched, HandlerVouched
<1>16. CASE ResetLlm(w)
  BY <1>1, <1>4, <1>16 DEF ResetLlm, Done, Goto, Vouched, HandlerVouched
<1>17. CASE OpenGate(w) \/ PassGate(w)
  BY <1>1, <1>4, <1>17 DEF OpenGate, PassGate, Goto, Vouched, HandlerVouched, shared
<1>18. CASE TestSucceeds(w)
  BY <1>1, <1>18 DEF TestSucceeds, Done, Goto, Vouched, HandlerVouched
<1>19. CASE TestFails(w)
  BY <1>1, <1>19 DEF TestFails, Done, Goto, Vouched, HandlerVouched
<1>20. CASE LiveCheckStatus(w)
  <2>1. pc[w] = "liveStatus" /\ nxt[w].bw = bw
    BY <1>1, <1>20 DEF LiveCheckStatus, HandlerVouched
  <2>2. \A v \in Workers : pc[v] \notin {"publishBw", "resetStatus"}
    BY <1>5, <2>1 DEF Changing, PutSteps, ResetSteps
  <2>3. status = "ok" => bw \in tested
    BY <1>1, <2>2 DEF Vouched
  <2>4. Vouched' /\ (called \subseteq tested)'
    BY <1>1, <1>20, <2>3 DEF LiveCheckStatus, Vouched, shared
  <2>5. CASE status = "ok"
    BY <1>20, <2>1, <2>3, <2>4, <2>5 DEF LiveCheckStatus, HandlerVouched, Goto, shared
  <2>6. CASE status # "ok"
    BY <1>20, <2>4, <2>6 DEF LiveCheckStatus, HandlerVouched, Done, Goto, shared
  <2> QED BY <2>5, <2>6
<1>21. CASE LiveCall(w)
  <2>1. nxt[w].bw \in tested /\ Done(w) /\ UNCHANGED <<shared, tested>>
    BY <1>1, <1>21 DEF LiveCall, HandlerVouched
  <2>2. called' \subseteq called \cup {nxt[w].bw}
    BY <1>21 DEF LiveCall
  <2> QED BY <1>1, <1>4, <2>1, <2>2, <1>21
          DEF LiveCall, Done, Goto, Vouched, HandlerVouched, shared
<1> QED BY <1>6, <1>7, <1>8, <1>9, <1>10, <1>11, <1>12, <1>13, <1>14, <1>15, <1>16,
           <1>17, <1>18, <1>19, <1>20, <1>21 DEF Handler

(* What the same step does to the other handlers: nothing, since whoever     *)
(* changes the configuration runs alone.                                     *)
LEMMA OthersStayVouched ==
  ASSUME TypeOK, SerialInv, ChangesRunAlone', NEW w \in Workers, Handler(w),
         NEW v \in Workers, v # w
  PROVE  HandlerVouched(v)'
<1>1. pc'[v] = pc[v] /\ nxt'[v] = nxt[v]
  BY OthersUntouched
<1>2. pc[w] # "idle" \/ pc'[w] # "idle"
  <2> USE DEF TypeOK, Goto
  <2>1. CASE \E r \in PutRequests : PutCopyStatus(w, r)
    BY <2>1 DEF PutCopyStatus
  <2>2. CASE Clear(w) \/ ResetReadEnv(w) \/ OpenGate(w)
    BY <2>2 DEF Clear, ResetReadEnv, OpenGate
  <2>3. CASE \/ PutCopyRest(w) \/ PutReadEnv(w) \/ PutWriteEnv(w) \/ PutWriteFails(w)
             \/ PublishStatus(w) \/ PublishBw(w) \/ PublishLlm(w)
    BY <2>3 DEF PutCopyRest, PutReadEnv, PutWriteEnv, PutWriteFails, PublishStatus,
                PublishBw, PublishLlm
  <2>4. CASE \/ ResetBw(w) \/ ResetStatus(w) \/ ResetLlm(w) \/ PassGate(w)
             \/ TestSucceeds(w) \/ TestFails(w) \/ LiveCheckStatus(w) \/ LiveCall(w)
    BY <2>4 DEF ResetBw, ResetStatus, ResetLlm, PassGate, TestSucceeds, TestFails,
                LiveCheckStatus, LiveCall
  <2> QED BY <2>1, <2>2, <2>3, <2>4 DEF Handler
<1>3. ~Changing(v)
  BY <1>1, <1>2 DEF SerialInv, ChangesRunAlone, Changing
<1>4. tested \subseteq tested' /\ (bw' = bw \/ PublishBw(w) \/ ResetBw(w))
  BY DEF Handler, PutCopyStatus, PutCopyRest, PutReadEnv, PutWriteEnv, PutWriteFails, Clear,
         PublishStatus, PublishBw, PublishLlm, ResetReadEnv, ResetBw, ResetStatus, ResetLlm,
         OpenGate, PassGate, TestSucceeds, TestFails, LiveCheckStatus, LiveCall, shared
<1>5. CASE pc[v] = "idle"
  BY <1>1, <1>5 DEF HandlerVouched
<1>6. CASE pc[v] # "idle"
  <2>1. ~Changing(w)
    BY <1>6 DEF SerialInv, ChangesRunAlone
  <2>2. bw' = bw
    BY <1>4, <2>1 DEF Changing, PutSteps, ResetSteps, PublishBw, ResetBw
  <2>3. pc[v] \notin {"copyRest", "readEnv", "writeEnv", "publishStatus", "publishBw"}
    BY <1>3 DEF Changing, PutSteps
  <2>4. HandlerVouched(v)
    BY DEF SerialInv
  <2> QED BY <1>1, <1>4, <2>2, <2>3, <2>4 DEF HandlerVouched
<1> QED BY <1>5, <1>6

(* When changes run alone, every live call reaches a system that was tested  *)
(* with exactly the settings of the call.                                    *)
THEOREM TestedCalls == SerialSpec => []LiveCallsUseTestedBw
<1>1. Init => SerialInv
  BY DEF Init, SerialInv, ChangesRunAlone, Vouched, HandlerVouched, FreshStatus, Changing,
         PutSteps, ResetSteps
<1>2. TypeOK /\ SerialInv /\ [Next /\ ChangesRunAlone']_vars => SerialInv'
  <2> SUFFICES ASSUME TypeOK, SerialInv, [Next /\ ChangesRunAlone']_vars PROVE SerialInv'
    OBVIOUS
  <2>1. CASE UNCHANGED vars
    <3>1. UNCHANGED <<status, bw, pc, nxt, tested, called>>
      BY <2>1 DEF vars
    <3> QED BY <3>1 DEF SerialInv, ChangesRunAlone, Changing, Vouched, HandlerVouched
  <2> SUFFICES ASSUME Next, ChangesRunAlone' PROVE SerialInv'
    BY <2>1
  <2>2. CASE Restart
    BY <2>2 DEF Restart, FreshStatus, SerialInv, Vouched, HandlerVouched
  <2>3. ASSUME NEW w \in Workers, Handler(w) PROVE SerialInv'
    <3>1. Vouched' /\ HandlerVouched(w)' /\ (called \subseteq tested)'
      BY <2>3, HandlerKeepsVouched
    <3>2. \A v \in Workers : v # w => HandlerVouched(v)'
      BY <2>3, OthersStayVouched
    <3> QED BY <3>1, <3>2 DEF SerialInv
  <2> QED BY <2>2, <2>3 DEF Next
<1>3. SerialInv => LiveCallsUseTestedBw
  BY DEF SerialInv, LiveCallsUseTestedBw
<1>4. SerialSpec => []TypeOK
  BY SerialSpecRefinesSpec, TypeCorrect
<1> QED BY <1>1, <1>2, <1>3, <1>4, PTL DEF SerialSpec

-----------------------------------------------------------------------------
(* What a save wrote survives a restart. Three things can break it, and each *)
(* has a run that shows it: an overlapping save writes back the file it read *)
(* before, the file points to a cookie file a save never removes, and the    *)
(* process environment overrides the file. Without them the promise holds.   *)

NoCookieStarts == ProcessEnv = NoFile /\ \A e \in EnvStarts : e.cookie = "none"

HandlerSaves(w) ==
    /\ pc[w] = "writeEnv" => file[w] = env
    /\ pc[w] \in {"readEnv", "writeEnv"} /\ req[w].setting # Keep =>
           nxt[w].bw.setting # None /\ nxt[w].bw.secret # None /\ nxt[w].bw.cookie = "none"

SavedInv ==
    /\ ChangesRunAlone
    /\ env.cookie = "none"
    /\ saved.bw # NoBw => EnvBw(env) = saved.bw
    /\ saved.llm # Keep => EnvLlm(env) = saved.llm
    /\ \A w \in Workers : HandlerSaves(w)

LEMMA NoOverlay ==
  ASSUME ProcessEnv = NoFile, NEW f \in EnvFile
  PROVE  Overlay(f) = f
  BY DEF Overlay, Override, NoFile, EnvFile

(* A write of .env by a handler that holds the current file and a complete   *)
(* configuration leaves a file the saved sections can be loaded from.        *)
LEMMA WriteSaves ==
  ASSUME TypeOK, SavedInv, NEW w \in Workers, pc[w] = "writeEnv", ReplaceEnv(w)
  PROVE  /\ env'.cookie = "none"
         /\ saved'.bw # NoBw => EnvBw(env') = saved'.bw
         /\ saved'.llm # Keep => EnvLlm(env') = saved'.llm
<1> DEFINE r == req[w]
           n == nxt[w]
<1>1. r \in PutRequest /\ n.bw \in BwState /\ n.llm \in LlmState /\ env \in EnvFile
  BY DEF TypeOK
<1>2. HandlerSaves(w) /\ env.cookie = "none"
  BY DEF SavedInv
<1>3. env' = EnvUpdated(env, r, n)
  BY <1>2 DEF HandlerSaves, ReplaceEnv
<1>4. /\ env'.setting = IF r.setting = Keep THEN env.setting ELSE n.bw.setting
      /\ env'.secret = IF r.setting = Keep THEN env.secret ELSE n.bw.secret
      /\ env'.llm = IF r.llm = Keep THEN env.llm ELSE n.llm
      /\ env'.cookie = "none"
  BY <1>1, <1>2, <1>3 DEF EnvUpdated, EnvFile
<1>5. /\ saved'.bw = IF r.setting = Keep THEN saved.bw ELSE n.bw
      /\ saved'.llm = IF r.llm = Keep THEN saved.llm ELSE n.llm
  BY DEF ReplaceEnv
<1>6. saved'.llm # Keep => EnvLlm(env') = saved'.llm
  <2>1. CASE r.llm = Keep
    BY <1>4, <1>5, <2>1 DEF SavedInv, EnvLlm
  <2>2. CASE r.llm # Keep
    BY <1>1, <1>4, <1>5, <2>2, ConstantsAssumption DEF EnvLlm, RealSecret, LlmState
  <2> QED BY <2>1, <2>2
<1>7. CASE r.setting # Keep
  <2>1. n.bw.setting # None /\ n.bw.secret # None /\ n.bw.cookie = "none"
    BY <1>2, <1>7 DEF HandlerSaves
  <2>2. n.bw.secret # Marker
    BY <1>1, ConstantsAssumption, <2>1 DEF BwState
  <2>3. n.bw = [setting |-> n.bw.setting, secret |-> n.bw.secret, cookie |-> "none"]
    BY <1>1, <2>1 DEF BwState
  <2> QED BY <1>1, <1>4, <1>5, <1>7, <2>1, <2>2, <2>3, <1>6 DEF EnvBw, RealSecret
<1>8. CASE r.setting = Keep
  BY <1>4, <1>5, <1>8, <1>6, <1>2 DEF EnvBw, SavedInv
<1> QED BY <1>7, <1>8

(* The steps of one handler, its own locals first and then the others'.      *)
LEMMA HandlerKeepsSaved ==
  ASSUME TypeOK, SavedInv, ChangesRunAlone', NEW w \in Workers, Handler(w)
  PROVE  SavedInv'
<1> USE DEF TypeOK
<1>1. /\ HandlerSaves(w) /\ env.cookie = "none"
      /\ saved.bw # NoBw => EnvBw(env) = saved.bw
      /\ saved.llm # Keep => EnvLlm(env) = saved.llm
  BY DEF SavedInv
<1> DEFINE Kept == UNCHANGED <<env, saved>>
           Files == /\ env'.cookie = "none"
                    /\ saved'.bw # NoBw => EnvBw(env') = saved'.bw
                    /\ saved'.llm # Keep => EnvLlm(env') = saved'.llm
<1>2. Kept \/ (pc[w] = "writeEnv" /\ ReplaceEnv(w))
  BY DEF Handler, PutCopyStatus, PutCopyRest, PutReadEnv, PutWriteEnv, PutWriteFails, Clear,
         PublishStatus, PublishBw, PublishLlm, ResetReadEnv, ResetBw, ResetStatus, ResetLlm,
         OpenGate, PassGate, TestSucceeds, TestFails, LiveCheckStatus, LiveCall
<1>3. Files
  BY <1>1, <1>2, WriteSaves
<1>4. HandlerSaves(w)'
  <2>1. CASE \E r \in PutRequests : PutCopyStatus(w, r)
    BY <2>1 DEF PutCopyStatus, Goto, HandlerSaves
  <2>2. CASE PutCopyRest(w)
    <3> DEFINE cur == [status |-> nxt[w].status, bw |-> bw, llm |-> llm]
    <3>1. CASE Rejected(req[w], cur) /\ Done(w)
      BY <3>1 DEF Done, Goto, HandlerSaves
    <3>2. CASE /\ ~Rejected(req[w], cur)
               /\ nxt' = [nxt EXCEPT ![w] = Applied(req[w], cur)]
               /\ Goto(w, IF req[w].persist THEN "readEnv" ELSE "publishStatus")
               /\ UNCHANGED <<req, file>>
      <4> DEFINE n == Applied(req[w], cur)
      <4>1. req[w] \in PutRequest /\ nxt'[w] = n /\ req'[w] = req[w]
        BY <3>2
      <4>2. pc'[w] # "writeEnv"
        BY <3>2 DEF Goto
      <4>3. req[w].setting # Keep =>
              n.bw.setting # None /\ n.bw.secret # None /\ n.bw.cookie = "none"
        BY <3>2, <4>1, ConstantsAssumption DEF Applied, BuildBw, Rejected, PutRequest
      <4> QED BY <4>1, <4>2, <4>3 DEF HandlerSaves
    <3> QED BY <2>2, <3>1, <3>2 DEF PutCopyRest
  <2>3. CASE PutReadEnv(w)
    BY <1>1, <2>3 DEF PutReadEnv, Goto, HandlerSaves
  <2>4. CASE PutWriteEnv(w) \/ PutWriteFails(w) \/ Clear(w)
    BY <2>4 DEF PutWriteEnv, PutWriteFails, Clear, Done, Goto, HandlerSaves
  <2>5. CASE PublishStatus(w) \/ PublishBw(w) \/ PublishLlm(w)
    BY <2>5 DEF PublishStatus, PublishBw, PublishLlm, Done, Goto, HandlerSaves
  <2>6. CASE ResetReadEnv(w) \/ ResetBw(w) \/ ResetStatus(w) \/ ResetLlm(w)
    BY <2>6 DEF ResetReadEnv, ResetBw, ResetStatus, ResetLlm, Done, Goto, HandlerSaves
  <2>7. CASE OpenGate(w) \/ PassGate(w) \/ TestSucceeds(w) \/ TestFails(w)
    BY <2>7 DEF OpenGate, PassGate, TestSucceeds, TestFails, Done, Goto, HandlerSaves
  <2>8. CASE LiveCall(w)
    BY <2>8 DEF LiveCall, Done, Goto, HandlerSaves
  <2>9. CASE LiveCheckStatus(w)
    <3>1. pc'[w] \in {"liveCall", "idle"}
      BY <2>9 DEF LiveCheckStatus, Done, Goto
    <3> QED BY <3>1 DEF HandlerSaves
  <2> QED BY <2>1, <2>2, <2>3, <2>4, <2>5, <2>6, <2>7, <2>8, <2>9 DEF Handler
<1>5. ASSUME NEW v \in Workers, v # w PROVE HandlerSaves(v)'
  <2>1. HandlerSaves(v) /\ UNCHANGED <<pc[v], nxt[v], req[v], file[v]>>
    BY <1>5, OthersUntouched DEF SavedInv
  <2>2. CASE Kept
    BY <2>1, <2>2 DEF HandlerSaves
  <2>3. CASE pc[w] = "writeEnv"
    <3>1. pc[v] = "idle"
      BY <1>5, <2>3 DEF SavedInv, ChangesRunAlone, Changing, PutSteps
    <3> QED BY <2>1, <3>1 DEF HandlerSaves
  <2> QED BY <1>2, <2>2, <2>3
<1> QED BY <1>3, <1>4, <1>5 DEF SavedInv

(* Without cookie files and environment overrides, and with changes that run *)
(* alone, the next process loads what the last save wrote, through crashes   *)
(* between the write of .env and the change of memory and failing writes.    *)
THEOREM SavesSurvive ==
  ASSUME NoCookieStarts
  PROVE  SerialSpec => []RestartLoadsSaved
<1>1. Init => SavedInv
  BY DEF Init, SavedInv, ChangesRunAlone, HandlerSaves, NoCookieStarts, Nothing,
         Changing, PutSteps, ResetSteps
<1>2. TypeOK /\ SavedInv /\ [Next /\ ChangesRunAlone']_vars => SavedInv'
  <2> SUFFICES ASSUME TypeOK, SavedInv, [Next /\ ChangesRunAlone']_vars PROVE SavedInv'
    OBVIOUS
  <2>1. CASE UNCHANGED vars
    <3>1. UNCHANGED <<env, pc, req, nxt, file, saved>>
      BY <2>1 DEF vars
    <3> QED BY <3>1 DEF SavedInv, ChangesRunAlone, Changing, HandlerSaves
  <2>2. CASE Restart
    BY <2>2 DEF Restart, SavedInv, ChangesRunAlone, HandlerSaves
  <2>3. ASSUME NEW w \in Workers, Handler(w), ChangesRunAlone' PROVE SavedInv'
    BY <2>3, HandlerKeepsSaved
  <2> QED BY <2>1, <2>2, <2>3 DEF Next
<1>3. TypeOK /\ SavedInv => RestartLoadsSaved
  <2> SUFFICES ASSUME TypeOK, SavedInv PROVE RestartLoadsSaved OBVIOUS
  <2>1. Overlay(env) = env
    BY NoOverlay DEF TypeOK, NoCookieStarts
  <2> QED BY <2>1 DEF SavedInv, RestartLoadsSaved
<1>4. SerialSpec => []TypeOK
  BY SerialSpecRefinesSpec, TypeCorrect
<1> QED BY <1>1, <1>2, <1>3, <1>4, PTL DEF SerialSpec

-----------------------------------------------------------------------------
(* What a save writes: the lines it read, with real secrets in some of them. *)
Unmarked ==
    (\A e \in EnvStarts : ~Marked(e)) =>
        /\ ~Marked(env)
        /\ \A w \in Workers : pc[w] = "writeEnv" => ~Marked(file[w])

LEMMA SavedSecretsAreReal ==
  ASSUME NEW f \in EnvFile, ~Marked(f), NEW r \in PutRequest, NEW n \in NextState
  PROVE  ~Marked(EnvUpdated(f, r, n))
<1>1. n.bw.secret # Marker /\ n.llm # Marker
  BY ConstantsAssumption DEF NextState, BwState, LlmState
<1> QED BY <1>1 DEF EnvUpdated, EnvFile, Marked

(* Whatever saves overlap or are lost, the marker never gets into an .env    *)
(* that did not hold it at the start.                                        *)
THEOREM NoMarkerOnDisk == Spec => []MarkerNeverReachesDisk
<1>1. Init => Unmarked
  BY DEF Init, Unmarked
<1>2. TypeOK /\ Unmarked /\ [Next]_vars => Unmarked'
  <2> SUFFICES ASSUME TypeOK, Unmarked, [Next]_vars, \A e \in EnvStarts : ~Marked(e)
               PROVE  Unmarked'
    BY DEF Unmarked
  <2> USE DEF TypeOK, Unmarked
  <2>1. CASE Restart
    BY <2>1 DEF Restart
  <2>2. CASE UNCHANGED vars
    BY <2>2 DEF vars
  <2>3. ASSUME NEW w \in Workers, Handler(w) PROVE Unmarked'
    <3>1. CASE PutReadEnv(w)
      BY <3>1 DEF PutReadEnv, Goto
    <3>2. CASE PutWriteEnv(w) \/ PutWriteFails(w)
      <4>1. env' = env \/ (pc[w] = "writeEnv" /\ env' = EnvUpdated(file[w], req[w], nxt[w]))
        BY <3>2 DEF PutWriteEnv, PutWriteFails, ReplaceEnv
      <4>2. ~Marked(env')
        BY <4>1, SavedSecretsAreReal DEF NextState
      <4> QED BY <3>2, <4>2 DEF PutWriteEnv, PutWriteFails, Done, Goto
    <3>3. CASE ~PutReadEnv(w) /\ ~PutWriteEnv(w) /\ ~PutWriteFails(w)
      <4>1. env' = env
        BY <2>3, <3>3 DEF Handler, PutCopyStatus, PutCopyRest, Clear, PublishStatus, PublishBw,
           PublishLlm, ResetReadEnv, ResetBw, ResetStatus, ResetLlm, OpenGate, PassGate,
           TestSucceeds, TestFails, LiveCheckStatus, LiveCall
      <4>2. pc'[w] # "writeEnv"
        BY <2>3, <3>3 DEF Handler, PutCopyStatus, PutCopyRest, Clear, PublishStatus, PublishBw,
           PublishLlm, ResetReadEnv, ResetBw, ResetStatus, ResetLlm, OpenGate, PassGate,
           TestSucceeds, TestFails, LiveCheckStatus, LiveCall, Done, Goto
      <4>3. \A v \in Workers \ {w} : pc'[v] = pc[v] /\ file'[v] = file[v]
        BY <2>3, OthersUntouched
      <4> QED BY <4>1, <4>2, <4>3
    <3> QED BY <3>1, <3>2, <3>3
  <2> QED BY <2>1, <2>2, <2>3 DEF Next
<1>3. Unmarked => MarkerNeverReachesDisk
  BY DEF Unmarked, MarkerNeverReachesDisk
<1> QED BY <1>1, <1>2, <1>3, TypeCorrect, PTL DEF Spec
=============================================================================
