------------------------- MODULE SessionMgrProofs -------------------------
(***************************************************************************)
(* Theorems about SessionMgr, for any number of workers, any set of API    *)
(* actions, any back-off and whatever may fail.                            *)
(***************************************************************************)
EXTENDS SessionMgr, TLAPS

USE WorkerAssumption, MgrAssumption
----------------------------------------------------------------------------
(***************************************************************************)
(* Types.                                                                  *)
(***************************************************************************)
\* Updates of one function and of a function of functions keep their types.
LEMMA OneUpdate ==
  ASSUME NEW W, NEW S, NEW f \in [W -> S], NEW w \in W, NEW v \in S
  PROVE  [f EXCEPT ![w] = v] \in [W -> S]
  OBVIOUS

LEMMA NestedUpdate ==
  ASSUME NEW K, NEW W, NEW S, NEW f \in [K -> [W -> S]],
         NEW k \in K, NEW w \in W, NEW v \in S
  PROVE  [f EXCEPT ![k][w] = v] \in [K -> [W -> S]]
  OBVIOUS

LEMMA GotoType ==
  ASSUME WorkerTypeOK, NEW k \in Kinds, NEW w \in Workers, NEW p \in PCs,
         Goto(k, w, p)
  PROVE  pc' \in [Kinds -> [Workers -> PCs]]
  BY NestedUpdate DEF WorkerTypeOK, Goto

LEMMA SetStatusType ==
  ASSUME WorkerTypeOK, NEW w \in Workers, NEW s \in Statuses, SetStatus(w, s)
  PROVE  status' \in [Workers -> Statuses]
  BY OneUpdate DEF WorkerTypeOK, SetStatus

LEMMA OutType ==
  ASSUME WorkerTypeOK, NEW k \in Kinds, NEW w \in Workers,
         NEW o \in {"blank", "cookies", Payload(cookies[w])},
         out' = [out EXCEPT ![k][w] = o]
  PROVE  out' \in [Kinds -> [Workers -> {"blank", "cookies"}]]
<1>1. o \in {"blank", "cookies"}
  BY DEF Payload
<1>2. QED BY <1>1, NestedUpdate DEF WorkerTypeOK

LEMMA AttType ==
  ASSUME WorkerTypeOK, NEW k \in Kinds, NEW w \in Workers, NEW n \in 0..Backoffs,
         att' = [att EXCEPT ![k][w] = n]
  PROVE  att' \in [Kinds -> [Workers -> 0..Backoffs]]
  BY NestedUpdate DEF WorkerTypeOK

\* What the operators shared by several coroutines (session_worker.py:233-266,
\* 317-332) leave of the types, given sound arguments.
LEMMA ReturnType ==
  ASSUME WorkerTypeOK, NEW k \in Kinds, NEW w \in Workers,
         NEW f \in 0..MaxFailures, NEW c \in BOOLEAN, NEW h \in BOOLEAN,
         Return(k, w, f, c, h)
  PROVE  /\ pc' \in [Kinds -> [Workers -> PCs]]
         /\ captured' \in [Workers -> BOOLEAN]
         /\ stage' \in [Workers -> {"login", "adopt", "beat", "again"}]
<1>1. PICK p \in {"sleep", "done", "resumeClose", "loop"} : Goto(k, w, p)
  BY DEF Return
<1>2. p \in PCs
  BY DEF PCs
<1>3. pc' \in [Kinds -> [Workers -> PCs]]
  BY <1>1, <1>2, GotoType
<1>4. captured' \in [Workers -> BOOLEAN]
  BY DEF Return, WorkerTypeOK
<1>5. stage' \in [Workers -> {"login", "adopt", "beat", "again"}]
  BY DEF Return, WorkerTypeOK
<1>6. QED BY <1>3, <1>4, <1>5

LEMMA EnterLoopType ==
  ASSUME WorkerTypeOK, NEW k \in Kinds, NEW w \in Workers, NEW n \in Nat,
         NEW f \in 0..MaxFailures, NEW c \in BOOLEAN, NEW h \in BOOLEAN,
         EnterLoop(k, w, n, f, c, h)
  PROVE  /\ pc' \in [Kinds -> [Workers -> PCs]]
         /\ captured' \in [Workers -> BOOLEAN]
         /\ stage' \in [Workers -> {"login", "adopt", "beat", "again"}]
         /\ status' \in [Workers -> Statuses]
         /\ att' \in [Kinds -> [Workers -> 0..Backoffs]]
         /\ out' \in [Kinds -> [Workers -> {"blank", "cookies"}]]
<1>1. {"errorMirror", "login", "backoff"} \subseteq PCs
  BY DEF PCs
<1>2. CASE n > Backoffs
  <2>1. /\ Goto(k, w, "errorMirror")
        /\ SetStatus(w, "error")
        /\ att' = [att EXCEPT ![k][w] = 0]
        /\ out' = [out EXCEPT ![k][w] = Payload(cookies[w])]
        /\ captured' = [captured EXCEPT ![w] = c]
        /\ UNCHANGED stage
    BY <1>2 DEF EnterLoop
  <2>2. "error" \in Statuses /\ 0 \in 0..Backoffs
    BY DEF Statuses
  <2>3. QED
    BY <1>1, <2>1, <2>2, GotoType, SetStatusType, AttType, OutType, OneUpdate
       DEF WorkerTypeOK
<1>3. CASE n <= Backoffs /\ stopped[w]
  <2>1. /\ Return(k, w, f, c, h)
        /\ att' = [att EXCEPT ![k][w] = 0]
        /\ UNCHANGED <<status, out>>
    BY <1>3 DEF EnterLoop
  <2>2. 0 \in 0..Backoffs
    OBVIOUS
  <2>3. QED
    BY <2>1, <2>2, ReturnType, AttType DEF WorkerTypeOK
<1>4. CASE n <= Backoffs /\ ~stopped[w]
  <2>1. PICK p \in {"login", "backoff"} : Goto(k, w, p)
    BY <1>4 DEF EnterLoop
  <2>2. /\ n \in 0..Backoffs
        /\ att' = [att EXCEPT ![k][w] = n]
        /\ captured' = [captured EXCEPT ![w] = c]
        /\ UNCHANGED <<status, out, stage>>
    BY <1>4 DEF EnterLoop
  <2>3. QED
    BY <1>1, <2>1, <2>2, GotoType, AttType, OneUpdate DEF WorkerTypeOK
<1>5. QED BY <1>2, <1>3, <1>4 DEF EnterLoop

LEMMA InstallClientType ==
  ASSUME WorkerTypeOK, NEW k \in Kinds, NEW w \in Workers, InstallClient(k, w)
  PROVE  /\ pc' \in [Kinds -> [Workers -> PCs]]
         /\ http' \in [Workers -> BOOLEAN]
         /\ cookies' \in [Workers -> BOOLEAN]
         /\ failures' \in [Workers -> 0..MaxFailures]
         /\ lastBeat' \in [Workers -> {"never", "fresh", "stale"}]
         /\ status' \in [Workers -> Statuses]
         /\ out' \in [Kinds -> [Workers -> {"blank", "cookies"}]]
<1>1. "adoptMirror" \in PCs /\ "ready" \in Statuses
  BY DEF PCs, Statuses
<1>2. /\ pc' \in [Kinds -> [Workers -> PCs]]
      /\ status' \in [Workers -> Statuses]
      /\ out' \in [Kinds -> [Workers -> {"blank", "cookies"}]]
  BY <1>1, GotoType, SetStatusType, OutType DEF InstallClient
<1>3. failures' \in [Workers -> 0..MaxFailures]
  <2>1. 0 \in 0..MaxFailures
    OBVIOUS
  <2>2. QED BY <2>1, OneUpdate DEF InstallClient, WorkerTypeOK
<1>4. QED
  BY <1>2, <1>3, OneUpdate DEF InstallClient, WorkerTypeOK

LEMMA AdoptType ==
  ASSUME WorkerTypeOK, NEW k \in Kinds, NEW w \in Workers, Adopt(k, w)
  PROVE  /\ pc' \in [Kinds -> [Workers -> PCs]]
         /\ captured' \in [Workers -> BOOLEAN]
         /\ http' \in [Workers -> BOOLEAN]
         /\ cookies' \in [Workers -> BOOLEAN]
         /\ failures' \in [Workers -> 0..MaxFailures]
         /\ lastBeat' \in [Workers -> {"never", "fresh", "stale"}]
         /\ status' \in [Workers -> Statuses]
         /\ out' \in [Kinds -> [Workers -> {"blank", "cookies"}]]
<1>1. captured' \in [Workers -> BOOLEAN]
  BY DEF Adopt, WorkerTypeOK
<1>2. CASE http[w]
  <2>1. "adoptClose" \in PCs
    BY DEF PCs
  <2>2. Goto(k, w, "adoptClose")
        /\ UNCHANGED <<http, cookies, failures, lastBeat, status, out>>
    BY <1>2 DEF Adopt
  <2>3. QED BY <1>1, <2>1, <2>2, GotoType DEF WorkerTypeOK
<1>3. CASE ~http[w]
  BY <1>1, <1>3, InstallClientType DEF Adopt
<1>4. QED BY <1>2, <1>3

\* The Redis hash after the hset of a coroutine holds what it was writing.
LEMMA MirroredType ==
  ASSUME WorkerTypeOK, NEW k \in Kinds, NEW w \in Workers, Mirrored(k, w)
  PROVE  /\ redis' \in {"absent", "blank", "cookies"}
         /\ out' \in [Kinds -> [Workers -> {"blank", "cookies"}]]
<1>1. out' \in [Kinds -> [Workers -> {"blank", "cookies"}]]
  BY OutType DEF Mirrored
<1>2. out[k][w] \in {"blank", "cookies"}
  BY DEF WorkerTypeOK
<1>3. QED BY <1>1, <1>2 DEF Mirrored, WorkerTypeOK

\* session_worker.py:88-332: every step of a coroutine keeps the types.
LEMMA StartType ==
  ASSUME WorkerTypeOK, NEW w \in Workers,
         \/ StartBegin(w) \/ StartMirrored(w) \/ ReadRedis(w)
         \/ ResumeClosed(w) \/ StartLogin(w)
  PROVE  WorkerTypeOK'
<1>1. /\ "start" \in Kinds
      /\ {"startMirror", "hgetall", "loop"} \subseteq PCs
      /\ "logging_in" \in Statuses
  BY DEF Kinds, PCs, Statuses
<1>2. CASE StartBegin(w)
  <2>1. /\ pc' \in [Kinds -> [Workers -> PCs]]
        /\ status' \in [Workers -> Statuses]
        /\ out' \in [Kinds -> [Workers -> {"blank", "cookies"}]]
    BY <1>1, <1>2, GotoType, SetStatusType, OutType DEF StartBegin
  <2>2. QED BY <1>2, <2>1 DEF StartBegin, WorkerTypeOK
<1>3. CASE StartMirrored(w)
  <2>1. pc' \in [Kinds -> [Workers -> PCs]]
    BY <1>1, <1>3, GotoType DEF StartMirrored
  <2>2. QED
    BY <1>1, <1>3, <2>1, MirroredType DEF StartMirrored, WorkerTypeOK, fieldVars
<1>4. CASE ReadRedis(w)
  <2>1. CASE Goto("start", w, "loop") /\ UNCHANGED <<fieldVars, stage, out>>
    <3>1. pc' \in [Kinds -> [Workers -> PCs]]
      BY <1>1, <2>1, GotoType
    <3>2. QED BY <1>4, <2>1, <3>1 DEF ReadRedis, WorkerTypeOK, fieldVars
  <2>2. CASE /\ stage' = [stage EXCEPT ![w] = "adopt"]
             /\ Adopt("start", w)
             /\ UNCHANGED stopped
    BY <1>1, <1>4, <2>2, AdoptType DEF ReadRedis, WorkerTypeOK
  <2>3. QED BY <1>4, <2>1, <2>2 DEF ReadRedis
<1>5. CASE ResumeClosed(w)
  <2>1. pc' \in [Kinds -> [Workers -> PCs]]
    BY <1>1, <1>5, GotoType DEF ResumeClosed
  <2>2. QED BY <1>5, <2>1 DEF ResumeClosed, WorkerTypeOK
<1>6. CASE StartLogin(w)
  <2>1. /\ failures[w] \in 0..MaxFailures
        /\ captured[w] \in BOOLEAN
        /\ http[w] \in BOOLEAN
    BY DEF WorkerTypeOK
  <2>2. QED
    BY <1>1, <1>6, <2>1, EnterLoopType DEF StartLogin, WorkerTypeOK
<1>7. QED BY <1>2, <1>3, <1>4, <1>5, <1>6

LEMMA HeartbeatType ==
  ASSUME WorkerTypeOK, NEW k \in Loggers, NEW w \in Workers,
         \/ HeartbeatBegin(k, w) \/ HeartbeatOk(k, w) \/ HeartbeatMirrored(k, w)
         \/ HeartbeatExpired(k, w) \/ HeartbeatRaises(k, w)
         \/ RecoverClosed(k, w)
  PROVE  WorkerTypeOK'
<1>1. /\ k \in Kinds
      /\ {"hbSend", "done", "hbMirror", "recoverClose", "sleep", "loop"} \subseteq PCs
      /\ FALSE \in BOOLEAN
  BY DEF Kinds, Loggers, PCs
<1>2. /\ failures[w] \in 0..MaxFailures
      /\ captured[w] \in BOOLEAN
      /\ http[w] \in BOOLEAN
  BY DEF WorkerTypeOK
<1>3. CASE HeartbeatBegin(k, w)
  <2>1. PICK p \in {"hbSend", "done"} : Goto(k, w, p)
    BY <1>3 DEF HeartbeatBegin
  <2>2. pc' \in [Kinds -> [Workers -> PCs]]
    BY <1>1, <2>1, GotoType
  <2>3. QED BY <1>3, <2>2 DEF HeartbeatBegin, WorkerTypeOK, fieldVars
<1>4. CASE HeartbeatOk(k, w)
  <2>1. /\ pc' \in [Kinds -> [Workers -> PCs]]
        /\ out' \in [Kinds -> [Workers -> {"blank", "cookies"}]]
    BY <1>1, <1>4, GotoType, OutType DEF HeartbeatOk
  <2>2. 0 \in 0..MaxFailures
    OBVIOUS
  <2>3. failures' \in [Workers -> 0..MaxFailures]
    BY <1>4, <2>2, OneUpdate DEF HeartbeatOk, WorkerTypeOK
  <2>4. QED BY <1>4, <2>1, <2>3 DEF HeartbeatOk, WorkerTypeOK
<1>5. CASE HeartbeatMirrored(k, w)
  BY <1>1, <1>2, <1>5, MirroredType, ReturnType DEF HeartbeatMirrored, WorkerTypeOK
<1>6. CASE HeartbeatExpired(k, w)
  <2> DEFINE f == IF failures[w] < MaxFailures THEN failures[w] + 1
                                               ELSE MaxFailures
  <2>1. f \in 0..MaxFailures /\ failures' = [failures EXCEPT ![w] = f]
    BY <1>2, <1>6 DEF HeartbeatExpired
  <2>2. failures' \in [Workers -> 0..MaxFailures]
    BY <2>1, OneUpdate DEF WorkerTypeOK
  <2>3. /\ pc' \in [Kinds -> [Workers -> PCs]]
        /\ captured' \in [Workers -> BOOLEAN]
        /\ stage' \in [Workers -> {"login", "adopt", "beat", "again"}]
        /\ status' \in [Workers -> Statuses]
        /\ att' \in [Kinds -> [Workers -> 0..Backoffs]]
        /\ out' \in [Kinds -> [Workers -> {"blank", "cookies"}]]
    <3> HIDE DEF f
    <3>1. CASE Return(k, w, f, captured[w], http[w])
               /\ UNCHANGED <<status, att, out>>
      BY <1>1, <1>2, <2>1, <3>1, ReturnType DEF WorkerTypeOK
    <3>2. CASE Goto(k, w, "recoverClose")
               /\ UNCHANGED <<status, captured, att, stage, out>>
      BY <1>1, <3>2, GotoType DEF WorkerTypeOK
    <3>3. CASE EnterLoop(k, w, 0, f, FALSE, FALSE)
      BY <1>1, <2>1, <3>3, EnterLoopType
    <3>4. QED BY <1>6, <3>1, <3>2, <3>3 DEF HeartbeatExpired, f
  <2>4. QED BY <1>6, <2>2, <2>3 DEF HeartbeatExpired, WorkerTypeOK
<1>7. CASE HeartbeatRaises(k, w)
  <2>1. PICK p \in {"sleep", "done", "loop"} : Goto(k, w, p)
    BY <1>7 DEF HeartbeatRaises
  <2>2. pc' \in [Kinds -> [Workers -> PCs]]
    BY <1>1, <2>1, GotoType
  <2>3. QED BY <1>7, <2>2 DEF HeartbeatRaises, WorkerTypeOK, fieldVars
<1>8. CASE RecoverClosed(k, w)
  BY <1>1, <1>2, <1>8, EnterLoopType DEF RecoverClosed, WorkerTypeOK
<1>9. QED BY <1>3, <1>4, <1>5, <1>6, <1>7, <1>8

LEMMA LoginType ==
  ASSUME WorkerTypeOK, NEW k \in Loggers, NEW w \in Workers,
         \/ BackoffOver(k, w) \/ LoginFails(k, w) \/ LoginSucceeds(k, w)
         \/ AdoptClosed(k, w) \/ AdoptMirrored(k, w) \/ ErrorMirrored(k, w)
  PROVE  WorkerTypeOK'
<1>1. /\ k \in Kinds
      /\ {"login", "hbSend", "done", "resumeClose", "loop"} \subseteq PCs
  BY DEF Kinds, Loggers, PCs
<1>2. /\ failures[w] \in 0..MaxFailures
      /\ captured[w] \in BOOLEAN
      /\ http[w] \in BOOLEAN
      /\ att[k][w] + 1 \in Nat
      /\ 0 \in 0..Backoffs
  BY <1>1 DEF WorkerTypeOK
<1>3. CASE BackoffOver(k, w)
  <2>1. pc' \in [Kinds -> [Workers -> PCs]]
    BY <1>1, <1>3, GotoType DEF BackoffOver
  <2>2. QED BY <1>3, <2>1 DEF BackoffOver, WorkerTypeOK, fieldVars
<1>4. CASE LoginFails(k, w)
  BY <1>1, <1>2, <1>4, EnterLoopType DEF LoginFails, WorkerTypeOK
<1>5. CASE LoginSucceeds(k, w)
  <2>1. att' \in [Kinds -> [Workers -> 0..Backoffs]]
    BY <1>1, <1>2, <1>5, AttType DEF LoginSucceeds
  <2>2. QED BY <1>1, <1>5, <2>1, AdoptType DEF LoginSucceeds, WorkerTypeOK
<1>6. CASE AdoptClosed(k, w)
  BY <1>1, <1>6, InstallClientType DEF AdoptClosed, WorkerTypeOK
<1>7. CASE AdoptMirrored(k, w)
  <2>1. /\ redis' \in {"absent", "blank", "cookies"}
        /\ out' \in [Kinds -> [Workers -> {"blank", "cookies"}]]
    BY <1>1, <1>7, MirroredType DEF AdoptMirrored
  <2>2. /\ pc' \in [Kinds -> [Workers -> PCs]]
        /\ captured' \in [Workers -> BOOLEAN]
        /\ stage' \in [Workers -> {"login", "adopt", "beat", "again"}]
    <3>1. CASE Return(k, w, failures[w], captured[w], http[w])
      BY <1>1, <1>2, <3>1, ReturnType
    <3>2. CASE ~Return(k, w, failures[w], captured[w], http[w])
      <4>1. PICK p \in {"hbSend", "done", "resumeClose", "loop"} : Goto(k, w, p)
        BY <1>7, <3>2 DEF AdoptMirrored
      <4>2. pc' \in [Kinds -> [Workers -> PCs]]
        BY <1>1, <4>1, GotoType
      <4>3. PICK c \in {captured[w], FALSE} :
              captured' = captured \/ captured' = [captured EXCEPT ![w] = c]
        BY <1>7, <3>2 DEF AdoptMirrored
      <4>4. c \in BOOLEAN
        BY <1>2
      <4>5. captured' \in [Workers -> BOOLEAN]
        BY <4>3, <4>4, OneUpdate DEF WorkerTypeOK
      <4>6. QED BY <1>7, <3>2, <4>2, <4>5 DEF AdoptMirrored, WorkerTypeOK
    <3>3. QED BY <3>1, <3>2
  <2>3. QED BY <1>7, <2>1, <2>2 DEF AdoptMirrored, WorkerTypeOK
<1>8. CASE ErrorMirrored(k, w)
  BY <1>1, <1>2, <1>8, MirroredType, ReturnType DEF ErrorMirrored, WorkerTypeOK
<1>9. QED BY <1>3, <1>4, <1>5, <1>6, <1>7, <1>8

LEMMA LogOutType ==
  ASSUME WorkerTypeOK, NEW w \in Workers, LogOut(w)
  PROVE  /\ status' \in [Workers -> Statuses]
         /\ out' \in [Kinds -> [Workers -> {"blank", "cookies"}]]
<1>1. "logged_out" \in Statuses /\ "stop" \in Kinds
  BY DEF Statuses, Kinds
<1>2. QED BY <1>1, SetStatusType, OutType DEF LogOut

LEMMA StopType ==
  ASSUME WorkerTypeOK, NEW w \in Workers,
         \/ StopBegin(w) \/ StopLogoutSent(w) \/ StopClosed(w)
         \/ StopMirrored(w) \/ StopDeleted(w)
  PROVE  WorkerTypeOK'
<1>1. /\ "stop" \in Kinds
      /\ {"stopLogout", "stopClose", "stopMirror", "stopDelete", "done"}
           \subseteq PCs
  BY DEF Kinds, PCs
<1>2. CASE StopBegin(w)
  <2>1. /\ pc' \in [Kinds -> [Workers -> PCs]]
        /\ status' \in [Workers -> Statuses]
        /\ out' \in [Kinds -> [Workers -> {"blank", "cookies"}]]
    BY <1>1, <1>2, GotoType, LogOutType DEF StopBegin, WorkerTypeOK
  <2>2. QED BY <1>2, <2>1 DEF StopBegin, WorkerTypeOK
<1>3. CASE StopLogoutSent(w)
  <2>1. /\ pc' \in [Kinds -> [Workers -> PCs]]
        /\ status' \in [Workers -> Statuses]
        /\ out' \in [Kinds -> [Workers -> {"blank", "cookies"}]]
    BY <1>1, <1>3, GotoType, LogOutType DEF StopLogoutSent, WorkerTypeOK
  <2>2. QED BY <1>3, <2>1 DEF StopLogoutSent, WorkerTypeOK
<1>4. CASE StopClosed(w)
  <2>1. /\ pc' \in [Kinds -> [Workers -> PCs]]
        /\ status' \in [Workers -> Statuses]
        /\ out' \in [Kinds -> [Workers -> {"blank", "cookies"}]]
    BY <1>1, <1>4, GotoType, LogOutType DEF StopClosed
  <2>2. QED BY <1>4, <2>1 DEF StopClosed, WorkerTypeOK
<1>5. CASE StopMirrored(w)
  <2>1. pc' \in [Kinds -> [Workers -> PCs]]
    BY <1>1, <1>5, GotoType DEF StopMirrored
  <2>2. QED BY <1>1, <1>5, <2>1, MirroredType DEF StopMirrored, WorkerTypeOK, fieldVars
<1>6. CASE StopDeleted(w)
  <2>1. pc' \in [Kinds -> [Workers -> PCs]]
    BY <1>1, <1>6, GotoType DEF StopDeleted
  <2>2. QED BY <1>6, <2>1 DEF StopDeleted, WorkerTypeOK, fieldVars
<1>7. QED BY <1>2, <1>3, <1>4, <1>5, <1>6

LEMMA ActType ==
  ASSUME WorkerTypeOK, NEW w \in Workers,
         \/ \E op \in Ops : ActBegin(w, op)
         \/ ActOk(w) \/ ActExpired(w) \/ ActMirrored(w)
  PROVE  WorkerTypeOK'
<1>1. /\ "act" \in Kinds
      /\ {"done", "actMirror"} \subseteq PCs
      /\ Ops \subseteq PCs
  BY DEF Kinds, PCs
<1>2. CASE \E op \in Ops : ActBegin(w, op)
  <2>1. PICK op \in Ops : ActBegin(w, op)
    BY <1>2
  <2>2. pc' \in [Kinds -> [Workers -> PCs]]
    BY <1>1, <2>1, GotoType DEF ActBegin
  <2>3. QED BY <2>1, <2>2 DEF ActBegin, WorkerTypeOK, fieldVars
<1>3. CASE ActOk(w)
  <2>1. PICK p \in {"done", "actMirror"} : Goto("act", w, p)
    BY <1>3 DEF ActOk
  <2>2. pc' \in [Kinds -> [Workers -> PCs]]
    BY <1>1, <2>1, GotoType
  <2>3. PICK s \in {"paused", "ready", status[w]} :
          status' = [status EXCEPT ![w] = s]
    BY <1>3 DEF ActOk
  <2>4. s \in Statuses
    BY DEF Statuses, WorkerTypeOK
  <2>5. status' \in [Workers -> Statuses]
    BY <2>3, <2>4, OneUpdate DEF WorkerTypeOK
  <2>6. out' \in [Kinds -> [Workers -> {"blank", "cookies"}]]
    BY <1>1, <1>3, OutType DEF ActOk
  <2>7. QED BY <1>3, <2>2, <2>5, <2>6 DEF ActOk, WorkerTypeOK
<1>4. CASE ActExpired(w)
  <2>1. pc' \in [Kinds -> [Workers -> PCs]]
    BY <1>1, <1>4, GotoType DEF ActExpired
  <2>2. PICK f \in {MaxFailures, failures[w]} : failures' = [failures EXCEPT ![w] = f]
    BY <1>4 DEF ActExpired
  <2>3. f \in 0..MaxFailures
    BY DEF WorkerTypeOK
  <2>4. failures' \in [Workers -> 0..MaxFailures]
    BY <2>2, <2>3, OneUpdate DEF WorkerTypeOK
  <2>5. QED BY <1>4, <2>1, <2>4 DEF ActExpired, WorkerTypeOK
<1>5. CASE ActMirrored(w)
  <2>1. pc' \in [Kinds -> [Workers -> PCs]]
    BY <1>1, <1>5, GotoType DEF ActMirrored
  <2>2. QED BY <1>1, <1>5, <2>1, MirroredType DEF ActMirrored, WorkerTypeOK, fieldVars
<1>6. QED BY <1>2, <1>3, <1>4, <1>5

\* The types of the manager's own variables and those of the workers.
LEMMA InitType == Init => TypeOK
<1> SUFFICES ASSUME Init PROVE TypeOK
  OBVIOUS
<1>1. "logging_in" \in Statuses /\ "done" \in PCs /\ 0 \in 0..MaxFailures
  BY DEF Statuses, PCs
<1>2. WorkerTypeOK
  BY <1>1 DEF Init, WorkerInit, WorkerTypeOK
<1>3. QED BY <1>2 DEF Init, TypeOK

LEMMA StepType ==
  ASSUME WorkerTypeOK, NEW k \in Kinds, NEW w \in Workers, Step(k, w)
  PROVE  WorkerTypeOK'
<1>1. CASE k = "start" /\ (\/ StartBegin(w) \/ StartMirrored(w) \/ ReadRedis(w)
                           \/ ResumeClosed(w) \/ StartLogin(w))
  BY <1>1, StartType
<1>2. CASE k \in Loggers
           /\ (\/ HeartbeatBegin(k, w) \/ HeartbeatOk(k, w)
               \/ HeartbeatMirrored(k, w) \/ HeartbeatExpired(k, w)
               \/ HeartbeatRaises(k, w) \/ RecoverClosed(k, w))
  BY <1>2, HeartbeatType
<1>3. CASE k \in Loggers
           /\ (\/ BackoffOver(k, w) \/ LoginFails(k, w) \/ LoginSucceeds(k, w)
               \/ AdoptClosed(k, w) \/ AdoptMirrored(k, w) \/ ErrorMirrored(k, w))
  BY <1>3, LoginType
<1>4. CASE StopLogoutSent(w) \/ StopClosed(w) \/ StopMirrored(w) \/ StopDeleted(w)
  BY <1>4, StopType
<1>5. CASE ActOk(w) \/ ActExpired(w) \/ ActMirrored(w)
  BY <1>5, ActType
<1>6. QED BY <1>1, <1>2, <1>3, <1>4, <1>5 DEF Step

LEMMA NextType ==
  ASSUME TypeOK, [Next]_vars
  PROVE  TypeOK'
<1> USE DEF TypeOK
<1>1. {"start", "beat", "kick", "stop", "act"} \subseteq Kinds
  BY DEF Kinds
<1>2. {"new", "sleep", "done"} \subseteq PCs
  BY DEF PCs
<1>3. CASE PanelSetStatus
  BY <1>3 DEF PanelSetStatus, workerVars, fieldVars, taskVars, WorkerTypeOK
<1>4. CASE TickFetch
  BY <1>4 DEF TickFetch, workerVars, fieldVars, taskVars, WorkerTypeOK
<1>5. CASE TickStart
  <2>1. PICK w \in Workers \ made : /\ made' = made \cup {w}
                                    /\ registered' = w
                                    /\ Goto("start", w, "new")
    BY <1>5 DEF TickStart
  <2>2. pc' \in [Kinds -> [Workers -> PCs]]
    BY <1>1, <1>2, <2>1, GotoType
  <2>3. WorkerTypeOK'
    BY <1>5, <2>2 DEF TickStart, WorkerTypeOK, fieldVars
  <2>4. QED BY <1>5, <2>1, <2>3 DEF TickStart
<1>6. CASE TickRefresh
  <2>1. registered \in Workers
    BY <1>6 DEF TickRefresh
  <2>2. pc["kick"][registered] \in PCs /\ MaxFailures \in 0..MaxFailures
    BY <1>1, <2>1 DEF WorkerTypeOK
  <2>3. CASE lastBeat[registered] = "stale"
    <3>1. failures' \in [Workers -> 0..MaxFailures]
      <4>1. failures' = [failures EXCEPT ![registered] = MaxFailures]
        BY <1>6, <2>3 DEF TickRefresh
      <4>2. failures \in [Workers -> 0..MaxFailures]
        BY DEF WorkerTypeOK
      <4>3. QED BY <2>1, <2>2, <4>1, <4>2, OneUpdate
    <3>2. PICK p \in {"new", pc["kick"][registered]} : Goto("kick", registered, p)
      BY <1>6, <2>3 DEF TickRefresh
    <3>3. pc' \in [Kinds -> [Workers -> PCs]]
      BY <1>1, <1>2, <2>1, <2>2, <3>2, GotoType
    <3>4. WorkerTypeOK'
      BY <1>6, <3>1, <3>3 DEF TickRefresh, WorkerTypeOK
    <3>5. QED BY <1>6, <3>4 DEF TickRefresh
  <2>4. CASE lastBeat[registered] # "stale"
    BY <1>6, <2>4 DEF TickRefresh, WorkerTypeOK
  <2>5. QED BY <2>3, <2>4
<1>7. CASE TickRemove
  <2>1. registered \in Workers
    BY <1>7 DEF TickRemove
  <2>2. WorkerTypeOK' /\ tick' \in {registered, "idle"}
    BY <1>7, <2>1, StopType
       DEF TickRemove, workerVars, fieldVars, taskVars, WorkerTypeOK
  <2>3. QED BY <1>7, <2>1, <2>2 DEF TickRemove
<1>8. CASE TickEnd
  BY <1>8 DEF TickEnd, workerVars, fieldVars, taskVars, WorkerTypeOK
<1>9. CASE Reconcile
  <2>1. \/ UNCHANGED pc
        \/ \E w \in Workers, p \in {"sleep", "done"} : Goto("beat", w, p)
    BY <1>9 DEF Reconcile
  <2>2. pc' \in [Kinds -> [Workers -> PCs]]
    BY <1>1, <1>2, <2>1, GotoType DEF WorkerTypeOK
  <2>3. WorkerTypeOK'
    BY <1>9, <2>2 DEF Reconcile, WorkerTypeOK, fieldVars
  <2>4. QED BY <1>9, <2>3 DEF Reconcile
<1>10. CASE ApiStop
  <2>1. WorkerTypeOK'
    BY <1>10, StopType DEF ApiStop
  <2>2. QED BY <1>10, <2>1 DEF ApiStop, mgrVars
<1>11. CASE ApiAct
  <2>1. WorkerTypeOK'
    BY <1>11, ActType DEF ApiAct
  <2>2. QED BY <1>11, <2>1 DEF ApiAct, mgrVars
<1>12. CASE ShutdownBeats
  <2>1. UNCHANGED pc \/ \E w \in Workers : Goto("beat", w, "done")
    BY <1>12 DEF ShutdownBeats
  <2>2. pc' \in [Kinds -> [Workers -> PCs]]
    BY <1>1, <1>2, <2>1, GotoType DEF WorkerTypeOK
  <2>3. WorkerTypeOK'
    BY <1>12, <2>2 DEF ShutdownBeats, WorkerTypeOK, fieldVars
  <2>4. QED BY <1>12, <2>3 DEF ShutdownBeats
<1>13. CASE ShutdownStopAll
  <2>1. CASE registered # None /\ ~stopped[registered]
    <3>1. StopBegin(registered) /\ main' = registered /\ UNCHANGED registered
      BY <1>13, <2>1 DEF ShutdownStopAll
    <3>2. registered \in Workers
      BY <2>1
    <3>3. WorkerTypeOK'
      BY <3>1, <3>2, StopType
    <3>4. QED BY <1>13, <3>1, <3>2, <3>3 DEF ShutdownStopAll
  <2>2. CASE ~(registered # None /\ ~stopped[registered])
    BY <1>13, <2>2
       DEF ShutdownStopAll, workerVars, fieldVars, taskVars, WorkerTypeOK
  <2>3. QED BY <2>1, <2>2
<1>14. CASE ShutdownClear
  BY <1>14 DEF ShutdownClear, workerVars, fieldVars, taskVars, WorkerTypeOK
<1>15. CASE Restart
  <2>1. pc' \in [Kinds -> [Workers -> PCs]]
    BY <1>2, <1>15 DEF Restart
  <2>2. status' \in [Workers -> Statuses]
    BY <1>15 DEF Restart, Statuses
  <2>3. WorkerTypeOK'
    BY <1>15, <2>1, <2>2 DEF Restart, WorkerTypeOK
  <2>4. QED BY <1>15, <2>3 DEF Restart
<1>16. CASE WorkerStep /\ UNCHANGED mgrVars
  <2>1. PICK w \in Workers : BeatAges(w) \/ \E k \in Kinds : Step(k, w)
    BY <1>16 DEF WorkerStep
  <2>2. CASE BeatAges(w)
    <3>1. WorkerTypeOK'
      BY <2>2 DEF BeatAges, WorkerTypeOK, taskVars
    <3>2. QED BY <1>16, <3>1 DEF mgrVars
  <2>3. CASE \E k \in Kinds : Step(k, w)
    <3>1. WorkerTypeOK'
      BY <2>3, StepType
    <3>2. QED BY <1>16, <3>1 DEF mgrVars
  <2>4. QED BY <2>1, <2>2, <2>3
<1>17. CASE UNCHANGED vars
  BY <1>17 DEF vars, workerVars, fieldVars, taskVars, mgrVars, WorkerTypeOK
<1>18. QED
  BY <1>3, <1>4, <1>5, <1>6, <1>7, <1>8, <1>9, <1>10, <1>11, <1>12, <1>13,
     <1>14, <1>15, <1>16, <1>17 DEF Next, Supervisor, Shutdown

\* Every variable keeps its type; in particular no login loop reaches past
\* the end of login_backoff_sec (session_worker.py:235).
THEOREM TypeCorrect == Spec => []TypeOK
<1>1. TypeOK /\ [Next]_vars => TypeOK'
  BY NextType
<1>2. QED BY InitType, <1>1, PTL DEF Spec
----------------------------------------------------------------------------
(***************************************************************************)
(* Where the steps of a coroutine lead.                                    *)
(***************************************************************************)
LEMMA ReturnGoes ==
  ASSUME NEW k, NEW w, NEW f, NEW c, NEW h, Return(k, w, f, c, h)
  PROVE  \E p \in {"sleep", "done", "resumeClose", "loop"} : Goto(k, w, p)
  BY DEF Return

\* session_worker.py:235-241: a login loop that finds _stopped goes no further.
LEMMA EnterLoopGoes ==
  ASSUME NEW k, NEW w \in Workers, NEW n \in Nat, NEW f, NEW c, NEW h,
         WorkerTypeOK, EnterLoop(k, w, n, f, c, h)
  PROVE  \E p : Goto(k, w, p) /\ (stopped[w] => p \notin {"backoff", "login"})
<1>1. CASE n > Backoffs
  BY <1>1 DEF EnterLoop
<1>2. CASE n <= Backoffs /\ stopped[w]
  BY <1>2, ReturnGoes DEF EnterLoop
<1>3. CASE n <= Backoffs /\ ~stopped[w]
  BY <1>3 DEF EnterLoop
<1>4. QED BY <1>1, <1>2, <1>3

LEMMA AdoptGoes ==
  ASSUME NEW k, NEW w, Adopt(k, w)
  PROVE  \E p \in {"adoptClose", "adoptMirror"} : Goto(k, w, p)
  BY DEF Adopt, InstallClient

\* Whether coroutine k of w may go to p: none has ended before, and a stopped
\* worker starts no retry.
MayGo(k, w, p) ==
  /\ Goto(k, w, p)
  /\ pc[k][w] # "done"
  /\ stopped[w] => /\ p # "backoff"
                   /\ p = "login" => pc[k][w] = "backoff"

LEMMA StepGoes ==
  ASSUME WorkerTypeOK, NEW k \in Kinds, NEW w \in Workers, Step(k, w)
  PROVE  \E p : MayGo(k, w, p)
<1>1. CASE k = "start" /\ (\/ StartBegin(w) \/ StartMirrored(w)
                           \/ ResumeClosed(w))
  BY <1>1 DEF StartBegin, StartMirrored, ResumeClosed, MayGo
<1>2. CASE k = "start" /\ ReadRedis(w)
  BY <1>2, AdoptGoes DEF ReadRedis, MayGo
<1>3. CASE k = "start" /\ StartLogin(w)
  BY <1>3, EnterLoopGoes DEF StartLogin, MayGo
<1>4. CASE HeartbeatBegin(k, w) \/ HeartbeatOk(k, w)
  BY <1>4 DEF HeartbeatBegin, HeartbeatOk, MayGo
<1>5. CASE HeartbeatMirrored(k, w) \/ ErrorMirrored(k, w)
  BY <1>5, ReturnGoes DEF HeartbeatMirrored, ErrorMirrored, MayGo
<1>6. CASE HeartbeatExpired(k, w)
  <2>1. pc[k][w] = "hbSend"
    BY <1>6 DEF HeartbeatExpired
  <2>2. \/ \E f, c, h : Return(k, w, f, c, h)
        \/ Goto(k, w, "recoverClose")
        \/ \E f, c, h : EnterLoop(k, w, 0, f, c, h)
    BY <1>6 DEF HeartbeatExpired
  <2>3. CASE \E f, c, h : Return(k, w, f, c, h)
    BY <2>1, <2>3, ReturnGoes DEF MayGo
  <2>4. CASE Goto(k, w, "recoverClose")
    BY <2>1, <2>4 DEF MayGo
  <2>5. CASE \E f, c, h : EnterLoop(k, w, 0, f, c, h)
    BY <2>1, <2>5, EnterLoopGoes DEF MayGo
  <2>6. QED BY <2>2, <2>3, <2>4, <2>5
<1>7. CASE HeartbeatRaises(k, w)
  BY <1>7 DEF HeartbeatRaises, MayGo
<1>8. CASE RecoverClosed(k, w)
  BY <1>8, EnterLoopGoes DEF RecoverClosed, MayGo
<1>9. CASE BackoffOver(k, w)
  BY <1>9 DEF BackoffOver, MayGo
<1>10. CASE LoginFails(k, w)
  <2>1. att[k][w] + 1 \in Nat
    BY DEF WorkerTypeOK
  <2>2. QED BY <1>10, <2>1, EnterLoopGoes DEF LoginFails, MayGo
<1>11. CASE LoginSucceeds(k, w)
  BY <1>11, AdoptGoes DEF LoginSucceeds, MayGo
<1>12. CASE AdoptClosed(k, w)
  BY <1>12 DEF AdoptClosed, InstallClient, MayGo
<1>13. CASE AdoptMirrored(k, w)
  <2>1. pc[k][w] = "adoptMirror"
    BY <1>13 DEF AdoptMirrored
  <2>2. \E p \in {"hbSend", "done", "resumeClose", "loop", "sleep"} : Goto(k, w, p)
    BY <1>13, ReturnGoes DEF AdoptMirrored
  <2>3. QED BY <2>1, <2>2 DEF MayGo
<1>14. CASE k = "stop" /\ (\/ StopLogoutSent(w) \/ StopClosed(w)
                           \/ StopMirrored(w) \/ StopDeleted(w))
  BY <1>14 DEF StopLogoutSent, StopClosed, StopMirrored, StopDeleted, MayGo
<1>15. CASE k = "act" /\ (ActOk(w) \/ ActExpired(w) \/ ActMirrored(w))
  BY <1>15, WorkerAssumption DEF ActOk, ActExpired, ActMirrored, MayGo
<1>16. QED
  BY <1>1, <1>2, <1>3, <1>4, <1>5, <1>6, <1>7, <1>8, <1>9, <1>10, <1>11,
     <1>12, <1>13, <1>14, <1>15 DEF Step
----------------------------------------------------------------------------
(***************************************************************************)
(* A stopped worker retries no login.                                      *)
(***************************************************************************)
\* What any step may do to the coroutines: end one, wake or create one, or let
\* one of them go where MayGo says.
CoroutineStep ==
  \/ UNCHANGED pc
  \/ \E k \in Kinds, w \in Workers :
        \E p \in {"new", "sleep", "done", pc[k][w]} : Goto(k, w, p)
  \/ \E w \in Workers, p \in {"stopLogout", "stopMirror"} : Goto("stop", w, p)
  \/ \E w \in Workers, p \in Ops : Goto("act", w, p)
  \/ \E k \in Kinds, w \in Workers : \E p : MayGo(k, w, p)
  \/ pc' = [k \in Kinds |-> [w \in Workers |-> "done"]]

LEMMA NextCoroutine ==
  ASSUME TypeOK, [Next]_vars
  PROVE  CoroutineStep
<1>1. {"start", "beat", "kick", "stop", "act"} \subseteq Kinds
  BY DEF Kinds
<1>2. CASE PanelSetStatus \/ TickFetch \/ TickEnd \/ ShutdownClear
           \/ UNCHANGED vars
  BY <1>2 DEF PanelSetStatus, TickFetch, TickEnd, ShutdownClear, vars,
              workerVars, taskVars, CoroutineStep
<1>3. CASE TickStart
  BY <1>1, <1>3 DEF TickStart, CoroutineStep
<1>4. CASE TickRefresh
  <2>1. registered \in Workers
    BY <1>4 DEF TickRefresh, TypeOK
  <2>2. UNCHANGED pc \/ \E p \in {"new", pc["kick"][registered]} :
                           Goto("kick", registered, p)
    BY <1>4 DEF TickRefresh
  <2>3. QED BY <1>1, <2>1, <2>2 DEF CoroutineStep
<1>5. CASE TickRemove \/ ApiStop \/ ShutdownStopAll
  <2>1. UNCHANGED pc \/ (registered \in Workers /\ StopBegin(registered))
    BY <1>5 DEF TickRemove, ApiStop, ShutdownStopAll, TypeOK, workerVars, taskVars
  <2>2. QED BY <2>1 DEF StopBegin, CoroutineStep
<1>6. CASE Reconcile
  BY <1>1, <1>6 DEF Reconcile, CoroutineStep, TypeOK
<1>7. CASE ApiAct
  BY <1>7 DEF ApiAct, ActBegin, CoroutineStep, TypeOK
<1>8. CASE ShutdownBeats
  BY <1>1, <1>8 DEF ShutdownBeats, CoroutineStep, TypeOK
<1>9. CASE Restart
  BY <1>9 DEF Restart, CoroutineStep
<1>10. CASE WorkerStep
  <2>1. PICK w \in Workers : BeatAges(w) \/ \E k \in Kinds : Step(k, w)
    BY <1>10 DEF WorkerStep
  <2>2. CASE BeatAges(w)
    BY <2>2 DEF BeatAges, taskVars, CoroutineStep
  <2>3. CASE \E k \in Kinds : Step(k, w)
    BY <2>3, StepGoes DEF TypeOK, CoroutineStep
  <2>4. QED BY <2>1, <2>2, <2>3
<1>11. QED
  BY <1>2, <1>3, <1>4, <1>5, <1>6, <1>7, <1>8, <1>9, <1>10
     DEF Next, Supervisor, Shutdown

\* session_worker.py:235-241: once stopped, no coroutine of a worker falls
\* asleep before a retry or begins a login, save one that was asleep before.
THEOREM StoppedWorkerRetriesNoLogin == Spec => StopEndsRetries
<1> DEFINE Quiet(k, w) == stopped[w] /\ pc'[k][w] # pc[k][w] =>
                            /\ pc'[k][w] # "backoff"
                            /\ pc'[k][w] = "login" => pc[k][w] = "backoff"
<1>1. ASSUME TypeOK, [Next]_vars
      PROVE  \A w \in Workers, k \in Loggers : Quiet(k, w)
  <2> SUFFICES ASSUME NEW w \in Workers, NEW k \in Loggers
               PROVE  Quiet(k, w)
    OBVIOUS
  <2>1. k \in Kinds /\ k \notin {"stop", "act"} /\ CoroutineStep
    BY <1>1, NextCoroutine DEF Loggers, Kinds
  <2>2. ASSUME NEW j \in Kinds, NEW v \in Workers, NEW p, Goto(j, v, p)
        PROVE  pc'[k][w] = IF j = k /\ v = w THEN p ELSE pc[k][w]
    BY <1>1, <2>1, <2>2 DEF Goto, TypeOK, WorkerTypeOK
  <2>3. CASE UNCHANGED pc
    BY <2>3
  <2>4. CASE \E j \in Kinds, v \in Workers :
                \E p \in {"new", "sleep", "done", pc[j][v]} : Goto(j, v, p)
    BY <2>2, <2>4
  <2>5. CASE \/ \E v \in Workers, p \in {"stopLogout", "stopMirror"} :
                   Goto("stop", v, p)
             \/ \E v \in Workers, p \in Ops : Goto("act", v, p)
    <3>1. {"stop", "act"} \subseteq Kinds
      BY DEF Kinds
    <3>2. QED BY <2>1, <2>2, <2>5, <3>1
  <2>6. CASE \E j \in Kinds, v \in Workers : \E p : MayGo(j, v, p)
    <3>1. PICK j \in Kinds, v \in Workers : \E p : MayGo(j, v, p)
      BY <2>6
    <3>2. PICK p : MayGo(j, v, p)
      BY <3>1
    <3>3. QED BY <2>2, <3>2 DEF MayGo
  <2>7. CASE pc' = [j \in Kinds |-> [v \in Workers |-> "done"]]
    BY <2>1, <2>7
  <2>8. QED BY <2>1, <2>3, <2>4, <2>5, <2>6, <2>7 DEF CoroutineStep
<1>2. TypeOK /\ [Next]_vars
      => [\A w \in Workers, k \in Loggers : Quiet(k, w)]_vars
  BY <1>1
<1>3. QED BY <1>2, TypeCorrect, PTL DEF Spec, StopEndsRetries
----------------------------------------------------------------------------
(***************************************************************************)
(* Every beat loop belongs to the worker that is registered.  The tick that *)
(* registers a worker found none at its fetch, after a reconciliation: so   *)
(* no loop of a predecessor is left for it to inherit.                      *)
(***************************************************************************)
LoopsInStep ==
  /\ main = "up" /\ synced => beatOf = registered
  /\ main = "up" /\ tick = "fetched" => synced
  /\ main # "up" => beatOf = None

BeatInv == BeatFollowsWorker /\ LoopsInStep

LEMMA BeatInit == Init => BeatInv
<1>1. "beat" \in Kinds
  BY DEF Kinds
<1>2. QED
  BY <1>1 DEF Init, WorkerInit, BeatInv, BeatFollowsWorker, LoopsInStep

\* A step that creates no beat loop leaves those that have ended ended.
LEMMA NoNewBeat ==
  ASSUME TypeOK, NEW k \in Kinds, NEW w \in Workers, NEW p, Goto(k, w, p),
         k # "beat" \/ p = "done" \/ pc[k][w] # "done"
  PROVE  \A v \in Workers : pc'["beat"][v] # "done" => pc["beat"][v] # "done"
<1>1. "beat" \in Kinds
  BY DEF Kinds
<1>2. QED BY <1>1 DEF Goto, TypeOK, WorkerTypeOK

LEMMA BeatNext ==
  ASSUME TypeOK, BeatInv, [Next]_vars
  PROVE  BeatInv'
<1> DEFINE Kept == \A v \in Workers : pc'["beat"][v] # "done" => pc["beat"][v] # "done"
<1>1. {"start", "beat", "kick", "stop", "act"} \subseteq Kinds
  BY DEF Kinds
<1>2. ASSUME UNCHANGED pc PROVE Kept
  BY <1>2
<1>3. ASSUME NEW w \in Workers, StopBegin(w) PROVE Kept
  <2>1. \E p : Goto("stop", w, p)
    BY <1>3 DEF StopBegin
  <2>2. QED BY <1>1, <2>1, NoNewBeat
<1> USE DEF BeatInv, BeatFollowsWorker, LoopsInStep
<1>4. CASE PanelSetStatus
  BY <1>4 DEF PanelSetStatus, workerVars, taskVars
<1>5. CASE TickFetch
  BY <1>5 DEF TickFetch, workerVars, taskVars
<1>6. CASE TickStart
  <2>1. Kept
    BY <1>1, <1>6, NoNewBeat DEF TickStart
  <2>2. beatOf = None
    BY <1>6 DEF TickStart
  <2>3. QED BY <1>6, <2>1, <2>2 DEF TickStart
<1>7. CASE TickRefresh
  <2>1. UNCHANGED pc \/ \E p : Goto("kick", registered, p)
    BY <1>7 DEF TickRefresh
  <2>2. registered \in Workers
    BY <1>7 DEF TickRefresh, TypeOK
  <2>3. Kept
    BY <1>1, <2>1, <2>2, NoNewBeat
  <2>4. QED BY <1>7, <2>3 DEF TickRefresh
<1>8. CASE TickRemove
  <2>1. Kept
    BY <1>2, <1>3, <1>8 DEF TickRemove, TypeOK, workerVars, taskVars
  <2>2. tick' # "fetched" \/ main # "up"
    BY <1>8, MgrAssumption DEF TickRemove, TypeOK
  <2>3. QED BY <1>8, <2>1, <2>2 DEF TickRemove
<1>9. CASE TickEnd
  BY <1>9 DEF TickEnd, workerVars, taskVars
<1>10. CASE Reconcile
  <2>1. CASE registered # None /\ beatOf = None
    <3>1. Goto("beat", registered, "sleep") /\ beatOf' = registered
      BY <1>10, <2>1 DEF Reconcile
    <3>2. \A v \in Workers : pc'["beat"][v] # "done" => v = registered
      BY <1>1, <2>1, <3>1 DEF Goto, TypeOK, WorkerTypeOK
    <3>3. QED BY <1>10, <3>1, <3>2 DEF Reconcile
  <2>2. CASE registered = None /\ beatOf # None
    <3>1. Goto("beat", beatOf, "done") /\ beatOf' = None
      BY <1>10, <2>2 DEF Reconcile
    <3>2. \A v \in Workers : pc'["beat"][v] = "done"
      BY <1>1, <2>2, <3>1 DEF Goto, TypeOK, WorkerTypeOK
    <3>3. QED BY <1>10, <2>2, <3>1, <3>2 DEF Reconcile
  <2>3. CASE (registered = None) = (beatOf = None)
    <3>1. UNCHANGED <<beatOf, pc, registered>>
      BY <1>10, <2>3 DEF Reconcile
    <3>2. QED BY <1>10, <2>3, <3>1 DEF Reconcile
  <2>4. QED BY <2>1, <2>2, <2>3
<1>11. CASE ApiStop
  <2>1. Kept
    BY <1>3, <1>11 DEF ApiStop, TypeOK
  <2>2. QED BY <1>11, <2>1 DEF ApiStop, mgrVars
<1>12. CASE ApiAct
  <2>1. \E w \in Workers : \E p : Goto("act", w, p)
    BY <1>12 DEF ApiAct, ActBegin, TypeOK
  <2>2. Kept
    BY <1>1, <2>1, NoNewBeat
  <2>3. QED BY <1>12, <2>2 DEF ApiAct, mgrVars
<1>13. CASE ShutdownBeats
  BY <1>13, <1>1 DEF ShutdownBeats, Goto, TypeOK, WorkerTypeOK
<1>14. CASE ShutdownStopAll
  <2>1. Kept
    BY <1>2, <1>3, <1>14 DEF ShutdownStopAll, TypeOK, workerVars, taskVars
  <2>2. main # "up" /\ main' # "up" /\ UNCHANGED beatOf
    BY <1>14, MgrAssumption DEF ShutdownStopAll, TypeOK
  <2>3. registered' # None => beatOf' = None
    BY <2>2
  <2>4. QED BY <2>1, <2>2, <2>3
<1>15. CASE ShutdownClear
  <2>1. main # "up" /\ main' = "cleared" /\ UNCHANGED <<beatOf, pc>>
    BY <1>15, MgrAssumption DEF ShutdownClear, workerVars, taskVars
  <2>2. QED BY <2>1
<1>16. CASE Restart
  BY <1>1, <1>16 DEF Restart
<1>17. CASE WorkerStep /\ UNCHANGED mgrVars
  <2>1. PICK w \in Workers : BeatAges(w) \/ \E k \in Kinds : Step(k, w)
    BY <1>17 DEF WorkerStep
  <2>2. CASE BeatAges(w)
    BY <1>17, <2>2 DEF BeatAges, taskVars, mgrVars
  <2>3. CASE \E k \in Kinds : Step(k, w)
    <3>1. PICK k \in Kinds : \E p : MayGo(k, w, p)
      BY <2>3, StepGoes DEF TypeOK
    <3>2. Kept
      BY <3>1, NoNewBeat DEF MayGo
    <3>3. QED BY <1>17, <3>2 DEF mgrVars
  <2>4. QED BY <2>1, <2>2, <2>3
<1>18. CASE UNCHANGED vars
  BY <1>18 DEF vars, workerVars, taskVars, mgrVars
<1>19. QED
  BY <1>4, <1>5, <1>6, <1>7, <1>8, <1>9, <1>10, <1>11, <1>12, <1>13, <1>14,
     <1>15, <1>16, <1>17, <1>18 DEF Next, Supervisor, Shutdown

\* heartbeat.py:3 and 62-75: there is never a beat loop of another worker than
\* the one that is registered, whatever fails and however long a tick takes.
THEOREM BeatLoopsFollowWorkers == Spec => []BeatFollowsWorker
<1>1. TypeOK /\ BeatInv /\ [Next]_vars => BeatInv'
  BY BeatNext
<1>2. BeatInv => BeatFollowsWorker
  BY DEF BeatInv
<1>3. QED BY BeatInit, <1>1, <1>2, TypeCorrect, PTL DEF Spec
----------------------------------------------------------------------------
(***************************************************************************)
(* A worker's first login is alone: until start() has a session, no other  *)
(* coroutine of the worker finds one to recover.                           *)
(***************************************************************************)
\* Where start() waits before it has got a session, without one from Redis.
Fresh == {"new", "startMirror", "hgetall", "loop", "backoff", "login"}

LoginAlone(w) ==
  stage[w] = "login" =>
    /\ pc["start"][w] \in Fresh \cup {"adoptMirror", "errorMirror", "done"}
    /\ pc["start"][w] \in Fresh =>
         /\ ~captured[w] /\ ~http[w]
         /\ status[w] \notin {"ready", "paused"}
         /\ pc["beat"][w] \in {"done", "sleep"}
         /\ pc["kick"][w] \in {"done", "new"}

\* A worker that was not constructed yet has no session and no coroutine.
Unmade(w) ==
  /\ ~captured[w] /\ ~http[w]
  /\ status[w] = "logging_in"
  /\ \A k \in Kinds : pc[k][w] = "done"

LoginInv ==
  /\ registered # None => registered \in made
  /\ beatOf # None => beatOf \in made
  /\ \A w \in Workers \ made : Unmade(w)
  /\ \A w \in Workers : LoginAlone(w)

\* What Goto does to every coroutine.
LEMMA GotoAt ==
  ASSUME WorkerTypeOK, NEW k \in Kinds, NEW w \in Workers, NEW p, Goto(k, w, p)
  PROVE  /\ pc'[k][w] = p
         /\ \A j \in Kinds, v \in Workers :
              j # k \/ v # w => pc'[j][v] = pc[j][v]
  BY DEF WorkerTypeOK, Goto

\* The fields of a worker on which the invariants of this module rest.
SameFields(v) ==
  /\ status'[v] = status[v] /\ captured'[v] = captured[v]
  /\ http'[v] = http[v] /\ lastBeat'[v] = lastBeat[v]
  /\ stopped'[v] = stopped[v] /\ stage'[v] = stage[v]

\* A coroutine of one worker leaves the other workers alone.
LEMMA StepFrame ==
  ASSUME WorkerTypeOK, NEW k \in Kinds, NEW w \in Workers, Step(k, w),
         NEW v \in Workers, v # w
  PROVE  SameFields(v)
<1> USE DEF SameFields, WorkerTypeOK
<1>1. ASSUME NEW f, NEW c, NEW h, Return(k, w, f, c, h)
      PROVE  captured'[v] = captured[v] /\ stage'[v] = stage[v]
  BY <1>1 DEF Return
<1>2. ASSUME NEW n, NEW f, NEW c, NEW h, EnterLoop(k, w, n, f, c, h)
      PROVE  captured'[v] = captured[v] /\ stage'[v] = stage[v] /\ status'[v] = status[v]
  BY <1>1, <1>2 DEF EnterLoop, SetStatus
<1>3. ASSUME InstallClient(k, w)
      PROVE  http'[v] = http[v] /\ lastBeat'[v] = lastBeat[v] /\ status'[v] = status[v]
  BY <1>3 DEF InstallClient, SetStatus
<1>4. ASSUME Adopt(k, w)
      PROVE  /\ http'[v] = http[v] /\ lastBeat'[v] = lastBeat[v]
             /\ status'[v] = status[v] /\ captured'[v] = captured[v]
  BY <1>3, <1>4 DEF Adopt
<1>5. CASE k = "start" /\ (\/ StartBegin(w) \/ StartMirrored(w) \/ ReadRedis(w)
                           \/ ResumeClosed(w) \/ StartLogin(w))
  <2>1. CASE StartBegin(w) \/ StartMirrored(w) \/ ResumeClosed(w)
    BY <2>1 DEF StartBegin, StartMirrored, ResumeClosed, fieldVars, SetStatus
  <2>2. CASE ReadRedis(w)
    BY <1>4, <1>5, <2>2 DEF ReadRedis, fieldVars
  <2>3. CASE StartLogin(w)
    BY <1>2, <1>5, <2>3 DEF StartLogin
  <2>4. QED BY <1>5, <2>1, <2>2, <2>3
<1>6. CASE \/ HeartbeatBegin(k, w) \/ HeartbeatOk(k, w) \/ HeartbeatRaises(k, w)
           \/ BackoffOver(k, w)
  BY <1>6 DEF HeartbeatBegin, HeartbeatOk, HeartbeatRaises, BackoffOver, fieldVars
<1>7. CASE HeartbeatMirrored(k, w) \/ ErrorMirrored(k, w)
  BY <1>1, <1>7 DEF HeartbeatMirrored, ErrorMirrored
<1>8. CASE HeartbeatExpired(k, w)
  <2>1. captured'[v] = captured[v] /\ stage'[v] = stage[v] /\ status'[v] = status[v]
    BY <1>1, <1>2, <1>8 DEF HeartbeatExpired
  <2>2. QED BY <1>8, <2>1 DEF HeartbeatExpired
<1>9. CASE RecoverClosed(k, w) \/ LoginFails(k, w)
  BY <1>2, <1>9 DEF RecoverClosed, LoginFails
<1>10. CASE LoginSucceeds(k, w)
  BY <1>4, <1>10 DEF LoginSucceeds
<1>11. CASE AdoptClosed(k, w)
  BY <1>3, <1>11 DEF AdoptClosed
<1>12. CASE AdoptMirrored(k, w)
  BY <1>1, <1>12 DEF AdoptMirrored
<1>13. CASE k = "stop" /\ (\/ StopLogoutSent(w) \/ StopClosed(w)
                           \/ StopMirrored(w) \/ StopDeleted(w))
  BY <1>13 DEF StopLogoutSent, StopClosed, StopMirrored, StopDeleted, LogOut,
               SetStatus, fieldVars
<1>14. CASE k = "act" /\ (ActOk(w) \/ ActExpired(w) \/ ActMirrored(w))
  BY <1>14 DEF ActOk, ActExpired, ActMirrored, fieldVars
<1>15. QED
  BY <1>5, <1>6, <1>7, <1>8, <1>9, <1>10, <1>11, <1>12, <1>13, <1>14 DEF Step

\* session_worker.py:233-343: the login of start() goes on alone.
LEMMA LoginAloneStep ==
  ASSUME WorkerTypeOK, NEW w \in Workers, NEW k \in Kinds, Step(k, w),
         LoginAlone(w)
  PROVE  LoginAlone(w)'
<1> SUFFICES ASSUME stage'[w] = "login"
             PROVE  LoginAlone(w)'
  BY DEF LoginAlone
<1> USE DEF LoginAlone, Fresh
<1>0. {"start", "beat", "kick", "stop", "act"} = Kinds
  BY DEF Kinds
<1>1. ASSUME NEW p, Goto(k, w, p)
      PROVE  /\ pc'[k][w] = p
             /\ \A j \in Kinds : j # k => pc'[j][w] = pc[j][w]
  BY <1>1, GotoAt
<1>2. ASSUME k = "start", stage[w] = "login", NEW f, NEW c, NEW h,
             Return(k, w, f, c, h)
      PROVE  pc'["start"][w] = "done"
  BY <1>1, <1>2 DEF Return
<1>3. ASSUME k = "start", stage[w] = "login", NEW n, NEW f, NEW h, ~captured[w],
             EnterLoop(k, w, n, f, captured[w], h)
      PROVE  \/ pc'["start"][w] \in {"done", "errorMirror"}
             \/ /\ pc'["start"][w] \in {"login", "backoff"}
                /\ ~captured'[w] /\ status'[w] = status[w]
                /\ \A j \in Kinds : j # k => pc'[j][w] = pc[j][w]
  <2>1. CASE \/ SetStatus(w, "error") /\ Goto(k, w, "errorMirror")
             \/ Return(k, w, f, captured[w], h)
    BY <1>1, <1>2, <1>3, <2>1
  <2>2. CASE \E p \in {"login", "backoff"} :
               /\ Goto(k, w, p)
               /\ captured' = [captured EXCEPT ![w] = captured[w]]
               /\ UNCHANGED status
    BY <1>1, <1>3, <2>2 DEF WorkerTypeOK
  <2>3. QED BY <1>3, <2>1, <2>2 DEF EnterLoop
<1>4. CASE k = "start"
  <2>1. CASE \/ StartBegin(w) \/ StartMirrored(w) \/ ReadRedis(w)
             \/ ResumeClosed(w) \/ StartLogin(w)
    <3>1. stage[w] = "login"
      BY <1>4, <2>1 DEF StartBegin, StartMirrored, ReadRedis, ResumeClosed, StartLogin,
           EnterLoop, Return, WorkerTypeOK
    <3>2. CASE StartBegin(w)
      BY <1>0, <1>1, <1>4, <3>1, <3>2 DEF StartBegin, SetStatus, WorkerTypeOK
    <3>3. CASE StartMirrored(w)
      BY <1>0, <1>1, <1>4, <3>1, <3>3 DEF StartMirrored, fieldVars
    <3>4. CASE ReadRedis(w)
      <4>1. Goto("start", w, "loop") /\ UNCHANGED fieldVars
        BY <3>1, <3>4 DEF ReadRedis, WorkerTypeOK
      <4>2. QED BY <1>0, <1>1, <1>4, <3>1, <3>4, <4>1 DEF ReadRedis, fieldVars
    <3>5. CASE ResumeClosed(w)
      BY <3>1, <3>5 DEF ResumeClosed
    <3>6. CASE StartLogin(w)
      BY <1>0, <1>3, <1>4, <3>1, <3>6 DEF StartLogin
    <3>7. QED BY <2>1, <3>2, <3>3, <3>4, <3>5, <3>6
  <2>2. CASE \/ HeartbeatBegin(k, w) \/ HeartbeatOk(k, w) \/ HeartbeatMirrored(k, w)
             \/ HeartbeatExpired(k, w) \/ HeartbeatRaises(k, w)
             \/ RecoverClosed(k, w)
    <3>1. stage[w] = "login"
      BY <1>4, <2>2 DEF HeartbeatBegin, HeartbeatOk, HeartbeatMirrored, HeartbeatExpired,
           HeartbeatRaises, RecoverClosed, EnterLoop, Return, WorkerTypeOK
    <3>2. pc["start"][w] \in {"hbSend", "hbMirror", "recoverClose"}
      BY <1>4, <2>2 DEF HeartbeatBegin, HeartbeatOk, HeartbeatMirrored,
           HeartbeatExpired, HeartbeatRaises, RecoverClosed
    <3>3. QED BY <3>1, <3>2
  <2>3. CASE \/ BackoffOver(k, w) \/ LoginFails(k, w) \/ LoginSucceeds(k, w)
             \/ AdoptClosed(k, w)
    <3>1. stage[w] = "login"
      BY <1>4, <2>3 DEF BackoffOver, LoginFails, LoginSucceeds, AdoptClosed, EnterLoop,
           Return, WorkerTypeOK
    <3>2. CASE BackoffOver(k, w)
      BY <1>0, <1>1, <1>4, <3>1, <3>2 DEF BackoffOver, fieldVars
    <3>3. CASE LoginFails(k, w)
      BY <1>0, <1>3, <1>4, <3>1, <3>3 DEF LoginFails
    <3>4. CASE LoginSucceeds(k, w)
      <4>1. Goto(k, w, "adoptMirror")
        BY <1>4, <3>1, <3>4 DEF LoginSucceeds, Adopt, InstallClient
      <4>2. QED BY <1>1, <1>4, <4>1
    <3>5. CASE AdoptClosed(k, w)
      BY <1>4, <3>1, <3>5 DEF AdoptClosed
    <3>6. QED BY <2>3, <3>2, <3>3, <3>4, <3>5
  <2>4. CASE AdoptMirrored(k, w) \/ ErrorMirrored(k, w)
    <3>1. stage[w] = "login"
      BY <1>4, <2>4 DEF AdoptMirrored, ErrorMirrored, Return, WorkerTypeOK
    <3>2. Return(k, w, failures[w], captured[w], http[w])
      BY <2>4, <3>1 DEF AdoptMirrored, ErrorMirrored
    <3>3. QED BY <1>2, <1>4, <3>1, <3>2
  <2>5. QED BY <1>4, <2>1, <2>2, <2>3, <2>4 DEF Step
<1>5. CASE k \in {"beat", "kick"}
  <2>1. PICK p : Goto(k, w, p) /\ pc[k][w] # "done"
    BY StepGoes DEF MayGo
  <2>2. pc'["start"][w] = pc["start"][w]
    BY <1>0, <1>1, <1>5, <2>1
  <2>3. stage[w] = "login"
    BY <1>5 DEF Step, HeartbeatBegin, HeartbeatOk, HeartbeatMirrored, HeartbeatExpired,
         HeartbeatRaises, RecoverClosed, BackoffOver, LoginFails, LoginSucceeds,
         AdoptClosed, AdoptMirrored, ErrorMirrored, EnterLoop, Return, WorkerTypeOK
  <2>4. CASE pc["start"][w] \notin Fresh
    BY <2>2, <2>3, <2>4
  <2>5. CASE pc["start"][w] \in Fresh
    <3>1. ~captured[w] /\ pc[k][w] \in {"sleep", "new", "done"}
      BY <1>5, <2>3, <2>5
    <3>2. HeartbeatBegin(k, w)
      BY <1>5, <3>1 DEF Step, HeartbeatBegin, HeartbeatOk, HeartbeatMirrored,
           HeartbeatExpired, HeartbeatRaises, RecoverClosed, BackoffOver, LoginFails,
           LoginSucceeds, AdoptClosed, AdoptMirrored, ErrorMirrored
    <3>3. k = "kick" /\ Goto(k, w, "done") /\ UNCHANGED fieldVars
      BY <1>5, <3>1, <3>2 DEF HeartbeatBegin
    <3>4. QED BY <1>0, <1>1, <2>2, <2>3, <2>5, <3>3 DEF fieldVars
  <2>6. QED BY <2>4, <2>5
<1>6. CASE k = "stop"
  <2>1. PICK p : Goto(k, w, p)
    BY StepGoes DEF MayGo
  <2>2. /\ UNCHANGED <<stage, captured>>
        /\ http'[w] = http[w] \/ ~http'[w]
        /\ status'[w] \in {status[w], "logged_out"}
    BY <1>6 DEF Step, Loggers, StopLogoutSent, StopClosed, StopMirrored, StopDeleted,
         LogOut, SetStatus, fieldVars, WorkerTypeOK
  <2>3. QED BY <1>0, <1>1, <1>6, <2>1, <2>2
<1>7. CASE k = "act"
  <2>1. PICK p : Goto(k, w, p)
    BY StepGoes DEF MayGo
  <2>2. /\ UNCHANGED <<stage, captured, http>>
        /\ http[w] \/ UNCHANGED status
    BY <1>7 DEF Step, Loggers, ActOk, ActExpired, ActMirrored, fieldVars
  <2>3. QED BY <1>0, <1>1, <1>7, <2>1, <2>2
<1>8. QED BY <1>0, <1>4, <1>5, <1>6, <1>7

LEMMA LoginInit == Init => LoginInv
<1>1. {"start", "beat", "kick", "stop", "act"} = Kinds
  BY DEF Kinds
<1>2. QED
  BY <1>1 DEF Init, WorkerInit, LoginInv, LoginAlone, Unmade, Fresh

\* A call of stop() leaves the invariant's fields of every worker as they are,
\* but for the status of the one it stops.
LEMMA StopBeginFrame ==
  ASSUME WorkerTypeOK, NEW w \in Workers, StopBegin(w)
  PROVE  /\ UNCHANGED <<captured, http, lastBeat, stage>>
         /\ stopped'[w]
         /\ \A v \in Workers : status'[v] \in {status[v], "logged_out"}
         /\ \A v \in Workers : v # w => SameFields(v)
         /\ \A j \in Kinds, v \in Workers :
              j # "stop" \/ v # w => pc'[j][v] = pc[j][v]
<1>1. "stop" \in Kinds
  BY DEF Kinds
<1>2. PICK p : Goto("stop", w, p)
  BY DEF StopBegin
<1>3. QED
  BY <1>1, <1>2, GotoAt DEF StopBegin, LogOut, SetStatus, SameFields, WorkerTypeOK

LEMMA LoginNext ==
  ASSUME TypeOK, LoginInv, [Next]_vars
  PROVE  LoginInv'
<1> DEFINE Same == UNCHANGED <<pc, stage, captured, http, status>>
           Alone == \A w \in Workers \ made : Unmade(w)
           Only == \A w \in Workers : LoginAlone(w)
<1>0. WorkerTypeOK /\ {"start", "beat", "kick", "stop", "act"} = Kinds
  BY DEF TypeOK, Kinds
<1>1. ASSUME Same PROVE /\ \A w \in Workers : LoginAlone(w)'
                        /\ \A w \in Workers \ made : Unmade(w)'
  BY <1>1 DEF LoginInv, LoginAlone, Unmade
\* The step of one coroutine of a registered worker into a place outside its
\* login: the invariant of that worker does not speak of it.
<1>2. ASSUME NEW k \in Kinds, NEW w \in made, NEW p, Goto(k, w, p),
             UNCHANGED <<stage, captured, http, status>>,
             \/ k \in {"stop", "act"} \/ p = "done" \/ p = pc[k][w]
             \/ k = "kick" /\ p = "new"
             \/ k = "beat" /\ p = "sleep"
      PROVE  /\ \A v \in Workers : LoginAlone(v)'
             /\ \A v \in Workers \ made : Unmade(v)'
  <2>1. w \in Workers
    BY DEF TypeOK
  <2>2. /\ pc'[k][w] = p
        /\ \A j \in Kinds, v \in Workers : j # k \/ v # w => pc'[j][v] = pc[j][v]
    BY <1>0, <1>2, <2>1, GotoAt
  <2>3. \A v \in Workers : LoginAlone(v)'
    BY <1>0, <1>2, <2>1, <2>2 DEF LoginInv, LoginAlone, Fresh
  <2>4. \A v \in Workers \ made : Unmade(v)'
    BY <1>0, <1>2, <2>1, <2>2 DEF LoginInv, Unmade
  <2>5. QED BY <2>3, <2>4
<1>3. ASSUME NEW w \in made, StopBegin(w)
      PROVE  /\ \A v \in Workers : LoginAlone(v)'
             /\ \A v \in Workers \ made : Unmade(v)'
  <2>1. w \in Workers
    BY DEF TypeOK
  <2>2. /\ UNCHANGED <<captured, http, stage>>
        /\ \A v \in Workers : status'[v] \in {status[v], "logged_out"}
        /\ \A v \in Workers : v # w => status'[v] = status[v]
        /\ \A j \in Kinds, v \in Workers :
             j # "stop" \/ v # w => pc'[j][v] = pc[j][v]
    BY <1>0, <1>3, <2>1, StopBeginFrame DEF SameFields
  <2>3. \A v \in Workers : LoginAlone(v)'
    BY <1>0, <2>2 DEF LoginInv, LoginAlone, Fresh
  <2>4. \A v \in Workers \ made : Unmade(v)'
    BY <2>2 DEF LoginInv, Unmade
  <2>5. QED BY <2>3, <2>4
<1>4. CASE PanelSetStatus \/ TickFetch \/ TickEnd
  BY <1>1, <1>4 DEF PanelSetStatus, TickFetch, TickEnd, workerVars, taskVars,
                    fieldVars, LoginInv
<1>5. CASE TickStart
  <2>1. PICK w \in Workers \ made : /\ made' = made \cup {w}
                                    /\ registered' = w
                                    /\ Goto("start", w, "new")
    BY <1>5 DEF TickStart
  <2>2. /\ pc'["start"][w] = "new"
        /\ \A j \in Kinds, v \in Workers :
             j # "start" \/ v # w => pc'[j][v] = pc[j][v]
    BY <1>0, <2>1, GotoAt
  <2>3. UNCHANGED <<stage, captured, http, status, beatOf>>
    BY <1>5 DEF TickStart, fieldVars
  <2>4. \A v \in Workers : LoginAlone(v)'
    BY <1>0, <2>1, <2>2, <2>3 DEF LoginInv, LoginAlone, Fresh, Unmade
  <2>5. \A v \in Workers \ made' : Unmade(v)'
    BY <1>0, <2>1, <2>2, <2>3 DEF LoginInv, Unmade
  <2>6. QED BY <2>1, <2>3, <2>4, <2>5 DEF LoginInv
<1>6. CASE TickRefresh
  <2>1. UNCHANGED pc \/ \E p \in {"new", pc["kick"][registered]} :
                           Goto("kick", registered, p)
    BY <1>6 DEF TickRefresh
  <2>2. registered \in made
    BY <1>6 DEF TickRefresh, LoginInv
  <2>3. UNCHANGED <<stage, captured, http, status, made, registered, beatOf>>
    BY <1>6 DEF TickRefresh
  <2>4. QED BY <1>0, <1>1, <1>2, <2>1, <2>2, <2>3 DEF LoginInv
<1>7. CASE TickRemove \/ ApiStop \/ ShutdownStopAll
  <2>1. UNCHANGED workerVars \/ (registered \in made /\ StopBegin(registered))
    BY <1>7 DEF TickRemove, ApiStop, ShutdownStopAll, LoginInv
  <2>2. UNCHANGED <<made, beatOf>> /\ registered' \in {registered, None}
    BY <1>7 DEF TickRemove, ApiStop, ShutdownStopAll, mgrVars
  <2>3. QED
    BY <1>1, <1>3, <2>1, <2>2 DEF LoginInv, workerVars, taskVars, fieldVars
<1>8. CASE Reconcile
  <2>1. /\ UNCHANGED <<stage, captured, http, status, made, registered>>
        /\ \/ UNCHANGED <<beatOf, pc>>
           \/ /\ registered # None
              /\ beatOf' = registered /\ Goto("beat", registered, "sleep")
           \/ beatOf # None /\ beatOf' = None /\ Goto("beat", beatOf, "done")
    BY <1>8 DEF Reconcile, fieldVars
  <2>2. QED BY <1>0, <1>1, <1>2, <2>1 DEF LoginInv
<1>9. CASE ApiAct
  <2>1. registered \in made /\ \E p : Goto("act", registered, p)
    BY <1>9 DEF ApiAct, ActBegin, LoginInv
  <2>2. UNCHANGED <<stage, captured, http, status, made, registered, beatOf>>
    BY <1>9 DEF ApiAct, ActBegin, fieldVars, mgrVars
  <2>3. QED BY <1>0, <1>2, <2>1, <2>2 DEF LoginInv
<1>10. CASE ShutdownBeats
  <2>1. /\ UNCHANGED <<stage, captured, http, status, made, registered>>
        /\ beatOf' = None
        /\ UNCHANGED pc \/ (beatOf # None /\ Goto("beat", beatOf, "done"))
    BY <1>10 DEF ShutdownBeats, fieldVars
  <2>2. QED BY <1>0, <1>1, <1>2, <2>1 DEF LoginInv
<1>11. CASE ShutdownClear
  BY <1>1, <1>11 DEF ShutdownClear, workerVars, taskVars, fieldVars, LoginInv
<1>12. CASE Restart
  BY <1>0, <1>12 DEF Restart, LoginInv, LoginAlone, Unmade, Fresh
<1>13. CASE WorkerStep /\ UNCHANGED mgrVars
  <2>1. PICK w \in Workers : BeatAges(w) \/ \E k \in Kinds : Step(k, w)
    BY <1>13 DEF WorkerStep
  <2>2. UNCHANGED <<made, registered, beatOf>>
    BY <1>13 DEF mgrVars
  <2>3. CASE BeatAges(w)
    BY <1>1, <2>2, <2>3 DEF BeatAges, taskVars, LoginInv
  <2>4. CASE \E k \in Kinds : Step(k, w)
    <3>1. PICK k \in Kinds : Step(k, w)
      BY <2>4
    <3>2. PICK p : Goto(k, w, p) /\ pc[k][w] # "done"
      BY <1>0, <3>1, StepGoes DEF MayGo
    <3>3. w \in made
      BY <3>2 DEF LoginInv, Unmade
    <3>4. \A j \in Kinds, v \in Workers : v # w => pc'[j][v] = pc[j][v]
      BY <1>0, <3>2, GotoAt
    <3>5. \A v \in Workers : v # w => SameFields(v)
      BY <1>0, <3>1, StepFrame
    <3>6. LoginAlone(w)'
      BY <1>0, <3>1, LoginAloneStep DEF LoginInv
    <3>7. \A v \in Workers : LoginAlone(v)'
      BY <1>0, <3>4, <3>5, <3>6 DEF LoginInv, LoginAlone, SameFields
    <3>8. \A v \in Workers \ made : Unmade(v)'
      BY <3>3, <3>4, <3>5 DEF LoginInv, Unmade, SameFields
    <3>9. QED BY <2>2, <3>7, <3>8 DEF LoginInv
  <2>5. QED BY <2>1, <2>3, <2>4
<1>14. CASE UNCHANGED vars
  BY <1>1, <1>14 DEF vars, workerVars, taskVars, fieldVars, mgrVars, LoginInv
<1>15. QED
  BY <1>4, <1>5, <1>6, <1>7, <1>8, <1>9, <1>10, <1>11, <1>12, <1>13, <1>14
     DEF Next, Supervisor, Shutdown

\* session_worker.py:233-343: two logins of one worker run side by side only
\* after a resume from Redis, whoever may stop, kick, restart or remove it.
THEOREM FirstLoginIsAlone == Spec => []OneLoginPerWorker
<1>1. TypeOK /\ LoginInv /\ [Next]_vars => LoginInv'
  BY LoginNext
<1>2. LoginInv => OneLoginPerWorker
  BY DEF LoginInv, LoginAlone, OneLoginPerWorker, Fresh, LoginPcs
<1>3. QED BY LoginInit, <1>1, <1>2, TypeCorrect, PTL DEF Spec
----------------------------------------------------------------------------
(***************************************************************************)
(* A worker that calls itself ready can act, or is being given a session.  *)
(***************************************************************************)
\* After a login of its own, a worker with a client has a captured session,
\* and its beat loop logs in again only once the client is gone.
Handles(w) ==
  stage[w] = "login" =>
    /\ http[w] => captured[w]
    /\ pc["beat"][w] # "adoptClose"
    /\ pc["beat"][w] \in {"backoff", "login"} => ~http[w]

Ready(w) ==
  stage[w] = "login" /\ status[w] \in {"ready", "paused"} => UsableOrRecovering(w)

\* Only stop() runs in a stopped worker, or is left of an unregistered one; and
\* beats that come in time never bring a second heartbeat.
Stopping(w) ==
  /\ pc["stop"][w] # "done" => stopped[w]
  /\ pc["kick"][w] = "done" /\ lastBeat[w] # "stale"

ReadyInv ==
  /\ main = "up" /\ registered = None /\ beatOf # None => stopped[beatOf]
  /\ \A w \in Workers : Handles(w) /\ Stopping(w)
  /\ main = "up" => \A w \in Workers : Ready(w)

\* session_worker.py:233-266, after a login of the worker's own: the head of
\* the loop reports the error, gives up for stop(), or goes on.
LEMMA EnterLoopLogin ==
  ASSUME WorkerTypeOK, NEW k \in Loggers, NEW w \in Workers, stage[w] = "login",
         NEW n \in Nat, NEW f, NEW c \in BOOLEAN, NEW h, EnterLoop(k, w, n, f, c, h)
  PROVE  /\ captured' = [captured EXCEPT ![w] = c] /\ UNCHANGED stage
         /\ status'[w] \in {status[w], "error"}
         /\ \/ status'[w] = "error"
            \/ stopped[w]
            \/ pc'[k][w] \in {"login", "backoff"}
         /\ pc'[k][w] # "adoptClose"
         /\ stopped[w] => pc'[k][w] \notin {"login", "backoff"}
<1>1. k \in Kinds
  BY DEF Kinds, Loggers
<1>2. ASSUME NEW p, Goto(k, w, p) PROVE pc'[k][w] = p
  BY <1>1, <1>2, GotoAt
<1>3. CASE n > Backoffs
  <2>1. /\ Goto(k, w, "errorMirror") /\ SetStatus(w, "error")
        /\ captured' = [captured EXCEPT ![w] = c] /\ UNCHANGED stage
    BY <1>3 DEF EnterLoop
  <2>2. pc'[k][w] = "errorMirror" /\ status'[w] = "error"
    BY <1>2, <2>1 DEF SetStatus, WorkerTypeOK
  <2>3. QED BY <1>3, <2>1, <2>2
<1>4. CASE n <= Backoffs /\ stopped[w]
  <2>1. Return(k, w, f, c, h) /\ UNCHANGED status
    BY <1>4 DEF EnterLoop
  <2>2. PICK p \in {"sleep", "done"} :
          /\ Goto(k, w, p) /\ UNCHANGED stage
          /\ captured' = [captured EXCEPT ![w] = c]
    BY <2>1 DEF Return
  <2>3. pc'[k][w] \in {"sleep", "done"}
    BY <1>2, <2>2
  <2>4. QED BY <1>4, <2>1, <2>2, <2>3
<1>5. CASE n <= Backoffs /\ ~stopped[w]
  <2>1. PICK p \in {"login", "backoff"} :
          /\ Goto(k, w, p) /\ UNCHANGED <<stage, status>>
          /\ captured' = [captured EXCEPT ![w] = c]
    BY <1>5 DEF EnterLoop
  <2>2. pc'[k][w] \in {"login", "backoff"}
    BY <1>2, <2>1
  <2>3. QED BY <1>5, <2>1, <2>2
<1>6. QED BY <1>3, <1>4, <1>5 DEF EnterLoop

LEMMA HandlesStep ==
  ASSUME WorkerTypeOK, NEW w \in Workers, NEW k \in Kinds, Step(k, w),
         LoginAlone(w), Handles(w), Stopping(w)
  PROVE  /\ Handles(w)'
         /\ Ready(w) => Ready(w)'
<1> SUFFICES ASSUME stage'[w] = "login"
             PROVE  /\ Handles(w)'
                    /\ Ready(w) => Ready(w)'
  BY DEF Handles, Ready
<1> USE DEF Handles, Ready, UsableOrRecovering, LoginPcs
<1>0. {"start", "beat", "kick", "stop", "act"} = Kinds
      /\ Loggers = {"start", "beat", "kick"}
  BY DEF Kinds, Loggers
<1>1. PICK p : Goto(k, w, p) /\ pc[k][w] # "done"
  BY StepGoes DEF MayGo
<1>2. /\ pc'[k][w] = p
      /\ \A j \in Kinds : j # k => pc'[j][w] = pc[j][w]
  BY <1>1, GotoAt
\* A step that leaves the fields alone and is no part of a login.
<1>3. ASSUME k \in Loggers, stage[w] = "login", UNCHANGED <<status, http, stopped>>,
             captured'[w] = captured[w], pc[k][w] \notin LoginPcs,
             p \notin {"adoptClose", "backoff", "login"}
      PROVE  Handles(w)' /\ (Ready(w) => Ready(w)')
  BY <1>0, <1>2, <1>3
<1>4. CASE k = "start"
  <2>1. stage[w] = "login"
    BY <1>4 DEF Step, StartBegin, StartMirrored, ReadRedis, ResumeClosed, StartLogin,
         HeartbeatBegin, HeartbeatOk, HeartbeatMirrored, HeartbeatExpired,
         HeartbeatRaises, RecoverClosed, BackoffOver, LoginFails, LoginSucceeds,
         AdoptClosed, AdoptMirrored, ErrorMirrored, EnterLoop, Return, WorkerTypeOK
  <2>2. CASE pc["start"][w] \in Fresh
    <3>1. /\ ~captured[w] /\ ~http[w]
          /\ status[w] \notin {"ready", "paused"}
          /\ pc["beat"][w] \in {"done", "sleep"}
          /\ LoginAlone(w)'
      BY <2>1, <2>2, LoginAloneStep DEF LoginAlone
    <3>2. CASE pc'["start"][w] \in Fresh
      BY <1>0, <1>2, <1>4, <3>1, <3>2 DEF LoginAlone
    <3>3. CASE LoginSucceeds("start", w)
      <4>1. captured'[w] /\ http'[w]
        BY <3>1, <3>3 DEF LoginSucceeds, Adopt, InstallClient, WorkerTypeOK
      <4>2. QED BY <1>0, <1>2, <1>4, <3>1, <4>1
    <3>4. CASE StartLogin(w) \/ LoginFails("start", w)
      <4>1. /\ captured[w] \in BOOLEAN
            /\ att["start"][w] + 1 \in Nat
        BY <1>0 DEF WorkerTypeOK
      <4>2. PICK n \in Nat :
              EnterLoop("start", w, n, failures[w], captured[w], http[w])
        BY <3>4, <4>1 DEF StartLogin, LoginFails
      <4>3. /\ ~captured'[w]
            /\ status'[w] \in {"error", status[w]}
        BY <1>0, <2>1, <3>1, <4>1, <4>2, EnterLoopLogin DEF WorkerTypeOK
      <4>4. http' = http
        BY <3>4 DEF StartLogin, LoginFails
      <4>5. QED BY <1>0, <1>2, <1>4, <3>1, <4>3, <4>4
    <3>5. StartLogin(w) \/ LoginFails("start", w) \/ LoginSucceeds("start", w)
          \/ pc'["start"][w] \in Fresh
      <4>1. \/ StartLogin(w) \/ LoginFails("start", w) \/ LoginSucceeds("start", w)
            \/ StartBegin(w) \/ StartMirrored(w) \/ ReadRedis(w)
            \/ BackoffOver("start", w)
        BY <1>4, <2>2 DEF Fresh, Step, ResumeClosed, HeartbeatBegin, HeartbeatOk,
           HeartbeatMirrored, HeartbeatExpired, HeartbeatRaises, RecoverClosed,
           AdoptClosed, AdoptMirrored, ErrorMirrored
      <4>2. CASE StartBegin(w) \/ StartMirrored(w) \/ ReadRedis(w)
                 \/ BackoffOver("start", w)
        <5>1. PICK q \in Fresh : Goto("start", w, q)
          BY <2>1, <4>2 DEF Fresh, StartBegin, StartMirrored, ReadRedis, BackoffOver,
             WorkerTypeOK
        <5>2. QED BY <1>0, <5>1, GotoAt
      <4>3. QED BY <4>1, <4>2
    <3>6. QED BY <3>2, <3>3, <3>4, <3>5
  <2>3. CASE pc["start"][w] \notin Fresh
    <3>1. AdoptMirrored("start", w) \/ ErrorMirrored("start", w)
      BY <1>1, <1>4, <2>1, <2>3 DEF LoginAlone, Fresh, Step, StartBegin, StartMirrored,
         ReadRedis, ResumeClosed, StartLogin, HeartbeatBegin, HeartbeatOk,
         HeartbeatMirrored, HeartbeatExpired, HeartbeatRaises, RecoverClosed,
         BackoffOver, LoginFails, LoginSucceeds, AdoptClosed
    <3>2. Return("start", w, failures[w], captured[w], http[w])
      BY <2>1, <3>1 DEF AdoptMirrored, ErrorMirrored
    <3>3. captured'[w] = captured[w] /\ p = "done"
      <4>1. Goto("start", w, "done") /\ captured' = [captured EXCEPT ![w] = captured[w]]
        BY <2>1, <3>2 DEF Return
      <4>2. pc'["start"][w] = "done"
        BY <1>0, <4>1, GotoAt
      <4>3. QED BY <1>2, <1>4, <4>1, <4>2 DEF WorkerTypeOK
    <3>4. QED
      BY <1>0, <1>3, <1>4, <2>1, <3>1, <3>3 DEF AdoptMirrored, ErrorMirrored
  <2>4. QED BY <2>2, <2>3
<1>5. CASE k = "beat"
  <2>1. stage[w] = "login"
    BY <1>5 DEF Step, HeartbeatBegin, HeartbeatOk, HeartbeatMirrored, HeartbeatExpired,
         HeartbeatRaises, RecoverClosed, BackoffOver, LoginFails, LoginSucceeds,
         AdoptClosed, AdoptMirrored, ErrorMirrored, EnterLoop, Return, WorkerTypeOK
  <2>2. ASSUME NEW f, EnterLoop(k, w, 0, f, FALSE, FALSE), ~http'[w],
               UNCHANGED stopped
        PROVE  Handles(w)' /\ (Ready(w) => Ready(w)')
    <3>1. k \in Loggers /\ FALSE \in BOOLEAN /\ 0 \in Nat
      BY <1>0, <1>5
    <3>2. captured' = [captured EXCEPT ![w] = FALSE]
      BY <2>1, <2>2, <3>1, EnterLoopLogin
    <3>3. /\ pc'[k][w] # "adoptClose"
          /\ \/ status'[w] = "error" \/ stopped[w]
             \/ pc'[k][w] \in {"login", "backoff"}
      BY <2>1, <2>2, <3>1, EnterLoopLogin
    <3>4. ~captured'[w]
      BY <3>2 DEF WorkerTypeOK
    <3>5. QED BY <1>0, <1>2, <1>5, <2>2, <3>3, <3>4
  <2>3. CASE \/ HeartbeatBegin(k, w) \/ HeartbeatOk(k, w) \/ HeartbeatRaises(k, w)
    <3>1. /\ UNCHANGED <<status, captured, http, stopped>>
          /\ pc[k][w] \in {"sleep", "hbSend"}
          /\ p \in {"hbSend", "done", "hbMirror", "sleep"}
      BY <1>2, <1>5, <2>3, GotoAt DEF HeartbeatBegin, HeartbeatOk, HeartbeatRaises,
         fieldVars
    <3>2. QED BY <1>0, <1>3, <1>5, <2>1, <3>1
  <2>4. CASE HeartbeatMirrored(k, w) \/ AdoptMirrored(k, w) \/ ErrorMirrored(k, w)
    <3>1. Return(k, w, failures[w], captured[w], http[w])
      BY <1>5, <2>4 DEF HeartbeatMirrored, AdoptMirrored, ErrorMirrored
    <3>2. pc'[k][w] = "sleep" /\ captured'[w] = captured[w]
      BY <1>5, <3>1, GotoAt DEF Return, WorkerTypeOK
    <3>3. /\ UNCHANGED <<status, http, stopped>>
          /\ pc[k][w] \in {"hbMirror", "adoptMirror", "errorMirror"}
      BY <2>4 DEF HeartbeatMirrored, AdoptMirrored, ErrorMirrored
    <3>4. QED BY <1>0, <1>2, <1>3, <1>5, <2>1, <3>2, <3>3
  <2>5. CASE HeartbeatExpired(k, w)
    <3>1. /\ pc[k][w] = "hbSend" /\ UNCHANGED <<http, stopped>>
          /\ \/ /\ \E f : Return(k, w, f, captured[w], http[w])
                /\ UNCHANGED status
             \/ Goto(k, w, "recoverClose") /\ UNCHANGED <<status, captured>>
             \/ ~http[w] /\ \E f : EnterLoop(k, w, 0, f, FALSE, FALSE)
      BY <2>5 DEF HeartbeatExpired
    <3>2. CASE (\E f : Return(k, w, f, captured[w], http[w])) /\ UNCHANGED status
      <4>1. pc'[k][w] = "sleep" /\ captured'[w] = captured[w]
        BY <1>5, <3>2, GotoAt DEF Return, WorkerTypeOK
      <4>2. QED BY <1>0, <1>2, <1>3, <1>5, <2>1, <3>1, <3>2, <4>1
    <3>3. CASE Goto(k, w, "recoverClose") /\ UNCHANGED <<status, captured>>
      <4>1. pc'[k][w] = "recoverClose"
        BY <3>3, GotoAt
      <4>2. QED BY <1>0, <1>2, <1>5, <2>1, <3>1, <3>3, <4>1
    <3>4. CASE ~http[w] /\ \E f : EnterLoop(k, w, 0, f, FALSE, FALSE)
      <4>1. PICK f : EnterLoop(k, w, 0, f, FALSE, FALSE)
        BY <3>4
      <4>2. QED BY <2>2, <3>1, <3>4, <4>1
    <3>5. QED BY <3>1, <3>2, <3>3, <3>4
  <2>6. CASE RecoverClosed(k, w)
    <3>1. /\ ~http'[w] /\ UNCHANGED stopped
          /\ EnterLoop(k, w, 0, failures[w], FALSE, FALSE)
      BY <2>6 DEF RecoverClosed, WorkerTypeOK
    <3>2. QED BY <2>2, <3>1
  <2>7. CASE BackoffOver(k, w)
    <3>1. UNCHANGED fieldVars /\ pc[k][w] = "backoff" /\ pc'[k][w] = "login"
      BY <2>7, GotoAt DEF BackoffOver
    <3>2. QED BY <1>0, <1>2, <1>5, <2>1, <3>1 DEF fieldVars
  <2>8. CASE LoginFails(k, w)
    <3>1. /\ captured[w] \in BOOLEAN /\ att[k][w] + 1 \in Nat
          /\ UNCHANGED <<http, stopped>> /\ pc[k][w] = "login"
          /\ EnterLoop(k, w, att[k][w] + 1, failures[w], captured[w], http[w])
      BY <2>8 DEF LoginFails, WorkerTypeOK
    <3>2. /\ captured'[w] = captured[w] /\ pc'[k][w] # "adoptClose"
          /\ \/ status'[w] = "error" \/ stopped[w]
             \/ pc'[k][w] \in {"login", "backoff"}
      BY <1>0, <1>5, <2>1, <3>1, EnterLoopLogin DEF WorkerTypeOK
    <3>3. ~http[w]
      BY <1>5, <2>1, <3>1
    <3>4. QED BY <1>0, <1>2, <1>5, <3>1, <3>2, <3>3
  <2>9. CASE LoginSucceeds(k, w)
    <3>1. ~http[w]
      BY <1>5, <2>1, <2>9 DEF LoginSucceeds
    <3>2. captured'[w] /\ http'[w] /\ Goto(k, w, "adoptMirror")
      BY <2>9, <3>1 DEF LoginSucceeds, Adopt, InstallClient, WorkerTypeOK
    <3>3. pc'[k][w] = "adoptMirror"
      BY <3>2, GotoAt
    <3>4. QED BY <1>5, <3>2, <3>3
  <2>10. CASE AdoptClosed(k, w)
    BY <1>5, <2>1, <2>10 DEF AdoptClosed
  <2>11. QED
    BY <1>5, <2>3, <2>4, <2>5, <2>6, <2>7, <2>8, <2>9, <2>10 DEF Step
<1>6. CASE k = "kick"
  BY <1>1, <1>6 DEF Stopping
<1>7. CASE k = "stop"
  <2>1. /\ UNCHANGED <<stage, captured, stopped>> /\ stopped[w]
        /\ http'[w] = http[w] \/ ~http'[w]
    BY <1>1, <1>7 DEF Step, Loggers, StopLogoutSent, StopClosed, StopMirrored,
         StopDeleted, LogOut, SetStatus, fieldVars, WorkerTypeOK, Stopping
  <2>2. QED BY <1>0, <1>2, <1>7, <2>1
<1>8. CASE k = "act"
  <2>1. /\ UNCHANGED <<stage, captured, http, stopped>>
        /\ http[w] \/ UNCHANGED status
    BY <1>8 DEF Step, Loggers, ActOk, ActExpired, ActMirrored, fieldVars
  <2>2. QED BY <1>0, <1>2, <1>8, <2>1
<1>9. QED BY <1>0, <1>4, <1>5, <1>6, <1>7, <1>8

LEMMA ReadyInit == Init => ReadyInv
<1>1. {"start", "beat", "kick", "stop", "act"} = Kinds
  BY DEF Kinds
<1>2. QED
  BY <1>1 DEF Init, WorkerInit, ReadyInv, Handles, Ready, Stopping

\* A step that touches no field of the workers and no pc outside the quiet
\* ones keeps the three invariants of every worker.
LEMMA QuietKeeps ==
  ASSUME TypeOK, ReadyInv, NEW k \in Kinds, NEW w \in Workers, NEW p,
         UNCHANGED pc \/ Goto(k, w, p),
         UNCHANGED <<status, captured, http, lastBeat, stopped, stage>>,
         \/ k = "act"
         \/ k = "start" /\ pc["start"][w] \notin LoginPcs
         \/ k = "beat" /\ pc["beat"][w] \notin LoginPcs /\ p \in {"sleep", "done"}
  PROVE  /\ \A v \in Workers : Handles(v)' /\ Stopping(v)'
         /\ \A v \in Workers : Ready(v) => Ready(v)'
<1>0. /\ WorkerTypeOK
      /\ {"start", "beat", "kick", "stop", "act"} = Kinds
      /\ Loggers = {"start", "beat", "kick"}
  BY DEF TypeOK, Kinds, Loggers
<1>1. \A j \in Kinds, v \in Workers : j # k \/ v # w => pc'[j][v] = pc[j][v]
  BY <1>0, GotoAt
<1>2. pc'[k][w] \in {p, pc[k][w]}
  BY <1>0, GotoAt
<1>3. SUFFICES ASSUME NEW v \in Workers
               PROVE  /\ Handles(v)' /\ Stopping(v)'
                      /\ Ready(v) => Ready(v)'
  OBVIOUS
<1>4. Stopping(v)' /\ Handles(v)'
  BY <1>0, <1>1, <1>2 DEF ReadyInv, Stopping, Handles, LoginPcs
<1>5. Ready(v) => Ready(v)'
  BY <1>0, <1>1, <1>2 DEF Ready, UsableOrRecovering
<1>6. QED BY <1>4, <1>5

LEMMA StopKeeps ==
  ASSUME TypeOK, ReadyInv, NEW w \in Workers, StopBegin(w)
  PROVE  /\ \A v \in Workers : Handles(v)' /\ Stopping(v)'
         /\ \A v \in Workers : Ready(v) => Ready(v)'
         /\ stopped'[w]
         /\ \A v \in Workers : stopped[v] => stopped'[v]
<1>0. /\ WorkerTypeOK
      /\ {"start", "beat", "kick", "stop", "act"} = Kinds
      /\ Loggers = {"start", "beat", "kick"}
  BY DEF TypeOK, Kinds, Loggers
<1>1. /\ UNCHANGED <<captured, http, lastBeat, stage>>
      /\ stopped'[w]
      /\ \A v \in Workers : status'[v] \in {status[v], "logged_out"}
      /\ \A v \in Workers : v # w => SameFields(v)
      /\ \A j \in Kinds, v \in Workers :
           j # "stop" \/ v # w => pc'[j][v] = pc[j][v]
  BY <1>0, StopBeginFrame
<1>2. \A v \in Workers : Handles(v)' /\ Stopping(v)'
  BY <1>0, <1>1 DEF ReadyInv, Handles, Stopping, SameFields
<1>3. \A v \in Workers : Ready(v) => Ready(v)'
  BY <1>0, <1>1 DEF Ready, UsableOrRecovering, SameFields
<1>4. \A v \in Workers : stopped[v] => stopped'[v]
  BY <1>1 DEF SameFields
<1>5. QED BY <1>1, <1>2, <1>3, <1>4

LEMMA ReadyNext ==
  ASSUME ~StaleBeats, TypeOK, BeatInv, LoginInv, ReadyInv, [Next]_vars
  PROVE  ReadyInv'
<1> DEFINE Kept == /\ \A v \in Workers : Handles(v)' /\ Stopping(v)'
                   /\ \A v \in Workers : Ready(v) => Ready(v)'
           Left == main = "up" /\ registered = None /\ beatOf # None
                     => stopped[beatOf]
<1>0. /\ WorkerTypeOK
      /\ {"start", "beat", "kick", "stop", "act"} = Kinds
      /\ Loggers = {"start", "beat", "kick"}
  BY DEF TypeOK, Kinds, Loggers
<1>1. ASSUME UNCHANGED workerVars PROVE Kept /\ UNCHANGED stopped
  BY <1>1 DEF workerVars, fieldVars, taskVars, ReadyInv, Handles, Stopping, Ready,
              UsableOrRecovering
<1>2. ASSUME Kept, Left', main' = "up" => main = "up"
      PROVE  ReadyInv'
  BY <1>2 DEF ReadyInv
<1>3. CASE PanelSetStatus \/ TickFetch \/ TickEnd
  <2>1. UNCHANGED <<workerVars, registered, beatOf, main>>
    BY <1>3 DEF PanelSetStatus, TickFetch, TickEnd
  <2>2. QED BY <1>1, <1>2, <2>1 DEF ReadyInv
<1>4. CASE TickStart
  <2>1. PICK w \in Workers \ made : registered' = w /\ Goto("start", w, "new")
    BY <1>4 DEF TickStart
  <2>2. UNCHANGED <<status, captured, http, lastBeat, stopped, stage, main>>
    BY <1>4 DEF TickStart, fieldVars
  <2>3. pc["start"][w] = "done"
    BY <1>0, <2>1 DEF LoginInv, Unmade
  <2>4. Kept
    BY <1>0, <2>1, <2>2, <2>3, QuietKeeps DEF LoginPcs
  <2>5. registered' # None
    BY <2>1
  <2>6. QED BY <1>2, <2>2, <2>4, <2>5
<1>5. CASE TickRefresh
  <2>1. lastBeat[registered] # "stale"
    BY <1>5 DEF TickRefresh, TypeOK, ReadyInv, Stopping
  <2>2. UNCHANGED <<pc, status, captured, http, lastBeat, stopped, stage>>
        /\ UNCHANGED <<registered, beatOf, main>>
    BY <1>5, <2>1 DEF TickRefresh
  <2>3. Kept
    BY <2>2 DEF ReadyInv, Handles, Stopping, Ready, UsableOrRecovering
  <2>4. QED BY <1>2, <2>2, <2>3 DEF ReadyInv
<1>6. CASE TickRemove
  <2>1. /\ registered \in Workers /\ registered' = None
        /\ UNCHANGED <<beatOf, main>>
        /\ StopBegin(registered) \/ (stopped[registered] /\ UNCHANGED workerVars)
    BY <1>6 DEF TickRemove, TypeOK
  <2>2. Kept /\ stopped'[registered]
    BY <1>1, <2>1, StopKeeps
  <2>3. Left'
    BY <2>1, <2>2 DEF BeatInv, BeatFollowsWorker
  <2>4. QED BY <1>2, <2>1, <2>2, <2>3
<1>7. CASE Reconcile
  <2>1. UNCHANGED <<status, captured, http, lastBeat, stopped, stage, registered, main>>
    BY <1>7 DEF Reconcile, fieldVars
  <2>2. CASE registered # None /\ beatOf = None
    <3>1. registered \in Workers /\ Goto("beat", registered, "sleep")
      BY <1>7, <2>2 DEF Reconcile, TypeOK
    <3>2. pc["beat"][registered] = "done"
      BY <2>2, <3>1 DEF BeatInv, BeatFollowsWorker
    <3>3. Kept
      BY <1>0, <2>1, <3>1, <3>2, QuietKeeps DEF LoginPcs
    <3>4. QED BY <1>2, <2>1, <2>2, <3>3
  <2>3. CASE registered = None /\ beatOf # None
    <3>1. beatOf \in Workers /\ Goto("beat", beatOf, "done") /\ beatOf' = None
      BY <1>7, <2>3 DEF Reconcile, TypeOK
    <3>2. main = "up" /\ stopped[beatOf]
      BY <1>7, <2>3 DEF Reconcile, ReadyInv
    <3>3. /\ pc'["beat"][beatOf] = "done"
          /\ \A j \in Kinds, v \in Workers :
               j # "beat" \/ v # beatOf => pc'[j][v] = pc[j][v]
      BY <1>0, <3>1, GotoAt
    <3>4. \A v \in Workers : Handles(v)' /\ Stopping(v)'
      BY <1>0, <2>1, <3>3 DEF ReadyInv, Handles, Stopping
    <3>5. \A v \in Workers : Ready(v) => Ready(v)'
      BY <1>0, <2>1, <3>2, <3>3 DEF Ready, UsableOrRecovering
    <3>6. QED BY <1>2, <2>1, <3>1, <3>4, <3>5
  <2>4. CASE (registered = None) = (beatOf = None)
    <3>1. UNCHANGED <<beatOf, pc>>
      BY <1>7, <2>4 DEF Reconcile
    <3>2. Kept
      BY <2>1, <3>1 DEF ReadyInv, Handles, Stopping, Ready, UsableOrRecovering
    <3>3. QED BY <1>2, <2>1, <3>1, <3>2 DEF ReadyInv
  <2>5. QED BY <2>2, <2>3, <2>4
<1>8. CASE ApiStop
  <2>1. registered \in Workers /\ StopBegin(registered) /\ UNCHANGED mgrVars
    BY <1>8 DEF ApiStop, TypeOK
  <2>2. Kept /\ \A v \in Workers : stopped[v] => stopped'[v]
    BY <2>1, StopKeeps
  <2>3. QED BY <1>2, <2>1, <2>2 DEF ReadyInv, mgrVars, TypeOK
<1>9. CASE ApiAct
  <2>1. PICK p : registered \in Workers /\ Goto("act", registered, p)
    BY <1>9 DEF ApiAct, ActBegin, TypeOK
  <2>2. UNCHANGED <<status, captured, http, lastBeat, stopped, stage>>
    BY <1>9 DEF ApiAct, ActBegin, fieldVars
  <2>3. UNCHANGED <<registered, beatOf, main>>
    BY <1>9 DEF ApiAct, mgrVars
  <2>4. Kept
    BY <1>0, <2>1, <2>2, QuietKeeps
  <2>5. QED BY <1>2, <2>2, <2>3, <2>4 DEF ReadyInv
<1>10. CASE ShutdownBeats
  <2>1. /\ UNCHANGED <<status, captured, http, lastBeat, stopped, stage>>
        /\ main' = "beatsStopped" /\ beatOf' = None
        /\ UNCHANGED pc \/ (beatOf \in Workers /\ Goto("beat", beatOf, "done"))
    BY <1>10 DEF ShutdownBeats, fieldVars, TypeOK
  <2>2. /\ \A v \in Workers : pc'["beat"][v] \in {"done", pc["beat"][v]}
        /\ \A j \in Kinds \ {"beat"}, v \in Workers : pc'[j][v] = pc[j][v]
    BY <1>0, <2>1, GotoAt
  <2>3. \A v \in Workers : Handles(v)' /\ Stopping(v)'
    BY <1>0, <2>1, <2>2 DEF ReadyInv, Handles, Stopping
  <2>4. QED BY <2>1, <2>3 DEF ReadyInv
<1>11. CASE ShutdownStopAll
  <2>1. /\ UNCHANGED workerVars \/ (registered \in Workers /\ StopBegin(registered))
        /\ main' # "up"
    BY <1>11 DEF ShutdownStopAll, TypeOK
  <2>2. \A v \in Workers : Handles(v)' /\ Stopping(v)'
    BY <1>1, <2>1, StopKeeps
  <2>3. QED BY <2>1, <2>2 DEF ReadyInv
<1>12. CASE ShutdownClear
  <2>1. UNCHANGED workerVars /\ main' = "cleared"
    BY <1>12 DEF ShutdownClear
  <2>2. QED BY <1>1, <2>1 DEF ReadyInv
<1>13. CASE Restart
  BY <1>0, <1>13 DEF Restart, ReadyInv, Handles, Stopping, Ready
<1>14. CASE WorkerStep /\ UNCHANGED mgrVars
  <2>1. PICK w \in Workers : \E k \in Kinds : Step(k, w)
    BY <1>14 DEF WorkerStep, BeatAges
  <2>2. PICK k \in Kinds : Step(k, w)
    BY <2>1
  <2>3. PICK p : Goto(k, w, p) /\ pc[k][w] # "done"
    BY <1>0, <2>2, StepGoes DEF MayGo
  <2>4. \A j \in Kinds, v \in Workers : j # k \/ v # w => pc'[j][v] = pc[j][v]
    BY <1>0, <2>3, GotoAt
  <2>5. \A v \in Workers : v # w => SameFields(v)
    BY <1>0, <2>2, StepFrame
  <2>6. Handles(w)' /\ (Ready(w) => Ready(w)')
    BY <1>0, <2>2, HandlesStep DEF LoginInv, ReadyInv
  <2>7. stopped' = stopped
    BY <2>2 DEF Step, StartBegin, StartMirrored, ReadRedis, ResumeClosed, StartLogin,
       HeartbeatBegin, HeartbeatOk, HeartbeatMirrored, HeartbeatExpired,
       HeartbeatRaises, RecoverClosed, BackoffOver, LoginFails, LoginSucceeds,
       AdoptClosed, AdoptMirrored, ErrorMirrored, StopLogoutSent, StopClosed,
       StopMirrored, StopDeleted, ActOk, ActExpired, ActMirrored, fieldVars
  <2>8. lastBeat'[w] \in {lastBeat[w], "fresh"}
    BY <1>0, <2>2 DEF Step, StartBegin, StartMirrored, ReadRedis, ResumeClosed, StartLogin,
       HeartbeatBegin, HeartbeatOk, HeartbeatMirrored, HeartbeatExpired,
       HeartbeatRaises, RecoverClosed, BackoffOver, LoginFails, LoginSucceeds,
       AdoptClosed, AdoptMirrored, ErrorMirrored, StopLogoutSent, StopClosed,
       StopMirrored, StopDeleted, ActOk, ActExpired, ActMirrored, fieldVars,
       Adopt, InstallClient, WorkerTypeOK
  <2>9. Stopping(w)'
    BY <1>0, <2>3, <2>4, <2>7, <2>8 DEF ReadyInv, Stopping
  <2>10. \A v \in Workers : v # w => Handles(v)' /\ Stopping(v)' /\ (Ready(v) => Ready(v)')
    BY <1>0, <2>4, <2>5
       DEF ReadyInv, Handles, Stopping, Ready, UsableOrRecovering, SameFields
  <2>11. Kept
    BY <2>6, <2>9, <2>10
  <2>12. QED BY <1>2, <1>14, <2>7, <2>11 DEF ReadyInv, mgrVars
<1>15. CASE UNCHANGED vars
  BY <1>1, <1>2, <1>15 DEF vars, mgrVars, ReadyInv
<1>16. QED
  BY <1>3, <1>4, <1>5, <1>6, <1>7, <1>8, <1>9, <1>10, <1>11, <1>12, <1>13,
     <1>14, <1>15 DEF Next, Supervisor, Shutdown

\* session_worker.py:88-105, 233-266, 317-343: with beats that come in time,
\* a worker that logged in itself and calls itself ready or paused can act, is
\* about to be given a session, or was stopped.
THEOREM ReadyWorkersAct ==
  ASSUME ~StaleBeats
  PROVE  Spec => []ReadyIsUsable
<1>1. TypeOK /\ BeatInv /\ LoginInv /\ ReadyInv /\ [Next]_vars => ReadyInv'
  BY ReadyNext
<1>2. TypeOK /\ BeatInv /\ [Next]_vars => BeatInv'
  BY BeatNext
<1>3. TypeOK /\ LoginInv /\ [Next]_vars => LoginInv'
  BY LoginNext
<1>4. ReadyInv => ReadyIsUsable
  BY DEF ReadyInv, Ready, ReadyIsUsable
<1>5. QED
  BY BeatInit, LoginInit, ReadyInit, <1>1, <1>2, <1>3, <1>4, TypeCorrect, PTL DEF Spec
============================================================================
