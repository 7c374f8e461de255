--------------------------- MODULE SipCallsProofs ---------------------------
(***************************************************************************)
(* Theorems about SipCalls, for any number of calls and any backlog.       *)
(***************************************************************************)
EXTENDS SipCalls, TLAPS

USE CallsAssumption
----------------------------------------------------------------------------
(***************************************************************************)
(* What is known of a call by how far handle_invite has come.  An answered *)
(* call is still up when it is added: PJSIP's lock keeps its callbacks     *)
(* out, the reader finds nothing to hang up, and the shutdown's snapshot   *)
(* does not hold it.                                                       *)
(***************************************************************************)
Progress(c) ==
  /\ handler[c] = "none" => bridge[c] = "none"
  /\ handler[c] \notin {"add", "done"} => reply[c] = 0
  /\ handler[c] = "add" => reply[c] = 200 /\ dialog[c] = "confirmed"
  /\ c \in toHang => handler[c] = "done"
  /\ callback[c] # "idle" => handler[c] = "done"

Counted(c) ==
    One(c \in calls) + One(reader[c] \in {"hangup", "count"})
      + One(callback[c] = "count") + ended[c]
  = One(handler[c] = "done" /\ reply[c] = 200)

Refused(c) == handler[c] = "done" /\ reply[c] # 200 =>
                bridge[c] \notin {"listening", "connected"}

Live(c) == c \in calls => dialog[c] \in {"confirmed", "bye", "down"}

CallInv(c) == Progress(c) /\ Counted(c) /\ Refused(c) /\ Live(c)

Inv == TypeOK /\ \A c \in Calls : CallInv(c)

\* The invariant implies the properties that the runs check.
LEMMA InvImplies == Inv => CountedOnce /\ RefusedLeavesNoSocket /\ TrackedIsLive
  BY DEF Inv, CallInv, Counted, Refused, Live, CountedOnce,
         RefusedLeavesNoSocket, TrackedIsLive, TypeOK

LEMMA InvInit == Init => Inv
<1> SUFFICES ASSUME Init PROVE Inv
  OBVIOUS
<1>1. TypeOK
  <2>1. /\ handler \in [Calls -> {"none", "setup", "publish", "accept", "create",
                                 "control", "answer", "add", "done"}]
        /\ reply \in [Calls -> {0, 200, 500, 503}]
        /\ bridge \in [Calls -> {"none", "stale", "listening", "connected",
                                "closed"}]
        /\ quit \in [Calls -> BOOLEAN]
    BY DEF Init
  <2>2. /\ reader \in [Calls -> {"none", "check", "recv", "lost", "hangup",
                                "count", "over"}]
        /\ worker \in [Calls -> {"away", "on", "gone"}]
        /\ backlog \in [Calls -> 0..MaxBacklog]
        /\ dialog \in [Calls -> {"none", "early", "confirmed", "bye", "down",
                                "gone"}]
    BY DEF Init
  <2>3. /\ callback \in [Calls -> {"idle", "closed", "count", "over"}]
        /\ ended \in [Calls -> 0..1]
    BY DEF Init
  <2>4. QED BY <2>1, <2>2, <2>3 DEF Init, TypeOK
<1>2. ASSUME NEW c \in Calls PROVE CallInv(c)
  BY <1>2 DEF Init, CallInv, Progress, Counted, Refused, Live, One
<1>3. QED BY <1>1, <1>2 DEF Inv
----------------------------------------------------------------------------
(***************************************************************************)
(* A step of one call leaves the types, and the other calls alone.         *)
(***************************************************************************)
Others(c) ==
  \A d \in Calls \ {c} :
    /\ handler'[d] = handler[d] /\ reply'[d] = reply[d]
    /\ bridge'[d] = bridge[d] /\ reader'[d] = reader[d]
    /\ dialog'[d] = dialog[d] /\ callback'[d] = callback[d]
    /\ d \in calls' <=> d \in calls
    /\ ended'[d] = ended[d]
    /\ d \in toHang' <=> d \in toHang

LEMMA OthersKeep ==
  ASSUME Inv, NEW c \in Calls, Others(c)
  PROVE  \A d \in Calls \ {c} : CallInv(d)'
  BY DEF Inv, CallInv, Progress, Counted, Refused, Live, Others, One

LEMMA RejectType ==
  ASSUME TypeOK, NEW c \in Calls, NEW code \in {500, 503}, Reject(c, code)
  PROVE  /\ handler' \in [Calls -> {"none", "setup", "publish", "accept", "create",
                                  "control", "answer", "add", "done"}]
         /\ reply' \in [Calls -> {0, 200, 500, 503}]
         /\ dialog' \in [Calls -> {"none", "early", "confirmed", "bye", "down",
                                 "gone"}]
  BY DEF TypeOK, Reject, To

LEMMA CloseType ==
  ASSUME TypeOK, NEW c \in Calls, Close(c)
  PROVE  /\ bridge' \in [Calls -> {"none", "stale", "listening", "connected",
                                 "closed"}]
         /\ quit' \in [Calls -> BOOLEAN]
  BY DEF TypeOK, Close

LEMMA ToType ==
  ASSUME TypeOK, NEW c \in Calls,
         NEW p \in {"setup", "publish", "accept", "create", "control", "answer",
                    "add", "done"},
         To(c, p)
  PROVE  handler' \in [Calls -> {"none", "setup", "publish", "accept", "create",
                                "control", "answer", "add", "done"}]
  BY DEF TypeOK, To

\* call_handler.py:177-278: a step of handle_invite keeps the invariant.
LEMMA InviteKeeps ==
  ASSUME Inv, NEW c \in Calls, Invite(c) \/ HandleInvite(c)
  PROVE  Inv'
<1> USE DEF bridgeVars, mainVars
<1>0. TypeOK /\ CallInv(c)
  BY DEF Inv
<1>1. handler[c] # "done"
  BY DEF Invite, HandleInvite, SetupSocket, PublishRequest, AcceptWorker,
         CreateCall, SendControl, Answer, AddCall
<1>2. /\ c \notin calls /\ reader[c] \notin {"hangup", "count"}
      /\ callback[c] = "idle" /\ ended[c] = 0 /\ c \notin toHang
  BY <1>0, <1>1 DEF CallInv, Counted, Progress, One, TypeOK
<1>3. Progress(c)
  BY <1>0 DEF CallInv
<1>4. CASE Invite(c)
  <2>1. TypeOK'
    BY <1>0, <1>4, RejectType, CloseType, ToType DEF Invite, TypeOK
  <2>2. Others(c)
    BY <1>0, <1>4 DEF TypeOK, Invite, Reject, To, Others
  <2>3. CallInv(c)'
    <3>1. /\ handler'[c] \in {"setup", "done"}
          /\ handler'[c] = "done" => reply'[c] = 503
      BY <1>0, <1>4 DEF Invite, Reject, To, TypeOK
    <3>2. handler'[c] = "setup" => reply'[c] = 0
      BY <1>0, <1>3, <1>4 DEF Invite, Reject, To, TypeOK, Progress
    <3>3. /\ bridge[c] = "none" /\ bridge' = bridge /\ reader'[c] = reader[c]
          /\ callback'[c] = callback[c] /\ calls' = calls
          /\ ended' = ended /\ toHang' = toHang
      BY <1>3, <1>4 DEF Invite, Progress
    <3>4. QED
      BY <1>2, <3>1, <3>2, <3>3 DEF CallInv, Progress, Counted, Refused, Live, One
  <2>4. QED BY <2>1, <2>2, <2>3, OthersKeep DEF Inv
<1>5. CASE SetupSocket(c)
  <2>1. TypeOK'
    BY <1>0, <1>5, RejectType, CloseType, ToType DEF SetupSocket, TypeOK
  <2>2. Others(c)
    BY <1>0, <1>5 DEF TypeOK, SetupSocket, Reject, To, Others
  <2>3. CallInv(c)'
    BY <1>0, <1>2, <1>3, <1>5 DEF SetupSocket, Reject, To, CallInv, Progress, Counted,
                            Refused, Live, One, TypeOK
  <2>4. QED BY <2>1, <2>2, <2>3, OthersKeep DEF Inv
<1>6. CASE PublishRequest(c)
  <2>1. TypeOK'
    BY <1>0, <1>6, RejectType, CloseType, ToType DEF PublishRequest, TypeOK
  <2>2. Others(c)
    BY <1>0, <1>6 DEF TypeOK, PublishRequest, Close, Reject, To, Others
  <2>3. CallInv(c)'
    BY <1>0, <1>2, <1>3, <1>6 DEF PublishRequest, Close, Reject, To, CallInv, Progress,
                            Counted, Refused, Live, One, TypeOK
  <2>4. QED BY <2>1, <2>2, <2>3, OthersKeep DEF Inv
<1>7. CASE AcceptWorker(c)
  <2>1. TypeOK'
    BY <1>0, <1>7, RejectType, CloseType, ToType DEF AcceptWorker, TypeOK
  <2>2. Others(c)
    BY <1>0, <1>7 DEF TypeOK, AcceptWorker, Close, Reject, To, Others
  <2>3. CallInv(c)'
    BY <1>0, <1>2, <1>3, <1>7 DEF AcceptWorker, Close, Reject, To, CallInv, Progress,
                            Counted, Refused, Live, One, TypeOK
  <2>4. QED BY <2>1, <2>2, <2>3, OthersKeep DEF Inv
<1>8. CASE CreateCall(c)
  <2>1. TypeOK'
    BY <1>0, <1>8, RejectType, CloseType, ToType DEF CreateCall, TypeOK
  <2>2. Others(c)
    BY <1>0, <1>8 DEF TypeOK, CreateCall, Close, Reject, To, Others
  <2>3. CallInv(c)'
    BY <1>0, <1>2, <1>3, <1>8 DEF CreateCall, Close, Reject, To, CallInv, Progress,
                            Counted, Refused, Live, One, TypeOK
  <2>4. QED BY <2>1, <2>2, <2>3, OthersKeep DEF Inv
<1>9. CASE SendControl(c)
  <2>1. TypeOK'
    <3>1. quit' \in [Calls -> BOOLEAN]
      BY <1>0, <1>9 DEF SendControl, TypeOK
    <3>2. QED BY <1>0, <1>9, <3>1, ToType DEF SendControl, TypeOK
  <2>2. Others(c)
    BY <1>0, <1>9 DEF TypeOK, SendControl, To, Others
  <2>3. CallInv(c)'
    BY <1>0, <1>2, <1>3, <1>9 DEF SendControl, To, CallInv, Progress, Counted, Refused,
                            Live, One, TypeOK
  <2>4. QED BY <2>1, <2>2, <2>3, OthersKeep DEF Inv
<1>10. CASE Answer(c)
  <2>1. TypeOK'
    BY <1>0, <1>10, RejectType, CloseType, ToType DEF Answer, TypeOK
  <2>2. Others(c)
    BY <1>0, <1>10 DEF TypeOK, Answer, Close, To, Others
  <2>3. CallInv(c)'
    BY <1>0, <1>2, <1>3, <1>10 DEF Answer, Close, To, CallInv, Progress, Counted,
                             Refused, Live, One, TypeOK
  <2>4. QED BY <2>1, <2>2, <2>3, OthersKeep DEF Inv
<1>11. CASE AddCall(c)
  <2>1. TypeOK'
    BY <1>0, <1>11, RejectType, CloseType, ToType DEF AddCall, inviteVars, TypeOK
  <2>2. Others(c)
    BY <1>0, <1>11 DEF TypeOK, AddCall, To, Others, inviteVars
  <2>3. CallInv(c)'
    BY <1>0, <1>2, <1>3, <1>11 DEF AddCall, To, CallInv, Progress, Counted, Refused,
                             Live, One, TypeOK
  <2>4. QED BY <2>1, <2>2, <2>3, OthersKeep DEF Inv
<1>12. QED
  BY <1>4, <1>5, <1>6, <1>7, <1>8, <1>9, <1>10, <1>11 DEF HandleInvite

\* call_handler.py:83-89, 297-315; audio_bridge.py:310-330: the steps of the
\* environment, the reader and the callback keep the invariant.
LEMMA CallThreadsKeep ==
  ASSUME Inv, NEW c \in Calls,
         \/ Environment(c) \/ ByeAnswered(c) \/ Reader(c) \/ SendFails(c)
         \/ Callback(c)
  PROVE  Inv'
<1> USE DEF bridgeVars, mainVars, inviteVars, ReaderTo, CallbackTo
<1>1. TypeOK /\ CallInv(c)
  BY DEF Inv
<1>2. CASE WorkerConnects(c) \/ WorkerSends(c) \/ WorkerLeaves(c) \/ SendFails(c)
  <2>1. TypeOK'
    <3>1. CASE WorkerConnects(c) \/ WorkerLeaves(c)
      BY <1>1, <3>1 DEF WorkerConnects, WorkerLeaves, TypeOK
    <3>2. CASE WorkerSends(c)
      BY <1>1, <3>2 DEF WorkerSends, TypeOK
    <3>3. CASE SendFails(c)
      BY <1>1, <3>3 DEF SendFails, TypeOK
    <3>4. QED BY <1>2, <3>1, <3>2, <3>3
  <2>2. UNCHANGED <<inviteVars, bridge, reader, dialog, callback, calls, ended,
                    toHang>>
    BY <1>2 DEF WorkerConnects, WorkerSends, WorkerLeaves, SendFails
  <2>3. QED
    BY <2>1, <2>2 DEF Inv, CallInv, Progress, Counted, Refused, Live, One
<1>3. CASE DialogEnds(c) \/ ByeAnswered(c)
  <2>1. TypeOK'
    BY <1>1, <1>3 DEF DialogEnds, ByeAnswered, TypeOK
  <2>2. Others(c)
    BY <1>1, <1>3 DEF DialogEnds, ByeAnswered, Others, TypeOK
  <2>3. CallInv(c)'
    BY <1>1, <1>3 DEF DialogEnds, ByeAnswered, CallInv, Progress, Counted,
                      Refused, Live, One, TypeOK
  <2>4. QED BY <2>1, <2>2, <2>3, OthersKeep DEF Inv
<1>4. CASE ReaderChecks(c) \/ ReadFrame(c) \/ ReadEnd(c) \/ ReaderDies(c)
  <2>1. TypeOK'
    <3>1. CASE ReaderChecks(c) \/ ReadEnd(c) \/ ReaderDies(c)
      BY <1>1, <3>1 DEF ReaderChecks, ReadEnd, ReaderDies, TypeOK
    <3>2. CASE ReadFrame(c)
      BY <1>1, <3>2 DEF ReadFrame, TypeOK
    <3>3. QED BY <1>4, <3>1, <3>2
  <2>2. Others(c)
    BY <1>1, <1>4 DEF ReaderChecks, ReadFrame, ReadEnd, ReaderDies, Others, TypeOK
  <2>3. CallInv(c)'
    BY <1>1, <1>4 DEF ReaderChecks, ReadFrame, ReadEnd, ReaderDies, CallInv,
                      Progress, Counted, Refused, Live, One, TypeOK
  <2>4. QED BY <2>1, <2>2, <2>3, OthersKeep DEF Inv
<1>5. CASE WorkerHangup(c)
  <2>1. TypeOK'
    BY <1>1, <1>5 DEF WorkerHangup, TypeOK
  <2>2. Others(c)
    BY <1>1, <1>5 DEF WorkerHangup, Others, TypeOK
  <2>3. CallInv(c)'
    BY <1>1, <1>5 DEF WorkerHangup, CallInv, Progress, Counted, Refused, Live,
                      One, TypeOK
  <2>4. QED BY <2>1, <2>2, <2>3, OthersKeep DEF Inv
<1>6. CASE ReaderHangsUp(c)
  <2>1. handler[c] = "done" /\ c \notin calls
    BY <1>1, <1>6 DEF ReaderHangsUp, CallInv, Counted, One, TypeOK
  <2>2. TypeOK'
    BY <1>1, <1>6 DEF ReaderHangsUp, TypeOK
  <2>3. Others(c)
    BY <1>1, <1>6 DEF ReaderHangsUp, Others, TypeOK
  <2>4. CallInv(c)'
    BY <1>1, <1>6, <2>1 DEF ReaderHangsUp, CallInv, Progress, Counted, Refused,
                            Live, One, TypeOK
  <2>5. QED BY <2>2, <2>3, <2>4, OthersKeep DEF Inv
<1>7. CASE ReaderCounts(c)
  <2>1. ended[c] = 0
    BY <1>1, <1>7 DEF ReaderCounts, CallInv, Counted, One, TypeOK
  <2>2. TypeOK'
    BY <1>1, <1>7, <2>1 DEF ReaderCounts, TypeOK
  <2>3. Others(c)
    BY <1>1, <1>7 DEF ReaderCounts, Others, TypeOK
  <2>4. CallInv(c)'
    BY <1>1, <1>7, <2>1 DEF ReaderCounts, CallInv, Progress, Counted, Refused,
                            Live, One, TypeOK
  <2>5. QED BY <2>2, <2>3, <2>4, OthersKeep DEF Inv
<1>8. CASE Disconnected(c)
  <2>1. TypeOK'
    BY <1>1, <1>8, CloseType DEF Disconnected, TypeOK
  <2>2. Others(c)
    BY <1>1, <1>8 DEF Disconnected, Close, Others, TypeOK
  <2>3. CallInv(c)'
    BY <1>1, <1>8 DEF Disconnected, Close, CallInv, Progress, Counted, Refused,
                      Live, One, TypeOK
  <2>4. QED BY <2>1, <2>2, <2>3, OthersKeep DEF Inv
<1>9. CASE CallbackLost(c)
  <2>1. TypeOK'
    BY <1>1, <1>9 DEF CallbackLost, TypeOK
  <2>2. Others(c)
    BY <1>1, <1>9 DEF CallbackLost, Others, TypeOK
  <2>3. CallInv(c)'
    BY <1>1, <1>9 DEF CallbackLost, Held, CallInv, Progress, Counted, Refused,
                      Live, One, TypeOK
  <2>4. QED BY <2>1, <2>2, <2>3, OthersKeep DEF Inv
<1>10. CASE OnDisconnected(c)
  <2>1. TypeOK'
    BY <1>1, <1>10 DEF OnDisconnected, TypeOK
  <2>2. Others(c)
    BY <1>1, <1>10 DEF OnDisconnected, Others, TypeOK
  <2>3. CallInv(c)'
    BY <1>1, <1>10 DEF OnDisconnected, CallInv, Progress, Counted, Refused, Live,
                       One, TypeOK
  <2>4. QED BY <2>1, <2>2, <2>3, OthersKeep DEF Inv
<1>11. CASE CallbackCounts(c)
  <2>1. ended[c] = 0
    BY <1>1, <1>11 DEF CallbackCounts, CallInv, Counted, One, TypeOK
  <2>2. TypeOK'
    BY <1>1, <1>11, <2>1 DEF CallbackCounts, TypeOK
  <2>3. Others(c)
    BY <1>1, <1>11 DEF CallbackCounts, Others, TypeOK
  <2>4. CallInv(c)'
    BY <1>1, <1>11, <2>1 DEF CallbackCounts, CallInv, Progress, Counted, Refused,
                             Live, One, TypeOK
  <2>5. QED BY <2>2, <2>3, <2>4, OthersKeep DEF Inv
<1>12. QED
  BY <1>2, <1>3, <1>4, <1>5, <1>6, <1>7, <1>8, <1>9, <1>10, <1>11
     DEF Environment, Reader, Callback
----------------------------------------------------------------------------
(***************************************************************************)
(* The main thread, and the theorems.                                      *)
(***************************************************************************)
\* main.py:140-162: the steps of the signal handler keep the invariant.
LEMMA MainKeeps ==
  ASSUME Inv, Signal \/ Main
  PROVE  Inv'
<1> USE DEF callVars
<1>1. TypeOK
  BY DEF Inv
<1>2. CASE Signal \/ Destroy
  <2>1. TypeOK'
    <3>1. CASE Signal
      BY <1>1, <3>1 DEF Signal, TypeOK
    <3>2. CASE Destroy
      BY <1>1, <3>2 DEF Destroy, TypeOK
    <3>3. QED BY <1>2, <3>1, <3>2
  <2>2. UNCHANGED <<callVars, dialog, toHang>>
    BY <1>2 DEF Signal, Destroy
  <2>3. QED
    BY <2>1, <2>2 DEF Inv, CallInv, Progress, Counted, Refused, Live, One
<1>3. CASE DrainOver
  <2>1. TypeOK'
    BY <1>1, <1>3 DEF DrainOver, TypeOK
  <2>2. ASSUME NEW c \in Calls PROVE CallInv(c)'
    <3>1. CallInv(c)
      BY DEF Inv
    <3>2. c \in calls => handler[c] = "done"
      BY <1>1, <3>1 DEF CallInv, Counted, One, TypeOK
    <3>3. QED
      BY <1>3, <3>1, <3>2 DEF DrainOver, CallInv, Progress, Counted, Refused,
                              Live, One
  <2>3. QED BY <2>1, <2>2 DEF Inv
<1>4. CASE ForceHangup
  <2>1. CASE toHang = {} /\ UNCHANGED <<callVars, dialog, shutting, toHang>>
    <3>1. TypeOK'
      BY <1>1, <1>4, <2>1 DEF ForceHangup, TypeOK
    <3>2. QED
      BY <2>1, <3>1 DEF Inv, CallInv, Progress, Counted, Refused, Live, One
  <2>2. CASE \E c \in toHang :
               /\ dialog' = [dialog EXCEPT ![c] = IF @ = "confirmed" THEN "bye"
                                                                     ELSE @]
               /\ toHang' = toHang \ {c}
               /\ UNCHANGED <<callVars, shutting, main>>
    <3>1. PICK c \in toHang :
               /\ dialog' = [dialog EXCEPT ![c] = IF @ = "confirmed" THEN "bye"
                                                                     ELSE @]
               /\ toHang' = toHang \ {c}
               /\ UNCHANGED <<callVars, shutting, main>>
      BY <2>2
    <3>2. c \in Calls
      BY <1>1 DEF TypeOK
    <3>3. TypeOK'
      BY <1>1, <3>1, <3>2 DEF TypeOK
    <3>4. Others(c)
      BY <1>1, <3>1, <3>2 DEF TypeOK, Others
    <3>5. CallInv(c)'
      BY <1>1, <3>1, <3>2 DEF Inv, CallInv, Progress, Counted, Refused, Live, One,
                              TypeOK
    <3>6. QED BY <3>2, <3>3, <3>4, <3>5, OthersKeep DEF Inv
  <2>3. QED BY <1>4, <2>1, <2>2 DEF ForceHangup
<1>5. QED BY <1>2, <1>3, <1>4 DEF Main

LEMMA InvNext == Inv /\ [Next]_vars => Inv'
<1> SUFFICES ASSUME Inv, [Next]_vars PROVE Inv'
  OBVIOUS
<1>1. CASE Signal \/ Main
  BY <1>1, MainKeeps
<1>2. CASE \E c \in Calls : CallStep(c)
  BY <1>2, InviteKeeps, CallThreadsKeep DEF CallStep
<1>3. CASE UNCHANGED vars
  BY <1>3 DEF vars, Inv, TypeOK, CallInv, Progress, Counted, Refused, Live, One
<1>4. QED BY <1>1, <1>2, <1>3 DEF Next

LEMMA InvHolds == Spec => []Inv
  BY InvInit, InvNext, PTL DEF Spec

\* Every variable keeps its type.
THEOREM TypeCorrect == Spec => []TypeOK
<1>1. Inv => TypeOK
  BY DEF Inv
<1>2. QED BY <1>1, InvHolds, PTL

\* call_handler.py:297-315: whoever ends a call, it is counted once, and while
\* it is tracked it has not been counted yet.
THEOREM CallsAreCountedOnce == Spec => []CountedOnce
  BY InvImplies, InvHolds, PTL

\* call_handler.py:217-273: a refused INVITE leaves no listening socket and no
\* connected worker.
THEOREM RefusedCallsLeaveNoSocket == Spec => []RefusedLeavesNoSocket
  BY InvImplies, InvHolds, PTL

\* call_handler.py:83-89, 275: CallState holds no call without a dialog.
THEOREM TrackedCallsAreLive == Spec => []TrackedIsLive
  BY InvImplies, InvHolds, PTL
=============================================================================
