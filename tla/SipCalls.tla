------------------------------ MODULE SipCalls ------------------------------
(***************************************************************************)
(* The sip service: the life of the incoming calls, and the shutdown.      *)
(*   call_handler.py      CallRouter, CallState, _IncomingCall             *)
(*   audio_bridge.py      AudioBridge: socket, reader and writer thread    *)
(*   worker_dispatcher.py the request for a worker                         *)
(*   main.py              the SIGTERM handler                              *)
(*                                                                         *)
(* These run in threads: a PJSIP thread (handle_invite and the callbacks), *)
(* the reader of each bridge, and the main thread (the signal handler).    *)
(* PJSIP holds the dialog's lock in a callback, so the callbacks of one    *)
(* call exclude each other, and no other thread.  The worker's end of the  *)
(* socket and the caller's end of the dialog are the environment.          *)
(***************************************************************************)
EXTENDS Naturals, FiniteSets

CONSTANTS
  Calls,       \* the INVITEs that arrive, each with the call_id it is given
  MaxBacklog   \* bound: frames of the worker that may wait in the socket

ASSUME CallsAssumption == MaxBacklog \in Nat

VARIABLES
  handler,   \* where handle_invite is, for each call
  reply,     \* the status with which the INVITE was answered
  bridge,    \* the unix socket of the call's AudioBridge
  quit,      \* its _shutdown event is set
  reader,    \* where its reader thread is
  worker,    \* the worker's end of the socket
  backlog,   \* frames the worker sent and the reader has not read
  dialog,    \* the SIP dialog in PJSIP
  callback,  \* where onCallState(DISCONNECTED) is
  calls,     \* CallState._calls
  ended,     \* how often on_call_ended counted the call
  shutting,  \* CallState.shutting_down
  main,      \* where the signal handler is
  toHang     \* what hangup_all has still to do of its snapshot

inviteVars == <<handler, reply>>
bridgeVars == <<bridge, quit, backlog>>
mainVars == <<shutting, main, toHang>>
vars == <<handler, reply, bridge, quit, reader, worker, backlog, dialog,
          callback, calls, ended, shutting, main, toHang>>

TypeOK ==
  /\ handler \in [Calls -> {"none", "setup", "publish", "accept", "create",
                            "control", "answer", "add", "done"}]
  /\ reply   \in [Calls -> {0, 200, 500, 503}]
  /\ bridge  \in [Calls -> {"none", "stale", "listening", "connected", "closed"}]
  /\ quit    \in [Calls -> BOOLEAN]
  /\ reader  \in [Calls -> {"none", "check", "recv", "lost", "hangup", "count",
                            "over"}]
  /\ worker  \in [Calls -> {"away", "on", "gone"}]
  /\ backlog \in [Calls -> 0..MaxBacklog]
  /\ dialog  \in [Calls -> {"none", "early", "confirmed", "bye", "down", "gone"}]
  /\ callback \in [Calls -> {"idle", "closed", "count", "over"}]
  /\ calls \subseteq Calls
  /\ ended \in [Calls -> 0..1]
  /\ shutting \in BOOLEAN
  /\ main \in {"up", "drain", "force", "unregister", "destroyed"}
  /\ toHang \subseteq Calls

Init ==
  /\ handler = [c \in Calls |-> "none"]
  /\ reply   = [c \in Calls |-> 0]
  /\ bridge  = [c \in Calls |-> "none"]
  /\ quit    = [c \in Calls |-> FALSE]
  /\ reader  = [c \in Calls |-> "none"]
  /\ worker  = [c \in Calls |-> "away"]
  /\ backlog = [c \in Calls |-> 0]
  /\ dialog  = [c \in Calls |-> "none"]
  /\ callback = [c \in Calls |-> "idle"]
  /\ calls = {}
  /\ ended = [c \in Calls |-> 0]
  /\ shutting = FALSE
  /\ main = "up"
  /\ toHang = {}
----------------------------------------------------------------------------
(***************************************************************************)
(* handle_invite, on a PJSIP thread.                                       *)
(***************************************************************************)
To(c, p) == handler' = [handler EXCEPT ![c] = p]

\* _reject: a final status, no media; the dialog is over.
Reject(c, code) ==
  /\ To(c, "done")
  /\ reply' = [reply EXCEPT ![c] = code]
  /\ dialog' = [dialog EXCEPT ![c] = "gone"]

\* bridge.close(): the event, the sockets and the path.
Close(c) ==
  /\ bridge' = [bridge EXCEPT ![c] = "closed"]
  /\ quit' = [quit EXCEPT ![c] = TRUE]

Invite(c) ==
  /\ handler[c] = "none"
  /\ \/ shutting /\ Reject(c, 503)
     \/ /\ ~shutting
        /\ To(c, "setup")
        /\ dialog' = [dialog EXCEPT ![c] = "early"]
        /\ UNCHANGED reply
  /\ UNCHANGED <<bridgeVars, reader, worker, callback, calls, ended, mainVars>>

\* An OSError may come before bind() or after it: the path stays behind then.
SetupSocket(c) ==
  /\ handler[c] = "setup"
  /\ \/ /\ bridge' = [bridge EXCEPT ![c] = "listening"]
        /\ To(c, "publish")
        /\ UNCHANGED <<reply, dialog>>
     \/ /\ \E b \in {"none", "stale"} : bridge' = [bridge EXCEPT ![c] = b]
        /\ Reject(c, 500)
  /\ UNCHANGED <<quit, backlog, reader, worker, callback, calls, ended, mainVars>>

PublishRequest(c) ==
  /\ handler[c] = "publish"
  /\ \/ To(c, "accept") /\ UNCHANGED <<reply, dialog, bridge, quit>>
     \/ Close(c) /\ Reject(c, 503)                         \* RedisError
  /\ UNCHANGED <<backlog, reader, worker, callback, calls, ended, mainVars>>

AcceptWorker(c) ==
  /\ handler[c] = "accept"
  /\ \/ /\ worker[c] # "away"
        /\ bridge' = [bridge EXCEPT ![c] = "connected"]
        /\ reader' = [reader EXCEPT ![c] = "check"]
        /\ To(c, "create")
        /\ UNCHANGED <<reply, dialog, quit>>
     \/ /\ \E code \in {503, 500} : Reject(c, code)     \* timeout, OSError
        /\ Close(c)
        /\ UNCHANGED reader
  /\ UNCHANGED <<backlog, worker, callback, calls, ended, mainVars>>

CreateCall(c) ==
  /\ handler[c] = "create"
  /\ \/ To(c, "control") /\ UNCHANGED <<reply, dialog, bridge, quit>>
     \/ Close(c) /\ Reject(c, 500)                          \* pj.Error
  /\ UNCHANGED <<backlog, reader, worker, callback, calls, ended, mainVars>>

\* A failed send stops the threads of the bridge; handle_invite goes on.
SendControl(c) ==
  /\ handler[c] = "control"
  /\ To(c, "answer")
  /\ \/ UNCHANGED quit
     \/ worker[c] = "gone" /\ quit' = [quit EXCEPT ![c] = TRUE]
  /\ UNCHANGED <<reply, bridge, backlog, reader, worker, dialog, callback, calls,
                 ended, mainVars>>

\* Mutant of Answer: the bridge is left open when PJSIP refuses.
LeakyAnswer(c) ==
  /\ handler[c] = "answer"
  /\ \/ /\ To(c, "add")
        /\ reply' = [reply EXCEPT ![c] = 200]
        /\ dialog' = [dialog EXCEPT ![c] = "confirmed"]
     \/ /\ To(c, "done")
        /\ dialog' = [dialog EXCEPT ![c] = "gone"]
        /\ UNCHANGED reply
  /\ UNCHANGED <<bridgeVars, reader, worker, callback, calls, ended, mainVars>>

\* After a pj.Error no status is sent; the pj.Call object, which nothing holds
\* then, takes the dialog with it.
Answer(c) ==
  /\ handler[c] = "answer"
  /\ \/ /\ To(c, "add")
        /\ reply' = [reply EXCEPT ![c] = 200]
        /\ dialog' = [dialog EXCEPT ![c] = "confirmed"]
        /\ UNCHANGED <<bridge, quit>>
     \/ /\ Close(c)
        /\ To(c, "done")
        /\ dialog' = [dialog EXCEPT ![c] = "gone"]
        /\ UNCHANGED reply
  /\ UNCHANGED <<backlog, reader, worker, callback, calls, ended, mainVars>>

AddCall(c) ==
  /\ handler[c] = "add"
  /\ calls' = calls \cup {c}
  /\ To(c, "done")
  /\ UNCHANGED <<reply, bridgeVars, reader, worker, dialog, callback, ended,
                 mainVars>>

HandleInvite(c) ==
  \/ SetupSocket(c) \/ PublishRequest(c) \/ AcceptWorker(c) \/ CreateCall(c)
  \/ SendControl(c) \/ Answer(c) \/ AddCall(c)
----------------------------------------------------------------------------
(***************************************************************************)
(* The environment: the worker's end of the socket, the caller's of the    *)
(* dialog.                                                                 *)
(***************************************************************************)
\* Before accept() returns a worker's connection may already wait for it.
WorkerConnects(c) ==
  /\ handler[c] = "accept" /\ worker[c] = "away"
  /\ worker' = [worker EXCEPT ![c] = "on"]
  /\ UNCHANGED <<inviteVars, bridgeVars, reader, dialog, callback, calls, ended,
                 mainVars>>

WorkerSends(c) ==
  /\ worker[c] = "on" /\ backlog[c] < MaxBacklog
  /\ backlog' = [backlog EXCEPT ![c] = @ + 1]
  /\ UNCHANGED <<inviteVars, bridge, quit, reader, worker, dialog, callback,
                 calls, ended, mainVars>>

\* It sends HANGUP, closes the socket, or dies.
WorkerLeaves(c) ==
  /\ worker[c] = "on"
  /\ worker' = [worker EXCEPT ![c] = "gone"]
  /\ UNCHANGED <<inviteVars, bridgeVars, reader, dialog, callback, calls, ended,
                 mainVars>>

\* The caller sends BYE or never acknowledges; or onCallMediaState finds that
\* attach_media fails, and hangs up.
DialogEnds(c) ==
  /\ dialog[c] = "confirmed" /\ handler[c] = "done"
  /\ \E d \in {"down", "bye"} : dialog' = [dialog EXCEPT ![c] = d]
  /\ UNCHANGED <<inviteVars, bridgeVars, reader, worker, callback, calls, ended,
                 mainVars>>

ByeAnswered(c) ==
  /\ dialog[c] = "bye" /\ handler[c] = "done"
  /\ dialog' = [dialog EXCEPT ![c] = "down"]
  /\ UNCHANGED <<inviteVars, bridgeVars, reader, worker, callback, calls, ended,
                 mainVars>>

Environment(c) ==
  WorkerConnects(c) \/ WorkerSends(c) \/ WorkerLeaves(c) \/ DialogEnds(c)
----------------------------------------------------------------------------
(***************************************************************************)
(* The threads of a bridge.                                                *)
(***************************************************************************)
ReaderTo(c, p) == reader' = [reader EXCEPT ![c] = p]

\* Head of the loop of _read_loop.
ReaderChecks(c) ==
  /\ reader[c] = "check"
  /\ ReaderTo(c, IF quit[c] THEN "over" ELSE "recv")
  /\ UNCHANGED <<inviteVars, bridgeVars, worker, dialog, callback, calls, ended,
                 mainVars>>

\* An AUDIO_OUT, DTMF or CONTROL frame: nothing here depends on what it holds.
ReadFrame(c) ==
  /\ reader[c] = "recv" /\ bridge[c] = "connected" /\ backlog[c] > 0
  /\ backlog' = [backlog EXCEPT ![c] = @ - 1]
  /\ ReaderTo(c, "check")
  /\ UNCHANGED <<inviteVars, bridge, quit, worker, dialog, callback, calls,
                 ended, mainVars>>

\* HANGUP or the end of the stream, by the worker or by close().
ReadEnd(c) ==
  /\ reader[c] = "recv"
  /\ bridge[c] = "closed" \/ (backlog[c] = 0 /\ worker[c] = "gone")
  /\ ReaderTo(c, "lost")
  /\ UNCHANGED <<inviteVars, bridgeVars, worker, dialog, callback, calls, ended,
                 mainVars>>

\* close() took the client away between two frames: the thread dies.
ReaderDies(c) ==
  /\ reader[c] = "recv" /\ bridge[c] = "closed"
  /\ ReaderTo(c, "over")
  /\ UNCHANGED <<inviteVars, bridgeVars, worker, dialog, callback, calls, ended,
                 mainVars>>

\* Mutant of WorkerHangup: it looks the call up and does not take it out.
PeekWorkerHangup(c) ==
  /\ reader[c] = "lost"
  /\ ReaderTo(c, IF c \in calls THEN "hangup" ELSE "over")
  /\ UNCHANGED <<inviteVars, bridgeVars, worker, dialog, callback, calls, ended,
                 mainVars>>

\* _worker_initiated_hangup: the pop, the BYE, the count.
WorkerHangup(c) ==
  /\ reader[c] = "lost"
  /\ calls' = calls \ {c}
  /\ ReaderTo(c, IF c \in calls THEN "hangup" ELSE "over")
  /\ UNCHANGED <<inviteVars, bridgeVars, worker, dialog, callback, ended,
                 mainVars>>

ReaderHangsUp(c) ==
  /\ reader[c] = "hangup"
  /\ ReaderTo(c, "count")
  /\ dialog' = [dialog EXCEPT ![c] = IF @ = "confirmed" THEN "bye" ELSE @]
  /\ UNCHANGED <<inviteVars, bridgeVars, worker, callback, calls, ended, mainVars>>

ReaderCounts(c) ==
  /\ reader[c] = "count"
  /\ ReaderTo(c, "over")
  /\ ended' = [ended EXCEPT ![c] = @ + 1]
  /\ UNCHANGED <<inviteVars, bridgeVars, worker, dialog, callback, calls,
                 mainVars>>

Reader(c) ==
  \/ ReaderChecks(c) \/ ReadFrame(c) \/ ReadEnd(c) \/ ReaderDies(c)
  \/ WorkerHangup(c) \/ ReaderHangsUp(c) \/ ReaderCounts(c)

\* The writer thread, or send_dtmf: a failed send stops both threads.
SendFails(c) ==
  /\ bridge[c] = "connected" /\ worker[c] = "gone" /\ ~quit[c]
  /\ quit' = [quit EXCEPT ![c] = TRUE]
  /\ UNCHANGED <<inviteVars, bridge, backlog, reader, worker, dialog, callback,
                 calls, ended, mainVars>>
----------------------------------------------------------------------------
(***************************************************************************)
(* onCallState(DISCONNECTED), on a PJSIP thread: the bridge is closed,     *)
(* then _on_disconnected pops the call and counts it.                      *)
(***************************************************************************)
\* What holds a reference to the pj.Call object.
Held(c) == c \in calls \/ c \in toHang \/ reader[c] \in {"hangup", "count"}

CallbackTo(c, p) == callback' = [callback EXCEPT ![c] = p]

Disconnected(c) ==
  /\ dialog[c] = "down" /\ callback[c] = "idle" /\ handler[c] = "done"
  /\ Close(c)
  /\ CallbackTo(c, "closed")
  /\ UNCHANGED <<inviteVars, backlog, reader, worker, dialog, calls, ended,
                 mainVars>>

\* A call object that nothing holds may be gone before the callback.
CallbackLost(c) ==
  /\ dialog[c] = "down" /\ callback[c] = "idle" /\ ~Held(c)
  /\ handler[c] = "done"
  /\ dialog' = [dialog EXCEPT ![c] = "gone"]
  /\ UNCHANGED <<inviteVars, bridgeVars, reader, worker, callback, calls, ended,
                 mainVars>>

\* Mutant of OnDisconnected: a callback that only closes the bridge.
ForgetfulOnDisconnected(c) ==
  /\ callback[c] = "closed"
  /\ CallbackTo(c, "over")
  /\ dialog' = [dialog EXCEPT ![c] = "gone"]
  /\ UNCHANGED <<inviteVars, bridgeVars, reader, worker, calls, ended, mainVars>>

OnDisconnected(c) ==
  /\ callback[c] = "closed"
  /\ calls' = calls \ {c}
  /\ CallbackTo(c, IF c \in calls THEN "count" ELSE "over")
  /\ dialog' = [dialog EXCEPT ![c] = "gone"]
  /\ UNCHANGED <<inviteVars, bridgeVars, reader, worker, ended, mainVars>>

CallbackCounts(c) ==
  /\ callback[c] = "count"
  /\ CallbackTo(c, "over")
  /\ ended' = [ended EXCEPT ![c] = @ + 1]
  /\ UNCHANGED <<inviteVars, bridgeVars, reader, worker, dialog, calls, mainVars>>

Callback(c) ==
  Disconnected(c) \/ CallbackLost(c) \/ OnDisconnected(c) \/ CallbackCounts(c)
----------------------------------------------------------------------------
(***************************************************************************)
(* The signal handler, on the main thread.                                 *)
(***************************************************************************)
callVars == <<handler, reply, bridge, quit, reader, worker, backlog, callback,
              calls, ended>>

Signal ==
  /\ main = "up"
  /\ shutting' = TRUE
  /\ main' = "drain"
  /\ UNCHANGED <<callVars, dialog, toHang>>

\* Mutant of DrainOver: no deadline.
PatientDrainOver ==
  /\ main = "drain" /\ calls = {}
  /\ main' = "unregister"
  /\ UNCHANGED <<callVars, dialog, toHang, shutting>>

\* No call is left, or the deadline has passed and hangup_all takes a snapshot.
DrainOver ==
  /\ main = "drain"
  /\ main' = IF calls = {} THEN "unregister" ELSE "force"
  /\ toHang' = calls
  /\ UNCHANGED <<callVars, dialog, shutting>>

ForceHangup ==
  /\ main = "force"
  /\ \/ \E c \in toHang :
          /\ dialog' = [dialog EXCEPT ![c] = IF @ = "confirmed" THEN "bye" ELSE @]
          /\ toHang' = toHang \ {c}
          /\ UNCHANGED main
     \/ /\ toHang = {}
        /\ main' = "unregister"
        /\ UNCHANGED <<dialog, toHang>>
  /\ UNCHANGED <<callVars, shutting>>

\* unregister_all, then the endpoint goes down and main() returns.
Destroy ==
  /\ main = "unregister"
  /\ main' = "destroyed"
  /\ UNCHANGED <<callVars, dialog, shutting, toHang>>

Main == DrainOver \/ ForceHangup \/ Destroy
----------------------------------------------------------------------------
CallStep(c) ==
  \/ Invite(c) \/ HandleInvite(c) \/ Environment(c) \/ ByeAnswered(c)
  \/ Reader(c) \/ SendFails(c) \/ Callback(c)

Next == Signal \/ Main \/ (main # "destroyed" /\ \E c \in Calls : CallStep(c))

Spec == Init /\ [][Next]_vars

\* Threads run; accept() and a BYE have timeouts.  Neither callers nor workers
\* need ever do anything, and no signal need come.
Fairness ==
  /\ WF_vars(Main)
  /\ \A c \in Calls :
       /\ WF_vars(main # "destroyed" /\ HandleInvite(c))
       /\ WF_vars(main # "destroyed" /\ Reader(c))
       /\ WF_vars(main # "destroyed" /\ Callback(c))
       /\ WF_vars(main # "destroyed" /\ ByeAnswered(c))

FairSpec == Spec /\ Fairness
----------------------------------------------------------------------------
(***************************************************************************)
(* Properties.                                                             *)
(***************************************************************************)
One(b) == IF b THEN 1 ELSE 0

\* call_handler.py:145-147, 297-315: the worker's hangup, the caller's BYE and
\* the forced one race for a call, and the lock of CallState lets one of them
\* count it: an answered call is tracked, about to be counted or counted, and
\* only one of these.
CountedOnce ==
  \A c \in Calls :
      One(c \in calls) + One(reader[c] \in {"hangup", "count"})
        + One(callback[c] = "count") + ended[c]
    = One(handler[c] = "done" /\ reply[c] = 200)

\* call_handler.py:217-273: an INVITE that is not answered leaves no socket and
\* no thread that waits for a worker.
RefusedLeavesNoSocket ==
  \A c \in Calls :
    handler[c] = "done" /\ reply[c] # 200 =>
      bridge[c] \notin {"listening", "connected"}

\* call_handler.py:83-89, 275: no call stays in CallState once its dialog is
\* gone, or the shutdown would wait for it in vain.
TrackedIsLive ==
  \A c \in calls : dialog[c] \in {"confirmed", "bye", "down"}

\* main.py:140-162: the shutdown ends, whatever callers and workers do.
ShutdownEnds == shutting ~> main = "destroyed"

\* call_handler.py:83-89: a call whose dialog came down is forgotten.
DisconnectedIsForgotten ==
  \A c \in Calls :
    c \in calls /\ dialog[c] = "down" ~> c \notin calls \/ main = "destroyed"

\* Calls are let go of, by a shutdown and by their own end.
CallsAreLetGo == ShutdownEnds /\ DisconnectedIsForgotten

(***************************************************************************)
(* What the documentation says, and the code does not do.                  *)
(***************************************************************************)
\* audio_bridge.py:315: "Worker disconnected without a HANGUP frame - treat as
\* hangup."  A call that lost its worker is hung up.
WorkerLossEndsCall ==
  \A c \in Calls :
    c \in calls /\ worker[c] = "gone" ~>
      c \notin calls \/ dialog[c] # "confirmed" \/ main = "destroyed"
============================================================================
