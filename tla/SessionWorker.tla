--------------------------- MODULE SessionWorker ---------------------------
(***************************************************************************)
(* session-mgr/src/aipanel_vici/session_worker.py: the ViciDial agent      *)
(* session of ONE deployment.  Every coroutine runs on one event loop, so  *)
(* code between two awaits is one step here, and each await is a point     *)
(* where any other coroutine of the process may run.                       *)
(*                                                                         *)
(* The deployment may be served by several SessionWorker objects one after *)
(* the other (the supervisor makes a new one each time the deployment      *)
(* comes back), whose coroutines can overlap.  They share one Redis hash.  *)
(***************************************************************************)
EXTENDS Naturals

CONSTANTS
  Workers,       \* the SessionWorker objects made for the deployment
  Ops,           \* the API actions that are called, of the four kinds below
  MaxFailures,   \* failed heartbeats before _maybe_recover acts: 3 in the code
  Backoffs,      \* len(login_backoff_sec): retries after the first attempt
  RedisMayFail,  \* whether Redis commands may raise RedisError
  StaleBeats     \* whether a worker may go 60 s without a good heartbeat
                 \* (the scheduler's semaphore is shared with other deployments)

ASSUME WorkerAssumption ==
  /\ Ops \subseteq {"pause", "resume", "get_call_info", "other"}
  /\ MaxFailures \in Nat \ {0}
  /\ Backoffs \in Nat
  /\ RedisMayFail \in BOOLEAN
  /\ StaleBeats \in BOOLEAN

VARIABLES
  status,    \* state.status
  captured,  \* _captured is not None
  http,      \* _http is not None
  cookies,   \* state.cookies is not empty
  failures,  \* state.heartbeat_failures; MaxFailures stands for more too
  lastBeat,  \* state.last_heartbeat_at: never, less or more than 60 s ago
  stopped,   \* _stopped
  pc,        \* where each coroutine waits
  att,       \* index of the delay a login loop has reached
  stage,     \* how far start() is through _resume_from_redis: not there, or
             \* no cookies; adopting; verifying; back, with stale cookies
  out,       \* the hash payload a coroutine is writing
  redis      \* what the key vici:session:<id> holds

fieldVars == <<status, captured, http, cookies, failures, lastBeat, stopped>>
taskVars  == <<pc, att, stage, out>>
workerVars == <<fieldVars, taskVars, redis>>

(***************************************************************************)
(* Coroutines.  "start" is the login task, "beat" the scheduler's loop,    *)
(* "kick" the heartbeat the supervisor forces, "stop" the one effective    *)
(* call of stop(), "act" the API action that holds _lock.                  *)
(***************************************************************************)
Kinds   == {"start", "beat", "kick", "stop", "act"}
Loggers == {"start", "beat", "kick"}       \* those that may log in

Statuses == {"logging_in", "ready", "paused", "error", "logged_out"}

PCs == {"done", "new", "sleep",
        "startMirror", "hgetall", "loop", "resumeClose",
        "hbSend", "hbMirror", "recoverClose",
        "backoff", "login", "adoptClose", "adoptMirror", "errorMirror",
        "stopLogout", "stopClose", "stopMirror", "stopDelete",
        "actMirror"} \cup Ops

WorkerTypeOK ==
  /\ status   \in [Workers -> Statuses]
  /\ captured \in [Workers -> BOOLEAN]
  /\ http     \in [Workers -> BOOLEAN]
  /\ cookies  \in [Workers -> BOOLEAN]
  /\ failures \in [Workers -> 0..MaxFailures]
  /\ lastBeat \in [Workers -> {"never", "fresh", "stale"}]
  /\ stopped  \in [Workers -> BOOLEAN]
  /\ pc    \in [Kinds -> [Workers -> PCs]]
  /\ att   \in [Kinds -> [Workers -> 0..Backoffs]]
  /\ stage \in [Workers -> {"login", "adopt", "beat", "again"}]
  /\ out   \in [Kinds -> [Workers -> {"blank", "cookies"}]]
  /\ redis \in {"absent", "blank", "cookies"}

Payload(ck) == IF ck THEN "cookies" ELSE "blank"

\* Pcs at which a coroutine is inside _login_with_backoff or on its way there.
LoginPcs == {"recoverClose", "resumeClose", "loop", "backoff", "login",
             "adoptClose"}

WorkerInit ==
  /\ status   = [w \in Workers |-> "logging_in"]
  /\ captured = [w \in Workers |-> FALSE]
  /\ http     = [w \in Workers |-> FALSE]
  /\ cookies  = [w \in Workers |-> FALSE]
  /\ failures = [w \in Workers |-> 0]
  /\ lastBeat = [w \in Workers |-> "never"]
  /\ stopped  = [w \in Workers |-> FALSE]
  /\ pc    = [k \in Kinds |-> [w \in Workers |-> "done"]]
  /\ att   = [k \in Kinds |-> [w \in Workers |-> 0]]
  /\ stage = [w \in Workers |-> "login"]
  /\ out   = [k \in Kinds |-> [w \in Workers |-> "blank"]]
  /\ redis \in {"absent", "blank", "cookies"}   \* left by an earlier process
----------------------------------------------------------------------------
(***************************************************************************)
(* Steps shared by several coroutines.  Their arguments are the values the *)
(* fields have by the time the code is reached.                            *)
(***************************************************************************)
Goto(k, w, p) == pc' = [pc EXCEPT ![k][w] = p]

SetStatus(w, s) == status' = [status EXCEPT ![w] = s]

\* Await of the hset of _mirror_to_redis; a RedisError is swallowed.
Mirrored(k, w) ==
  /\ \/ redis' = out[k][w]
     \/ RedisMayFail /\ UNCHANGED redis
  /\ out' = [out EXCEPT ![k][w] = "blank"]

\* heartbeat() or _login_with_backoff() returns to its caller, with f
\* failures and h whether there is a client.
Return(k, w, f, c, h) ==
  \/ /\ k = "beat"
     /\ Goto(k, w, "sleep")
     /\ captured' = [captured EXCEPT ![w] = c]
     /\ UNCHANGED stage
  \/ /\ k # "beat"
     /\ ~(k = "start" /\ stage[w] = "beat" /\ f > 0)
     /\ Goto(k, w, "done")
     /\ captured' = [captured EXCEPT ![w] = c]
     /\ UNCHANGED stage
  \/ /\ k = "start" /\ stage[w] = "beat" /\ f > 0   \* stale cookies
     /\ Goto(k, w, IF h THEN "resumeClose" ELSE "loop")
     /\ captured' = [captured EXCEPT ![w] = FALSE]
     /\ stage' = [stage EXCEPT ![w] = "again"]

\* Mutants of EnterLoop: a login loop that takes one delay too many, one that
\* ends without reporting the error, and one that does not look at _stopped.
GreedyEnterLoop(k, w, n, f, c, h) ==
  \/ /\ n > Backoffs + 1
     /\ SetStatus(w, "error")
     /\ out' = [out EXCEPT ![k][w] = Payload(cookies[w])]
     /\ Goto(k, w, "errorMirror")
     /\ captured' = [captured EXCEPT ![w] = c]
     /\ att' = [att EXCEPT ![k][w] = 0]
     /\ UNCHANGED stage
  \/ /\ n <= Backoffs + 1 /\ stopped[w]
     /\ Return(k, w, f, c, h)
     /\ att' = [att EXCEPT ![k][w] = 0]
     /\ UNCHANGED <<status, out>>
  \/ /\ n <= Backoffs + 1 /\ ~stopped[w]
     /\ att' = [att EXCEPT ![k][w] = n]
     /\ Goto(k, w, IF n = 0 THEN "login" ELSE "backoff")
     /\ captured' = [captured EXCEPT ![w] = c]
     /\ UNCHANGED <<status, out, stage>>

SilentEnterLoop(k, w, n, f, c, h) ==
  \/ /\ n > Backoffs \/ stopped[w]
     /\ Return(k, w, f, c, h)
     /\ att' = [att EXCEPT ![k][w] = 0]
     /\ UNCHANGED <<status, out>>
  \/ /\ n <= Backoffs /\ ~stopped[w]
     /\ att' = [att EXCEPT ![k][w] = n]
     /\ Goto(k, w, IF n = 0 THEN "login" ELSE "backoff")
     /\ captured' = [captured EXCEPT ![w] = c]
     /\ UNCHANGED <<status, out, stage>>

DeafEnterLoop(k, w, n, f, c, h) ==
  \/ /\ n > Backoffs
     /\ SetStatus(w, "error")
     /\ out' = [out EXCEPT ![k][w] = Payload(cookies[w])]
     /\ Goto(k, w, "errorMirror")
     /\ captured' = [captured EXCEPT ![w] = c]
     /\ att' = [att EXCEPT ![k][w] = 0]
     /\ UNCHANGED stage
  \/ /\ n <= Backoffs
     /\ att' = [att EXCEPT ![k][w] = n]
     /\ Goto(k, w, IF n = 0 THEN "login" ELSE "backoff")
     /\ captured' = [captured EXCEPT ![w] = c]
     /\ UNCHANGED <<status, out, stage>>

\* Head of the for loop of _login_with_backoff, about to take delay n.
EnterLoop(k, w, n, f, c, h) ==
  \/ /\ n > Backoffs
     /\ SetStatus(w, "error")
     /\ out' = [out EXCEPT ![k][w] = Payload(cookies[w])]
     /\ Goto(k, w, "errorMirror")
     /\ captured' = [captured EXCEPT ![w] = c]
     /\ att' = [att EXCEPT ![k][w] = 0]
     /\ UNCHANGED stage
  \/ /\ n <= Backoffs /\ stopped[w]
     /\ Return(k, w, f, c, h)
     /\ att' = [att EXCEPT ![k][w] = 0]
     /\ UNCHANGED <<status, out>>
  \/ /\ n <= Backoffs /\ ~stopped[w]
     /\ att' = [att EXCEPT ![k][w] = n]
     /\ Goto(k, w, IF n = 0 THEN "login" ELSE "backoff")
     /\ captured' = [captured EXCEPT ![w] = c]
     /\ UNCHANGED <<status, out, stage>>

\* _adopt_captured from the assignment of _http to its mirror.
InstallClient(k, w) ==
  /\ http'     = [http EXCEPT ![w] = TRUE]
  /\ cookies'  = [cookies EXCEPT ![w] = TRUE]
  /\ failures' = [failures EXCEPT ![w] = 0]
  /\ lastBeat' = [lastBeat EXCEPT ![w] = "fresh"]
  /\ SetStatus(w, "ready")
  /\ out' = [out EXCEPT ![k][w] = "cookies"]
  /\ Goto(k, w, "adoptMirror")

\* _adopt_captured: an old client is closed (an await) before the new one
\* takes its place.
Adopt(k, w) ==
  /\ captured' = [captured EXCEPT ![w] = TRUE]
  /\ \/ /\ http[w]
        /\ Goto(k, w, "adoptClose")
        /\ UNCHANGED <<http, cookies, failures, lastBeat, status, out>>
     \/ ~http[w] /\ InstallClient(k, w)
----------------------------------------------------------------------------
(***************************************************************************)
(* start(), and _resume_from_redis.                                        *)
(***************************************************************************)
StartBegin(w) ==
  /\ pc["start"][w] = "new"
  /\ SetStatus(w, "logging_in")
  /\ out' = [out EXCEPT !["start"][w] = Payload(cookies[w])]
  /\ Goto("start", w, "startMirror")
  /\ UNCHANGED <<captured, http, cookies, failures, lastBeat, stopped, att,
                 stage, redis>>

StartMirrored(w) ==
  /\ pc["start"][w] = "startMirror"
  /\ Mirrored("start", w)
  /\ Goto("start", w, "hgetall")
  /\ UNCHANGED <<fieldVars, att, stage>>

\* hgetall: cached cookies are adopted, anything else leads to the login loop.
ReadRedis(w) ==
  /\ pc["start"][w] = "hgetall"
  /\ \/ /\ redis # "cookies" \/ RedisMayFail
        /\ Goto("start", w, "loop")
        /\ UNCHANGED <<fieldVars, stage, out>>
     \/ /\ redis = "cookies"
        /\ stage' = [stage EXCEPT ![w] = "adopt"]
        /\ Adopt("start", w)
        /\ UNCHANGED stopped
  /\ UNCHANGED <<att, redis>>

\* The cached cookies were stale: the client made for them is closed.
ResumeClosed(w) ==
  /\ pc["start"][w] = "resumeClose"
  /\ http' = [http EXCEPT ![w] = FALSE]
  /\ Goto("start", w, "loop")
  /\ UNCHANGED <<status, captured, cookies, failures, lastBeat, stopped,
                 att, stage, out, redis>>

StartLogin(w) ==
  /\ pc["start"][w] = "loop"
  /\ EnterLoop("start", w, 0, failures[w], captured[w], http[w])
  /\ UNCHANGED <<http, cookies, failures, lastBeat, stopped, redis>>
----------------------------------------------------------------------------
(***************************************************************************)
(* heartbeat() and _maybe_recover.                                         *)
(***************************************************************************)
\* Mutant of HeartbeatBegin: it does not ask for a captured session.
LaxHeartbeatBegin(k, w) ==
  /\ \/ k = "beat" /\ pc[k][w] = "sleep"
     \/ k = "kick" /\ pc[k][w] = "new"
  /\ Goto(k, w, "hbSend")
  /\ UNCHANGED <<fieldVars, att, stage, out, redis>>

HeartbeatBegin(k, w) ==
  /\ \/ k = "beat" /\ pc[k][w] = "sleep" /\ captured[w] /\ http[w]
     \/ k = "kick" /\ pc[k][w] = "new"
  /\ Goto(k, w, IF captured[w] /\ http[w] THEN "hbSend" ELSE "done")
  /\ UNCHANGED <<fieldVars, att, stage, out, redis>>

HeartbeatOk(k, w) ==
  /\ pc[k][w] = "hbSend" /\ http[w]
  /\ failures' = [failures EXCEPT ![w] = 0]
  /\ lastBeat' = [lastBeat EXCEPT ![w] = "fresh"]
  /\ out' = [out EXCEPT ![k][w] = Payload(cookies[w])]
  /\ Goto(k, w, "hbMirror")
  /\ UNCHANGED <<status, captured, http, cookies, stopped, att, stage, redis>>

HeartbeatMirrored(k, w) ==
  /\ pc[k][w] = "hbMirror"
  /\ Mirrored(k, w)
  /\ Return(k, w, failures[w], captured[w], http[w])
  /\ UNCHANGED <<status, http, cookies, failures, lastBeat, stopped, att>>

\* The reply says the session is gone (with a client to ask), or the request
\* raised (closed under it): one more failure, the third one recovers.
HeartbeatExpired(k, w) ==
  LET f == IF failures[w] < MaxFailures THEN failures[w] + 1 ELSE MaxFailures
  IN  /\ pc[k][w] = "hbSend"
      /\ failures' = [failures EXCEPT ![w] = f]
      /\ \/ /\ f < MaxFailures
            /\ Return(k, w, f, captured[w], http[w])
            /\ UNCHANGED <<status, att, out>>
         \/ /\ f = MaxFailures /\ http[w]
            /\ Goto(k, w, "recoverClose")
            /\ UNCHANGED <<status, captured, att, stage, out>>
         \/ /\ f = MaxFailures /\ ~http[w]
            /\ EnterLoop(k, w, 0, f, FALSE, FALSE)
      /\ UNCHANGED <<http, cookies, lastBeat, stopped, redis>>

\* A reply after _http went away: None.detect_session_expired raises, which
\* the beat loop logs, a forced heartbeat dies of, and a resume gives up on.
HeartbeatRaises(k, w) ==
  /\ pc[k][w] = "hbSend" /\ ~http[w]
  /\ Goto(k, w, CASE k = "beat"  -> "sleep"
                  [] k = "kick"  -> "done"
                  [] OTHER -> "loop")
  /\ stage' = [stage EXCEPT ![w] = IF k = "start" THEN "again" ELSE @]
  /\ UNCHANGED <<fieldVars, att, out, redis>>

\* The old client is closed; the handles are dropped and the login begins.
RecoverClosed(k, w) ==
  /\ pc[k][w] = "recoverClose"
  /\ http' = [http EXCEPT ![w] = FALSE]
  /\ EnterLoop(k, w, 0, failures[w], FALSE, FALSE)
  /\ UNCHANGED <<cookies, failures, lastBeat, stopped, redis>>
----------------------------------------------------------------------------
(***************************************************************************)
(* _login_with_backoff and _adopt_captured, run by a Logger.               *)
(***************************************************************************)
BackoffOver(k, w) ==
  /\ pc[k][w] = "backoff"
  /\ Goto(k, w, "login")
  /\ UNCHANGED <<fieldVars, att, stage, out, redis>>

LoginFails(k, w) ==
  /\ pc[k][w] = "login"
  /\ EnterLoop(k, w, att[k][w] + 1, failures[w], captured[w], http[w])
  /\ UNCHANGED <<http, cookies, failures, lastBeat, stopped, redis>>

LoginSucceeds(k, w) ==
  /\ pc[k][w] = "login"
  /\ att' = [att EXCEPT ![k][w] = 0]
  /\ Adopt(k, w)
  /\ UNCHANGED <<stopped, stage, redis>>

AdoptClosed(k, w) ==
  /\ pc[k][w] = "adoptClose"
  /\ InstallClient(k, w)
  /\ UNCHANGED <<captured, stopped, att, stage, redis>>

\* The mirror of READY is done.  A resume goes on to verify the cookies with
\* one heartbeat; a login returns.
AdoptMirrored(k, w) ==
  /\ pc[k][w] = "adoptMirror"
  /\ Mirrored(k, w)
  /\ \/ /\ k = "start" /\ stage[w] = "adopt" /\ captured[w] /\ http[w]
        /\ Goto(k, w, "hbSend")
        /\ stage' = [stage EXCEPT ![w] = "beat"]
        /\ UNCHANGED captured
     \/ /\ k = "start" /\ stage[w] = "adopt" /\ ~(captured[w] /\ http[w])
        /\ captured' = [captured EXCEPT ![w] = IF failures[w] = 0 THEN @ ELSE FALSE]
        /\ Goto(k, w, IF failures[w] = 0 THEN "done"
                      ELSE IF http[w] THEN "resumeClose" ELSE "loop")
        /\ stage' = [stage EXCEPT ![w] = "again"]
     \/ /\ ~(k = "start" /\ stage[w] = "adopt")
        /\ Return(k, w, failures[w], captured[w], http[w])
  /\ UNCHANGED <<status, http, cookies, failures, lastBeat, stopped, att>>

ErrorMirrored(k, w) ==
  /\ pc[k][w] = "errorMirror"
  /\ Mirrored(k, w)
  /\ Return(k, w, failures[w], captured[w], http[w])
  /\ UNCHANGED <<status, http, cookies, failures, lastBeat, stopped, att>>
----------------------------------------------------------------------------
(***************************************************************************)
(* stop(): the call that finds _stopped FALSE.  Later calls return at once.*)
(***************************************************************************)
LogOut(w) ==
  /\ SetStatus(w, "logged_out")
  /\ out' = [out EXCEPT !["stop"][w] = Payload(cookies[w])]

StopBegin(w) ==
  /\ ~stopped[w]
  /\ stopped' = [stopped EXCEPT ![w] = TRUE]
  /\ \/ /\ captured[w] /\ http[w]
        /\ Goto("stop", w, "stopLogout")
        /\ UNCHANGED <<status, out>>
     \/ /\ ~(captured[w] /\ http[w])
        /\ LogOut(w)
        /\ Goto("stop", w, "stopMirror")
  /\ UNCHANGED <<captured, http, cookies, failures, lastBeat, att, stage, redis>>

\* The logout request was answered, or failed: send() never raises.
StopLogoutSent(w) ==
  /\ pc["stop"][w] = "stopLogout"
  /\ \/ /\ http[w]
        /\ Goto("stop", w, "stopClose")
        /\ UNCHANGED <<status, out>>
     \/ /\ ~http[w]                       \* None.aclose() raises, swallowed
        /\ LogOut(w)
        /\ Goto("stop", w, "stopMirror")
  /\ UNCHANGED <<captured, http, cookies, failures, lastBeat, stopped, att,
                 stage, redis>>

StopClosed(w) ==
  /\ pc["stop"][w] = "stopClose"
  /\ http' = [http EXCEPT ![w] = FALSE]
  /\ LogOut(w)
  /\ Goto("stop", w, "stopMirror")
  /\ UNCHANGED <<captured, cookies, failures, lastBeat, stopped, att, stage,
                 redis>>

StopMirrored(w) ==
  /\ pc["stop"][w] = "stopMirror"
  /\ Mirrored("stop", w)
  /\ Goto("stop", w, "stopDelete")
  /\ UNCHANGED <<fieldVars, att, stage>>

StopDeleted(w) ==
  /\ pc["stop"][w] = "stopDelete"
  /\ \/ redis' = "absent"
     \/ RedisMayFail /\ UNCHANGED redis
  /\ Goto("stop", w, "done")
  /\ UNCHANGED <<fieldVars, att, stage, out>>
----------------------------------------------------------------------------
(***************************************************************************)
(* API actions under _lock: one at a time.  "other" stands for dispose,    *)
(* transfer_conference, hangup and manual_dial.  Without handles the       *)
(* action raises before it changes anything.                               *)
(***************************************************************************)
ActBegin(w, op) ==
  /\ pc["act"][w] = "done" /\ captured[w] /\ http[w]
  /\ Goto("act", w, op)
  /\ UNCHANGED <<fieldVars, att, stage, out, redis>>

ActOk(w) ==
  /\ pc["act"][w] \in Ops /\ http[w]
  /\ status' = [status EXCEPT ![w] = CASE pc["act"][w] = "pause"  -> "paused"
                                       [] pc["act"][w] = "resume" -> "ready"
                                       [] OTHER -> @]
  /\ out' = [out EXCEPT !["act"][w] = Payload(cookies[w])]
  /\ Goto("act", w, IF pc["act"][w] = "other" THEN "done" ELSE "actMirror")
  /\ UNCHANGED <<captured, http, cookies, failures, lastBeat, stopped, att,
                 stage, redis>>

\* _raise_if_expired: SessionExpired; with a client it also counts 99 failures.
ActExpired(w) ==
  /\ pc["act"][w] \in Ops
  /\ failures' = [failures EXCEPT ![w] = IF http[w] THEN MaxFailures ELSE @]
  /\ Goto("act", w, "done")
  /\ UNCHANGED <<status, captured, http, cookies, lastBeat, stopped, att,
                 stage, out, redis>>

ActMirrored(w) ==
  /\ pc["act"][w] = "actMirror"
  /\ Mirrored("act", w)
  /\ Goto("act", w, "done")
  /\ UNCHANGED <<fieldVars, att, stage>>
----------------------------------------------------------------------------
\* 60 s pass without a good heartbeat.
BeatAges(w) ==
  /\ StaleBeats /\ lastBeat[w] = "fresh"
  /\ lastBeat' = [lastBeat EXCEPT ![w] = "stale"]
  /\ UNCHANGED <<status, captured, http, cookies, failures, stopped, taskVars,
                 redis>>

\* The steps of one coroutine.
Step(k, w) ==
  \/ /\ k = "start"
     /\ \/ StartBegin(w) \/ StartMirrored(w) \/ ReadRedis(w)
        \/ ResumeClosed(w) \/ StartLogin(w)
  \/ /\ k \in Loggers
     /\ \/ HeartbeatBegin(k, w) \/ HeartbeatOk(k, w) \/ HeartbeatMirrored(k, w)
        \/ HeartbeatExpired(k, w) \/ HeartbeatRaises(k, w)
        \/ RecoverClosed(k, w) \/ BackoffOver(k, w)
        \/ LoginFails(k, w) \/ LoginSucceeds(k, w)
        \/ AdoptClosed(k, w) \/ AdoptMirrored(k, w) \/ ErrorMirrored(k, w)
  \/ /\ k = "stop"
     /\ StopLogoutSent(w) \/ StopClosed(w) \/ StopMirrored(w) \/ StopDeleted(w)
  \/ /\ k = "act"
     /\ ActOk(w) \/ ActExpired(w) \/ ActMirrored(w)

WorkerStep ==
  \E w \in Workers : BeatAges(w) \/ \E k \in Kinds : Step(k, w)
============================================================================
