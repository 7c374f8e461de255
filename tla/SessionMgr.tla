----------------------------- MODULE SessionMgr -----------------------------
(***************************************************************************)
(* The session-mgr process around the workers of one deployment:           *)
(*   session_supervisor.py  Loop A, diffs the database with .workers       *)
(*   heartbeat.py           Loop B, one beat loop per registered worker    *)
(*   api.py                 stop and the actions on a registered worker    *)
(*   main.py                shutdown; a restart keeps the Redis hash       *)
(***************************************************************************)
EXTENDS SessionWorker

CONSTANTS
  ReadMayFail, \* whether _sync_fetch_deployments may leave an active deployment out: a
               \* psycopg.Error, or a password of it that does not decrypt
  MayShutDown, \* whether the process may be told to stop (SIGTERM)
  MayApiStop,  \* whether POST .../stop is called
  None

ASSUME MgrAssumption ==
  /\ ReadMayFail \in BOOLEAN
  /\ MayShutDown \in BOOLEAN
  /\ MayApiStop \in BOOLEAN
  /\ None \notin Workers
  /\ Workers \cap {"idle", "fetched", "up", "beatsStopped", "cleared"} = {}

VARIABLES
  active,      \* the deployment's row has status starting or running
  made,        \* workers constructed so far
  registered,  \* supervisor.workers.get(deployment_id)
  beatOf,      \* the worker of scheduler._tasks[deployment_id]
  tick,        \* where _tick waits
  rows,        \* whether the rows it fetched hold the deployment
  synced,      \* _reconcile_tasks ran since .workers last changed
  main         \* main._run: up, then the stages of its shutdown

mgrVars == <<active, made, registered, beatOf, tick, rows, synced, main>>
vars == <<workerVars, mgrVars>>

Init ==
  /\ WorkerInit
  /\ active \in BOOLEAN
  /\ made = {}
  /\ registered = None
  /\ beatOf = None
  /\ tick = "idle"
  /\ rows = FALSE
  /\ synced = TRUE
  /\ main = "up"
----------------------------------------------------------------------------
(***************************************************************************)
(* The panel starts or stops the deployment: its row changes.              *)
(***************************************************************************)
\* (Bound: it comes back only while there is a worker left to make.)
PanelSetStatus ==
  /\ active \/ made # Workers
  /\ active' = ~active
  /\ UNCHANGED <<workerVars, made, registered, beatOf, tick, rows, synced, main>>
----------------------------------------------------------------------------
(***************************************************************************)
(* Loop A.                                                                 *)
(***************************************************************************)
\* _sync_fetch_deployments, in a thread: the rows may be out of date when the
\* tick goes on.  A database error yields no rows, and a row whose passwords do
\* not decrypt is dropped.  Timing assumption: ticks are 30 s apart and
\* reconciliations 2 s, so one of the latter comes between.
TickFetch ==
  /\ tick = "idle"
  /\ (main = "up" /\ synced) \/ main = "beatsStopped"
  /\ tick' = "fetched"
  /\ \/ rows' = active
     \/ ReadMayFail /\ rows' = FALSE
  /\ UNCHANGED <<workerVars, active, made, registered, beatOf, synced, main>>

\* _start_worker: register the worker, then create the task of start().
TickStart ==
  /\ tick = "fetched" /\ rows /\ registered = None
  /\ \E w \in Workers \ made :
       /\ made' = made \cup {w}
       /\ registered' = w
       /\ Goto("start", w, "new")
  /\ tick' = "idle"
  /\ synced' = FALSE
  /\ UNCHANGED <<fieldVars, att, stage, out, redis, active, beatOf, rows, main>>

\* _maybe_recover_unhealthy on a worker that is already registered.  A second
\* forced heartbeat is not modelled (bound): 30 s after the first one that one
\* waits in a login, without handles, and the second would return at once.
TickRefresh ==
  /\ tick = "fetched" /\ rows /\ registered # None
  /\ tick' = "idle"
  /\ IF lastBeat[registered] = "stale"
       THEN /\ failures' = [failures EXCEPT ![registered] = MaxFailures]
            /\ Goto("kick", registered, IF pc["kick"][registered] = "done"
                                        THEN "new" ELSE pc["kick"][registered])
       ELSE UNCHANGED <<failures, pc>>
  /\ UNCHANGED <<status, captured, http, cookies, lastBeat, stopped, att, stage,
                 out, redis, active, made, registered, beatOf, rows, synced,
                 main>>

\* Mutant of TickRemove: it skips a worker some other call has stopped.
ShyTickRemove ==
  /\ tick = "fetched" /\ ~rows /\ registered # None
  /\ \/ /\ registered' = None
        /\ synced' = FALSE
        /\ StopBegin(registered)
        /\ tick' = registered
     \/ /\ stopped[registered]
        /\ tick' = "idle"
        /\ UNCHANGED <<workerVars, registered, synced>>
  /\ UNCHANGED <<active, made, beatOf, rows, main>>

\* _stop_worker: unregister, then await stop(), which returns at once when
\* another call stopped the worker before.
TickRemove ==
  /\ tick = "fetched" /\ ~rows /\ registered # None
  /\ registered' = None
  /\ synced' = FALSE
  /\ \/ /\ StopBegin(registered)
        /\ tick' = registered
     \/ /\ stopped[registered]
        /\ tick' = "idle"
        /\ UNCHANGED workerVars
  /\ UNCHANGED <<active, made, beatOf, rows, main>>

TickEnd ==
  /\ \/ tick = "fetched" /\ ~rows /\ registered = None
     \/ tick \in Workers /\ pc["stop"][tick] = "done"
  /\ tick' = "idle"
  /\ UNCHANGED <<workerVars, active, made, registered, beatOf, rows, synced,
                 main>>
----------------------------------------------------------------------------
(***************************************************************************)
(* Loop B.  A cancelled coroutine ends at the await where it is.           *)
(***************************************************************************)
\* Mutant of Reconcile: the loops of departed workers are left running.
LaxReconcile ==
  /\ main = "up" /\ ~synced
  /\ synced' = TRUE
  /\ \/ /\ registered # None /\ beatOf = None
        /\ beatOf' = registered
        /\ Goto("beat", registered, "sleep")
     \/ /\ registered = None \/ beatOf # None
        /\ UNCHANGED <<beatOf, pc>>
  /\ UNCHANGED <<fieldVars, att, stage, out, redis, active, made, registered,
                 tick, rows, main>>

\* _reconcile_tasks.
Reconcile ==
  /\ main = "up" /\ ~synced
  /\ synced' = TRUE
  /\ \/ /\ registered # None /\ beatOf = None
        /\ beatOf' = registered
        /\ Goto("beat", registered, "sleep")
     \/ /\ registered = None /\ beatOf # None
        /\ beatOf' = None
        /\ Goto("beat", beatOf, "done")
     \/ /\ (registered = None) = (beatOf = None)
        /\ UNCHANGED <<beatOf, pc>>
  /\ UNCHANGED <<fieldVars, att, stage, out, redis, active, made, registered,
                 tick, rows, main>>
----------------------------------------------------------------------------
(***************************************************************************)
(* The API, on the registered worker.                                      *)
(***************************************************************************)
ApiStop ==
  /\ MayApiStop
  /\ registered # None
  /\ StopBegin(registered)
  /\ UNCHANGED mgrVars

ApiAct ==
  /\ registered # None
  /\ \E op \in Ops : ActBegin(registered, op)
  /\ UNCHANGED mgrVars
----------------------------------------------------------------------------
(***************************************************************************)
(* main._run after a signal: stop the beat loops, then stop_all, which     *)
(* sets the supervisor's _stop and awaits stop() of the workers it finds.  *)
(***************************************************************************)
ShutdownBeats ==
  /\ MayShutDown /\ main = "up"
  /\ main' = "beatsStopped"
  /\ beatOf' = None
  /\ IF beatOf = None THEN UNCHANGED pc ELSE Goto("beat", beatOf, "done")
  /\ UNCHANGED <<fieldVars, att, stage, out, redis, active, made, registered,
                 tick, rows, synced>>

ShutdownStopAll ==
  /\ main = "beatsStopped"
  /\ IF registered # None /\ ~stopped[registered]
       THEN StopBegin(registered) /\ main' = registered /\ UNCHANGED registered
       ELSE main' = "cleared" /\ registered' = None /\ UNCHANGED workerVars
  /\ UNCHANGED <<active, made, beatOf, tick, rows, synced>>

ShutdownClear ==
  /\ main \in Workers /\ pc["stop"][main] = "done"
  /\ main' = "cleared"
  /\ registered' = None
  /\ UNCHANGED <<workerVars, active, made, beatOf, tick, rows, synced>>

\* The process ends (or dies), and another one starts: only the hash is left.
Restart ==
  /\ MayShutDown
  /\ pc' = [k \in Kinds |-> [w \in Workers |-> "done"]]
  /\ captured' = [w \in Workers |-> FALSE]
  /\ http' = [w \in Workers |-> FALSE]
  /\ status' = [w \in Workers |-> "logging_in"]
  /\ registered' = None /\ beatOf' = None /\ tick' = "idle"
  /\ rows' = FALSE /\ synced' = TRUE /\ main' = "up"
  /\ UNCHANGED <<cookies, failures, lastBeat, stopped, att, stage, out, redis,
                 active, made>>
----------------------------------------------------------------------------
Supervisor == TickFetch \/ TickStart \/ TickRefresh \/ TickRemove \/ TickEnd
Shutdown == ShutdownBeats \/ ShutdownStopAll \/ ShutdownClear \/ Restart

Next ==
  \/ PanelSetStatus
  \/ Supervisor
  \/ Reconcile
  \/ ApiStop \/ ApiAct
  \/ Shutdown
  \/ WorkerStep /\ UNCHANGED mgrVars

Spec == Init /\ [][Next]_vars

\* The event loop runs every coroutine that can go on; requests and logins end
\* (each has a timeout).  The panel, the API and the process's end are free.
Fairness ==
  /\ WF_vars(Supervisor)
  /\ WF_vars(Reconcile)
  /\ \A k \in Kinds, w \in Workers : WF_vars(Step(k, w) /\ UNCHANGED mgrVars)

FairSpec == Spec /\ Fairness
----------------------------------------------------------------------------
(***************************************************************************)
(* Properties.                                                             *)
(***************************************************************************)
TypeOK ==
  /\ WorkerTypeOK
  /\ active \in BOOLEAN
  /\ made \subseteq Workers
  /\ registered \in Workers \cup {None}
  /\ beatOf \in Workers \cup {None}
  /\ tick \in {"idle", "fetched"} \cup Workers
  /\ rows \in BOOLEAN
  /\ synced \in BOOLEAN
  /\ main \in {"up", "beatsStopped", "cleared"} \cup Workers

\* heartbeat.py:3: every supervised worker has its own heartbeat coroutine.
\* The scheduler keys its tasks by deployment, so a worker that replaced
\* another must never be left with its predecessor's beat loop.
BeatFollowsWorker ==
  /\ registered # None /\ beatOf # None => beatOf = registered
  /\ \A w \in Workers : pc["beat"][w] # "done" => beatOf = w

\* session_worker.py:88-105, 233-266, 317-343: a worker that calls itself
\* ready or paused can carry out an action, or one of its coroutines is about
\* to give it a new session; unless it resumed one from Redis, when two logins
\* may run side by side (OneLoginPerWorker) and one drop the other's client.
UsableOrRecovering(w) ==
  \/ captured[w] /\ http[w]
  \/ \E k \in Loggers : pc[k][w] \in LoginPcs
  \/ stopped[w]

ReadyIsUsable ==
  \A w \in Workers :
    main = "up" /\ stage[w] = "login" /\ status[w] \in {"ready", "paused"}
      => UsableOrRecovering(w)

\* session_worker.py:233-343: the login of start() and a recovery of the beat
\* loop or of the supervisor's kick run side by side only after a resume from
\* Redis: nothing else leaves a captured session for the others to recover
\* while start() is still on its way.
OneLoginPerWorker ==
  \A w \in Workers, k \in {"beat", "kick"} :
    pc["start"][w] \in LoginPcs /\ pc[k][w] \in LoginPcs => stage[w] # "login"

\* session_worker.py:235-241: once stopped, a worker's login loop goes no
\* further round: it never falls asleep before a retry, and begins no login
\* but the one whose wait had begun before.
StopEndsRetries ==
  [][\A w \in Workers, k \in Loggers :
       stopped[w] /\ pc'[k][w] # pc[k][w] =>
         /\ pc'[k][w] # "backoff"
         /\ pc'[k][w] = "login" => pc[k][w] = "backoff"]_vars

\* session_supervisor.py:109-124: the diff of database and .workers
\* converges, whatever it was interrupted by.
Converges ==
  /\ <>[]active  => <>[](registered # None)
  /\ <>[]~active => <>[](registered = None)

\* session_supervisor.py:145-154, heartbeat.py:72-75: after a worker is
\* unregistered none of its coroutines goes on for ever.
RemovedGoesQuiet ==
  \A w \in Workers :
    w \in made /\ registered # w ~> \A k \in Kinds : pc[k][w] = "done"

\* The supervisor follows the database: who is active is served, who is not goes quiet.
RegistryFollows == Converges /\ RemovedGoesQuiet

(***************************************************************************)
(* What the documentation and the tests say, and the code does not do.     *)
(***************************************************************************)
\* session_worker.py:14: "await worker.stop()       # logout + cleanup".
\* Once stop() has returned the worker holds no client.
StopCleansUp ==
  \A w \in Workers : stopped[w] /\ pc["stop"][w] = "done" => ~http[w]
============================================================================
