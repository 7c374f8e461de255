----------------------------- MODULE WorkerPool -----------------------------
(***************************************************************************)
(* workers/src/aipanel_worker/main.py: the supervisors of the worker       *)
(* processes, the two queues they take jobs from and the keys              *)
(* calls:active:<id> with which they reserve a call.                       *)
(*                                                                         *)
(* One step per await of _supervisor and of _wrapped.  Of a CallSession    *)
(* only its end matters here; how it may fail to end is CallSession.tla's  *)
(* DeafSpeaker.                                                            *)
(***************************************************************************)
EXTENDS Naturals, FiniteSets

CONSTANTS
  Workers,      \* the worker processes
  Calls,        \* call ids, each published at most once in either queue
  Concurrency,  \* cfg.concurrency: 10 in the code
  RedisMayFail, \* whether a command may raise RedisError
  MayCrash,     \* whether a process may be killed
  None

ASSUME PoolAssumption ==
  /\ Concurrency \in Nat \ {0}
  /\ RedisMayFail \in BOOLEAN /\ MayCrash \in BOOLEAN
  /\ None \notin Calls \X {"list", "stream"}

VARIABLES
  at,        \* where each _supervisor waits; "failed": it raised
  job,       \* the job it has in hand
  permits,   \* the value of its semaphore
  task,      \* its _wrapped task for each job
  term,      \* shutting_down
  offered,   \* the queues each call was published in
  list,      \* calls:incoming
  stream,    \* entries the consumer group has not delivered
  group,     \* the consumer group exists
  reserved,  \* calls whose key calls:active:<id> exists
  orphan,    \* history: calls whose key will only go when its TTL runs out
  outlived   \* history: calls whose key ran out while a task had them

queueVars == <<offered, list, stream, group>>
keyVars   == <<reserved, orphan, outlived>>
vars == <<at, job, permits, task, term, queueVars, keyVars>>

Queues  == {"list", "stream"}
Jobs    == Calls \X Queues   \* a call as it was taken from a queue
Pulling == {"pull", "read", "ack", "reserve"}   \* a permit is held for the job
Live    == {"acquire", "drain"} \cup Pulling

\* A session, with a speaker that does not end ("deaf") and one that has swallowed its
\* cancellation ("stuck"); then the release of the key, of a cancelled task too.
TaskStates == {"none", "session", "deaf", "stuck", "release", "cancelled"}

TypeOK ==
  /\ at \in [Workers -> Live \cup {"failed", "down"}]
  /\ job \in [Workers -> Jobs \cup {None}]
  /\ permits \in [Workers -> 0..Concurrency]
  /\ task \in [Workers -> [Jobs -> TaskStates]]
  /\ term \in [Workers -> BOOLEAN]
  /\ offered \in [Calls -> SUBSET Queues]
  /\ list \subseteq Calls /\ stream \subseteq Calls
  /\ group \in BOOLEAN
  /\ reserved \subseteq Calls /\ orphan \subseteq Calls /\ outlived \subseteq Calls

Idle == [j \in Jobs |-> "none"]
Tasks(w) == {j \in Jobs : task[w][j] # "none"}
Handled(w) == {j[1] : j \in Tasks(w)}      \* the calls of its tasks

Init ==
  /\ at = [w \in Workers |-> "down"]
  /\ job = [w \in Workers |-> None]
  /\ permits = [w \in Workers |-> Concurrency]
  /\ task = [w \in Workers |-> Idle]
  /\ term = [w \in Workers |-> FALSE]
  /\ offered = [c \in Calls |-> {}]
  /\ list = {} /\ stream = {}
  /\ group \in BOOLEAN
  /\ reserved = {} /\ orphan = {} /\ outlived = {}
----------------------------------------------------------------------------
(***************************************************************************)
(* Producers.  What reaches the stream before the group exists is never    *)
(* delivered: the group starts at "$".                                     *)
(***************************************************************************)
Publish(c) ==
  /\ \E q \in Queues \ offered[c] :
       /\ offered' = [offered EXCEPT ![c] = @ \cup {q}]
       /\ list' = IF q = "list" THEN list \cup {c} ELSE list
       /\ stream' = IF q = "stream" /\ group THEN stream \cup {c} ELSE stream
  /\ UNCHANGED <<at, job, permits, task, term, group, keyVars>>
----------------------------------------------------------------------------
(***************************************************************************)
(* The loop of _supervisor.                                                *)
(***************************************************************************)
Goto(w, p) == at' = [at EXCEPT ![w] = p]

\* while not shutting_down.is_set()
Loop(w) == Goto(w, IF term[w] THEN "drain" ELSE "acquire")

GiveBack(w) == permits' = [permits EXCEPT ![w] = @ + 1]

Start(w) ==
  /\ at[w] = "down"
  /\ Goto(w, "acquire")
  /\ UNCHANGED <<job, permits, task, term, queueVars, keyVars>>

Acquire(w) ==
  /\ at[w] = "acquire" /\ permits[w] > 0
  /\ permits' = [permits EXCEPT ![w] = @ - 1]
  /\ Goto(w, "pull")
  /\ UNCHANGED <<job, task, term, queueVars, keyVars>>

\* BRPOP on the list: a job, or nothing within two seconds, or an error.
PopList(w) ==
  /\ at[w] = "pull"
  /\ \/ \E c \in list :
          /\ list' = list \ {c}
          /\ job' = [job EXCEPT ![w] = <<c, "list">>]
          /\ Goto(w, "reserve")
     \/ /\ list = {} \/ RedisMayFail
        /\ Goto(w, "read")
        /\ UNCHANGED <<list, job>>
  /\ UNCHANGED <<permits, task, term, offered, stream, group, keyVars>>

\* What another producer put on the list is no job, or lacks a field; JSON that is no
\* object raises out of the loop.
Invalid(w) ==
  /\ at[w] = "pull"
  /\ \/ GiveBack(w) /\ Loop(w)
     \/ Goto(w, "failed") /\ UNCHANGED permits
  /\ UNCHANGED <<job, task, term, queueVars, keyVars>>

\* _ensure_stream_group.
CreateGroup(w) ==
  /\ at[w] = "read" /\ ~group
  /\ group' = TRUE
  /\ UNCHANGED <<at, job, permits, task, term, offered, list, stream, keyVars>>

\* XREADGROUP delivers an entry to one consumer, once.
ReadStream(w) ==
  /\ at[w] = "read" /\ group
  /\ \E c \in stream :
       /\ stream' = stream \ {c}
       /\ job' = [job EXCEPT ![w] = <<c, "stream">>]
  /\ Goto(w, "ack")
  /\ UNCHANGED <<permits, task, term, offered, list, group, keyVars>>

\* No entry within two seconds, or an error: the permit goes back.
ReadNothing(w) ==
  /\ at[w] = "read"
  /\ (group /\ stream = {}) \/ RedisMayFail
  /\ GiveBack(w)
  /\ Loop(w)
  /\ UNCHANGED <<job, task, term, queueVars, keyVars>>

\* XACK, whatever comes of it.
Ack(w) ==
  /\ at[w] = "ack"
  /\ Goto(w, "reserve")
  /\ UNCHANGED <<job, permits, task, term, queueVars, keyVars>>

\* Mutant of Reserve: SET without NX.
BoldReserve(w) ==
  /\ at[w] = "reserve"
  /\ reserved' = reserved \cup {job[w][1]}
  /\ task' = [task EXCEPT ![w][job[w]] = "session"]
  /\ job' = [job EXCEPT ![w] = None]
  /\ Loop(w)
  /\ UNCHANGED <<permits, term, queueVars, orphan, outlived>>

\* SET NX: the call is this worker's, and its task is created.
Reserve(w) ==
  /\ at[w] = "reserve" /\ job[w][1] \notin reserved
  /\ reserved' = reserved \cup {job[w][1]}
  /\ task' = [task EXCEPT ![w][job[w]] = "session"]
  /\ job' = [job EXCEPT ![w] = None]
  /\ Loop(w)
  /\ UNCHANGED <<permits, term, queueVars, orphan, outlived>>

\* Mutant of Taken: the permit is kept.
GreedyTaken(w) ==
  /\ at[w] = "reserve" /\ job[w][1] \in reserved
  /\ job' = [job EXCEPT ![w] = None]
  /\ Loop(w)
  /\ UNCHANGED <<permits, task, term, queueVars, keyVars>>

\* Another task has the call.
Taken(w) ==
  /\ at[w] = "reserve" /\ job[w][1] \in reserved
  /\ GiveBack(w)
  /\ job' = [job EXCEPT ![w] = None]
  /\ Loop(w)
  /\ UNCHANGED <<task, term, queueVars, keyVars>>

\* _reserve does not catch a RedisError, which ends _supervisor; the key may
\* have been set all the same.
ReserveFails(w) ==
  /\ at[w] = "reserve" /\ RedisMayFail
  /\ \/ UNCHANGED keyVars
     \/ /\ job[w][1] \notin reserved
        /\ reserved' = reserved \cup {job[w][1]}
        /\ orphan' = orphan \cup {job[w][1]}
        /\ UNCHANGED outlived
  /\ job' = [job EXCEPT ![w] = None]
  /\ Goto(w, "failed")
  /\ UNCHANGED <<permits, task, term, queueVars>>
----------------------------------------------------------------------------
(***************************************************************************)
(* The task of a call.                                                     *)
(***************************************************************************)
SetTask(w, j, s) == task' = [task EXCEPT ![w][j] = s]

\* The call is over, and run() with it; or run() waits for its speaker.
SessionEnds(w, j) ==
  /\ task[w][j] = "session"
  /\ \/ SetTask(w, j, "release")
     \/ SetTask(w, j, "deaf")
  /\ UNCHANGED <<at, job, permits, term, queueVars, keyVars>>

\* The DEL of _release: its failure is swallowed, and it takes the key whoever set it.
Delete(c) ==
  /\ \/ reserved' = reserved \ {c} /\ orphan' = orphan \ {c}
     \/ /\ RedisMayFail
        /\ orphan' = orphan \cup ({c} \cap reserved)
        /\ UNCHANGED reserved
  /\ UNCHANGED outlived

\* Mutant of ForceCancel: only calls in progress are cancelled.
ShyForceCancel(w, j) ==
  /\ at[w] \in {"drain", "failed"}
  /\ task[w][j] = "session"
  /\ SetTask(w, j, "cancelled") \/ SetTask(w, j, "stuck")
  /\ UNCHANGED <<at, job, permits, term, queueVars, keyVars>>

\* The time-out of the drain cancels the gather and so every task, once, as does
\* asyncio.run after _supervisor raised.  A speaker that streams swallows it, and a
\* task that waits for its DEL ends without giving its permit back.
ForceCancel(w, j) ==
  /\ at[w] \in {"drain", "failed"}
  /\ \/ task[w][j] \in {"session", "deaf"} /\ SetTask(w, j, "cancelled") /\ UNCHANGED keyVars
     \/ task[w][j] = "session" /\ SetTask(w, j, "stuck") /\ UNCHANGED keyVars
     \/ /\ task[w][j] = "release" /\ SetTask(w, j, "none")
        /\ \/ Delete(j[1])
           \/ orphan' = orphan \cup ({j[1]} \cap reserved) /\ UNCHANGED <<reserved, outlived>>
  /\ UNCHANGED <<at, job, permits, term, queueVars>>

\* Mutant of Release: the key is not deleted.
LeakyRelease(w, j) ==
  /\ task[w][j] \in {"release", "cancelled"}
  /\ SetTask(w, j, "none")
  /\ GiveBack(w)
  /\ UNCHANGED <<at, job, term, queueVars, keyVars>>

\* The finally of _wrapped: DEL and the permit.
Release(w, j) ==
  /\ task[w][j] \in {"release", "cancelled"}
  /\ SetTask(w, j, "none")
  /\ GiveBack(w)
  /\ Delete(j[1])
  /\ UNCHANGED <<at, job, term, queueVars>>

\* reservation_ttl_sec after its SET a key runs out, whatever its task is doing.
Expire(c) ==
  /\ c \in reserved
  /\ reserved' = reserved \ {c}
  /\ orphan' = orphan \ {c}
  /\ outlived' = IF \E w \in Workers : c \in Handled(w) THEN outlived \cup {c} ELSE outlived
  /\ UNCHANGED <<at, job, permits, task, term, queueVars>>
----------------------------------------------------------------------------
(***************************************************************************)
(* The end of a process.                                                   *)
(***************************************************************************)
Signal(w) ==
  /\ at[w] \in Live /\ ~term[w]
  /\ term' = [term EXCEPT ![w] = TRUE]
  /\ UNCHANGED <<at, job, permits, task, queueVars, keyVars>>

Exit(w) ==
  /\ Goto(w, "down")
  /\ job' = [job EXCEPT ![w] = None]
  /\ permits' = [permits EXCEPT ![w] = Concurrency]
  /\ task' = [task EXCEPT ![w] = Idle]
  /\ term' = [term EXCEPT ![w] = FALSE]
  /\ UNCHANGED queueVars

\* The gather is over.
Stop(w) ==
  /\ at[w] \in {"drain", "failed"} /\ Tasks(w) = {}
  /\ Exit(w)
  /\ UNCHANGED keyVars

\* SIGKILL, or a host that goes down.
Crash(w) ==
  /\ MayCrash /\ at[w] # "down"
  /\ Exit(w)
  /\ orphan' = orphan \cup (Handled(w) \cap reserved)
  /\ UNCHANGED <<reserved, outlived>>
----------------------------------------------------------------------------
Supervise(w) ==
  \/ Acquire(w) \/ PopList(w) \/ Invalid(w) \/ CreateGroup(w) \/ ReadStream(w)
  \/ ReadNothing(w) \/ Ack(w) \/ Reserve(w) \/ Taken(w) \/ ReserveFails(w)
  \/ Stop(w)

Next ==
  \/ \E c \in Calls : Publish(c) \/ Expire(c)
  \/ \E w \in Workers : Start(w) \/ Supervise(w) \/ Signal(w) \/ Crash(w)
  \/ \E w \in Workers, j \in Jobs :
       SessionEnds(w, j) \/ ForceCancel(w, j) \/ Release(w, j)

Spec == Init /\ [][Next]_vars

(***************************************************************************)
(* Fairness: the event loop runs, commands of Redis return and time-outs   *)
(* fire.  Calls need not end, processes need not start or be told to stop. *)
(***************************************************************************)
FairSpec ==
  /\ Spec
  /\ \A w \in Workers :
       /\ WF_vars(Supervise(w))
       /\ \A j \in Jobs : WF_vars(ForceCancel(w, j)) /\ WF_vars(Release(w, j))
----------------------------------------------------------------------------
(***************************************************************************)
(* Properties.                                                             *)
(***************************************************************************)
\* main.py:121-134: whatever is published twice, lost or killed, one task at a
\* time has a call, as long as the call does not outlive its key.
OneHandler ==
  \A v, w \in Workers : \A i \in Tasks(v), j \in Tasks(w) :
    i[1] = j[1] /\ i[1] \notin outlived => v = w /\ i = j

\* main.py:123-133: a call's key exists only while a task has the call, or
\* until its TTL because the task was killed or could not delete it.
ReservedIsHeld ==
  \A c \in reserved : c \in orphan \/ \E w \in Workers : c \in Handled(w)

\* main.py:183-222: no path through the loop and the tasks loses a permit of
\* the semaphore while calls are taken, or gives one back twice at any time;
\* only the cancels of a drain may lose one, of a task that was releasing.
PermitsBalance ==
  \A w \in Workers :
    /\ at[w] \in {"acquire"} \cup Pulling =>
         permits[w] + Cardinality(Tasks(w)) + (IF at[w] \in Pulling THEN 1 ELSE 0)
           = Concurrency
    /\ permits[w] + Cardinality(Tasks(w)) <= Concurrency

\* main.py:223-239: a drain ends, however many calls there are and whatever
\* they wait for, unless one is stuck in its speaker (CallSession.tla).
Stuck(w) == \E j \in Jobs : task[w][j] = "stuck"

DrainEnds ==
  \A w \in Workers : at[w] = "drain" ~> (at[w] = "down" \/ Stuck(w))

(***************************************************************************)
(* What the documentation says, and the code does not do.                  *)
(***************************************************************************)
\* main.py:124: "SETNX-equivalent reservation so two workers don't double-handle a call."
NoDoubleHandling ==
  \A v, w \in Workers : v # w => Handled(v) \cap Handled(w) = {}
=============================================================================
