# Verification of aipanel

aipanel answers and makes calls for a ViciDial call centre with an AI agent. This
directory holds TLA+ models of its long-running processes, the TLC runs that
check them on small instances, and TLAPS proofs of the properties that matter
most for every instance. Line numbers are those of `src/` at this commit.

The models are written from the code. Where a comment, docstring or test says
something the code does not do, a run shows it, or section 6 lists it.

Contents: 1 the system, 2 the modules, 3 the runs, 4 bounds and fairness, 5 the
proofs, 6 where the code and its documentation disagree, 7 what is not modelled,
8 what is left.

## 1. The system

```
 caller -- ViciDial --SIP--> sip service --stream--> worker processes --HTTP--> LLM, STT, TTS
                               |  unix socket per call  |                  \--> session manager
                               +------------------------+                          |
 panel (FastAPI + jobs) ---- Postgres, Redis ------------------------------- session manager --> ViciDial
```

| component | state it keeps | operations | talks to |
|---|---|---|---|
| **session manager** `session-mgr/` | per deployment one `SessionWorker`: status, captured session, HTTP client, cookies, failures, lock; the supervisor's registry; the scheduler's tasks; a Redis hash per deployment; a pool of browser contexts | start, stop, login with back-off, resume from Redis, heartbeat, recovery, API actions; tick (Loop A), reconcile (Loop B), shutdown | ViciDial over HTTP and a browser; Redis; Postgres (read); called by panel and workers |
| **sip service** `sip/` | calls in progress; accounts with retry timers; per call an `AudioBridge` (socket, two threads, two queues) | INVITE, worker's HANGUP, DISCONNECTED, shutdown; register, retry, pub/sub; frames in and out | PJSIP (callbacks on its threads), Redis, unix sockets |
| **worker supervisor** `workers/main.py` | semaphore, tasks, queues, reservation keys | pull, reserve, run, release, SIGTERM, drain | Redis, sip service's stream |
| **worker call session** `workers/` | per call five tasks, a speech queue, cancel events, prompt, history, transcript queue, recording buffers | set-up, turns, tools, speech, barge-in, transcript, recording, clean-up | the socket, STT, LLM, TTS, session manager, Postgres, MinIO |
| **panel backend** `panel/backend/` | Postgres rows, update runs in memory, job queue, token denylist | CRUD, login, deployments, calls, updates, ingest and clone jobs, event streams | session manager, Redis, ARQ jobs, model servers |
| **model servers** `stt-server/ llm-server/ tts-server/ embed-server/` | a loaded model; STT a segment per connection; LLM a child process and a count of requests; TTS a thread pool and voices | stream, proxy, synthesize, clone, embed | worker, panel |
| **scripts** `update.sh`, `installer/`, `backup.sh`, `restore.sh` | git checkout, schema, backups, units | update, rollback, migrate | all services |
| **panel frontend, dev** | - | - | panel |

What is hard, and what makes each component correct:

* *Session manager.* Five kinds of coroutines share the fields of a worker and
  interleave at every await; workers of one deployment overlap; database, Redis and
  ViciDial fail. A worker that calls itself ready must be usable or under repair;
  logins must not overlap, nor find each other's session in a browser context; a stopped
  worker must not go on retrying; the registry must follow the database, and beat loops
  the registry.
* *Sip service.* PJSIP's thread, a reader thread per call and the signal handler
  race to end a call: it must be counted once; a refused INVITE must leave nothing
  behind; the registry must empty. Three threads pass audio through bounded queues: it
  must keep its order. Timers and a pub/sub thread register accounts: none may be left
  untried or unknown.
* *Worker supervisor.* Duplicated or lost jobs, Redis errors, crashes and
  cancellations. One handler per call, no permit or key lost, and drains that end.
* *Call session.* Barge-ins, lost answers, hang-ups and cancellations in every
  stage. The interruption must hit the right request; a terminal tool must be the
  last and end the call; the disposition must be true; the clean-up must follow; the
  transcript and the recording must be whole; what the agent says of one column must be
  of one save.
* *Panel.* Transactions that commit after side effects or decide on what they read
  earlier, in-memory state that a restart loses, streams that replay and follow, replies
  that are lost or too late.
* *Model servers, update.sh.* Segments and their order; a thread pool whose readers
  leave; a counter of requests that the shutdown waits for; a rollback that must leave a
  working system.

`PROJECT.json` lists every component under `components`, and under `hazards` the
places where something can go wrong that a test would hardly reach, with the properties
that watch them.

## 2. The modules

| module | models | of |
|---|---|---|
| `SessionWorker` | `session_worker.py` (with `http_session.py`, `login.py` as outcomes) | session manager |
| `SessionMgr` | `session_supervisor.py`, `heartbeat.py`, `api.py`, `main.py` around the workers of one deployment; extends `SessionWorker` | |
| `BrowserLogin` | `login.py`: the pool of contexts, `login_once` and its clean-up | |
| `SipCalls` | `call_handler.py`, `audio_bridge.py`, `worker_dispatcher.py`, the shutdown of `main.py` | sip service |
| `AudioPath`, `LossyFifo` | the frames of one call through `audio_bridge.py`; what they promise | |
| `SipAccounts` | `account_manager.py` | |
| `WorkerPool` | `main.py`: supervisors, two queues, reservation keys, drain | workers |
| `CallSession` | one call: `call_session.py`, `conversation.py`, `audio_out.py`, `barge_in.py`, `tools.py` | |
| `CallPrompt` | `_sync_load_agent` and `_build_system_prompt`, with the panel's edits of agents and campaigns | |
| `Transcript`, `Recorder` | `transcript_writer.py`, `recorder.py` | |
| `SpeechStream` | `audio_in.py` and the STT server's `streaming.py` | model servers |
| `TtsStream` | the TTS server's `synthesizer.py` | |
| `LlmProxy` | the LLM server's `launcher.py` and `main.py` | |
| `VoiceClone` | `voices.py`, `voice_clone_job.py`, the TTS server's `cloner.py` | panel, TTS |
| `PanelTokens`, `PanelAdmins` | `auth/`, `auth.py`; the users of `tenants.py` | panel |
| `PanelDeployments`, `CallActions` | `deployments.py`, `deployment_service.py`, `session_mgr_client.py`; transfers and test calls through panel, manager and dialler | |
| `AgentRecords`, `CampaignMining` | `agents.py`; `campaign_mine_job.py`, the metrics of `campaigns_service.py` | |
| `KbIngest`, `KbChunks` | `kb.py` and `kb_ingest_job.py`; its chunker | |
| `UpdateRuns`, `LiveEvents` | `updates.py`; `sse.py` with the live stream of `deployments.py` | |
| `UpdateScript` | `update.sh` | scripts |
| `PanelRecords`, `CallRecords`, `WorkerCall` | the components above that are proved about together, side by side and without shared state: users, tokens, agents and `update.sh`; prompt, transcript, recorder, mining and chunks; the call session | |
| `MC*` | instances, symmetry, and the side by side of independent components | |
| `*Proofs` | theorems and their proofs | |

Operators with a comment "Mutant of ..." are not part of any specification: each is a
definition with a plausible bug, used to see that a property can fail.

### Session manager

All coroutines of the session manager run on one event loop, so the code between two
awaits is one action, and the value of `pc[k][w]` is the await at which coroutine
`k` of worker `w` waits. The kinds are the login task (`start`), the scheduler's loop
(`beat`), the heartbeat that the supervisor forces (`kick`), `stop` and the API action
that holds `_lock` (`act`). Fields are variables of their own name; `redis` is the
content of the one hash `vici:session:<id>`, reduced to absent, without or with
cookies. A login, a heartbeat and an action are reduced to their outcome: good,
expired, or an exception. `failures` saturates at `MaxFailures`, and `att` is the delay
a login loop has reached.

`SessionMgr` adds the deployment's row (`active`), the registry, the tick between its
fetch in a thread and its effects, the scheduler's task, stop and actions of the API,
and shutdown and restart with the hash kept. A fetch may fail, or leave the row out because
its passwords cannot be decrypted (`ReadMayFail`); the tick cannot tell either from a
deployment that was removed, and stops the worker. `Workers` are the `SessionWorker` objects
made one after the other for ONE deployment: deployments share only the scheduler's
semaphore, whose effect is the constant `StaleBeats`. Assumptions, each named where it is
made: ticks are 30 s apart and reconciliations 2 s, so a reconciliation comes between two
ticks (`TickFetch`); one `stop()` per worker has effect; the deployment comes back only
while there is a worker left to make (`PanelSetStatus`, a bound).

`BrowserLogin` opens the log-in that `SessionWorker` reduces to its outcome: the queue of
waiters, the page, the form, the capture, and the two clean-ups (`page.close()`,
`clear_cookies()`), each of which may fail or be cut off by a cancellation. A page that
stays open goes on setting cookies (`PageSets`).

### Sip service

`SipCalls` has one action per step of a thread between two points where another can
interfere: locks, socket calls, PJSIP calls. `handler[c]` is the stage of
`handle_invite`, `reader[c]` of the bridge's reader thread, `callback[c]` of
`onCallState(DISCONNECTED)`, `main` of the signal handler with its snapshot `toHang`.
PJSIP holds the dialog's lock during a callback (`Held`), which is what keeps a call
from being tracked after its end. The worker's end of the socket and the dialog are
the environment. Audio and DTMF are a number of frames (`MaxBacklog`).

`AudioPath` opens that number for one call: `_inbound`, the frame in the writer's hand,
the socket, and the way back through `_outbound`; one action per critical section or
socket call. `LossyFifo` is the abstract specification of one direction, and
`AudioKeepsOrder` says that `AudioPath` implements it twice, once per direction: the
refinement is checked by TLC and proved by TLAPS.

`SipAccounts` has the staggered timers of `load_initial`, the pub/sub thread, PJSIP's
registrations and the retry timers. The lock protects the map only: an account is checked
for, made, and entered in three steps.

### Workers

`WorkerPool`: one action per await of `_supervisor` and of `_wrapped`. `at[w]` is where the
supervisor waits. A job is a call with the queue it was taken from: a call is published at
most once in either, so each may be handed out twice. `task[w][j]` is the task of a job: in
its session, waiting for a speaker that will not end (`deaf`), streaming through its
cancellation (`stuck`), in the `finally` (`release`), or there after a cancel of the drain
(`cancelled`). A cancel that lands on a task in its DEL ends it without `sem.release()`. A
crash may come anywhere. A key runs out at any time (`Expire`), under a task too; then the
call is in `outlived`, a history variable, and the unconditional DEL of its task may take the
key of another. `orphan` are the keys that nobody will delete.

`CallSession`: one action per await of the five tasks of a call and of `__aenter__`,
`run()` and `__aexit__`. Speech is a count of queued requests and one that is being
streamed; `interrupted` and `late` are history for the properties. An answer of the LLM is a
number of tool calls (`MaxTools`) and a terminal tool or none; ViciDial carries a
request out or not, and its answer may be lost either way. *Assumption:* the session
manager's client is enabled.

`CallPrompt` joins both ends of what an agent says: the panel's edits of agent, deployment
and campaigns, and the two queries and the merge with which a worker builds the prompt. A
text is the row it was written to and the number of the edit. An edit of the agent writes
persona, script or both, each whole, with its empty lines. `Transcript` has the row of the
call, the queue of events, the batches and the threads that outlive a cancelled task;
`Recorder` the buffers of both directions as intervals of bytes, odd lengths included; it
has no time, as the recorder has none.

### Model servers

`SpeechStream` follows the caller's audio, in blocks, from the worker's queue through the
websocket, the voice detector and the segment buffer to partials and finals, with `end`,
a lost connection, and the cap on a segment. `TtsStream` has the executor's threads, a
bounded queue per request and a client that leaves. `LlmProxy` has the wrapper's life
around its child and every place where a request gives back its count.

### Panel and scripts

One action per await that lets another request, job or process in, and one commit per
transaction. What is in memory (`UpdateRuns`) is lost at a restart; jobs are ARQ's: they
run at least once, up to `MaxTries`, may be cancelled, and may overtake the commit of the
request that queued them (`early`). An agent's list of recordings is a set: nothing
depends on its order. `PanelDeployments` and `CallActions` have both sides of
the panel's calls to the session manager, which is reduced to one worker; a reply may be
lost after the work was done, and an error page of the web server counts as done where the
code takes it so (`ErrorPage`). `LiveEvents` has the keep-alive loop around the subscription:
its time-out and a browser that leaves (`Disconnect`) each cancel the source in its await.

`UpdateScript` has the steps of `update.sh` in their order, over the commit that HEAD names and
the version of the files, which `--offline` sets apart; `--rollback` is an update to the version
on file. A script ends `done`; `failed`, when the trap ran; `died`, before the trap is set;
`aborted`, when a function fails under the trap, which it does not inherit; or `killed`, by
the restart of `aipanel-web` when the panel had started it. In the trap, checkout,
`dropdb`, restore and restarts may each fail and be passed over.

## 3. The runs

Components that share no state are checked side by side: the modules `MCSafety`,
`MCWorker`, `MCServices` and `MCDialler` declare a variable `running` that `Init` chooses
and nothing changes, and only the component it names moves. Their state spaces add up
instead of multiplying, and no behaviour of a component is lost. The base component of such
a module is extended and the others are instances with their variables renamed, so
a property there is the component's own. Safety-only components are apart from those with
fairness, which need no symmetry.

| run | instance | shows |
|---|---|---|
| `session_safe` | 1 worker, all four kinds of actions, 3 failures, 1 back-off, Redis errors, failing reads; and 2 workers, 2 failures, 1 back-off, failing reads, shutdown and restart | `TypeOK`, `ReadyIsUsable`, `OneLoginPerWorker`, `BeatFollowsWorker` |
| `session_live` | 1 worker, 2 failures, 1 back-off, old beats, API stop, fairness | `RegistryFollows`, `StopEndsRetries` |
| `safety` | sip service: 2 calls, 1 frame. Mining: 3 calls, of up to 4, up to 2 and 2 events, a limit of 2 calls and a pool of 2. Chunks: up to 5 sentences of 1, 2 or 5 tokens. update.sh: 2 versions, 3 scripts. Tokens: 1 token, 2 requests, 5 half seconds. Users: 2. Agent: 2 recordings, 2 requests. Prompt: 2 campaigns, 2 edits. Transcript: 4 events in batches of 2. Recorder: chunks of 1 to 3 bytes, 7 bytes | `CountedOnce`, `RefusedLeavesNoSocket`, `TrackedIsLive`, `PoolIsBest`, `ChunksAreSound`, `OneVersionRuns`, `LogoutHolds`, `AdminsRemain`, `AgentIsConsistent`, `PromptIsOfOnePiece`, `TranscriptIsWhole`, `RecordingIsSound` |
| `worker` | supervisor: 2 processes, 1 call published in both queues, 2 permits, Redis errors, keys that run out, crashes. Call: speech queue of 2, 2 tool calls. Fairness | `OneHandler`, `ReservedIsHeld`, `PermitsBalance`, `DrainEnds`, `BargeInIsClean`, `HonestDisposition`, `CallEndsOnce` |
| `services` | audio: 4 frames, queues of 2, wire of 1. Sip service: 1 call, 2 frames. Speech: 5 blocks, queue and cap of 2. TTS: 2 requests of 3 slices, 1 thread, queue of 1. LLM: 2 requests. Updates: 2 runs of 2 lines, 1 stream, queue of 2. Events: 4. Document: 0 or 2 chunks, 3 tries, 2 faults. Voice: 2 tries, 2 faults. Fairness | `AudioKeepsOrder`, `LatestAudioArrives`, `CallsAreLetGo`, `SpeechIsTranscribed`, `SpeechReachesItsEnd`, `ProxyLives`, `UpdateIsFollowed`, `EventsAreStreamed`, `DocumentIsIngested`, `VoiceIsCloned` |
| `dialler` | accounts: 1 deployment, 2 account objects, 2 messages, 1 flap, 2 delays. Deployment: 2 requests, 4 operations, 1 fault. Actions: 2 requests, 2 calls, 2 operations, 1 fault. Browser: 2 contexts, 3 log-ins, 2 faults. Fairness | `AccountsKeepTrying`, `StopIsHonoured`, `ActionsAreHonest`, `LoginsKeepApart` |
| `session_f_stop`, `sip_f_workerloss`, `pool_f_double`, `call_f_return`, `transfer_f_customer`, `update_f_rollback` | one component each, as small as shows it | section 6 |

The properties with a name of the whole component (`SpeechIsTranscribed`, `ChunksAreSound`,
`CallEndsOnce` and so on) are conjunctions of named or commented parts, invariants and
leads-to, in the component's module.

What some of them say that is not obvious:

* `HonestDisposition`: a call is disposed as transferred only if ViciDial did it, whatever
  answer was lost. `ActionsAreHonest` is the same for what the panel records, through three
  processes with a time-out each.
* `RefusedLeavesNoSocket`: six stages of an INVITE may fail; none leaves a socket.
* `LatestAudioArrives`: an overflow costs the oldest frames, the counter is exact, and what
  the caller said last still gets through.
* `SpeechIsTranscribed`: no block is transcribed twice or out of order, none is lost but
  behind the cap, and `end` brings out the last segment.
* `SpeechReachesItsEnd`: speech ends unless every thread of the pool hangs on a response
  that was left: this is the one way to lose the TTS server, and the property says there is
  no other.
* `OneVersionRuns`: whenever HEAD is not what `update.sh` found, that version is on file;
  and when the script ends by itself, after a rollback too, every service that is up runs
  the files that are there. It does not say which files those are: a script may abort on the
  new ones (section 6).
* `OneHandler` speaks of calls whose key has not run out under a task; `NoDoubleHandling`
  of all, and fails. `PermitsBalance` is exact while a supervisor takes calls, and an upper
  bound in a drain, whose cancels may lose a permit that nobody needs any more.
* `PromptIsOfOnePiece`: of each column one save. Two columns may be of different saves, as
  the panel writes them apart, and the campaign's texts may be younger than the agent's.
* `RecordingIsSound`: samples are paired by their number (`PairedByCount`), which is all the
  recorder does: that the voices are also aligned in time is not so (section 6).
* `EventsAreStreamed`: what was sent and what waits are, in order and without a gap, what was
  published since the subscription, as long as it lasts; it is given back on every way out.
* `AdminsRemain`, `StopIsHonoured`, `AgentIsConsistent`, `DocumentIsIngested`: each names,
  in a history variable, the one interleaving that breaks it (two administrators who
  demote each other; a request that found its status there already; two uploads at once; a
  job that overtook the commit). TLC confirms that there is no other.

## 4. Bounds and fairness

Why the bounds are enough:

* Two workers of a deployment: late writes of one against the start of the next. A third
  would meet the same hash and registry. Three failures, for the worker alone, are the
  code's own value; the pair has two, one that is passed over and one that is not; one
  back-off gives the first, a middle and the last attempt of the login loop.
* Two calls in the sip service: what calls share is the registry, the snapshot and the
  shutdown, and each pair of them is there. A liveness property of one call depends on
  the others only through the shutdown, which the run `services` has.
* Queues of two, and of one: full, half full and empty, with an element before and one
  behind. More frames, blocks, slices, lines or events than two queues hold, so that each
  overflows, or blocks, and goes on afterwards.
* Two tool calls: one before and one after the terminal one, and the follow-up of
  `search_kb`.
* Two permits and two processes with both jobs of a call: every duplicate meets its
  twin in the same process and in another, and a process with both is at its limit. The
  code's ten permits and other calls are covered by the theorems, for any `Concurrency` and
  `Calls`; calls share nothing but permits.
* Two requests where transactions or a lock meet: each pair of steps of two requests. Two
  users and an owner who is one of them: the last administrator is one request away.
* Two browser contexts and three log-ins: one always waits. Two account objects for a
  deployment: one made by the watcher and one by the initial timer.
* Two faults where a retry follows a fault; one elsewhere.
* Mining: a call with two good exchanges and others with one, so that the pool of two
  leaves one out and the limit of two calls the oldest. A call that is not won says
  little, as it is not read.
* Chunks: sentences that fit, that fill the overlap and that exceed the target alone.
  Recorder: chunks of odd and even length, so that a sample is split between two.
* Three scripts of update.sh: an update, one that ends badly, and a re-run or a rollback.

`CHECK_DEADLOCK FALSE` everywhere: calls, workers, requests and events are finite in
number, so every behaviour comes to a rest.

Fairness (`FairSpec` of each module) is what the event loop and the threads give: tasks that
can run do, timers and time-outs fire, requests with a time-out are answered or fail. It is
weak but for two places where a resource is passed on: the thread of the TTS pool a request
begins in, and the lock of a session worker's actions; both are first-come queues in Python
(`SF` on `Begin`, `Lock`). It never says that a caller hangs up, a worker speaks, a panel
user does something, a browser leaves, a fault ends, or a process is started or told to
stop; of `RegistryFollows` alone the run leaves failing reads out (`ReadMayFail = FALSE`):
with them the registry follows what was read. In `WorkerPool` a session need not end, so a
drain ends only by its time-out.

The runs of `ReadyIsUsable` and `OneLoginPerWorker` have `StaleBeats = FALSE`: the
scheduler is not held up by other deployments for a minute. `ReadyIsUsable` needs it: with
stale beats the supervisor's forced heartbeat runs beside the beat loop's; both may recover,
and one drops the client the other has installed (`session_supervisor.py:168`).
`OneLoginPerWorker` is proved with or without stale beats. Both leave out the case after a
resume from Redis, when the stale cookies are being verified (`stage`): there two logins
really run side by side.

## 5. The proofs

| theorem (module) | for every |
|---|---|
| `TypeCorrect`, `StoppedWorkerRetriesNoLogin`, `BeatLoopsFollowWorkers`, `FirstLoginIsAlone`, `ReadyWorkersAct` (`SessionMgrProofs`) | set of workers, actions, failures, back-off; the last if beats are in time |
| `TypeCorrect`, `CallsAreCountedOnce`, `RefusedCallsLeaveNoSocket`, `TrackedCallsAreLive` (`SipCallsProofs`) | set of calls and backlog |
| `TypeCorrect`, `OneHandlerPerCall`, `ReservationsAreHeld`, `PermitsAreConserved` (`WorkerPoolProofs`) | set of processes and calls, concurrency, failures, keys that run out at any time |
| `FramesStayInOrder`, `AudioIsLossyFifo` (`AudioPathProofs`) | number of frames, size of the wire, queues with room for a frame |
| `BargeInSilences`, `DispositionIsHonest`, `TerminalToolIsLast` (`CallSessionProofs`) | speech queue with room for a request, number of tool calls in an answer |
| `LoggedOutStaysOut` (`PanelRecordsProofs`) | lifetime, set of tokens (not empty) and requests, failures of Redis, at any time |
| `ScriptsEndOnOneVersion` (`PanelRecordsProofs`) | lists of services, versions, number of scripts |
| `SomebodyIsAdmin`, `AgentsStayConsistent` (`PanelRecordsProofs`) | set of users; of recordings; of requests, and failures |
| `PromptsAreOfOnePiece`, `TranscriptsAreWhole`, `RecordingsAreSound` (`CallRecordsProofs`) | campaigns and number of edits; number of events, size of a batch, failures; lengths of chunks and of the call |
| `ChunksAreFit`, `PoolsAreTheBest` (`CallRecordsProofs`) | text, target and overlap; length of the talks, limit on calls and size of the pool, for the three calls of `Init` |
| `CountIsExact` (`LlmProxyProofs`) | set of requests, finite or not |

Every invariant of a passing run is stated by one of these theorems. They rest on assumptions
on the constants: those of the modules, which TLC evaluates in the runs, and hypotheses that a
theorem states itself: numbers are numbers (`Sizes`, `Sane`, `Listed`, `Counted`, `Bounded`,
`Chunks \subseteq Nat`), there is a token and it lasts a while (`TokensLast`), no worker is
without a good heartbeat for a minute while it is ready (`~StaleBeats`, `ReadyWorkersAct`;
section 4 says why). They also rest on what the models assume where section 2 says so: the
order of ticks and reconciliations in the guard of `TickFetch`, one `stop()` with effect per
worker, the session manager's client enabled. And some of them say less than one might wish
where the code does less: `OneHandler` exempts what `outlived` records, `TranscriptIsWhole`,
`AdminsRemain` and `AgentIsConsistent` the interleavings that their history variables name.
`PROJECT.json` lists all theorems. The arguments:

* **SessionMgr.** `TypeOK` is inductive; its proof goes through lemmas about the operators
  that coroutines share (`Return`, `EnterLoop`, `Adopt`, ...), then one per action.
  `BeatFollowsWorker` (a worker never inherits its predecessor's beat loop) is not
  inductive: between a removal and the next reconciliation the old loop is still there,
  harmless only because no tick registers a new worker before the tasks are in line. The
  invariant adds `LoopsInStep`: `beatOf` is the registered worker once `_reconcile_tasks`
  has run, a fetch follows a reconciliation, and the shutdown has ended the loops first.
  `StopEndsRetries` is an action property: every step moves at most one coroutine, and a
  lemma says where each may go. `FirstLoginIsAlone` adds `LoginInv`: in a worker that did
  not resume, `start()` is over or on its way to a session; until it has one there is no
  cookie and no client, the status is not one that beats, and the beat loop and the kick
  have not got past their first await, so that neither finds a session to recover. Workers
  that are not made yet are blank. `ReadyWorkersAct` builds on it: after a login of its own
  a worker with a client has a session, and its beat loop logs in again only once that
  client is gone (`Handles`); a beat loop left by a worker that is no longer registered is a
  stopped one's (`ReadyInv`). No kick ever runs, as beats come in time (`Stopping`): one
  that recovers beside the beat loop makes the property false.
* **SipCalls.** `Inv` is `TypeOK` and, per call, what is known by how far
  `handle_invite` has come (`Progress`): an answered call is still up when it is added,
  because PJSIP's lock keeps its callbacks out, the reader finds nothing to hang up and
  the snapshot does not hold it. `CountedOnce` is a sum over the places a call can be,
  and each step moves one unit.
* **WorkerPool.** `Once`: an entry of a queue is waiting, in one supervisor's hand, with one
  task, or gone. `HolderHasKey`: as long as a call has not outlived its key, its task has
  one, which is not orphaned, and SET NX excludes a second task; without the proviso the
  invariant, and the property, are false. `Paid`: the permits in the semaphore, with tasks (a
  cardinality, from the library's finite-set theorems) and in hand add up to the concurrency
  until the supervisor drains or raises, and to no more after.
* **AudioPath implements LossyFifo.** The refinement needs an invariant over the whole
  way of a frame: `InOrder` takes the places of a direction from the consumer back to the
  producer (for the caller: heard, on the wire, in the writer's hand, in the queue) and says
  that every frame in one is older than all in those behind it, and none is newer than the
  last produced. Three lemmas about queues (append, tail, bounded enqueue) carry every
  step. Then `OnFrameReceived` is the abstract `Produce`, `WorkerReads` is `Arrive` of a
  frame newer than the newest that arrived, and every other step stutters; the same
  the other way round.
* **CallSession.** `SpeechInStep`: while a request is streamed, the cancel event is set
  exactly if this request was interrupted, and nothing was queued for it since; so
  only the padded rest can follow, which ends it. `TerminalIsLast` needs that a
  conversation begins without a terminal tool; `TerminalIsTrue` that what becomes the
  disposition was carried out before it became terminal. `TerminalToolIsLast` is an action
  property (`NothingAfterTerminal`, the first part of `CallEndsOnce`) from the same invariant.
* **PanelTokens.** `Covered`: an entry on the denylist lasts as long as its token, since
  the clock is rounded down; `Vouched`: a request with a token that was out either has
  the denylist before it, or was let through unanswered, or outlived the token.
* **UpdateScript.** `Recorded` says what is on file at each step; it is about the commits
  only, so that a bundle, a refused checkout or a script that aborts cannot disturb it.
  `Restarted`: once a script restarts services it does not touch the files, and every
  service that is not left to restart was started from them or is down. A lemma on the
  orders of the services says that the update and the rollback restart every one.
* **PanelAdmins.** The invariant is about what a request decided when it read (`Decided`):
  it deletes someone other than its actor, or leaves its actor's role alone. So the actor of
  the request that commits remains an administrator, if he still was one, which is what the
  history variable `lateActor` records.
* **AgentRecords.** `Holds`: the recordings a request read are in the bucket, from which
  nothing is deleted; an edit it read was not taken back; and an upload writes the list
  after it has stored the recording.
* **CallPrompt.** `Saved`: for each column there is an edit such that its lines are, key by
  key, empty or of that edit; two columns may differ. `Loaded`: links are never written, so
  that the campaign of the first query is that of the second, and the merge takes its texts
  from there.
* **Transcript.** `InOrder`: table, thread or batch, and queue ascend, and each precedes the
  next. `Somewhere`: what was written is in one of them or was dropped, until the task is
  late; `Stages`: what is left when the task, the thread and the row are at a given point.
  Lemmas about sequences (cut, join, members) carry the steps.
* **Recorder.** `Paired`: both buffers begin behind the last sample in the file, and one of
  them has not a whole sample more. Hence the mix pairs the k-th samples of both sides,
  whenever they were spoken, and all but one side's odd byte of the leftovers at the end is
  of the other side.
* **KbChunks.** `Yielded` (what is out covers the text up to its last sentence, without gap
  and copy) and `Gathering` (the current chunk begins in or right behind the last one and
  ends, further on, before the loop's sentence). The tokens up to a sentence are a recursive
  function: that it exists, and is what it says, is proved by the least number of a set,
  from the library's well-foundedness of the naturals (`LeastNumber`, `TotalsExist`,
  `UptoIs`); the tail exists because the empty one always fits (`TailExists`).
* **CampaignMining.** `Found`: the candidates are, each once, the good exchanges of the calls
  the loop has been over. The sort is any stable arrangement by a permutation (`SortedIs`),
  and what the cut leaves out stands behind everything it keeps.
* **LlmProxy.** The count (`InflightIsExact`, the first part of `ProxyLives`) is the
  cardinality of a set that gains and loses one request at a time; `Sound` relates the open
  responses to the stages of the requests, the lost ones included.

Only model-checked: liveness, and so every property with a leads-to (`RegistryFollows`,
`CallsAreLetGo`, `CallEndsOnce`, `DrainEnds` and those of `services` and `dialler` but
`AudioKeepsOrder`), which is beyond the prover. Several of these are conjunctions whose
safety parts could be proved by themselves; `NothingAfterTerminal` and `InflightIsExact`
are.

## 6. Where the code and its documentation disagree

Shown by a run:

| run | what |
|---|---|
| `session_f_stop` | "logout + cleanup" (`session_worker.py:14`): a login that is in flight while `stop()` runs is adopted by the stopped worker, whose client nobody closes |
| `sip_f_workerloss` | "treat as hangup" (`audio_bridge.py:315`): a worker that leaves before the call is tracked leaves the caller in a silent call |
| `pool_f_double` | "so two workers don't double-handle a call" (`main.py:124`): the key runs out after 600 s, under a call that lasts longer, and a second publication of it is taken by another worker |
| `call_f_return` | "run() returns when the call has fully ended" (`call_session.py:8`): the speaker's task swallows its cancellation while it streams, and the gather waits for ever |
| `transfer_f_customer` | "Operator-initiated warm transfer of a live AI call" (`calls.py:219`): the customer of the call has left and the next one is on the seat while the row has no `ended_at` yet; the check passes, and the next customer is moved |
| `update_f_rollback` | "System should be back at" (`update.sh:352`): `dropdb` without `--force` is refused while the panel's pool is connected, which leaves the new schema under the old code; or it succeeds, and `gunzip` makes nothing of a `pg_dump -Fc` dump, which leaves an empty database |

Read in the code while modelling, without a run of their own.

*Session manager.* `start()` is to resume from the cookies in Redis but mirrors its own
empty state to the hash first (`session_worker.py:90`); an action that finds the session
expired does not always force a new login (`:376`); the forced heartbeat of a worker without
handles does nothing (`session_supervisor.py:5`, `:168`); "Removed deployments → call
`SessionWorker.stop()`" (`:4`): a database read that fails (`:183`), or a row that cannot be
decrypted (`:198`), stops workers of deployments that nobody removed; a tick in flight
during `stop_all` starts a worker nobody stops (`:95`); a log-in cancelled in `page.close()`
or `clear_cookies()` takes its browser context along (`login.py:80`, `:185`), and a browser
that crashed is never restarted (`:66`); the compatibility routes do not catch
`SessionExpired` and want a deployment the worker does not send (`api.py:298-322`); a
refusal of ViciDial in words the adapter does not know is read as success; nobody calls
`resume`; `/start` reports what it does not do (`api.py:224`).

*Sip service.* `hangup_all` works on a snapshot (`call_handler.py:318`); not every failure is
answered 503 (`:16`); a `ConnectionResetError` ends the reader silently; nobody publishes
`sip:accounts:changed` (`account_manager.py:52`), and a database that is down at boot
registers nothing for good; a deployment removed before its initial timer is registered all
the same; a retry timer of a destroyed account arms itself for ever; the reply to an
unregistration counts as a failure and schedules a retry.

*Workers.* "SIGTERM stops accepting new jobs" (`main.py:6`) is not so with all permits taken
(`:184`): the supervisor waits for one without a deadline; a forced cancel of a streaming
call hangs the drain (`main.py:223-235`). The farewell taken last from the queue is cut off
(`conversation.py:169`, `audio_out.py:39`); the apology after an LLM failure is not played;
after `search_kb` and a second tool the history is incoherent (`conversation.py:265-281`); a
failure in `__aenter__` is not cleaned up (`call_session.py:9`); a barge-in leaves what is
queued behind it; the result of `mark_dnc` is ignored, and the agent promises it regardless
(`tools.py:220`); the end of the STT connection, which is not made again
(`audio_in.py:125`), or a null message of the LLM leaves a silent call; every action of a
worker at the session manager is answered 401 (`vici_client.py:43`, session manager's
`api.py:70`, `:243`); a duplicate `vici_uniqueid` is an error that `ON CONFLICT (id)` does
not cover (`transcript_writer.py:124`), after which all events are dropped, and an update of
the row that fails leaves a recording in the bucket that nothing names (`:97`); the agent's
voice is not "roughly time-aligned" with the caller's in the recording
(`recorder.py:37-38`): its frames exist only while it speaks (`call_session.py:359-375`), so
that each of its pauses moves what it says later towards the beginning; a campaign does not
"provide defaults for personas/scripts that any new agent in the campaign inherits"
(`call_session.py:502-503`): the panel saves the agent's empty lines too
(`agents_service.py:83-90`), and an empty line hides the campaign's
(`call_session.py:511-516`); agents made in the panel have no "opening line"
(`INSTALL.md:190`): it saves `opening_variants` (`agent_dsl.py:59`), the worker looks for
`openings` or `opening` (`call_session.py:542`); archived campaigns speak on.

*Model servers.* A TTS thread blocks for ever after a barge-in with a full queue
(`synthesizer.py:64`, `:82`); its voices are spoken by the row's id, not the name the
panel shows (`cloner.py:37`); the cap on a segment does not reset the voice detector
(`streaming.py:225`), and all streams share one detector object; the count of the LLM proxy
leaks when a client leaves between the answer and its first chunk (`main.py:283`), and
`loaded_at` is never set if the warm-up times out; the middleware of TTS and STT gives its
count back when a response begins; the drains begin after uvicorn has closed the
connections.

*Panel.* The live stream does not go on to forward events "to the browser"
(`publisher.py:3-4`): after 15 s of silence the keep-alive time-out closes its source
(`sse.py:32`), and nothing but keep-alives follows; besides, nobody publishes to it; a late
subscriber of an update sees lines twice (`updates.py:300`), and the end marker is dropped
when its queue is full (`:104`); a failing audit flush poisons the request's session,
contrary to `audit_service.py:3-5`, and the audit of a failed transfer is rolled back with
its 502 (`calls.py:261`); ingest and clone jobs are queued before the commit (`kb.py:93`,
`voices.py:64`), and a job that times out leaves its document `processing`; the search
ignores a document's status (`kb_service.py:118-170`); promoting an agent takes it out of
the archive; two uploads of training recordings at once lose one (`agents.py:333`), and the
import at `:338` does not exist; a test call asks for statuses the enumeration does not
have; a deletion of a deployment does not tell the manager, whose tick finds out; a stop
that finds the status stopped while a start is under way is lost
(`deployment_service.py:106`); logging out leaves the refresh token valid; two
administrators who demote or delete each other at once leave none (`tenants.py:147`,
`:184`); no request writes the campaign links that agents and deployments carry; the
successful calls of a campaign are counted over a cross join (`campaigns_service.py:147`); a
cluster join fails where it reads back its own row (`cluster.py:305`).

*Scripts.* `count_active_calls` ends the script silently when no metrics are there
(`update.sh:142`); an update that the panel starts is killed when it restarts the panel;
"rollback on any failure once we start touching the system" (`:325`) is not so: the checkout
comes before the trap (`:357`), and the trap is set without `set -E`, so that a failure
inside a function (`maybe_setup`, `migrate_up`, the `systemctl` of `restart_one`) ends the
script on the new files; nor is it "Safe to re-run" (`:4`): after an update that ended
behind its checkout, the next one compares the target with itself (`:300-321`), migrates
nothing and says it is done on the old schema; an offline update leaves HEAD and what is
recorded of it behind the files (`:286`), and its rollback leaves the bundle's files
(`:335`).

## 7. Not modelled

See the notes under `components` for each. Without state whose order matters: the PJSIP
endpoint and header parser, humanizing and the worker's stub of a knowledge search, the
embedding server, schemas, the sales library's texts, configuration, the frontend, the
installer and the development environment. Without behaviour to check: cluster membership
(every join fails, section 6) and analytics (queries and an idempotent roll-up). Within the
modelled components: metrics and logging; the forms, fields and texts of ViciDial; DTMF; the
parsers of document formats; lists, searches and other requests that only read; passwords
and log-in limits. Each component's sources are in `PROJECT.json`.

## 8. Plan

What would add most from here:

1. Proofs of the safety parts of the properties that also promise progress, whose
   components have no theorem yet: `SpeechStream` and `TtsStream` (order, nothing twice),
   `SipAccounts` (none unknown), `BrowserLogin` (no inherited session), `KbIngest` and
   `UpdateRuns`.
2. `CallPath`: an abstract call (offered, taken, up, over; handled at most once, refused
   or ended) as a specification, and `SipCalls` and `WorkerPool` joined through the
   stream and the socket, shown to implement it. It gives the lost job (`XACK` before the
   call is handled, the group created at `$`) its property: the caller is refused in time.
3. `SessionMgr` with the browser pool of `BrowserLogin` in place of an outcome, for more
   deployments than contexts.
