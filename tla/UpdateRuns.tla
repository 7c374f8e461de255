----------------------------- MODULE UpdateRuns -----------------------------
(***************************************************************************)
(* The panel's update runs (api/v1/updates.py): the one active run, the    *)
(* task that follows update.sh line by line, and the event streams that    *)
(* replay a run's log and then follow it.  All are coroutines of the       *)
(* panel's event loop; an action ends at an await or a yield.  Lines are   *)
(* numbered; a restart of the panel forgets every run.                     *)
(***************************************************************************)
EXTENDS Integers, Sequences, SequencesExt, FiniteSets

CONSTANTS Runs, Streams, NoRun,
          MaxLines,    \* bound on the lines of a run
          QueueMax     \* maxsize of a subscriber's queue

VARIABLES runs,        \* _runs: per run "none", or its status
          lines,       \* Len(run.lines)
          active,      \* _active_run_id
          script,      \* update.sh of the run: "off", "on", or how it ended
          stream       \* one record per client that follows a run

vars == <<runs, lines, active, script, stream>>

None   == 0            \* the end marker in a queue
NoStream == [of |-> NoRun, at |-> "off", pos |-> 0, queue |-> <<>>, got |-> <<>>,
             full |-> FALSE]
Finals == {"ok", "failed", "error"}

Init == /\ runs = [r \in Runs |-> "none"]
        /\ lines = [r \in Runs |-> 0]
        /\ active = NoRun
        /\ script = [r \in Runs |-> "off"]
        /\ stream = [s \in Streams |-> NoStream]

\* put_nowait to every subscriber; QueueFull is swallowed.
Put(r, item) ==
  stream' = [s \in Streams |->
    IF stream[s].of # r \/ stream[s].at = "off" THEN stream[s]
    ELSE IF Len(stream[s].queue) = QueueMax THEN [stream[s] EXCEPT !.full = TRUE]
    ELSE [stream[s] EXCEPT !.queue = Append(@, item)]]

\* apply_update: under _run_lock, then the task is created.  A panel that has just been
\* restarted knows no active run; update.sh itself refuses to run twice (flock).
Apply(r) == /\ runs[r] = "none" /\ script[r] = "off" /\ active = NoRun
            /\ runs' = [runs EXCEPT ![r] = "running"]
            /\ active' = r
            /\ script' = [script EXCEPT ![r] = IF \E q \in Runs : script[q] = "on"
                                               THEN "failed" ELSE "on"]
            /\ UNCHANGED <<lines, stream>>

Push(r) == /\ active = r /\ lines[r] < MaxLines
           /\ script[r] # "off"
           /\ lines' = [lines EXCEPT ![r] = @ + 1]
           /\ Put(r, lines[r] + 1)
           /\ UNCHANGED <<runs, active, script>>

ScriptEnds(r) == /\ script[r] = "on"
                 /\ \E how \in {"ok", "failed"} : script' = [script EXCEPT ![r] = how]
                 /\ UNCHANGED <<runs, lines, active, stream>>

\* The end of _drive_update: finish() and the reset of the active run.
Finish(r) == /\ active = r
             /\ \/ script[r] \in {"ok", "failed"} /\ runs' = [runs EXCEPT ![r] = script[r]]
                \/ runs' = [runs EXCEPT ![r] = "error"]
             /\ active' = NoRun
             /\ Put(r, None)
             /\ UNCHANGED <<lines, script>>

Subscribe(s, r) == /\ stream[s].at = "off" /\ runs[r] # "none"
                   /\ stream' = [stream EXCEPT ![s] = [NoStream EXCEPT !.of = r, !.at = "replay"]]
                   /\ UNCHANGED <<runs, lines, active, script>>

\* Mutant of Replay: the replay stops at the lines the run had when it began to tail.
ShortReplay(s) == LET v == stream[s]  r == v.of IN
   /\ v.at = "replay"
   /\ stream' = [stream EXCEPT ![s] =
        IF v.pos < lines[r] - 1 THEN [v EXCEPT !.pos = @ + 1, !.got = Append(@, v.pos + 1)]
        ELSE [v EXCEPT !.at = IF runs[r] = "running" THEN "tail" ELSE "done"]]
   /\ UNCHANGED <<runs, lines, active, script>>

\* gen(): the replay goes over run.lines itself, which grows meanwhile; after the last
\* line a run that has ended ends the stream.
Replay(s) == LET v == stream[s]  r == v.of IN
   /\ v.at = "replay"
   /\ stream' = [stream EXCEPT ![s] =
        IF v.pos < lines[r] THEN [v EXCEPT !.pos = @ + 1, !.got = Append(@, v.pos + 1)]
        ELSE [v EXCEPT !.at = IF runs[r] = "running" THEN "tail" ELSE "done"]]
   /\ UNCHANGED <<runs, lines, active, script>>

Tail1(s) == LET v == stream[s] IN
            /\ v.at = "tail" /\ v.queue # <<>>
            /\ stream' = [stream EXCEPT ![s] =
                 IF Head(v.queue) = None THEN [v EXCEPT !.queue = Tail(@), !.at = "done"]
                 ELSE [v EXCEPT !.queue = Tail(@), !.got = Append(@, Head(v.queue))]]
            /\ UNCHANGED <<runs, lines, active, script>>

\* The panel is restarted (by update.sh itself, for one): every run and stream is gone,
\* while a script that was started from a shell session of its own may go on.
PanelRestarts == /\ active # NoRun
                 /\ runs' = [r \in Runs |-> "none"]
                 /\ active' = NoRun
                 /\ stream' = [s \in Streams |-> IF stream[s].at \in {"off", "done"}
                                 THEN stream[s] ELSE [stream[s] EXCEPT !.at = "cut"]]
                 /\ \E q \in {"on", "failed"} :
                      script' = [script EXCEPT ![active] = IF @ = "on" THEN q ELSE @]
                 /\ UNCHANGED lines

Follow == \E s \in Streams : Replay(s) \/ Tail1(s)
Drive  == \E r \in Runs : Push(r) \/ Finish(r)

Next == \/ \E r \in Runs : Apply(r) \/ ScriptEnds(r)
        \/ \E s \in Streams, r \in Runs : Subscribe(s, r)
        \/ Drive \/ Follow \/ PanelRestarts

Spec == Init /\ [][Next]_vars
\* The loop runs what can run: clients read, and a script that ended is noticed.
FairSpec == Spec /\ WF_vars(Follow) /\ WF_vars(Drive)

----------------------------------------------------------------------------
Highest(got) == FoldSeq(LAMBDA n, m : IF n > m THEN n ELSE m, 0, got)

\* Types, and the bound of every subscriber's queue (maxsize of asyncio.Queue).
TypeOK == /\ runs \in [Runs -> {"none", "running"} \cup Finals]
          /\ lines \in [Runs -> 0..MaxLines]
          /\ active \in Runs \cup {NoRun}
          /\ script \in [Runs -> {"off", "on", "ok", "failed"}]
          /\ \A s \in Streams : LET v == stream[s] IN
               /\ v.of \in Runs \cup {NoRun} /\ v.at \in {"off", "replay", "tail", "done", "cut"}
               /\ v.pos \in 0..MaxLines /\ v.full \in BOOLEAN
               /\ v.queue \in Seq(0..MaxLines) /\ Len(v.queue) <= QueueMax
               /\ v.got \in Seq(1..MaxLines)

\* "a late-joining client sees the whole log" (updates.py:299): lines may come twice, but
\* none is skipped while the client keeps up, and a stream that says done has shown all.
LogHasNoGaps == \A s \in Streams : LET v == stream[s] IN
  ~v.full => /\ \A i \in DOMAIN v.got : v.got[i] <= Highest(SubSeq(v.got, 1, i - 1)) + 1
             /\ v.at = "done" => Highest(v.got) = lines[v.of]

\* Whoever follows a run that ends is told so, unless the panel restarts or the client
\* was so slow that the marker found its queue full.
StreamsEnd == \A s \in Streams :
  stream[s].at \in {"replay", "tail"} /\ active # stream[s].of
    ~> stream[s].at \in {"done", "cut"} \/ stream[s].full

\* Two update.sh never run side by side, and while one is followed no other is started.
OneScript == /\ Cardinality({r \in Runs : script[r] = "on"}) <= 1
             /\ \A r \in Runs : runs[r] = "running" => active = r

\* The log of an update as its followers see it, one update at a time.
UpdateIsFollowed == [](TypeOK /\ LogHasNoGaps /\ OneScript) /\ StreamsEnd
=============================================================================
