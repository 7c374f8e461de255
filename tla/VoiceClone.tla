----------------------------- MODULE VoiceClone -----------------------------
(***************************************************************************)
(* Cloning a voice: the panel's upload (api/v1/voices.py), the voice_clone *)
(* job, and the speech server's clone route (cloner.py), which makes a row *)
(* and an id of its own for every request.  A row of the server's is named *)
(* by the run of the job that asked for it.  The files under voices_dir    *)
(* are named by the server's ids.                                          *)
(***************************************************************************)
EXTENDS Naturals

CONSTANTS MaxRuns,    \* arq's max_tries
          MaxFaults   \* bound on cancellations and jobs that fail

Attempts == 1..MaxRuns   \* and the ids of the rows and files the server makes in them
PanelRow == 0        \* the id of the panel's row

VARIABLES request,  \* the upload: none, open, committed, rolled_back
          status,   \* of the panel's row, "none" where there is none
          path,     \* its embedding_path: the run whose files it names, 0 for none
          job,      \* none, queued, or the next step, or ended
          result,   \* what TTSClient.clone returned: 0 for None
          runs,     \* runs begun
          server,   \* per run, its request: none, arrived, inserted, answered, failed
          twins,    \* the server's rows, all of them 'ready'
          files,    \* the runs whose ref.wav and ref_text.txt are written
          early,    \* the outcome came before the row was there
          faults

rows == <<status, path>>
run  == <<job, result, runs>>
tts  == <<server, twins, files>>
vars == <<request, rows, run, tts, early, faults>>

Init == /\ request = "none" /\ status = "none" /\ path = 0
        /\ job = "none" /\ result = 0 /\ runs = 0
        /\ server = [r \in Attempts |-> "none"] /\ twins = {} /\ files = {}
        /\ early = FALSE /\ faults = 0

\* create_voice up to enqueue_job, and the end of the request's transaction.
Upload == /\ request = "none"
          /\ request' = "open" /\ job' = "queued"
          /\ UNCHANGED <<rows, result, runs, tts, early, faults>>

Commit == /\ request = "open"
          /\ \/ request' = "committed" /\ status' = "pending"
             \/ request' = "rolled_back" /\ UNCHANGED status
          /\ UNCHANGED <<path, run, tts, early, faults>>

\* delete_voice, of the panel's row or of one of the server's; no file is removed.
Delete == /\ \/ status # "none" /\ status' = "none" /\ path' = 0 /\ UNCHANGED twins
             \/ \E r \in twins : twins' = twins \ {r} /\ UNCHANGED rows
          /\ UNCHANGED <<request, run, server, files, early, faults>>

----------------------------------------------------------------------------
(* The job. *)

Call == /\ job = "queued" /\ runs < MaxRuns
        /\ runs' = runs + 1
        /\ server' = [server EXCEPT ![runs + 1] = "arrived"]
        /\ job' = "call"
        /\ UNCHANGED <<request, rows, result, twins, files, early, faults>>

GiveUp == /\ job = "queued" /\ runs = MaxRuns
          /\ job' = "ended"
          /\ UNCHANGED <<request, rows, result, runs, tts, early, faults>>

\* clone(): the answer, or None for an HTTP error, a time-out included.
Answered == /\ job = "call"
            /\ \/ server[runs] = "answered" /\ result' = runs
               \/ result' = 0
            /\ job' = "mark"
            /\ UNCHANGED <<request, rows, runs, tts, early, faults>>

\* mark_voice_ready, mark_voice_error: nothing, without a row.
Mark == /\ job = "mark"
        /\ job' = "ended"
        /\ IF status = "none" THEN early' = TRUE /\ UNCHANGED rows
           ELSE /\ UNCHANGED early
                /\ IF result = 0 THEN status' = "error" /\ UNCHANGED path
                   ELSE status' = "ready" /\ path' = result
        /\ UNCHANGED <<request, result, runs, tts, faults>>

\* The jobs process stops (arq runs the job again), or job_timeout ends the job.
Interrupted == /\ job \in {"call", "mark"} /\ faults < MaxFaults
               /\ faults' = faults + 1
               /\ job' \in {"queued", "ended"}
               /\ UNCHANGED <<request, rows, result, runs, tts, early>>

----------------------------------------------------------------------------
(* The speech server: one request is handled without an await after its body. *)

Insert(r) == /\ server[r] = "arrived"
             /\ \/ server' = [server EXCEPT ![r] = "inserted"] /\ twins' = twins \cup {r}
                \/ server' = [server EXCEPT ![r] = "failed"] /\ UNCHANGED twins
             /\ UNCHANGED <<request, rows, run, files, early, faults>>

\* Mutant of Write: the answer does not wait for the disk.
HastyWrite(r) == /\ server[r] = "inserted"
                 /\ server' = [server EXCEPT ![r] = "answered"]
                 /\ \/ files' = files \cup {r}
                    \/ UNCHANGED files
                 /\ UNCHANGED <<request, rows, run, twins, early, faults>>

\* backend.clone: a full disk answers 500 and leaves the row.
Write(r) == /\ server[r] = "inserted"
            /\ \/ server' = [server EXCEPT ![r] = "answered"] /\ files' = files \cup {r}
               \/ server' = [server EXCEPT ![r] = "failed"] /\ UNCHANGED files
            /\ UNCHANGED <<request, rows, run, twins, early, faults>>

Serve == \E r \in Attempts : Insert(r) \/ Write(r)
Job   == Call \/ GiveUp \/ Answered \/ Mark

Next == Upload \/ Commit \/ Delete \/ Job \/ Interrupted \/ Serve

Spec == Init /\ [][Next]_vars
FairSpec == Spec /\ WF_vars(Job) /\ WF_vars(Serve)

----------------------------------------------------------------------------
\* A row that says ready names files that are there, through re-runs, failures of the
\* server and deletions (voice_clone_job.py, cloner.py); and a committed upload is answered
\* one day, unless the job overtook the commit or was interrupted.
VoiceIsCloned == /\ [](status = "ready" => path \in files)
                 /\ status = "pending" ~> (status # "pending" \/ early \/ faults > 0)
=============================================================================
