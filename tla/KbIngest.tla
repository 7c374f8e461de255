------------------------------ MODULE KbIngest ------------------------------
(***************************************************************************)
(* Documents of a knowledge base: the upload request (api/v1/kb.py), whose *)
(* job is queued before its transaction commits, the ingest job of the     *)
(* aipanel-jobs process (jobs/kb_ingest_job.py), the deletion of a         *)
(* document, and the search over kb_chunks.  A document has chunks of its  *)
(* own; the job's database calls are transactions of their own.            *)
(***************************************************************************)
EXTENDS Naturals

CONSTANTS Docs,
          Sizes,       \* how many chunks a document may have, a set of numbers
          MaxTries,    \* arq's max_tries
          MaxFaults    \* bound on the faults: database, embed-server, cancellation

VARIABLES request,   \* the upload: none, open, committed, rolled_back
          size,      \* the chunks its text has
          status,    \* kb_documents.status, "none" where there is no row
          count,     \* kb_documents.chunk_count
          chunks,    \* rows of kb_chunks per document
          job,       \* none, queued, or the next step of its run, or ended
          tries,     \* runs of the job
          embedded,  \* len(all_vecs)
          early,     \* the run began before the row was there
          excused,   \* a fault has hit this document's job
          faults

rows == <<status, count, chunks>>
run  == <<job, tries, embedded, early>>
vars == <<request, size, rows, run, excused, faults>>

Statuses == {"none", "pending", "processing", "ready", "error"}
Steps    == {"mark", "parse", "embed", "write", "fail", "return"}

Init == /\ request = [d \in Docs |-> "none"]  /\ size = [d \in Docs |-> 0]
        /\ status = [d \in Docs |-> "none"]   /\ count = [d \in Docs |-> 0]
        /\ chunks = [d \in Docs |-> 0]        /\ job = [d \in Docs |-> "none"]
        /\ tries = [d \in Docs |-> 0]         /\ embedded = [d \in Docs |-> 0]
        /\ early = [d \in Docs |-> FALSE]     /\ excused = [d \in Docs |-> FALSE]
        /\ faults = 0

Exists(d) == status[d] # "none"

\* The chunks of a document that a search can return: it asks kb_chunks alone, whatever
\* the document's status, and with the embedding server down it returns nothing.
Searchable(d) == chunks[d]
Goto(d, step) == job' = [job EXCEPT ![d] = step]

\* UPDATE ... WHERE id = %s: of no row, when the row is not (or no longer) there.
SetStatus(d, s) == status' = [status EXCEPT ![d] = IF Exists(d) THEN s ELSE @]

\* upload_document up to enqueue_job: the row is in the request's open transaction.
Upload(d) == /\ request[d] = "none"
             /\ request' = [request EXCEPT ![d] = "open"]
             /\ \E n \in Sizes : size' = [size EXCEPT ![d] = n]
             /\ Goto(d, "queued")
             /\ UNCHANGED <<rows, tries, embedded, early, excused, faults>>

\* get_session: commit, or rollback of a request that failed after it had queued the job.
Commit(d) == /\ request[d] = "open"
             /\ \/ /\ request' = [request EXCEPT ![d] = "committed"]
                   /\ status' = [status EXCEPT ![d] = "pending"]
                \/ /\ request' = [request EXCEPT ![d] = "rolled_back"]
                   /\ UNCHANGED status
             /\ UNCHANGED <<size, count, chunks, run, excused, faults>>

\* delete_document; the chunks go with the row (ON DELETE CASCADE).
Delete(d) == /\ Exists(d)
             /\ status' = [status EXCEPT ![d] = "none"]
             /\ count' = [count EXCEPT ![d] = 0]
             /\ chunks' = [chunks EXCEPT ![d] = 0]
             /\ UNCHANGED <<request, size, run, excused, faults>>

----------------------------------------------------------------------------
(* One run of kb_ingest_document. *)

Start(d) == /\ job[d] = "queued" /\ tries[d] < MaxTries
            /\ tries' = [tries EXCEPT ![d] = @ + 1]
            /\ embedded' = [embedded EXCEPT ![d] = 0]
            /\ Goto(d, "mark")
            /\ UNCHANGED <<request, size, rows, early, excused, faults>>

\* arq drops a job it has run max_tries times.
GiveUp(d) == /\ job[d] = "queued" /\ tries[d] = MaxTries
             /\ Goto(d, "ended")
             /\ UNCHANGED <<request, size, rows, tries, embedded, early, excused, faults>>

Mark(d) == /\ job[d] = "mark"
           /\ SetStatus(d, "processing")
           /\ early' = [early EXCEPT ![d] = ~Exists(d)]
           /\ Goto(d, "parse")
           /\ UNCHANGED <<request, size, count, chunks, tries, embedded, excused, faults>>

\* _parse may refuse the file; a text without sentences is written at once.
Parse(d) == /\ job[d] = "parse"
            /\ \/ Goto(d, "fail")
               \/ Goto(d, IF size[d] = 0 THEN "write" ELSE "embed")
            /\ UNCHANGED <<request, size, rows, tries, embedded, early, excused, faults>>

\* Mutant of Embed: what has been embedded when the server fails is kept.
PartialEmbed(d) == /\ job[d] = "embed"
                   /\ \/ /\ embedded' = [embedded EXCEPT ![d] = @ + 1]
                         /\ Goto(d, IF embedded[d] + 1 = size[d] THEN "write" ELSE "embed")
                      \/ Goto(d, "write") /\ UNCHANGED embedded
                   /\ UNCHANGED <<request, size, rows, tries, early, excused, faults>>

\* embed_batch, one batch at a time; the embed-server may be down.
Embed(d) == /\ job[d] = "embed"
            /\ \/ /\ embedded' = [embedded EXCEPT ![d] = @ + 1]
                  /\ Goto(d, IF embedded[d] + 1 = size[d] THEN "write" ELSE "embed")
               \/ Goto(d, "fail") /\ UNCHANGED embedded
            /\ UNCHANGED <<request, size, rows, tries, early, excused, faults>>

\* _sync_replace_chunks, one transaction.
ReplaceChunks(d, n) == /\ status' = [status EXCEPT ![d] = "ready"]
                       /\ count' = [count EXCEPT ![d] = n]
                       /\ chunks' = [chunks EXCEPT ![d] = n]

\* Without the row the insert breaks the foreign key; nothing to insert breaks nothing.
Write(d) == /\ job[d] = "write"
            /\ IF Exists(d) THEN ReplaceChunks(d, embedded[d]) /\ Goto(d, "return")
               ELSE UNCHANGED rows /\ Goto(d, IF embedded[d] = 0 THEN "return" ELSE "fail")
            /\ UNCHANGED <<request, size, tries, embedded, early, excused, faults>>

Fail(d) == /\ job[d] = "fail"
           /\ SetStatus(d, "error")
           /\ Goto(d, "return")
           /\ UNCHANGED <<request, size, count, chunks, tries, embedded, early, excused, faults>>

Return(d) == /\ job[d] = "return"
             /\ Goto(d, "ended")
             /\ UNCHANGED <<request, size, rows, tries, embedded, early, excused, faults>>

Step(d) == \/ Start(d) \/ GiveUp(d) \/ Mark(d) \/ Parse(d) \/ Embed(d) \/ Write(d)
           \/ Fail(d) \/ Return(d)

----------------------------------------------------------------------------
(* Faults.  A database call that is under way when the job is cancelled is  *)
(* finished by its thread: the job is then at the step after it. *)

Fault(d) == /\ faults < MaxFaults
            /\ faults' = faults + 1
            /\ excused' = [excused EXCEPT ![d] = TRUE]

\* The jobs process is stopped: arq runs the job again.  (It is the last step of a
\* process that stops, so the run's own steps are over.)
Cancel(d) == /\ job[d] \in Steps
             /\ Fault(d)
             /\ Goto(d, "queued")
             /\ UNCHANGED <<request, size, rows, tries, embedded, early>>

\* job_timeout, or a database that is away when the outcome is to be written: the job has
\* failed, and arq does not run it again.
JobFails(d) == /\ job[d] \in Steps
               /\ Fault(d)
               /\ Goto(d, "ended")
               /\ UNCHANGED <<request, size, rows, tries, embedded, early>>

\* The write itself fails: rolled back, then the error is recorded.
WriteFails(d) == /\ job[d] = "write"
                 /\ Fault(d)
                 /\ Goto(d, "fail")
                 /\ UNCHANGED <<request, size, rows, tries, embedded, early>>

Next == \E d \in Docs : \/ Upload(d) \/ Commit(d) \/ Delete(d) \/ Step(d)
                        \/ Cancel(d) \/ JobFails(d) \/ WriteFails(d)

Spec == Init /\ [][Next]_vars
\* A queued job is taken and its steps run.
FairSpec == Spec /\ \A d \in Docs : WF_vars(Step(d))

----------------------------------------------------------------------------
\* The count that the list shows is the rows the search finds, through re-runs of the job
\* and whatever failed in between (kb_ingest_job.py, delete prior and one transaction).
CountIsTrue == \A d \in Docs : chunks[d] = count[d]

\* A search sees a document with all its chunks or not at all, and only of a document
\* that was ready once.
SearchIsWhole == \A d \in Docs : /\ Searchable(d) \in {0, size[d]}
                                 /\ status[d] = "pending" => Searchable(d) = 0
                                 /\ status[d] = "ready" => Searchable(d) = size[d]

\* An upload is answered one day: a committed document gets its outcome unless the job
\* overtook the commit, or a fault hit the job.
DocumentSettles == \A d \in Docs :
  Exists(d) ~> (status[d] \in {"ready", "error", "none"} \/ early[d] \/ excused[d])

\* A document is found whole, counted right and answered for, whatever the job met.
DocumentIsIngested == [](CountIsTrue /\ SearchIsWhole) /\ DocumentSettles
=============================================================================
