----------------------------- MODULE Transcript -----------------------------
(***************************************************************************)
(* A call's row and its events in Postgres (transcript_writer.py): events  *)
(* go through a queue to a task that inserts them in batches, and stop()   *)
(* lets the task finish before it closes the row.  Database calls run in   *)
(* threads, which a cancelled task leaves behind.                          *)
(***************************************************************************)
EXTENDS Naturals, Sequences, SequencesExt

CONSTANTS Events,    \* bound on the events of the call
          BatchMax,  \* 50 in the code
          MaxFaults  \* bound on failed database calls

VARIABLES call,      \* new, open, stopping, updating, done
          row,       \* the calls row: none, open, closed
          written,   \* events passed to write()
          queue,     \* events, and Sentinel
          task,      \* _flush_loop: off, get, flush, last (the flush before it returns), over
          batch,
          thread,    \* a batch that a thread still inserts after its task was cancelled
          table,     \* the call_events rows, in the order of their inserts
          dropped,   \* events of batches whose insert failed
          late,      \* the task did not finish in 5 s
          faults

caller == <<call, row, late>>
vars   == <<caller, written, queue, task, batch, thread, table, dropped, faults>>

Sentinel == 0
Fault == faults < MaxFaults /\ faults' = faults + 1

Init == /\ call = "new" /\ row = "none" /\ written = 0 /\ queue = <<>> /\ task = "off"
        /\ batch = <<>> /\ thread = <<>> /\ table = <<>> /\ dropped = {} /\ late = FALSE
        /\ faults = 0

\* start(): the insert may fail, the call goes on; a vici_uniqueid that is already there is
\* such a failure (the conflict clause is about the id).
Start == /\ call = "new"
         /\ call' = "open" /\ task' = "get"
         /\ \/ row' = "open" /\ UNCHANGED faults
            \/ Fault /\ UNCHANGED row
         /\ UNCHANGED <<late, written, queue, batch, thread, table, dropped>>

Write == /\ call = "open" /\ written < Events
         /\ written' = written + 1
         /\ queue' = Append(queue, written + 1)
         /\ UNCHANGED <<caller, task, batch, thread, table, dropped, faults>>

\* The wait for the next item, 0.25 s when there is a batch.
Take == /\ task = "get" /\ queue # <<>>
        /\ queue' = Tail(queue)
        /\ IF Head(queue) = Sentinel
           THEN task' = "last" /\ UNCHANGED batch
           ELSE /\ batch' = Append(batch, Head(queue))
                /\ task' = IF Len(batch') >= BatchMax THEN "flush" ELSE "get"
        /\ UNCHANGED <<caller, written, thread, table, dropped, faults>>

BatchTimeout == /\ task = "get" /\ queue = <<>> /\ batch # <<>>
                /\ task' = "flush"
                /\ UNCHANGED <<caller, written, queue, batch, thread, table, dropped, faults>>

\* One transaction; without the calls row the foreign key refuses it.
Insert(events) ==
  \/ /\ row # "none"
     /\ table' = table \o events
     /\ UNCHANGED <<dropped, faults>>
  \/ /\ (row = "none" /\ UNCHANGED faults) \/ Fault
     /\ dropped' = dropped \cup ToSet(events)
     /\ UNCHANGED table

\* Mutant of Flush: the batch is not emptied.
KeepingFlush == /\ task \in {"flush", "last"}
                /\ IF batch = <<>> THEN UNCHANGED <<table, dropped, faults>> ELSE Insert(batch)
                /\ batch' = batch
                /\ task' = IF task = "last" THEN "over" ELSE "get"
                /\ UNCHANGED <<caller, written, queue, thread>>

\* _flush: a batch whose insert failed is dropped.
Flush == /\ task \in {"flush", "last"}
         /\ IF batch = <<>> THEN UNCHANGED <<table, dropped, faults>> ELSE Insert(batch)
         /\ batch' = <<>>
         /\ task' = IF task = "last" THEN "over" ELSE "get"
         /\ UNCHANGED <<caller, written, queue, thread>>

Stop == /\ call = "open"
        /\ call' = "stopping"
        /\ queue' = Append(queue, Sentinel)
        /\ UNCHANGED <<row, late, written, task, batch, thread, table, dropped, faults>>

Drained == /\ call = "stopping" /\ task = "over"
           /\ call' = "updating"
           /\ UNCHANGED <<row, late, written, queue, task, batch, thread, table, dropped, faults>>

\* wait_for's 5 s: the task is cancelled; the thread of a flush goes on without it.
DrainTimeout == /\ call = "stopping" /\ task # "over"
                /\ call' = "updating" /\ late' = TRUE
                /\ task' = "over" /\ batch' = <<>>
                /\ thread' = IF task \in {"flush", "last"} THEN batch ELSE <<>>
                /\ UNCHANGED <<row, written, queue, table, dropped, faults>>

Thread == /\ thread # <<>>
          /\ Insert(thread)
          /\ thread' = <<>>
          /\ UNCHANGED <<caller, written, queue, task, batch>>

\* _update_call_row, with the disposition the campaign miner looks for.
UpdateRow == /\ call = "updating"
             /\ call' = "done"
             /\ \/ row' = (IF row = "open" THEN "closed" ELSE row) /\ UNCHANGED faults
                \/ Fault /\ UNCHANGED row
             /\ UNCHANGED <<late, written, queue, task, batch, thread, table, dropped>>

Done == call = "done" /\ thread = <<>> /\ UNCHANGED vars

Next == \/ Start \/ Write \/ Take \/ BatchTimeout \/ Flush \/ Stop \/ Drained
        \/ DrainTimeout \/ Thread \/ UpdateRow \/ Done

Spec == Init /\ [][Next]_vars

----------------------------------------------------------------------------
\* The transcript is read in the order it was said, and nothing is in it twice, whatever
\* inserts fail or are left to a thread.
TranscriptInOrder == \A i, j \in DOMAIN table : i < j => table[i] < table[j]

\* A row with its disposition has its whole transcript: only a failed insert or a drain
\* that took over 5 s takes an event away.
ClosedCallIsWhole == row = "closed" /\ ~late => 1 .. written \subseteq ToSet(table) \cup dropped

\* The transcript of a call is in order, and whole once the call has its disposition.
TranscriptIsWhole == TranscriptInOrder /\ ClosedCallIsWhole
=============================================================================
