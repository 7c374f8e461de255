------------------------------ MODULE Recorder ------------------------------
(***************************************************************************)
(* The recording of one call (recorder.py): bytes of two directions come   *)
(* in chunks of any length, whole samples of two bytes are mixed in pairs  *)
(* and appended to the file, and what one side has left at the end is      *)
(* written alone.  The file is then uploaded, and removed when that went   *)
(* well.  A buffer is the interval of the bytes in it, counted from 1.     *)
(* Nothing here is about time: the caller's audio comes all the time, the  *)
(* agent's only while it speaks, and nothing fills its pauses.             *)
(***************************************************************************)
EXTENDS Naturals, Sequences, FiniteSetsExt

CONSTANTS Chunks,    \* lengths of the chunks, in bytes
          MaxBytes   \* bound on the bytes of a direction

VARIABLES inbound, outbound,  \* the buffers, [from |-> first byte, to |-> last byte]
          wav,                \* the samples written: the byte of each side it begins with
          file,               \* open, closed, removed
          object,             \* the upload: none, stored, failed
          link                \* recording_path names the object

vars == <<inbound, outbound, wav, file, object, link>>

Empty == [from |-> 1, to |-> 0]
Size(b) == b.to + 1 - b.from
Even(n) == n - (n % 2)
DropBytes(b, n) == [b EXCEPT !.from = @ + n]
Clear(b) == DropBytes(b, Size(b))
Silence == 0

Init == /\ inbound = Empty /\ outbound = Empty /\ wav = <<>>
        /\ file = "open" /\ object = "none" /\ link = FALSE

\* _emit_paired: n bytes of each side, sample by sample.
Paired(a, b, n) ==
  [k \in 1 .. n \div 2 |-> [in |-> a.from + 2 * (k - 1), out |-> b.from + 2 * (k - 1)]]

\* Mutant of Mix: as much as the longer side has, the other taken for silent.
EagerMix(a, b) == LET n == Even(Max({Size(a), Size(b)})) IN
  /\ wav' = wav \o Paired(a, b, n)
  /\ inbound' = DropBytes(a, n) /\ outbound' = DropBytes(b, n)

\* _mix_and_write(flush=False), with what has just come in.
Mix(a, b) == LET n == Even(Min({Size(a), Size(b)})) IN
  /\ wav' = wav \o Paired(a, b, n)
  /\ inbound' = DropBytes(a, n) /\ outbound' = DropBytes(b, n)

WriteInbound == /\ file = "open"
                /\ \E n \in Chunks : /\ inbound.to + n <= MaxBytes
                                     /\ Mix([inbound EXCEPT !.to = @ + n], outbound)
                /\ UNCHANGED <<file, object, link>>

WriteOutbound == /\ file = "open"
                 /\ \E n \in Chunks : /\ outbound.to + n <= MaxBytes
                                      /\ Mix(inbound, [outbound EXCEPT !.to = @ + n])
                 /\ UNCHANGED <<file, object, link>>

\* _emit_solo: the longer buffer's whole samples; both are cleared.
Solo == LET n == Even(Max({Size(inbound), Size(outbound)})) IN
  IF Size(inbound) >= Size(outbound)
  THEN [k \in 1 .. n \div 2 |-> [in |-> inbound.from + 2 * (k - 1), out |-> Silence]]
  ELSE [k \in 1 .. n \div 2 |-> [in |-> Silence, out |-> outbound.from + 2 * (k - 1)]]

\* close(): whatever pairs is written already; the leftovers follow.
Close == /\ file = "open"
         /\ wav' = wav \o Solo
         /\ inbound' = Clear(inbound) /\ outbound' = Clear(outbound)
         /\ file' = "closed"
         /\ UNCHANGED <<object, link>>

\* upload_recording; the unlink of the local copy may fail.
Upload == /\ file = "closed" /\ object = "none"
          /\ object' \in {"stored", "failed"}
          /\ file' \in IF object' = "stored" THEN {"removed", "closed"} ELSE {"closed"}
          /\ UNCHANGED <<inbound, outbound, wav, link>>

\* _cleanup has the row of the call name the object, if it was stored; the update may fail,
\* and is not repeated.
LinkRow == /\ object = "stored" /\ ~link
           /\ link' = TRUE
           /\ UNCHANGED <<inbound, outbound, wav, file, object>>

Done == object # "none" /\ UNCHANGED vars

Next == WriteInbound \/ WriteOutbound \/ Close \/ Upload \/ LinkRow \/ Done

Spec == Init /\ [][Next]_vars

----------------------------------------------------------------------------
\* The two voices are paired by count: the k-th sample of the file is the k-th sample of each
\* side that spoke that long, however the bytes were cut into chunks, and the file never
\* runs ahead of a side that may still speak.  By count is not by time.
PairedByCount ==
  \A k \in DOMAIN wav : /\ wav[k].in \in {2 * k - 1, Silence}
                        /\ wav[k].out \in {2 * k - 1, Silence}
                        /\ wav[k] # [in |-> Silence, out |-> Silence]
                        /\ file = "open" => wav[k].in <= inbound.to /\ wav[k].out <= outbound.to

\* Nothing that was said is lost: a side's bytes are in the file or in its buffer, and when
\* the file is closed it holds every whole sample of the side that has more.
RecordingIsComplete ==
  /\ \A k \in DOMAIN wav : wav[k].in # Silence \/ inbound.to < 2 * k
  /\ \A k \in DOMAIN wav : wav[k].out # Silence \/ outbound.to < 2 * k
  /\ file # "open" => 2 * Len(wav) = Even(Max({inbound.to, outbound.to}))

\* The recording is somewhere, in the bucket or on disk, and a row that names it is right.
RecordingIsKept == file = "removed" \/ link => object = "stored"

\* The recording of a call is paired by count, complete and kept.
RecordingIsSound == PairedByCount /\ RecordingIsComplete /\ RecordingIsKept
=============================================================================
