------------------------------ MODULE CallRecords -----------------------------
(***************************************************************************)
(* What a call is set up from and what it leaves behind, with safety       *)
(* properties only: the prompt, the transcript, the recording, the pool    *)
(* mined from transcripts, and the chunks of the knowledge base.           *)
(* Side by side and without shared state: MCSafety runs one at a time, and *)
(* CallRecordsProofs proves of each what it promises.                      *)
(***************************************************************************)
EXTENDS Naturals

CONSTANTS Campaigns, NoCampaign, MaxEdits,           \* of CallPrompt
          Events, BatchMax, MaxDbFaults,             \* of Transcript
          Chunks, MaxBytes,                          \* of Recorder
          KeepTopK, MaxCalls, Long, Short,           \* of CampaignMining
          Tokens, Sentences, Target, Overlap         \* of KbChunks

VARIABLES campaigns, agent, deployment, call, edits
promptVars == <<campaigns, agent, deployment, call, edits>>
P == INSTANCE CallPrompt

VARIABLES transcriptCall, row, written, queue, task, batch, thread, table, dropped, late,
          transcriptFaults
transcriptVars == <<transcriptCall, row, written, queue, task, batch, thread, table, dropped,
     late, transcriptFaults>>
T == INSTANCE Transcript WITH MaxFaults <- MaxDbFaults, call <- transcriptCall,
     faults <- transcriptFaults

VARIABLES inbound, outbound, wav, file, object, link
recorderVars == <<inbound, outbound, wav, file, object, link>>
R == INSTANCE Recorder

VARIABLES miningCalls, job, next, candidates, pool, metrics
miningVars == <<miningCalls, job, next, candidates, pool, metrics>>
M == INSTANCE CampaignMining WITH calls <- miningCalls

VARIABLES text, chunksNext, cur, out, done
chunksVars == <<text, chunksNext, cur, out, done>>
B == INSTANCE KbChunks WITH next <- chunksNext

\* A call keeps its agent's lines and speaks for one campaign at a time (call_session.py).
PromptIsOfOnePiece == P!PromptIsOfOnePiece
\* Events are stored in order, and of a closed call whole but for what failed
\* (transcript_writer.py).
TranscriptIsWhole == T!TranscriptIsWhole
\* The two voices are paired sample by sample, and a file that is kept is complete
\* (recorder.py).
RecordingIsSound == R!RecordingIsSound
\* The pool keeps the best of what the calls had (campaign_mine_job.py).
PoolIsBest == M!PoolIsBest
\* Chunks cover the text and stay small (kb_ingest_job.py).
ChunksAreSound == B!ChunksAreSound
==============================================================================
