----------------------------- MODULE TtsStream -----------------------------
(***************************************************************************)
(* POST /v1/tts/synthesize of the speech server (synthesizer.py): a thread *)
(* of the default executor makes slices of audio and puts them, one by one *)
(* and waiting for each, in a bounded asyncio queue; the response streams  *)
(* the queue to the worker, which leaves when the caller barges in         *)
(* (audio_out.py).  Slices are numbered; 0 is the end marker.              *)
(***************************************************************************)
EXTENDS Naturals, Sequences, FiniteSets

CONSTANTS Requests,
          Threads,    \* workers of the executor
          Slices,     \* slices of a text
          QueueSlices \* maxsize of a request's queue

VARIABLES producer,  \* none, queued, running, putting, closing, done, cancelled
          made,      \* the last slice encoded
          failed,    \* the backend has raised
          queue,
          stream,    \* the response: none, open, ended (its generator is over), left
          got        \* what the worker received

vars == <<producer, made, failed, queue, stream, got>>

Init == /\ producer = [r \in Requests |-> "none"] /\ made = [r \in Requests |-> 0]
        /\ failed = [r \in Requests |-> FALSE]    /\ queue = [r \in Requests |-> <<>>]
        /\ stream = [r \in Requests |-> "none"]   /\ got = [r \in Requests |-> <<>>]

Holding == {r \in Requests : producer[r] \in {"running", "putting", "closing"}}
HasRoom(r) == Len(queue[r]) < QueueSlices
Set(r, p) == producer' = [producer EXCEPT ![r] = p]

\* synthesize: run_in_executor, and the streaming response.
Synthesize(r) == /\ stream[r] = "none"
                 /\ Set(r, "queued")
                 /\ stream' = [stream EXCEPT ![r] = "open"]
                 /\ UNCHANGED <<made, failed, queue, got>>

Begin(r) == /\ producer[r] = "queued" /\ Cardinality(Holding) < Threads
            /\ Set(r, "running")
            /\ UNCHANGED <<made, failed, queue, stream, got>>

\* The next slice of backend.synthesize, or its end; an exception ends it, too.
Produce(r) == /\ producer[r] = "running"
              /\ \/ /\ made[r] < Slices
                    /\ made' = [made EXCEPT ![r] = @ + 1]
                    /\ Set(r, "putting") /\ UNCHANGED failed
                 \/ /\ Set(r, "closing") /\ UNCHANGED made
                    /\ failed' = [failed EXCEPT ![r] = made[r] < Slices]
              /\ UNCHANGED <<queue, stream, got>>

\* Mutant of Put: put_nowait, and a full queue is not waited for.
NoWaitPut(r) == /\ producer[r] = "putting"
                /\ queue' = IF HasRoom(r) THEN [queue EXCEPT ![r] = Append(@, made[r])] ELSE queue
                /\ Set(r, "running")
                /\ UNCHANGED <<made, failed, stream, got>>

\* queue.put(wire), whose result the thread waits for: without a reader, for ever.
Put(r) == /\ producer[r] = "putting" /\ HasRoom(r)
          /\ queue' = [queue EXCEPT ![r] = Append(@, made[r])]
          /\ Set(r, "running")
          /\ UNCHANGED <<made, failed, stream, got>>

\* The finally clause of _produce.
PutEnd(r) == /\ producer[r] = "closing" /\ HasRoom(r)
             /\ queue' = [queue EXCEPT ![r] = Append(@, 0)]
             /\ Set(r, "done")
             /\ UNCHANGED <<made, failed, stream, got>>

\* _stream
Yield(r) == /\ stream[r] = "open" /\ queue[r] # <<>>
            /\ queue' = [queue EXCEPT ![r] = Tail(@)]
            /\ IF Head(queue[r]) = 0
               THEN stream' = [stream EXCEPT ![r] = "ended"] /\ UNCHANGED got
               ELSE got' = [got EXCEPT ![r] = Append(@, Head(queue[r]))] /\ UNCHANGED stream
            /\ UNCHANGED <<producer, made, failed>>

\* Barge-in, or the worker's time-out, closes the response; producer.cancel() reaches
\* only a producer that no thread has begun.
Leave(r) == /\ stream[r] = "open"
            /\ stream' = [stream EXCEPT ![r] = "left"]
            /\ Set(r, IF producer[r] = "queued" THEN "cancelled" ELSE producer[r])
            /\ UNCHANGED <<made, failed, queue, got>>

Server(r) == Begin(r) \/ Produce(r) \/ Put(r) \/ PutEnd(r) \/ Yield(r)

Next == \E r \in Requests : Synthesize(r) \/ Server(r) \/ Leave(r)

Spec == Init /\ [][Next]_vars
\* Threads run and the event loop turns; of the queued producers each gets its turn.
FairSpec == Spec /\ \A r \in Requests : /\ WF_vars(Produce(r) \/ Put(r) \/ PutEnd(r))
                                        /\ WF_vars(Yield(r)) /\ SF_vars(Begin(r))

----------------------------------------------------------------------------
\* A thread that nobody will read from again: producer.cancel() does not reach it.
Stuck == {r \in Holding : stream[r] = "left" /\ ~HasRoom(r)}

\* The worker hears the text from its start without a gap, and an end it takes for the
\* whole text is one, unless the backend failed.
WholeSoFar(r) == /\ \A i \in DOMAIN got[r] : got[r][i] = i
                 /\ stream[r] = "ended" /\ ~failed[r] => Len(got[r]) = Slices

\* Whoever waits for speech hears it so, and gets its end, unless every thread hangs on a
\* response that was left: the pool is lost to barge-ins and to nothing else.
SpeechReachesItsEnd == \A r \in Requests :
  /\ []WholeSoFar(r)
  /\ stream[r] = "open" ~> (stream[r] # "open" \/ Cardinality(Stuck) = Threads)
=============================================================================
