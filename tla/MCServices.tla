-------------------------------- MODULE MCServices --------------------------------
(***************************************************************************)
(* The audio of a call, the sip service, the speech and LLM servers and    *)
(* the jobs of the panel, side by side, for TLC.                           *)
(* They share no state: `running`, chosen once, says whose behaviour is    *)
(* explored, so that one run checks each of them and their state spaces    *)
(* add up.                                                                 *)
(***************************************************************************)
EXTENDS AudioPath, Sequences, TLC

CONSTANTS Calls, MaxBacklog, Blocks, FramesMax, CapBlocks, Requests, Threads,
          Slices, QueueSlices, Runs, Streams, NoRun, MaxLines, QueueMax,
          MaxEvents, Docs, Sizes, MaxTries

VARIABLE running    \* the component whose behaviour this is: the others rest
VARIABLES handler, reply, bridge, quit, reader, worker, backlog, dialog, callback, calls,
          ended, shutting, main, toHang
callsVars == <<handler, reply, bridge, quit, reader, worker, backlog, dialog, callback, calls,
     ended, shutting, main, toHang>>
S == INSTANCE SipCalls

VARIABLES fed, frames, socket, wire, talking, active, buffer, speechHandler, last, partials,
          spoken, capped, finals
speechVars == <<fed, frames, socket, wire, talking, active, buffer, speechHandler, last,
     partials, spoken, capped, finals>>
H == INSTANCE SpeechStream WITH handler <- speechHandler

VARIABLES producer, made, failed, queue, stream, got
voiceVars == <<producer, made, failed, queue, stream, got>>
T == INSTANCE TtsStream

VARIABLES vllm, wrapper, loaded_at, req, client, opened, inflight
llmVars == <<vllm, wrapper, loaded_at, req, client, opened, inflight>>
P == INSTANCE LlmProxy

VARIABLES runs, lines, updatesActive, script, updatesStream
updatesVars == <<runs, lines, updatesActive, script, updatesStream>>
U == INSTANCE UpdateRuns WITH active <- updatesActive, stream <- updatesStream

VARIABLES published, channel, source, loop, sent, since, eventsClient
eventsVars == <<published, channel, source, loop, sent, since, eventsClient>>
E == INSTANCE LiveEvents WITH client <- eventsClient

VARIABLES request, size, status, count, chunks, job, tries, embedded, early, excused, faults
ingestVars == <<request, size, status, count, chunks, job, tries, embedded, early, excused,
     faults>>
K == INSTANCE KbIngest WITH MaxFaults <- 2

VARIABLES cloneRequest, cloneStatus, path, cloneJob, result, cloneRuns, server, twins, files,
          cloneEarly, cloneFaults
cloneVars == <<cloneRequest, cloneStatus, path, cloneJob, result, cloneRuns, server, twins,
     files, cloneEarly, cloneFaults>>
V == INSTANCE VoiceClone WITH MaxRuns <- 2, MaxFaults <- 2, request <- cloneRequest, status <-
     cloneStatus, job <- cloneJob, runs <- cloneRuns, early <- cloneEarly, faults <-
     cloneFaults

Components == {"audio", "calls", "speech", "voice", "llm", "updates", "events", "ingest",
               "clone"}

MCInit ==
  /\ running \in Components
  /\ Init
  /\ S!Init
  /\ H!Init
  /\ T!Init
  /\ P!Init
  /\ U!Init
  /\ E!Init
  /\ K!Init
  /\ V!Init

MCvars == <<running, vars, callsVars, speechVars, voiceVars, llmVars, updatesVars, eventsVars,
     ingestVars, cloneVars>>

MCNext ==
    \/ running = "audio" /\ Next /\ UNCHANGED <<running, callsVars, speechVars, voiceVars,
       llmVars, updatesVars, eventsVars, ingestVars, cloneVars>>
    \/ running = "calls" /\ S!Next /\ UNCHANGED <<running, vars, speechVars, voiceVars,
       llmVars, updatesVars, eventsVars, ingestVars, cloneVars>>
    \/ running = "speech" /\ H!Next /\ UNCHANGED <<running, vars, callsVars, voiceVars,
       llmVars, updatesVars, eventsVars, ingestVars, cloneVars>>
    \/ running = "voice" /\ T!Next /\ UNCHANGED <<running, vars, callsVars, speechVars,
       llmVars, updatesVars, eventsVars, ingestVars, cloneVars>>
    \/ running = "llm" /\ P!Next /\ UNCHANGED <<running, vars, callsVars, speechVars,
       voiceVars, updatesVars, eventsVars, ingestVars, cloneVars>>
    \/ running = "updates" /\ U!Next /\ UNCHANGED <<running, vars, callsVars, speechVars,
       voiceVars, llmVars, eventsVars, ingestVars, cloneVars>>
    \/ running = "events" /\ E!Next /\ UNCHANGED <<running, vars, callsVars, speechVars,
       voiceVars, llmVars, updatesVars, ingestVars, cloneVars>>
    \/ running = "ingest" /\ K!Next /\ UNCHANGED <<running, vars, callsVars, speechVars,
       voiceVars, llmVars, updatesVars, eventsVars, cloneVars>>
    \/ running = "clone" /\ V!Next /\ UNCHANGED <<running, vars, callsVars, speechVars,
       voiceVars, llmVars, updatesVars, eventsVars, ingestVars>>

MCSpec == MCInit /\ [][MCNext]_MCvars

\* What each component's fairness assumes, of the one that runs.
MCFairSpec ==
  /\ MCSpec
  /\ WF_vars(running = "audio" /\ WriterTakes)
  /\ WF_vars(running = "audio" /\ WriterSends)
  /\ WF_vars(running = "audio" /\ ReaderEnqueues)
  /\ WF_vars(running = "audio" /\ OnFrameRequested)
  /\ WF_vars(running = "audio" /\ WorkerReads)
  /\ WF_callsVars(running = "calls" /\ S!Main)
  /\ \A c \in Calls : WF_callsVars(running = "calls" /\ (main # "destroyed" /\ S!HandleInvite(c)))
  /\ \A c \in Calls : WF_callsVars(running = "calls" /\ (main # "destroyed" /\ S!Reader(c)))
  /\ \A c \in Calls : WF_callsVars(running = "calls" /\ (main # "destroyed" /\ S!Callback(c)))
  /\ \A c \in Calls : WF_callsVars(running = "calls" /\ (main # "destroyed" /\ S!ByeAnswered(c)))
  /\ WF_speechVars(running = "speech" /\ H!Send)
  /\ WF_speechVars(running = "speech" /\ H!Server)
  /\ \A r \in Requests : WF_voiceVars(running = "voice" /\ (T!Produce(r) \/ T!Put(r) \/ T!PutEnd(r)))
  /\ \A r \in Requests : WF_voiceVars(running = "voice" /\ T!Yield(r))
  /\ \A r \in Requests : SF_voiceVars(running = "voice" /\ T!Begin(r))
  /\ WF_llmVars(running = "llm" /\ P!Main)
  /\ \A r \in Requests : WF_llmVars(running = "llm" /\ P!Handle(r))
  /\ WF_updatesVars(running = "updates" /\ U!Follow)
  /\ WF_updatesVars(running = "updates" /\ U!Drive)
  /\ WF_eventsVars(running = "events" /\ E!Loop)
  /\ WF_eventsVars(running = "events" /\ E!KeepAlive)
  /\ \A d \in Docs : WF_ingestVars(running = "ingest" /\ K!Step(d))
  /\ WF_cloneVars(running = "clone" /\ V!Job)
  /\ WF_cloneVars(running = "clone" /\ V!Serve)

\* The properties of the components, stated and explained in their modules.
CallsAreLetGo == S!CallsAreLetGo
SpeechIsTranscribed == H!SpeechIsTranscribed
SpeechReachesItsEnd == T!SpeechReachesItsEnd
ProxyLives == running = "llm" => P!ProxyLives
UpdateIsFollowed == U!UpdateIsFollowed
EventsAreStreamed == E!EventsAreStreamed
DocumentIsIngested == K!DocumentIsIngested
VoiceIsCloned == V!VoiceIsCloned
===================================================================================
