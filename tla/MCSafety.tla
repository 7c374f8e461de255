--------------------------------- MODULE MCSafety ---------------------------------
(***************************************************************************)
(* The calls of the sip service side by side with the components that keep *)
(* records and have safety properties only, for TLC.                       *)
(* They share no state: `running`, chosen once, says whose behaviour is    *)
(* explored, so that one run checks each of them and their state spaces    *)
(* add up.                                                                 *)
(***************************************************************************)
EXTENDS SipCalls, PanelRecords, CallRecords, Sequences, TLC

CONSTANT Owner       \* the administrator when the users are not what is explored

\* SERVICES_MODELS and SERVICES_APP, with the service that the script may not outlive.
ModelServices == <<"llm">>
AppServices   == <<"workers", "web">>

\* Nothing tells one call from another.
CallSymmetry == Permutations(Calls)

VARIABLE running    \* the component whose behaviour this is: the others rest

Components == {"calls", "mining", "chunks", "script", "tokens", "admins", "agents", "prompt",
               "transcript", "recorder"}

MCInit ==
  /\ running \in Components
  /\ Init
  /\ M!Init
  /\ running # "mining" =>
       \A i \in 1..2 : Len(miningCalls[i].events) = 0 /\ miningCalls[i].mine /\ miningCalls[i].won
  /\ B!Init
  /\ running # "chunks" =>
       text = <<>>
  /\ S!Init
  /\ running # "script" =>
       head = 1
  /\ K!Init
  /\ D!Init
  /\ running # "admins" =>
       adminsRole = [u \in Users |-> IF u = Owner THEN "admin" ELSE "none"]
  /\ A!Init
  /\ P!Init
  /\ running # "prompt" =>
       /\ deployment.link = NoCampaign /\ agent.link = NoCampaign
       /\ \A c \in Campaigns : campaigns[c].status = "active"
  /\ T!Init
  /\ R!Init

MCvars == <<running, vars, miningVars, chunksVars, scriptVars, tokensVars, adminsVars,
     agentsVars, promptVars, transcriptVars, recorderVars>>

MCNext ==
    \/ running = "calls" /\ Next /\ UNCHANGED <<running, miningVars, chunksVars, scriptVars,
       tokensVars, adminsVars, agentsVars, promptVars, transcriptVars, recorderVars>>
    \/ running = "mining" /\ M!Next /\ UNCHANGED <<running, vars, chunksVars, scriptVars,
       tokensVars, adminsVars, agentsVars, promptVars, transcriptVars, recorderVars>>
    \/ running = "chunks" /\ B!Next /\ UNCHANGED <<running, vars, miningVars, scriptVars,
       tokensVars, adminsVars, agentsVars, promptVars, transcriptVars, recorderVars>>
    \/ running = "script" /\ S!Next /\ UNCHANGED <<running, vars, miningVars, chunksVars,
       tokensVars, adminsVars, agentsVars, promptVars, transcriptVars, recorderVars>>
    \/ running = "tokens" /\ K!Next /\ UNCHANGED <<running, vars, miningVars, chunksVars,
       scriptVars, adminsVars, agentsVars, promptVars, transcriptVars, recorderVars>>
    \/ running = "admins" /\ D!Next /\ UNCHANGED <<running, vars, miningVars, chunksVars,
       scriptVars, tokensVars, agentsVars, promptVars, transcriptVars, recorderVars>>
    \/ running = "agents" /\ A!Next /\ UNCHANGED <<running, vars, miningVars, chunksVars,
       scriptVars, tokensVars, adminsVars, promptVars, transcriptVars, recorderVars>>
    \/ running = "prompt" /\ P!Next /\ UNCHANGED <<running, vars, miningVars, chunksVars,
       scriptVars, tokensVars, adminsVars, agentsVars, transcriptVars, recorderVars>>
    \/ running = "transcript" /\ T!Next /\ UNCHANGED <<running, vars, miningVars, chunksVars,
       scriptVars, tokensVars, adminsVars, agentsVars, promptVars, recorderVars>>
    \/ running = "recorder" /\ R!Next /\ UNCHANGED <<running, vars, miningVars, chunksVars,
       scriptVars, tokensVars, adminsVars, agentsVars, promptVars, transcriptVars>>

MCSpec == MCInit /\ [][MCNext]_MCvars
===================================================================================
