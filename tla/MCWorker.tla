--------------------------------- MODULE MCWorker ---------------------------------
(***************************************************************************)
(* The worker process side by side with what it does for one call, for     *)
(* TLC: the session of a call, with its speech, turns and tools.           *)
(* They share no state: `running`, chosen once, says whose behaviour is    *)
(* explored, so that one run checks each of them and their state spaces    *)
(* add up.                                                                 *)
(***************************************************************************)
EXTENDS WorkerPool, WorkerCall, Sequences, TLC

VARIABLE running    \* the component whose behaviour this is: the others rest

Components == {"pool", "call"}

MCInit ==
  /\ running \in Components
  /\ Init /\ (running # "pool" => group)
  /\ C!Init

MCvars == <<running, vars, callVars>>

MCNext ==
    \/ running = "pool" /\ Next /\ UNCHANGED <<running, callVars>>
    \/ running = "call" /\ C!Next /\ UNCHANGED <<running, vars>>

MCSpec == MCInit /\ [][MCNext]_MCvars

\* What each component's fairness assumes, of the one that runs.
MCFairSpec ==
  /\ MCSpec
  /\ \A w \in Workers : WF_vars(running = "pool" /\ Supervise(w))
  /\ \A w \in Workers, j \in Jobs : WF_vars(running = "pool" /\ ForceCancel(w, j))
  /\ \A w \in Workers, j \in Jobs : WF_vars(running = "pool" /\ Release(w, j))
  /\ WF_callVars(running = "call" /\ (C!SetUp \/ C!Ready))
  /\ WF_callVars(running = "call" /\ C!ReadEnds)
  /\ WF_callVars(running = "call" /\ C!WriteFrame)
  /\ WF_callVars(running = "call" /\ C!NextSpeech)
  /\ WF_callVars(running = "call" /\ (C!StreamCut \/ C!StreamEnd))
  /\ WF_callVars(running = "call" /\ C!DelayOver)
  /\ WF_callVars(running = "call" /\ C!LlmReplies)
  /\ WF_callVars(running = "call" /\ C!ToolReplies)
  /\ WF_callVars(running = "call" /\ C!FollowUp)
  /\ WF_callVars(running = "call" /\ C!DrainOver)
  /\ WF_callVars(running = "call" /\ C!CallEnds)
  /\ WF_callVars(running = "call" /\ C!Gathered)
  /\ WF_callVars(running = "call" /\ C!CleanUp)
===================================================================================
