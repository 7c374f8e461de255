--------------------------- MODULE MCSessionMgr ---------------------------
(***************************************************************************)
(* The session manager for TLC, under two sets of circumstances over the   *)
(* same variables: one worker under everything the API may ask of it while *)
(* Redis fails, and two workers one after the other with shutdowns and     *)
(* restarts.  What is chosen once in `running` says which is explored.     *)
(***************************************************************************)
EXTENDS SessionMgr, FiniteSets, TLC

\* No actions, a healthy Redis and shorter retries in exchange for shutdowns.
Two == INSTANCE SessionMgr WITH
         Ops <- {}, MaxFailures <- 2, RedisMayFail <- FALSE, MayShutDown <- TRUE

VARIABLE running

MCInit == Init /\ running \in {"seat", "two"}

\* (Bound: in "seat" one worker is made, and its row does not come back.)
MCNext ==
  \/ /\ running = "seat" /\ Next /\ UNCHANGED running
     /\ Cardinality(made') <= 1
     /\ active' => active \/ made = {}
  \/ running = "two" /\ Two!Next /\ UNCHANGED running

MCSpec == MCInit /\ [][MCNext]_<<running, vars>>

\* The workers of the cfg, without more bounds, under the fairness of the event loop.
FairInit == Init /\ running = "seat"
FairNext == Next /\ UNCHANGED running

MCFairSpec == FairInit /\ [][FairNext]_<<running, vars>> /\ Fairness

\* Workers are made in any order: they are interchangeable.
WorkerSymmetry == Permutations(Workers)
=============================================================================
