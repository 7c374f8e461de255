--------------------------------- MODULE MCDialler ---------------------------------
(***************************************************************************)
(* The way of the panel through the session manager to the dialler, for    *)
(* TLC: accounts, deployments, actions on calls, the browser of log-ins.   *)
(* They share no state: `running`, chosen once, says whose behaviour is    *)
(* explored, so that one run checks each of them and their state spaces    *)
(* add up.                                                                 *)
(***************************************************************************)
EXTENDS Naturals, Sequences, TLC

CONSTANTS Deployments, Accounts, None, MaxMessages, MaxFlaps, Backoffs, Requests,
           NoRequest, Contexts, Logins, NoLogin, NoContext, MaxFaults

VARIABLE running    \* the component whose behaviour this is: the others rest
VARIABLES row, initial, creating, accounts, owner, reg, timers, retry_idx, watcher, inbox,
          twice, messages, flaps, main
accountsVars == <<row, initial, creating, accounts, owner, reg, timers, retry_idx, watcher,
     inbox, twice, messages, flaps, main>>
R == INSTANCE SipAccounts

VARIABLES deploysRow, lock, req, worker, tick, rows, asked, blind, ops, faults
deploysVars == <<deploysRow, lock, req, worker, tick, rows, asked, blind, ops, faults>>
P == INSTANCE PanelDeployments WITH MaxOps <- 4, row <- deploysRow

VARIABLES seat, last, ended, session, actionsReq, holder, recorded, movedFor, refused,
          actionsOps, actionsFaults
actionsVars == <<seat, last, ended, session, actionsReq, holder, recorded, movedFor, refused,
     actionsOps, actionsFaults>>
C == INSTANCE CallActions WITH MaxCalls <- 2, MaxOps <- 2, req <- actionsReq, ops <-
     actionsOps, faults <- actionsFaults

VARIABLES pool, waiting, login, page, cookies, inherited, tainted, runs, browserFaults
browserVars == <<pool, waiting, login, page, cookies, inherited, tainted, runs, browserFaults>>
G == INSTANCE BrowserLogin WITH MaxRuns <- 3, MaxFaults <- 2, faults <- browserFaults

Components == {"accounts", "deploys", "actions", "browser"}

Init ==
  /\ running \in Components
  /\ R!Init
  /\ running # "accounts" =>
       row = [d \in Deployments |-> FALSE]
  /\ P!Init
  /\ C!Init
  /\ G!Init

vars == <<running, accountsVars, deploysVars, actionsVars, browserVars>>

Next ==
    \/ running = "accounts" /\ R!Next /\ UNCHANGED <<running, deploysVars, actionsVars,
       browserVars>>
    \/ running = "deploys" /\ P!Next /\ UNCHANGED <<running, accountsVars, actionsVars,
       browserVars>>
    \/ running = "actions" /\ C!Next /\ UNCHANGED <<running, accountsVars, deploysVars,
       browserVars>>
    \/ running = "browser" /\ G!Next /\ UNCHANGED <<running, accountsVars, deploysVars,
       actionsVars>>

Spec == Init /\ [][Next]_vars

\* What each component's fairness assumes, of the one that runs.
FairSpec ==
  /\ Spec
  /\ \A a \in Accounts : WF_accountsVars(running = "accounts" /\ R!RegSuccess(a))
  /\ \A a \in Accounts : WF_accountsVars(running = "accounts" /\ R!Retry(a))
  /\ \A d \in Deployments : WF_accountsVars(running = "accounts" /\ R!InitialCreate(d))
  /\ \A d \in Deployments : WF_accountsVars(running = "accounts" /\ R!InitialEnter(d))
  /\ WF_accountsVars(running = "accounts" /\ R!Watcher)
  /\ WF_deploysVars(running = "deploys" /\ P!TickFetch)
  /\ WF_deploysVars(running = "deploys" /\ P!TickApply)
  /\ \A r \in Requests : WF_deploysVars(running = "deploys" /\ (P!Flush(r) \/ P!Call(r) \/ P!Commit(r)))
  /\ \A r \in Requests : WF_actionsVars(running = "actions" /\ C!Act(r))
  /\ \A r \in Requests : WF_actionsVars(running = "actions" /\ C!Reply(r))
  /\ \A r \in Requests : SF_actionsVars(running = "actions" /\ C!Lock(r))
  /\ \A r \in Requests : WF_actionsVars(running = "actions" /\ (actionsReq[r].mgr = "lost" /\ C!TimeOut(r)))
  /\ \A l \in Logins : WF_browserVars(running = "browser" /\ G!LoginStep(l))

\* The properties of the components, stated and explained in their modules.
AccountsKeepTrying == R!AccountsKeepTrying
StopIsHonoured == P!StopIsHonoured
ActionsAreHonest == C!ActionsAreHonest
LoginsKeepApart == G!LoginsKeepApart
====================================================================================
