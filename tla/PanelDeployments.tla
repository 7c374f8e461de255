-------------------------- MODULE PanelDeployments --------------------------
(***************************************************************************)
(* Starting and stopping one deployment from the panel (deployments.py,    *)
(* deployment_service.py, session_mgr_client.py) together with what the    *)
(* session manager does about it: each request writes the row, calls the   *)
(* manager before it commits, and the manager's tick follows the rows that *)
(* are committed.  The manager is SessionMgr, cut to the one worker.       *)
(***************************************************************************)
EXTENDS Naturals, FiniteSets

CONSTANTS Requests,
          NoRequest,
          MaxOps,     \* bound on requests
          MaxFaults   \* bound on failed calls, commits and fetches

VARIABLES row,     \* the committed status: stopped, starting, gone
          lock,    \* the request whose transaction holds the row
          req,     \* request -> its kind, what it read, how far it got
          worker,  \* the manager's registry: absent, up, stopped (stopped but registered)
          tick,    \* idle, or the rows were fetched
          rows,    \* whether the fetched rows had the deployment
          asked,   \* what the last committed request asked for: start, stop, none
          blind,   \* a request that found its status there already overlapped another
          ops, faults

panel   == <<row, lock, req, asked, blind, ops>>
manager == <<worker, tick, rows>>
vars    == <<panel, manager, faults>>

Kinds == {"start", "stop", "update", "delete"}
Blank == [step |-> "idle", kind |-> "start", was |-> "gone", holds |-> FALSE]
Fault == faults < MaxFaults /\ faults' = faults + 1
Wanted(kind) == IF kind = "start" THEN "starting" ELSE "stopped"

Init == /\ row = "stopped" /\ lock = NoRequest /\ req = [r \in Requests |-> Blank]
        /\ worker = "absent" /\ tick = "idle" /\ rows = FALSE
        /\ asked = "none" /\ blind = FALSE /\ ops = 0 /\ faults = 0

\* get_deployment; 404 without a row.
Admit(r) == /\ req[r].step = "idle" /\ ops < MaxOps /\ row # "gone"
            /\ ops' = ops + 1
            /\ \E k \in Kinds : req' = [req EXCEPT ![r] =
                 [step |-> "flush", kind |-> k, was |-> row, holds |-> FALSE]]
            /\ UNCHANGED <<row, lock, asked, blind, manager, faults>>

\* The ORM writes a status that differs from the one it read, and the row's lock is held
\* until the commit; an update of a row that has gone is an error, a delete of one is not.
Flush(r) == LET q == req[r]
                Noop == q.kind \in {"start", "stop"} /\ q.was = Wanted(q.kind)
                Next == IF q.kind \in {"start", "stop"} THEN "call" ELSE "commit"
            IN /\ q.step = "flush"
               /\ \/ /\ Noop
                     /\ req' = [req EXCEPT ![r].step = Next] /\ UNCHANGED lock
                  \/ /\ ~Noop /\ lock = NoRequest
                     /\ IF row = "gone"
                        THEN req' = [req EXCEPT ![r] = Blank] /\ UNCHANGED lock
                        ELSE req' = [req EXCEPT ![r].step = Next, ![r].holds = TRUE] /\ lock' = r
               /\ UNCHANGED <<row, asked, blind, ops, manager, faults>>

\* The manager's API: start() only looks, stop() stops the worker and leaves it registered.
Serve(kind) == worker' = IF kind = "stop" /\ worker = "up" THEN "stopped" ELSE worker

\* _post's result is ignored, a call that failed may have been served.
Call(r) == /\ req[r].step = "call"
           /\ \/ Serve(req[r].kind) /\ UNCHANGED faults
              \/ Fault /\ UNCHANGED worker
           /\ req' = [req EXCEPT ![r].step = "commit"]
           /\ UNCHANGED <<row, lock, asked, blind, ops, tick, rows>>

Committed(q) == CASE q.kind = "delete" -> "gone"
                  [] q.kind = "update" -> row
                  [] OTHER -> Wanted(q.kind)

\* The audit record and the commit, or a rollback.
Commit(r) == LET q == req[r]
             IN /\ q.step = "commit"
                /\ req' = [req EXCEPT ![r] = Blank]
                /\ lock' = IF q.holds THEN NoRequest ELSE lock
                /\ \/ /\ row' = (IF q.holds THEN Committed(q) ELSE row)
                      /\ asked' = CASE q.kind = "update" -> asked
                                    [] q.kind = "start" -> "start"
                                    [] OTHER -> "stop"
                      /\ blind' = (blind \/ (~q.holds /\ (row # q.was \/ lock # NoRequest)))
                      /\ UNCHANGED faults
                   \/ Fault /\ UNCHANGED <<row, asked, blind>>
                /\ UNCHANGED <<ops, manager>>

\* _sync_fetch_deployments: a failed read looks like no deployment.
TickFetch == /\ tick = "idle"
             /\ tick' = "fetched"
             /\ \/ rows' = (row = "starting") /\ UNCHANGED faults
                \/ Fault /\ rows' = FALSE
             /\ UNCHANGED <<panel, worker>>

\* Mutant of TickApply: workers whose deployment left the rows stay.
KeepingTickApply == /\ tick = "fetched" /\ tick' = "idle"
                    /\ worker' = IF rows /\ worker = "absent" THEN "up" ELSE worker
                    /\ UNCHANGED <<panel, rows, faults>>

\* A new worker for a deployment that has none registered; none for one without rows.
TickApply == /\ tick = "fetched" /\ tick' = "idle"
             /\ worker' = CASE ~rows -> "absent"
                            [] rows /\ worker = "absent" -> "up"
                            [] OTHER -> worker
             /\ UNCHANGED <<panel, rows, faults>>

Request(r) == Admit(r) \/ Flush(r) \/ Call(r) \/ Commit(r)

Next == TickFetch \/ TickApply \/ \E r \in Requests : Request(r)

Spec == Init /\ [][Next]_vars

\* The manager's loop, and requests that go on.
FairSpec == /\ Spec
            /\ WF_vars(TickFetch) /\ WF_vars(TickApply)
            /\ \A r \in Requests : WF_vars(Flush(r) \/ Call(r) \/ Commit(r))

----------------------------------------------------------------------------
\* A deployment whose stop or deletion was the last request to be answered is left by its
\* agent in the end, whether the manager heard of it or not: the tick sees to it.  Except
\* after a request that found its status already there while another one changed it.
StopIsHonoured == (asked = "stop") ~> (worker # "up" \/ asked # "stop" \/ blind)
=============================================================================
