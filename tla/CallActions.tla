---------------------------- MODULE CallActions -----------------------------
(***************************************************************************)
(* What an operator of the panel makes the dialler do on one deployment's  *)
(* seat: the panel's route checks the call's row, its client asks the      *)
(* session manager, the session's worker sends one request at a time under *)
(* its lock and reads the reply, and the panel records what it was told.   *)
(* Each of the three waits for the next only so long.                      *)
(***************************************************************************)
EXTENDS Naturals, FiniteSets

CONSTANTS Requests,
          MaxCalls,    \* bound on the calls that reach the seat
          MaxOps,      \* bound on requests
          MaxFaults    \* bound on time-outs and dropped sessions

VARIABLES seat,      \* the call whose customer is on the seat, 0 for none
          last,      \* calls so far
          ended,     \* calls whose row has ended_at
          session,   \* the agent session: up, dropped by the dialler, or logging in
          req,       \* request -> what it is; how far the panel and the manager are
          holder,    \* the requests that hold the worker's _lock
          recorded,  \* calls whose row has a transfer_target
          movedFor,  \* call -> the calls whose customers a request for it transferred
          refused,   \* calls for which a transfer was answered but not made: in words, or
                     \* with a web server's error page
          ops, faults

dialler == <<seat, last, session>>
rows    == <<ended, recorded>>
ghosts  == <<movedFor, refused>>
vars    == <<dialler, rows, req, holder, ghosts, ops, faults>>

Calls == 1..MaxCalls
Blank == [kind |-> "pause", call |-> 0, panel |-> "idle", mgr |-> "idle"]
Fault == faults < MaxFaults /\ faults' = faults + 1

Init == /\ seat = 0 /\ last = 0 /\ session = "up"
        /\ ended = {} /\ recorded = {}
        /\ req = [r \in Requests |-> Blank] /\ holder = {}
        /\ movedFor = [c \in Calls |-> {}] /\ refused = {}
        /\ ops = 0 /\ faults = 0

Panel(r, step) == req' = [req EXCEPT ![r].panel = step]
Mgr(r, step)   == req' = [req EXCEPT ![r].mgr = step]
----------------------------------------------------------------------------
\* The dialler's calls, and the worker that writes the end of a call to its row when it has
\* cleaned up: the seat may have its next customer by then.
CallArrives   == /\ seat = 0 /\ last < MaxCalls
                 /\ seat' = last + 1 /\ last' = last + 1
                 /\ UNCHANGED <<session, rows, req, holder, ghosts, ops, faults>>
CustomerLeaves == /\ seat # 0 /\ seat' = 0
                  /\ UNCHANGED <<last, session, rows, req, holder, ghosts, ops, faults>>
EndRow(c) == /\ c <= last /\ c # seat /\ c \notin ended
             /\ ended' = ended \cup {c}
             /\ UNCHANGED <<dialler, recorded, req, holder, ghosts, ops, faults>>

SessionDrops == /\ session = "up" /\ Fault /\ session' = "dropped"
                /\ UNCHANGED <<seat, last, rows, req, holder, ghosts, ops>>
\* heartbeat() finds out and logs in again (SessionWorker).
Recover == /\ session # "up"
           /\ session' = IF session = "dropped" THEN "logging in" ELSE "up"
           /\ UNCHANGED <<seat, last, rows, req, holder, ghosts, ops, faults>>
----------------------------------------------------------------------------
\* A route has accepted request k for call c (0 for none).
Accept(r, k, c) == /\ req[r] = Blank /\ ops < MaxOps /\ ops' = ops + 1
                   /\ req' = [req EXCEPT ![r] = [kind |-> k, call |-> c, panel |-> "checked", mgr |-> "idle"]]
                   /\ UNCHANGED <<dialler, rows, holder, ghosts, faults>>
\* transfer_call: refused for a call whose row has ended.
CheckTransfer(r) == \E c \in 1..last \ ended : Accept(r, "transfer", c)
\* test_call for a given deployment, and pause_deployment, look at no call.
CheckDial(r)     == Accept(r, "dial", 0)
CheckPause(r)    == Accept(r, "pause", 0)

\* SessionMgrClient posts, and the worker's action starts.
Ask(r) == /\ req[r].panel = "checked"
          /\ req' = [req EXCEPT ![r].panel = "waiting", ![r].mgr = "queued"]
          /\ UNCHANGED <<dialler, rows, holder, ghosts, ops, faults>>

\* The client's time-out: the handler is not told.
GiveUp(r) == /\ req[r].panel = "waiting" /\ Fault
             /\ Panel(r, "failed")
             /\ UNCHANGED <<dialler, rows, holder, ghosts, ops>>

\* The worker's action takes the lock; without a session it cannot build its request.
Lock(r) == /\ req[r].mgr = "queued" /\ holder = {}
           /\ IF session = "logging in" THEN Mgr(r, "error") /\ UNCHANGED holder
                                        ELSE Mgr(r, "sending") /\ holder' = {r}
           /\ UNCHANGED <<dialler, rows, ghosts, ops, faults>>

\* transfer_conference_request names the seat and no call: the dialler moves the customer
\* who is on it now, and refuses in words when there is none.
ActTransfer(r) ==
  /\ req[r].kind = "transfer"
  /\ IF seat # 0
     THEN movedFor' = [movedFor EXCEPT ![req[r].call] = @ \cup {seat}] /\ UNCHANGED refused
     ELSE refused' = refused \cup {req[r].call} /\ UNCHANGED movedFor
  /\ seat' = 0 /\ UNCHANGED last

\* manual_dial_request: a new customer, unless the seat is taken.
ActDial(r) == /\ req[r].kind = "dial"
              /\ IF seat = 0 /\ last < MaxCalls THEN seat' = last + 1 /\ last' = last + 1
                                                ELSE UNCHANGED <<seat, last>>
              /\ UNCHANGED ghosts
\* pause_request: the seat takes no further call, which the model leaves open.
ActPause(r) == req[r].kind = "pause" /\ UNCHANGED <<seat, last, ghosts>>

\* The dialler has the request: it acts for a session it knows.
Act(r) == /\ req[r].mgr = "sending"
          /\ IF session = "up"
             THEN Mgr(r, "done") /\ (ActTransfer(r) \/ ActDial(r) \/ ActPause(r))
             ELSE Mgr(r, "logged out") /\ UNCHANGED <<seat, last, ghosts>>
          /\ UNCHANGED <<session, rows, holder, ops, faults>>

\* The web server answers in the dialler's place, with an error page: neither 401 nor 403, a
\* body, and no logout marker in it.
ErrorPage(r) ==
  /\ req[r].mgr = "sending" /\ Fault
  /\ Mgr(r, "done")
  /\ refused' = IF req[r].kind = "transfer" THEN refused \cup {req[r].call} ELSE refused
  /\ UNCHANGED <<dialler, rows, holder, movedFor, ops>>

\* send() gives up after 8 s, whether the dialler has acted or not: status 599, no body.
TimeOut(r) == /\ req[r].mgr \in {"sending", "done", "logged out", "lost"}
              /\ Mgr(r, "silent")
              /\ IF req[r].mgr = "lost" THEN UNCHANGED faults ELSE Fault
              /\ UNCHANGED <<dialler, rows, holder, ghosts, ops>>

\* The request or its reply is lost on the way.
Lose(r) == /\ req[r].mgr \in {"sending", "done"} /\ Fault
           /\ Mgr(r, "lost")
           /\ UNCHANGED <<dialler, rows, holder, ghosts, ops>>

\* Mutant of Expired: an empty body is not taken for a lost session.
LaxExpired(reply) == reply = "logged out"
\* is_response_session_expired: 401, 403, no body, or a logout marker in it.
Expired(reply) == reply \in {"logged out", "silent"}

\* _raise_if_expired; the lock is released and the handler answers: 200, or an error.
Reply(r) == /\ req[r].mgr \in {"done", "logged out", "silent"}
            /\ holder' = {}
            /\ Mgr(r, IF Expired(req[r].mgr) \/ session = "logging in" THEN "error" ELSE "ok")
            /\ UNCHANGED <<dialler, rows, ghosts, ops, faults>>

\* The panel has the answer, if it still waits for it.
Answer(r) == /\ req[r].mgr \in {"ok", "error"}
             /\ req' = [req EXCEPT ![r].mgr = "idle",
                          ![r].panel = IF @ # "waiting" THEN @
                                       ELSE IF req[r].mgr = "ok" THEN "told" ELSE "failed"]
             /\ UNCHANGED <<dialler, rows, holder, ghosts, ops, faults>>

\* The transfer's target is written; a failure is answered 502 and rolls back its own audit.
Finish(r) == /\ req[r].panel \in {"told", "failed"} /\ req[r].mgr = "idle"
             /\ recorded' = IF req[r].panel = "told" /\ req[r].kind = "transfer"
                            THEN recorded \cup {req[r].call} ELSE recorded
             /\ req' = [req EXCEPT ![r] = Blank]
             /\ UNCHANGED <<dialler, ended, holder, ghosts, ops, faults>>

Manager(r) == Lock(r) \/ Act(r) \/ Reply(r) \/ (req[r].mgr = "lost" /\ TimeOut(r))

Next == \/ CallArrives \/ CustomerLeaves \/ SessionDrops \/ Recover
        \/ \E c \in Calls : EndRow(c)
        \/ \E r \in Requests : \/ CheckTransfer(r) \/ CheckDial(r) \/ CheckPause(r) \/ Ask(r) \/ GiveUp(r) \/ Lock(r)
                               \/ Act(r) \/ ErrorPage(r)
                               \/ TimeOut(r) \/ Lose(r) \/ Reply(r) \/ Answer(r) \/ Finish(r)

Spec == Init /\ [][Next]_vars

\* The manager's event loop and the dialler go on, and the lock's waiters are served in turn.
FairSpec == Spec /\ \A r \in Requests : WF_vars(Act(r)) /\ WF_vars(Reply(r)) /\ SF_vars(Lock(r))
                                        /\ WF_vars(req[r].mgr = "lost" /\ TimeOut(r))

----------------------------------------------------------------------------
\* A transfer the panel records was made: a reply that never came, a session that was lost
\* and an answer that came too late are not taken for one.  Only an answer with a body the
\* adapter does not know is believed, a refusal in words or an error page of any status but
\* 401 and 403 (v2_14.py:130-137): nothing else looks at what came back.  And an action that
\* waits for the worker's lock gets it: no lost reply and no lost session of the one before
\* keeps it waiting.
ActionsAreHonest ==
  /\ [](\A c \in recorded : movedFor[c] # {} \/ c \in refused)
  /\ \A r \in Requests : req[r].mgr = "queued" ~> req[r].mgr # "queued"

\* "Operator-initiated warm transfer of a live AI call into a ViciDial ingroup." (calls.py:219):
\* the customer who is moved is the call's.  The code moves whoever is on the seat: of a call
\* whose customer has left, the row has no ended_at until its worker has cleaned up, and the
\* next customer may be there before that.
TransferMovesItsCall == \A c \in Calls : movedFor[c] \subseteq {c}
=============================================================================
