----------------------------- MODULE SipAccounts -----------------------------
(***************************************************************************)
(* The SIP accounts of the sip service (account_manager.py): the staggered *)
(* timers of load_initial, the pub/sub thread, and each account's          *)
(* registration with its retry timers.  These are threads of their own;    *)
(* what one does between two uses of _accounts_lock or PJSIP is a step.    *)
(* An account object is an element of Accounts, used once.                 *)
(***************************************************************************)
EXTENDS Naturals, FiniteSets, Sequences

CONSTANTS Deployments, Accounts, None,
          MaxMessages,   \* bound on the pub/sub messages
          MaxFlaps,      \* bound on refused REGISTERs and lost registrations
          Backoffs       \* Len(register_backoff_sec)

VARIABLES row,        \* the deployment's status is starting or running
          initial,    \* the stage of its timer of load_initial
          creating,   \* the account a thread has created and not yet entered
          accounts,   \* _accounts
          owner,      \* the deployment of an account, None while unused
          reg,        \* its registration, as PJSIP has it
          timers,     \* retry timers that are armed for it
          retry_idx,
          watcher,    \* the pub/sub thread: stage and message in hand
          inbox,      \* messages that Redis will deliver
          twice,      \* history: deployments two threads have made accounts for at once
          messages, flaps,   \* what is left of the bounds
          main        \* main thread: up, unregistered, down

regVars  == <<reg, timers, retry_idx>>
bounds   == <<messages, flaps>>
vars     == <<row, initial, creating, accounts, owner, regVars, watcher, inbox, twice, bounds,
            main>>

Actions == {"add", "update", "remove"}
Messages == [action : Actions, deployment : Deployments]
Idle    == [stage |-> "listen", action |-> "add", deployment |-> None]
Threads == {"timer", "watcher"}
Live    == {"trying", "registered", "failed", "leaving", "off"}

\* load_initial: one timer per active deployment, none when the database fails.
Init == /\ row \in [Deployments -> BOOLEAN]
        /\ \E loaded \in BOOLEAN :
             initial = [d \in Deployments |-> IF loaded /\ row[d] THEN "armed" ELSE "done"]
        /\ creating = [t \in Threads |-> [d \in Deployments |-> None]]
        /\ accounts = [d \in Deployments |-> None]
        /\ owner = [a \in Accounts |-> None]
        /\ reg = [a \in Accounts |-> "unused"]
        /\ timers = [a \in Accounts |-> 0]
        /\ retry_idx = [a \in Accounts |-> 0]
        /\ watcher = Idle /\ inbox = <<>> /\ twice = {}
        /\ messages = MaxMessages /\ flaps = MaxFlaps /\ main = "up"

----------------------------------------------------------------------------
(* _create_account, in three parts: the look into _accounts, pj create (which *)
(* also sends REGISTER), and the entry under the lock. *)

PjCreate(t, d) == \E a \in Accounts :
                    /\ reg[a] = "unused"
                    /\ creating' = [creating EXCEPT ![t][d] = a]
                    /\ owner' = [owner EXCEPT ![a] = d]
                    /\ reg' = [reg EXCEPT ![a] = "trying"]
                    /\ UNCHANGED <<timers, retry_idx>>

\* An account that loses its entry loses its last reference and PJSIP deletes it, unless
\* retry timers have made it part of a cycle: then the garbage collector has to come.
Enter(t, d) == LET old == accounts[d] IN
               /\ accounts' = [accounts EXCEPT ![d] = creating[t][d]]
               /\ creating' = [creating EXCEPT ![t][d] = None]
               /\ reg' = IF old # None /\ retry_idx[old] = 0 /\ timers[old] = 0
                         THEN [reg EXCEPT ![old] = "gone"] ELSE reg
               /\ twice' = IF old = None THEN twice ELSE twice \cup {d}
               /\ UNCHANGED <<owner, timers, retry_idx>>

InitialCreate(d) ==
  /\ initial[d] = "armed" /\ main # "down"
  /\ \/ /\ accounts[d] # None                        \* account_already_present
        /\ initial' = [initial EXCEPT ![d] = "done"]
        /\ UNCHANGED <<creating, owner, regVars>>
     \/ /\ accounts[d] = None
        /\ initial' = [initial EXCEPT ![d] = "created"]
        /\ PjCreate("timer", d)
     \/ /\ accounts[d] = None                        \* account_create_failed
        /\ initial' = [initial EXCEPT ![d] = "done"]
        /\ UNCHANGED <<creating, owner, regVars>>
  /\ UNCHANGED <<row, accounts, watcher, inbox, twice, bounds, main>>

InitialEnter(d) == /\ initial[d] = "created"
                   /\ initial' = [initial EXCEPT ![d] = "done"]
                   /\ Enter("timer", d)
                   /\ UNCHANGED <<row, watcher, inbox, bounds, main>>

----------------------------------------------------------------------------
(* _pubsub_loop and _handle_pubsub_message *)

Receive == /\ watcher.stage = "listen" /\ inbox # <<>> /\ main # "down"
           /\ watcher' = [stage |-> IF Head(inbox).action = "add" THEN "fetch" ELSE "destroy",
                          action |-> Head(inbox).action, deployment |-> Head(inbox).deployment]
           /\ inbox' = Tail(inbox)
           /\ UNCHANGED <<row, initial, creating, accounts, owner, regVars, twice, bounds, main>>

\* While the connection to Redis is down, what is published is lost.
Disconnected == /\ inbox # <<>>
                /\ inbox' = <<>>
                /\ UNCHANGED <<row, initial, creating, accounts, owner, regVars, watcher,
                               twice, bounds, main>>

\* _destroy_account; the retry timers stay armed.
Destroy == LET d == watcher.deployment  a == accounts[d] IN
           /\ watcher.stage = "destroy"
           /\ accounts' = [accounts EXCEPT ![d] = None]
           /\ reg' = IF a = None THEN reg ELSE [reg EXCEPT ![a] = "gone"]
           /\ watcher' = IF watcher.action = "update"
                         THEN [watcher EXCEPT !.stage = "fetch"] ELSE Idle
           /\ UNCHANGED <<row, initial, creating, owner, timers, retry_idx, inbox, twice,
                          bounds, main>>

\* _fetch_models and the first half of _create_account.
Fetch == LET d == watcher.deployment IN
         /\ watcher.stage = "fetch"
         /\ \/ /\ row[d] /\ accounts[d] = None
               /\ PjCreate("watcher", d)
               /\ watcher' = [watcher EXCEPT !.stage = "enter"]
            \/ /\ watcher' = Idle        \* no row, database or PJSIP failed, or present
               /\ UNCHANGED <<creating, owner, regVars>>
         /\ UNCHANGED <<row, initial, accounts, inbox, twice, bounds, main>>

WatcherEnter == /\ watcher.stage = "enter"
                /\ Enter("watcher", watcher.deployment)
                /\ watcher' = Idle
                /\ UNCHANGED <<row, initial, inbox, bounds, main>>

----------------------------------------------------------------------------
(* onRegState and the retry timers *)

RegSuccess(a) == /\ reg[a] = "trying"
                 /\ reg' = [reg EXCEPT ![a] = "registered"]
                 /\ retry_idx' = [retry_idx EXCEPT ![a] = 0]
                 /\ UNCHANGED <<row, initial, creating, accounts, owner, timers, watcher,
                                inbox, twice, bounds, main>>

\* _schedule_retry
Schedule(a, armed) ==
  /\ timers' = [timers EXCEPT ![a] = IF armed = 2 THEN 2 ELSE armed + 1]
  /\ retry_idx' = [retry_idx EXCEPT ![a] = IF @ = Backoffs THEN @ ELSE @ + 1]

\* A REGISTER refused or timed out, or a refresh that failed.
RegFailure(a) == /\ reg[a] \in {"trying", "registered"} /\ flaps > 0
                 /\ flaps' = flaps - 1
                 /\ reg' = [reg EXCEPT ![a] = "failed"]
                 /\ Schedule(a, timers[a])
                 /\ UNCHANGED <<row, initial, creating, accounts, owner, watcher, inbox,
                                twice, messages, main>>

\* The answer to expires=0 is a registration that is not active: a failure to onRegState.
Unregistered(a) == /\ reg[a] = "leaving"
                   /\ reg' = [reg EXCEPT ![a] = "off"]
                   /\ Schedule(a, timers[a])
                   /\ UNCHANGED <<row, initial, creating, accounts, owner, watcher, inbox,
                                  twice, bounds, main>>

\* Mutant of Retry: an error of setRegistration ends the retries.
QuittingRetry(a) == /\ timers[a] > 0 /\ main # "down"
            /\ \/ /\ reg[a] # "gone"
                  /\ reg' = [reg EXCEPT ![a] = "trying"]
               \/ UNCHANGED reg
            /\ timers' = [timers EXCEPT ![a] = @ - 1]
            /\ UNCHANGED <<row, initial, creating, accounts, owner, retry_idx, watcher, inbox,
                           twice, bounds, main>>

\* _do_retry; setRegistration raises for an account that is shut down, and may raise for
\* another (a transaction still pending).
Retry(a) == /\ timers[a] > 0 /\ main # "down"
            /\ \/ /\ reg[a] # "gone"
                  /\ reg' = [reg EXCEPT ![a] = "trying"]
                  /\ timers' = [timers EXCEPT ![a] = @ - 1]
                  /\ UNCHANGED <<retry_idx, flaps>>
               \/ /\ \/ reg[a] = "gone" /\ UNCHANGED flaps
                     \/ reg[a] # "gone" /\ flaps > 0 /\ flaps' = flaps - 1
                  /\ UNCHANGED reg
                  /\ Schedule(a, timers[a] - 1)
            /\ UNCHANGED <<row, initial, creating, accounts, owner, watcher, inbox,
                           twice, messages, main>>

----------------------------------------------------------------------------
(* main.py: unregister_all and endpoint.shutdown; the panel's database *)

UnregisterAll == /\ main = "up"
                 /\ main' = "unregistered"
                 /\ reg' = [a \in Accounts |->
                              IF \E d \in Deployments : accounts[d] = a THEN "leaving" ELSE reg[a]]
                 /\ UNCHANGED <<row, initial, creating, accounts, owner, timers, retry_idx,
                                watcher, inbox, twice, bounds>>

EndpointShutdown == /\ main = "unregistered"
                    /\ main' = "down"
                    /\ reg' = [a \in Accounts |-> IF reg[a] = "unused" THEN "unused" ELSE "gone"]
                    /\ UNCHANGED <<row, initial, creating, accounts, owner, timers, retry_idx,
                                   watcher, inbox, twice, bounds>>

\* A deployment is started or stopped and the change announced on sip:accounts:changed.
Announce(d) == /\ messages > 0
               /\ messages' = messages - 1
               /\ \E on \in BOOLEAN : \E m \in Actions :
                    /\ m = "remove" <=> ~on
                    /\ row' = [row EXCEPT ![d] = on]
                    /\ inbox' = Append(inbox, [action |-> m, deployment |-> d])
               /\ UNCHANGED <<initial, creating, accounts, owner, regVars, watcher, twice, flaps, main>>

\* The garbage collector finds a displaced account, whose destructor shuts it down.
Collect(a) == /\ reg[a] \in Live /\ timers[a] = 0 /\ accounts[owner[a]] # a
              /\ \A t \in Threads : creating[t][owner[a]] # a
              /\ reg' = [reg EXCEPT ![a] = "gone"]
              /\ UNCHANGED <<row, initial, creating, accounts, owner, timers, retry_idx, watcher,
                             inbox, twice, bounds, main>>

Watcher == Receive \/ Destroy \/ Fetch \/ WatcherEnter

Next == \/ \E d \in Deployments : InitialCreate(d) \/ InitialEnter(d) \/ Announce(d)
        \/ \E a \in Accounts : RegSuccess(a) \/ RegFailure(a) \/ Unregistered(a) \/ Retry(a)
                                 \/ Collect(a)
        \/ Watcher \/ Disconnected \/ UnregisterAll \/ EndpointShutdown

Spec == Init /\ [][Next]_vars

\* Timers fire, PJSIP hears an answer or times out, the registrar accepts in the end.
Fairness == /\ \A a \in Accounts : WF_vars(RegSuccess(a)) /\ WF_vars(Retry(a))
            /\ \A d \in Deployments : WF_vars(InitialCreate(d)) /\ WF_vars(InitialEnter(d))
            /\ WF_vars(Watcher)

FairSpec == Spec /\ Fairness

----------------------------------------------------------------------------
\* Types; the index of the next delay stays within register_backoff_sec.
TypeOK == /\ row \in [Deployments -> BOOLEAN]
          /\ initial \in [Deployments -> {"armed", "created", "done"}]
          /\ creating \in [Threads -> [Deployments -> Accounts \cup {None}]]
          /\ accounts \in [Deployments -> Accounts \cup {None}]
          /\ owner \in [Accounts -> Deployments \cup {None}]
          /\ reg \in [Accounts -> Live \cup {"unused", "gone"}]
          /\ timers \in [Accounts -> 0..2] /\ retry_idx \in [Accounts -> 0..Backoffs]
          /\ watcher \in [stage : {"listen", "destroy", "fetch", "enter"}, action : Actions,
                          deployment : Deployments \cup {None}]
          /\ inbox \in Seq(Messages) /\ messages \in 0..MaxMessages /\ flaps \in 0..MaxFlaps
          /\ twice \subseteq Deployments
          /\ main \in {"up", "unregistered", "down"}

\* Retries are never lost: an account in service is registered, or is being, or has a timer
\* that will try again (PJSIP's own retry is off: retryIntervalSec = 0).
AlwaysTrying == \A d \in Deployments : LET a == accounts[d] IN
                  a # None /\ main # "down" =>
                    \/ reg[a] \in {"trying", "registered", "leaving"}
                    \/ timers[a] > 0

\* No account lives on unseen: it is in the map, or about to enter it, unless two threads
\* made accounts for its deployment at once (_create_account drops the lock in between).
LiveIsKnown == \A a \in Accounts : reg[a] \in Live =>
                 \/ accounts[owner[a]] = a
                 \/ \E t \in Threads : creating[t][owner[a]] = a
                 \/ owner[a] \in twice

\* An account in service that is not registered becomes so, or leaves service.
Registers == \A d \in Deployments : \A a \in Accounts :
               accounts[d] = a ~> reg[a] = "registered" \/ accounts[d] # a \/ main # "up"

\* Every deployment's account is known and keeps trying until it is registered.
AccountsKeepTrying == [](TypeOK /\ AlwaysTrying /\ LiveIsKnown) /\ Registers
=============================================================================
