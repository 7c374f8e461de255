---------------------------- MODULE UpdateScript ----------------------------
(***************************************************************************)
(* update.sh: one update, or --rollback, at a time (flock), its steps in   *)
(* their order, the ERR trap that rolls back, and the ways it can end:     *)
(* "done"; "failed" (the trap ran to its end); "died" (before the trap is  *)
(* set); "aborted" (set -e ends a function under the trap, which functions *)
(* do not inherit without set -E: nothing is rolled back); "killed" (a     *)
(* restart of aipanel-web takes a script that the panel started with it:   *)
(* they share the unit's control group).                                   *)
(***************************************************************************)
EXTENDS Naturals, Sequences

CONSTANTS Versions,       \* the versions, a set of numbers: schemas only grow
          Models, Apps,   \* SERVICES_MODELS and SERVICES_APP, in their order
          Web,            \* aipanel-web
          MaxScripts      \* bound on the scripts that are run

VARIABLES step,       \* the script's next step, or how the last one ended
          current, target,  \* CURRENT_SHA and TARGET_SHA
          fromPanel,  \* started by the panel
          skip, offline,    \* --skip-backup and --offline
          left,       \* services still to restart, in order
          head,       \* the commit that HEAD names
          tree,       \* the version of the files
          previous,   \* the content of .previous-version, 0 for none
          schema,     \* the newest migration applied, 0 for an empty database
          backup,     \* the schema in this script's dump, 0 for none
          runningOn,  \* the version each service was started from, 0 when it is down
          scripts

own  == <<step, current, target, fromPanel, skip, offline, left, scripts>>
plan == <<current, target, fromPanel, skip, offline, scripts>>
code == <<head, tree>>
host == <<code, previous, schema, backup, runningOn>>
vars == <<own, host>>

RestartOrder  == Models \o Apps

\* Mutant of RollbackOrder: the trap restarts the app services only.
ShortRollbackOrder == Apps

RollbackOrder == Apps \o Models
All      == {RestartOrder[i] : i \in DOMAIN RestartOrder}
Ends     == {"none", "done", "failed", "died", "aborted", "killed"}
Steps    == Ends \cup {"backup", "record", "checkout", "detect", "setup", "migrate", "restart",
                       "health", "rollback", "restore", "revert"}

Init == /\ step = "none" /\ current = 0 /\ target = 0 /\ left = <<>> /\ scripts = 0
        /\ fromPanel = FALSE /\ skip = FALSE /\ offline = FALSE
        /\ \E v \in Versions : /\ head = v /\ tree = v /\ schema = v
                               /\ runningOn = [s \in All |-> v]
        /\ previous = 0 /\ backup = 0

\* Up to the confirmation: a tag, --to=, or with --rollback the recorded version; what is
\* checked out already only with --force.
Start == /\ step \in Ends /\ scripts < MaxScripts
         /\ scripts' = scripts + 1
         /\ target' \in Versions
         /\ fromPanel' \in BOOLEAN /\ skip' \in BOOLEAN /\ offline' \in BOOLEAN
         /\ current' = head /\ backup' = 0 /\ left' = <<>>
         /\ step' = "backup"
         /\ UNCHANGED <<code, previous, schema, runningOn>>

Backup == /\ step = "backup"
          /\ backup' = IF skip THEN 0 ELSE schema
          /\ step' = "record"
          /\ UNCHANGED <<plan, left, code, previous, schema, runningOn>>

Record == /\ step = "record"
          /\ previous' = current
          /\ step' = "checkout"
          /\ UNCHANGED <<plan, left, code, schema, backup, runningOn>>

\* git checkout --detach: the commit it is on costs nothing, and it refuses to go over the
\* files of a bundle.
GitCheckout(v) == \/ v = head /\ UNCHANGED code
                  \/ v # head /\ tree = head /\ head' = v /\ tree' = v

\* A bundle brings the files of some version and leaves HEAD where it is.
Checkout == /\ step = "checkout"
            /\ \/ ~offline /\ GitCheckout(target)
               \/ offline /\ tree' \in Versions /\ UNCHANGED head
            /\ step' = "detect"
            /\ UNCHANGED <<plan, left, previous, schema, backup, runningOn>>

\* Any step before the trap may end the script by set -e.
Dies == /\ step \in {"backup", "record", "checkout", "detect"}
        /\ step' = "died"
        /\ UNCHANGED <<plan, left, host>>

\* From "Detect changes" on: the trap is set and the changed parts are set up.
Advance == /\ \/ step = "detect" /\ step' = "setup"
              \/ step = "setup"  /\ step' = "migrate"
              \/ step = "restart" /\ left = <<>> /\ step' = "health"
              \/ step = "health" /\ step' = "done"
           /\ UNCHANGED <<plan, left, host>>

\* Sourcing and secrets_load, maybe_setup, and the reload of nginx when all are restarted:
\* functions, whose failure ends the script where it is.
Aborts == /\ \/ step = "setup"
             \/ step = "restart" /\ left = <<>>
          /\ step' = "aborted"
          /\ UNCHANGED <<plan, left, host>>

\* What a migration that stopped somewhere has applied: each is a transaction of its own.
Migrated == {v \in Versions : schema < v /\ v <= tree} \cup {schema}

\* migrate_up, when the commits (not the files) differ in their migrations: a downgrade and
\* --force bring none. A migration that fails ends the script too.
Migrate == /\ step = "migrate"
           /\ \/ /\ target <= current /\ UNCHANGED schema
                 /\ step' = "restart" /\ left' = RestartOrder
              \/ /\ target > current /\ schema' \in Migrated
                 /\ \/ schema' >= tree /\ step' = "restart" /\ left' = RestartOrder
                    \/ step' = "aborted" /\ left' = <<>>
           /\ UNCHANGED <<plan, code, previous, backup, runningOn>>

\* systemctl restart of the next service, which comes up on the files or stays down.
Restart(up) == /\ left # <<>>
               /\ runningOn' = [runningOn EXCEPT ![Head(left)] = IF up THEN tree ELSE 0]
               /\ left' = Tail(left)
               /\ UNCHANGED <<plan, code, previous, schema, backup>>

\* The panel's own restart kills the script that the panel started.
TakenAlong == fromPanel /\ Head(left) = Web

\* restart_one up to the health check; a systemctl that fails ends the script.
RestartOne == /\ step = "restart"
              /\ \E up \in BOOLEAN :
                   /\ Restart(up)
                   /\ step' = IF TakenAlong THEN "killed" ELSE IF up THEN "restart" ELSE "aborted"

\* The two failures at the script's top level: a restarted service that does not get
\* healthy, and the check at the end.
Fails == /\ \/ step = "restart" /\ left # RestartOrder
            \/ step = "health"
         /\ step' = "rollback"
         /\ UNCHANGED <<plan, left, host>>

\* What the checkout cannot do is passed over (|| true); a bundle's files stay.
RollBackCode == /\ step = "rollback"
                /\ GitCheckout(current) \/ UNCHANGED code
                /\ step' = "restore"
                /\ UNCHANGED <<plan, left, previous, schema, backup, runningOn>>

\* The panel keeps a pool of connections from before, unless it is down or newly started.
Pooled == runningOn[Web] # 0 /\ \E i \in DOMAIN left : left[i] = Web

\* dropdb is refused while someone is connected, and what follows finds the database there;
\* else createdb, and a restore that reads the dump through gunzip: pg_dump -Fc writes no
\* gzip file, so nothing is restored. Every error is passed over.
RestoreDb == /\ step = "restore"
             /\ \/ UNCHANGED schema
                \/ backup # 0 /\ ~Pooled /\ schema' = 0
             /\ step' = "revert" /\ left' = RollbackOrder
             /\ UNCHANGED <<plan, code, previous, backup, runningOn>>

Revert == /\ step = "revert"
          /\ \E up \in BOOLEAN : Restart(up)
          /\ step' = IF TakenAlong THEN "killed"
                     ELSE IF Tail(left) = <<>> THEN "failed" ELSE "revert"

Next == \/ Start \/ Backup \/ Record \/ Checkout \/ Dies \/ Advance \/ Aborts
        \/ Migrate \/ RestartOne \/ Fails \/ RollBackCode \/ RestoreDb \/ Revert

Spec == Init /\ [][Next]_vars

----------------------------------------------------------------------------
\* "so rollback works" (update.sh:274): whenever HEAD differs from what the script found,
\* that version is on file, so that a later --rollback leads back to it.
PreviousIsRecorded ==
  step # "none" /\ head # current => previous = current

\* A script that ends by itself, well or rolled back, whatever of the rollback failed (the
\* checkout, the database, a restart), leaves no service on other code than the files have.
ServicesRunTheFiles ==
  step \in {"done", "failed"} => \A s \in All : runningOn[s] \in {tree, 0}

\* update.sh ends with one version running, and the way back to the one before on file.
OneVersionRuns == PreviousIsRecorded /\ ServicesRunTheFiles

\* "System should be back at ${CURRENT_VERSION}" (update.sh:352), its data with it.
FailureRestoresData == step = "failed" /\ backup # 0 => schema = backup
=============================================================================
