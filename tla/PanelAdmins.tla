---------------------------- MODULE PanelAdmins ----------------------------
(***************************************************************************)
(* The users of a tenant and the routes that change them (tenants.py),     *)
(* each a transaction under READ COMMITTED: the request is admitted as an  *)
(* administrator, reads its target, decides on what it read, and writes    *)
(* when it commits.                                                        *)
(***************************************************************************)
EXTENDS Naturals, FiniteSets

CONSTANTS Users, Requests

Roles == {"admin", "operator"}     \* a viewer is like an operator here: neither is admitted

VARIABLES role,      \* the committed rows: user -> role, "none" if there is no row
          req,       \* request -> what it is and how far it got
          lateActor  \* a request has committed after its actor lost the administrator's role

vars == <<role, req, lateActor>>

Admins == {u \in Users : role[u] = "admin"}
Blank  == [step |-> "idle", op |-> "role", actor |-> CHOOSE u \in Users : TRUE,
           target |-> CHOOSE u \in Users : TRUE, to |-> "admin", was |-> "none"]

Init == /\ \E first \in Users : role = [u \in Users |-> IF u = first THEN "admin" ELSE "none"]
        /\ req = [r \in Requests |-> Blank]
        /\ lateActor = FALSE

\* require_role("admin") on the row read at the start of the request.
Admit(r) == /\ req[r].step = "idle"
            /\ \E a \in Admins, t \in Users, op \in {"invite", "role", "delete"}, to \in Roles :
                 /\ op = "delete" => to = "operator"
                 /\ req' = [req EXCEPT ![r] = [Blank EXCEPT !.step = "read", !.op = op,
                                                 !.actor = a, !.target = t, !.to = to]]
            /\ UNCHANGED <<role, lateActor>>

\* Mutant of MayChange: an administrator may take the role from himself.
LaxMayChange(q) == q.was # "none"
\* update_user_role: everyone's role but one's own administrator's.
MayChange(q) == q.was # "none" /\ (q.actor = q.target => q.to = "admin")
\* delete_user, before the administrators are counted.
MayDelete(q) == q.was # "none" /\ q.actor # q.target

\* The target's row; invite_user reads nothing and its insert is refused for a taken e-mail.
Read(r) == LET q == [req[r] EXCEPT !.was = role[req[r].target]]
           IN /\ q.step = "read"
              /\ req' = [req EXCEPT ![r] =
                   IF q.op = "delete" /\ MayDelete(q)
                   THEN [q EXCEPT !.step = IF q.was = "admin" THEN "count" ELSE "commit"]
                   ELSE IF q.op = "invite" \/ (q.op = "role" /\ MayChange(q))
                        THEN [q EXCEPT !.step = "commit"]
                        ELSE Blank]
              /\ UNCHANGED <<role, lateActor>>

\* "cannot delete the last remaining admin"
Count(r) == /\ req[r].step = "count"
            /\ req' = [req EXCEPT ![r] = IF Cardinality(Admins) <= 1
                                         THEN Blank ELSE [@ EXCEPT !.step = "commit"]]
            /\ UNCHANGED <<role, lateActor>>

\* What the commit writes.  A role that is the one read is not written; a row that went
\* meanwhile fails the update and is nothing to a delete.
Written(q) ==
  IF \/ q.op = "invite" /\ role[q.target] # "none"
     \/ q.op = "role" /\ (q.to = q.was \/ role[q.target] = "none")
  THEN role
  ELSE [role EXCEPT ![q.target] = IF q.op = "delete" THEN "none" ELSE q.to]

Commit(r) == LET q == req[r]
             IN /\ q.step = "commit"
                /\ role' = Written(q)
                /\ lateActor' = (lateActor \/ role[q.actor] # "admin")
                /\ req' = [req EXCEPT ![r] = Blank]

\* Without an administrator nobody is admitted again.
LockedOut == Admins = {} /\ (\A r \in Requests : req[r] = Blank) /\ UNCHANGED vars

Next == LockedOut \/ \E r \in Requests : Admit(r) \/ Read(r) \/ Count(r) \/ Commit(r)

Spec == Init /\ [][Next]_vars

----------------------------------------------------------------------------
\* The tenant keeps an administrator.  No order of invitations, role changes and deletions
\* loses the last one, except requests that were admitted from an administrator who lost the
\* role before they committed: two administrators who demote or delete each other at once.
AdminsRemain == Admins # {} \/ lateActor
=============================================================================
