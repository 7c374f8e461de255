---------------------------- MODULE PanelTokens -----------------------------
(***************************************************************************)
(* Who gets into the panel (auth.py, auth/): access tokens that expire by  *)
(* themselves, the Redis denylist that logout writes, and the user row     *)
(* whose role must still be the token's.  Time is in half seconds; tokens  *)
(* expire, and the denylist's entries live, in whole seconds.              *)
(***************************************************************************)
EXTENDS Integers, FiniteSets

CONSTANTS Tokens, Requests,
          Lifetime,    \* of an access token, in seconds
          MaxTime,     \* bound on the time, in half seconds
          MaxFaults    \* bound on failures of Redis

VARIABLES now,         \* the clock
          role,        \* users.role; "none" when the row is deleted
          token,       \* access token -> [role, exp]; exp = 0 when it is not issued
          refreshable, \* a refresh token is held (it outlives this behaviour)
          denied,      \* jti -> when its denylist entry ends, 0 if it has none
          out,         \* tokens whose logout was answered and is on the denylist
          req,         \* request -> where its admission is
          faults

world == <<now, role, token, refreshable>>
vars  == <<world, denied, out, req, faults>>

Roles == {"admin", "viewer"}
Idle  == [step |-> "idle", token |-> CHOOSE t \in Tokens : TRUE, logout |-> FALSE,
          after |-> FALSE, open |-> FALSE, expired |-> FALSE]

Init == /\ now = 0 /\ role = "admin"
        /\ token = [t \in Tokens |-> [role |-> "admin", exp |-> 0]]
        /\ refreshable = FALSE
        /\ denied = [t \in Tokens |-> 0] /\ out = {}
        /\ req = [r \in Requests |-> Idle]
        /\ faults = 0

Tick == /\ now < MaxTime
        /\ now' = now + 1
        /\ UNCHANGED <<role, token, refreshable, denied, out, req, faults>>

\* An administrator changes or deletes the row (PanelAdmins).
RowChanges == /\ \E x \in (Roles \cup {"none"}) \ {role} : role' = x /\ role # "none"
              /\ UNCHANGED <<now, token, refreshable, denied, out, req, faults>>

Live(t) == now < 2 * token[t].exp
\* A new jti; one that ended and that nothing refers to may stand for it.
Unused(t) == ~Live(t) /\ denied[t] <= now /\ \A r \in Requests : req[r] = Idle \/ req[r].token # t

\* _make_token_pair: exp is cut to a whole second.
Issue(t) == /\ Unused(t) /\ role # "none"
            /\ token' = [token EXCEPT ![t] = [role |-> role, exp |-> now \div 2 + Lifetime]]
            /\ refreshable' = TRUE
            /\ out' = out \ {t}
            /\ UNCHANGED <<now, role, denied, req, faults>>

Login   == \E t \in Tokens : Issue(t)
\* Logging out does not deny the refresh token, and the role may have changed since.
Refresh == refreshable /\ \E t \in Tokens : Issue(t)

Goes(r, step) == req' = [req EXCEPT ![r].step = step]
\* verify(): a signature and a time, nothing else; an expired token is answered 401.
Verify(r) == /\ req[r].step = "idle"
             /\ \E t \in {t \in Tokens : Live(t)}, l \in BOOLEAN :
                  req' = [req EXCEPT ![r] = [step |-> "check", token |-> t, logout |-> l,
                                             after |-> t \in out, open |-> FALSE,
                                             expired |-> FALSE]]
             /\ UNCHANGED <<world, denied, out, faults>>

\* The entry Redis still has.
IsDenied(t) == denied[t] > now

\* _read_token asks is_denied, a round trip later; when Redis fails the token is let through.
Check(r) == LET t == req[r].token
                Next == IF req[r].logout THEN "deny" ELSE "load"
            IN /\ req[r].step = "check"
               /\ \/ /\ req' = [req EXCEPT ![r].step = IF IsDenied(t) THEN "401" ELSE Next,
                                           ![r].expired = ~Live(t)]
                     /\ UNCHANGED faults
                  \/ /\ faults < MaxFaults /\ faults' = faults + 1
                     /\ req' = [req EXCEPT ![r].step = Next, ![r].open = TRUE]
               /\ UNCHANGED <<world, denied, out>>

\* get_current_user: the row exists and its role is the token's.
Load(r) == /\ req[r].step = "load"
           /\ Goes(r, IF role = token[req[r].token].role THEN "in" ELSE "401")
           /\ UNCHANGED <<world, denied, out, faults>>

\* Mutant of Remaining: the clock rounded up.
ScantRemaining(t) == token[t].exp - (now + 1) \div 2
\* int(exp) - int(time.time()): the clock is rounded down.
Remaining(t) == token[t].exp - now \div 2

Ttl(t) == IF Remaining(t) < 1 THEN 1 ELSE Remaining(t)

\* logout: deny_jti.  A Redis failure is logged and the answer is the same.
Deny(r) == LET t == req[r].token
           IN /\ req[r].step = "deny"
              /\ \/ /\ denied' = [denied EXCEPT ![t] = now + 2 * Ttl(t)]
                    /\ out' = out \cup {t}
                    /\ UNCHANGED faults
                 \/ /\ faults < MaxFaults /\ faults' = faults + 1
                    /\ UNCHANGED <<denied, out>>
              /\ req' = [req EXCEPT ![r] = Idle]
              /\ UNCHANGED world

\* The answer: the handler's, or 401.
Answer(r) == /\ req[r].step \in {"in", "401"}
             /\ req' = [req EXCEPT ![r] = Idle]
             /\ UNCHANGED <<world, denied, out, faults>>

Done == now = MaxTime /\ UNCHANGED vars

Next == \/ Tick \/ RowChanges \/ Login \/ Refresh \/ Done
        \/ \E r \in Requests : Verify(r) \/ Check(r) \/ Load(r) \/ Deny(r) \/ Answer(r)

Spec == Init /\ [][Next]_vars

----------------------------------------------------------------------------
\* A token that was logged out never gets a later request in while it has not expired by
\* itself: no rounding of the entry's lifetime and no interleaving lets it through, only a
\* check that Redis did not answer.
LogoutHolds == \A r \in Requests :
                 req[r].step = "in" /\ req[r].after => req[r].open \/ req[r].expired
=============================================================================
