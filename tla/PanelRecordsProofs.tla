------------------------- MODULE PanelRecordsProofs -------------------------
(***************************************************************************)
(* Theorems about the components of PanelRecords, each for any values of   *)
(* its constants: the update script (S), access tokens (K), the users of a *)
(* tenant (D) and agents (A).                                              *)
(***************************************************************************)
EXTENDS PanelRecords, Integers, Sequences, SequencesExt, TLAPS
-----------------------------------------------------------------------------
(* The update script. *)

\* What the theorem assumes of the constants: the services are two lists of names.
Listed == Models \in Seq(STRING) /\ Apps \in Seq(STRING)
----------------------------------------------------------------------------
(***************************************************************************)
(* The inductive invariant.  What the script found is on file before it    *)
(* is left (Recorded).  Once a script restarts the services it does not    *)
(* touch the files, and those that are not left to restart were started    *)
(* from them, or are down (Restarted).                                     *)
(***************************************************************************)
ScriptTyped ==
  /\ step \in S!Steps
  /\ left \in Seq(S!All)
  /\ runningOn = [s \in S!All |-> runningOn[s]]

Recorded ==
  /\ step \in {"backup", "record", "checkout"} => head = current
  /\ step = "died" => head = current \/ previous = current
  /\ step \in S!Steps \ {"none", "backup", "record", "died"} => previous = current

Follows(s) == runningOn[s] \in {tree, 0}

Restarted ==
  /\ step \in {"restart", "revert"} =>
       \A s \in S!All : Follows(s) \/ \E i \in DOMAIN left : left[i] = s
  /\ step \in {"health", "done", "failed"} => \A s \in S!All : Follows(s)

ScriptInv == ScriptTyped /\ Recorded /\ Restarted
----------------------------------------------------------------------------
\* The rollback restarts every service.
LEMMA RollbackOrderIsComplete ==
  ASSUME Listed
  PROVE  /\ S!RollbackOrder \in Seq(S!All) /\ S!RestartOrder \in Seq(S!All)
         /\ \A s \in S!All : \E i \in DOMAIN S!RollbackOrder : S!RollbackOrder[i] = s
<1>1. /\ Len(Models) \in Nat /\ Len(Apps) \in Nat
      /\ Models \in Seq(STRING) /\ Apps \in Seq(STRING)
  BY DEF Listed
<1>2. /\ Len(S!RestartOrder) = Len(Models) + Len(Apps)
      /\ S!RestartOrder \in Seq(STRING)
      /\ \A i \in 1..Len(S!RestartOrder) :
           S!RestartOrder[i] = IF i <= Len(Models) THEN Models[i] ELSE Apps[i - Len(Models)]
  BY <1>1 DEF S!RestartOrder
<1>3. /\ Len(S!RollbackOrder) = Len(Models) + Len(Apps)
      /\ S!RollbackOrder \in Seq(STRING)
      /\ \A i \in 1..Len(S!RollbackOrder) :
           S!RollbackOrder[i] = IF i <= Len(Apps) THEN Apps[i] ELSE Models[i - Len(Apps)]
  BY <1>1 DEF S!RollbackOrder
<1>4. /\ DOMAIN S!RestartOrder = 1..Len(S!RestartOrder)
      /\ DOMAIN S!RollbackOrder = 1..Len(S!RollbackOrder)
  BY <1>2, <1>3
<1>5. \A s \in S!All : \E i \in DOMAIN S!RollbackOrder : S!RollbackOrder[i] = s
  <2> SUFFICES ASSUME NEW k \in 1..Len(S!RestartOrder)
               PROVE  \E i \in 1..Len(S!RollbackOrder) : S!RollbackOrder[i] = S!RestartOrder[k]
    BY <1>4 DEF S!All
  <2>1. CASE k <= Len(Models)
    <3>1. k + Len(Apps) \in 1..Len(S!RollbackOrder)
      BY <1>1, <1>2, <1>3, <2>1
    <3>2. S!RollbackOrder[k + Len(Apps)] = S!RestartOrder[k]
      BY <1>1, <1>2, <1>3, <2>1, <3>1
    <3> QED
      BY <3>1, <3>2
  <2>2. CASE k > Len(Models)
    <3>1. k - Len(Models) \in 1..Len(S!RollbackOrder)
      BY <1>1, <1>2, <1>3, <2>2
    <3>2. S!RollbackOrder[k - Len(Models)] = S!RestartOrder[k]
      BY <1>1, <1>2, <1>3, <2>2, <3>1
    <3> QED
      BY <3>1, <3>2
  <2> QED
    BY <1>1, <1>2, <2>1, <2>2
<1>6. \A i \in 1..Len(S!RollbackOrder) : S!RollbackOrder[i] \in S!All
  <2> SUFFICES ASSUME NEW k \in 1..Len(S!RollbackOrder)
               PROVE  \E i \in 1..Len(S!RestartOrder) : S!RestartOrder[i] = S!RollbackOrder[k]
    BY <1>4 DEF S!All
  <2>1. CASE k <= Len(Apps)
    <3>1. k + Len(Models) \in 1..Len(S!RestartOrder)
      BY <1>1, <1>2, <1>3, <2>1
    <3>2. S!RestartOrder[k + Len(Models)] = S!RollbackOrder[k]
      BY <1>1, <1>2, <1>3, <2>1, <3>1
    <3> QED
      BY <3>1, <3>2
  <2>2. CASE k > Len(Apps)
    <3>1. k - Len(Apps) \in 1..Len(S!RestartOrder)
      BY <1>1, <1>2, <1>3, <2>2
    <3>2. PICK m \in 1..Len(Models) : m = k - Len(Apps)
      BY <1>1, <1>3, <2>2
    <3>3. S!RollbackOrder[k] = Models[m]
      BY <1>1, <1>3, <2>2, <3>2
    <3>4. S!RestartOrder[m] = Models[m]
      BY <1>1, <1>2, <3>1, <3>2
    <3> QED
      BY <3>1, <3>2, <3>3, <3>4
  <2>3. k <= Len(Apps) \/ k > Len(Apps)
    BY <1>1, <1>3
  <2> QED
    BY <2>1, <2>2, <2>3
<1>7. \A i \in 1..Len(S!RestartOrder) : S!RestartOrder[i] \in S!All
  BY <1>4 DEF S!All
<1> QED
  BY <1>2, <1>3, <1>5, <1>6, <1>7

LEMMA ScriptInit == S!Init => ScriptInv
BY DEF S!Init, ScriptInv, ScriptTyped, Recorded, Restarted, S!Steps, S!Ends

\* The steps before the trap: the version is on file before the checkout.
LEMMA BeforeTrap ==
  ASSUME ScriptInv, S!Start \/ S!Backup \/ S!Record \/ S!Checkout \/ S!Dies
  PROVE  ScriptInv'
<1>1. CASE S!Start
  BY <1>1 DEF ScriptInv, ScriptTyped, Recorded, Restarted, S!Steps, S!Ends, S!Start, S!code
<1>2. CASE S!Backup
  BY <1>2 DEF ScriptInv, ScriptTyped, Recorded, Restarted, S!Steps, S!Ends, S!Backup, S!plan,
     S!code
<1>3. CASE S!Record
  BY <1>3 DEF ScriptInv, ScriptTyped, Recorded, Restarted, S!Steps, S!Ends, S!Record, S!plan,
     S!code
<1>4. CASE S!Checkout
  BY <1>4 DEF ScriptInv, ScriptTyped, Recorded, Restarted, S!Steps, S!Ends, S!Checkout, S!plan
<1>5. CASE S!Dies
  BY <1>5 DEF ScriptInv, ScriptTyped, Recorded, Restarted, S!Steps, S!Ends, S!Dies, S!plan,
     S!host, S!code
<1> QED
  BY <1>1, <1>2, <1>3, <1>4, <1>5

\* Setting up and migrating, the ends of the script, and the trap: the checkout, then the
\* database. A round of restarts begins with every service left.
LEMMA UnderTrap ==
  ASSUME Listed, ScriptInv,
         S!Advance \/ S!Aborts \/ S!Migrate \/ S!Fails \/ S!RollBackCode \/ S!RestoreDb
  PROVE  ScriptInv'
<1>1. CASE S!Advance
  BY <1>1 DEF ScriptInv, ScriptTyped, Recorded, Restarted, Follows, S!Steps, S!Ends, S!Advance,
     S!plan, S!host, S!code
<1>2. CASE S!Aborts
  BY <1>2 DEF ScriptInv, ScriptTyped, Recorded, Restarted, S!Steps, S!Ends, S!Aborts, S!plan,
     S!host, S!code
<1>3. CASE S!Migrate
  <2>1. S!RestartOrder \in Seq(S!All) /\ <<>> \in Seq(S!All)
    BY RollbackOrderIsComplete
  <2>2. \/ step' = "restart" /\ left' = S!RestartOrder
        \/ step' = "aborted" /\ left' = <<>>
    BY Zenon, <1>3 DEF S!Migrate
  <2>3. step = "migrate" /\ UNCHANGED <<current, head, tree, previous, runningOn>>
    BY <1>3 DEF S!Migrate, S!plan, S!code
  <2>4. \A s \in S!All : \E i \in DOMAIN S!RestartOrder : S!RestartOrder[i] = s
    BY DEF S!All
  <2> QED
    BY <2>1, <2>2, <2>3, <2>4
    DEF ScriptInv, ScriptTyped, Recorded, Restarted, S!Steps, S!Ends
<1>4. CASE S!Fails
  BY <1>4 DEF ScriptInv, ScriptTyped, Recorded, Restarted, S!Steps, S!Ends, S!Fails, S!plan,
     S!host, S!code
<1>5. CASE S!RollBackCode
  BY <1>5 DEF ScriptInv, ScriptTyped, Recorded, Restarted, S!Steps, S!Ends, S!RollBackCode,
     S!plan
<1>6. CASE S!RestoreDb
  BY <1>6, RollbackOrderIsComplete
  DEF ScriptInv, ScriptTyped, Recorded, Restarted, S!Steps, S!Ends, S!RestoreDb, S!plan, S!code
<1> QED
  BY <1>1, <1>2, <1>3, <1>4, <1>5, <1>6

\* A restart takes the first service that is left; the last one ends the rollback.
LEMMA Restarts ==
  ASSUME ScriptInv, S!RestartOne \/ S!Revert
  PROVE  ScriptInv'
<1>1. PICK up \in BOOLEAN : S!Restart(up)
  BY DEF S!RestartOne, S!Revert
<1>2. /\ step \in {"restart", "revert"}
      /\ step' \in {step, "killed", "aborted", "failed"}
      /\ step' = "failed" => Tail(left) = <<>>
  BY DEF S!RestartOne, S!Revert
<1>3. /\ left # <<>> /\ left \in Seq(S!All)
      /\ left' = Tail(left) /\ left' \in Seq(S!All)
      /\ runningOn' = [runningOn EXCEPT ![Head(left)] = IF up THEN tree ELSE 0]
      /\ UNCHANGED <<current, head, tree, previous>>
  <2>1. left # <<>> /\ left \in Seq(S!All) /\ left' = Tail(left)
    BY <1>1 DEF ScriptInv, ScriptTyped, S!Restart
  <2> QED
    BY <1>1, <2>1 DEF S!Restart, S!plan, S!code
<1>4. ScriptTyped'
  BY <1>2, <1>3 DEF ScriptInv, ScriptTyped, S!Steps, S!Ends
<1>5. Recorded'
  BY <1>2, <1>3 DEF ScriptInv, ScriptTyped, Recorded, S!Steps, S!Ends
<1>6. ASSUME NEW s \in S!All
      PROVE  Follows(s)' \/ \E i \in DOMAIN left' : left'[i] = s
  <2>1. CASE s = Head(left)
    BY <1>3, <2>1 DEF ScriptInv, ScriptTyped, Follows
  <2>2. CASE s # Head(left) /\ Follows(s)
    BY <1>3, <2>2 DEF ScriptInv, ScriptTyped, Follows
  <2>3. CASE s # Head(left) /\ ~Follows(s)
    <3>1. PICK i \in DOMAIN left : left[i] = s
      BY <1>2, <2>3 DEF ScriptInv, Restarted
    <3>2. i \in 2..Len(left)
      BY <1>3, <2>3, <3>1
    <3>3. i - 1 \in DOMAIN left' /\ left'[i - 1] = s
      BY <1>3, <3>1, <3>2
    <3> QED
      BY <3>3
  <2> QED
    BY <2>1, <2>2, <2>3
<1>7. Restarted'
  <2>1. CASE step' = "failed"
    <3>1. DOMAIN left' = {}
      BY <1>2, <1>3, <2>1
    <3> QED
      BY <1>6, <2>1, <3>1 DEF Restarted, Follows
  <2>2. CASE step' \in {"restart", "revert"}
    BY <1>6, <2>2 DEF Restarted, Follows
  <2>3. CASE step' \in {"killed", "aborted"}
    BY <2>3 DEF Restarted
  <2> QED
    BY <1>2, <2>1, <2>2, <2>3
<1> QED
  BY <1>4, <1>5, <1>7 DEF ScriptInv

LEMMA ScriptStep == ASSUME Listed PROVE ScriptInv /\ [S!Next]_S!vars => ScriptInv'
<1> SUFFICES ASSUME ScriptInv, [S!Next]_S!vars PROVE ScriptInv'
  OBVIOUS
<1>1. CASE UNCHANGED S!vars
  BY <1>1
  DEF S!vars, S!own, S!host, S!code, ScriptInv, ScriptTyped, Recorded, Restarted, Follows
<1>2. CASE S!Next
  BY <1>2, BeforeTrap, UnderTrap, Restarts DEF S!Next
<1> QED
  BY <1>1, <1>2
----------------------------------------------------------------------------
\* Wherever a script dies, aborts or is killed, and whatever of a rollback fails (update.sh's
\* ERR trap): the version that was left is on file, and a script that ends by itself has no
\* service on other code than the files have.
THEOREM ScriptsEndOnOneVersion == ASSUME Listed PROVE S!Spec => []OneVersionRuns
<1>1. ScriptInv => OneVersionRuns
  BY DEF ScriptInv, ScriptTyped, Recorded, Restarted, Follows, S!Steps, OneVersionRuns,
     S!OneVersionRuns, S!PreviousIsRecorded, S!ServicesRunTheFiles
<1>2. S!Init => ScriptInv
  BY ScriptInit
<1>3. ScriptInv /\ [S!Next]_S!vars => ScriptInv'
  BY ScriptStep
<1> QED
  BY <1>1, <1>2, <1>3, PTL DEF S!Spec
-----------------------------------------------------------------------------
(* Access tokens. *)

(***************************************************************************)
(* The inductive invariant.  A token on the denylist stays there for as    *)
(* long as it lives: rounding the clock down errs on the side of a longer  *)
(* entry (Covered).  A request with a token that was out when it arrived   *)
(* is about to ask the denylist, which no new token of that name can have  *)
(* left (an identifier that a request refers to is not issued again), or   *)
(* has been let through without an answer, or after the token's end        *)
(* (Vouched).                                                              *)
(***************************************************************************)
Admissions == [step : {"idle", "check", "load", "deny", "in", "401"},
               token : AccessTokens, logout : BOOLEAN, after : BOOLEAN,
               open : BOOLEAN, expired : BOOLEAN]

TokensTyped ==
  /\ now \in Nat
  \* as arithmetic needs it
  /\ \A t \in AccessTokens : token[t].exp \in Int /\ denied[t] \in Int
  /\ token \in [AccessTokens -> [role : K!Roles \cup {"none"}, exp : Int]]
  /\ denied \in [AccessTokens -> Int]
  /\ role \in K!Roles \cup {"none"}
  /\ tokensOut \subseteq AccessTokens
  /\ req \in [Requests -> Admissions]

Covered == \A t \in tokensOut : denied[t] >= 2 * token[t].exp

Vouched(r) ==
  /\ req[r].step = "check" /\ req[r].after => req[r].token \in tokensOut
  /\ req[r].step \in {"load", "in"} /\ req[r].after => req[r].open \/ req[r].expired

TokensInv == TokensTyped /\ Covered /\ \A r \in Requests : Vouched(r)

\* What the theorem assumes of the constants.
TokensLast == Lifetime \in Nat /\ AccessTokens # {}
----------------------------------------------------------------------------
LEMMA IdleType ==
  ASSUME TokensLast
  PROVE  K!Idle \in Admissions
<1>1. (CHOOSE t \in AccessTokens : TRUE) \in AccessTokens
  BY DEF TokensLast
<1> QED
  BY <1>1 DEF K!Idle, Admissions

\* A request that begins with token t, which may be out (Verify).
LEMMA AdmissionIsTyped ==
  ASSUME NEW t \in AccessTokens, NEW l \in BOOLEAN, NEW G
  PROVE  LET new == [step |-> "check", token |-> t, logout |-> l, after |-> t \in G,
                     open |-> FALSE, expired |-> FALSE]
         IN  new \in Admissions /\ new.step = "check" /\ new.token = t /\ (new.after => t \in G)
<1> DEFINE new == [step |-> "check", token |-> t, logout |-> l, after |-> t \in G,
                   open |-> FALSE, expired |-> FALSE]
<1>1. new \in Admissions
  BY DEF Admissions
<1>2. new.step = "check" /\ new.token = t
  OBVIOUS
<1>3. new.after => t \in G
  OBVIOUS
<1> QED
  BY Zenon, <1>1, <1>2, <1>3

\* Half a second is lost at most when the clock is rounded down to seconds.
LEMMA RoundedDown == ASSUME NEW n \in Nat PROVE n \div 2 \in Nat /\ 2 * (n \div 2) <= n
OBVIOUS

\* The entry that logout writes lasts as long as the token.
LEMMA EntryOutlivesToken ==
  ASSUME TokensTyped, NEW t \in AccessTokens
  PROVE  now + 2 * K!Ttl(t) \in Int /\ now + 2 * K!Ttl(t) >= 2 * token[t].exp
<1>1. now \in Nat /\ token[t].exp \in Int
  BY DEF TokensTyped, Admissions
<1>2. now \div 2 \in Nat /\ 2 * (now \div 2) <= now
  BY <1>1, RoundedDown
<1>3. K!Ttl(t) \in Int /\ K!Ttl(t) >= token[t].exp - now \div 2
  BY <1>1, <1>2 DEF K!Ttl, K!Remaining
<1> QED
  BY <1>1, <1>2, <1>3

LEMMA TokensInit == ASSUME TokensLast PROVE K!Init => TokensInv
BY IdleType DEF TokensLast, K!Init, TokensInv, TokensTyped, Admissions, Covered, Vouched,
   K!Idle, K!Roles

\* A token that is issued leaves the denylist's books, and no request has its identifier.
LEMMA IssueInv ==
  ASSUME TokensLast, TokensInv, NEW t \in AccessTokens, K!Issue(t)
  PROVE  TokensInv'
<1>1. now \div 2 + Lifetime \in Int
  BY RoundedDown DEF TokensLast, TokensInv, TokensTyped, Admissions
<1>2. TokensTyped'
  BY <1>1 DEF K!Issue, TokensInv, TokensTyped, Admissions
<1>3. Covered'
  BY DEF K!Issue, TokensInv, TokensTyped, Admissions, Covered
<1>4. ASSUME NEW r \in Requests PROVE Vouched(r)'
  <2>1. req[r] = K!Idle \/ req[r].token # t
    BY DEF K!Issue, K!Unused
  <2>2. req[r].step = "check" => req[r].token # t
    BY <2>1 DEF K!Idle
  <2> QED
    BY <2>2 DEF K!Issue, TokensInv, TokensTyped, Admissions, Vouched
<1> QED
  BY <1>2, <1>3, <1>4 DEF TokensInv

LEMMA WorldInv == ASSUME TokensLast, TokensInv, K!Tick \/ K!RowChanges PROVE TokensInv'
BY DEF K!Tick, K!RowChanges, TokensInv, TokensTyped, Admissions, Covered, Vouched, K!Live

\* The denylist is asked about a token that is out: it still has the entry, or the token
\* has expired since.
LEMMA CheckInv ==
  ASSUME TokensLast, TokensInv, NEW r \in Requests, K!Check(r)
  PROVE  TokensInv'
<1> DEFINE t == req[r].token
<1>1. t \in AccessTokens /\ now \in Nat /\ token[t].exp \in Int /\ denied[t] \in Int
  BY DEF TokensInv, TokensTyped, Admissions
<1>2. req[r].after => ~K!Live(t) \/ K!IsDenied(t)
  BY <1>1 DEF K!Check, TokensInv, Covered, Vouched, K!Live, K!IsDenied
<1>3. TokensTyped' /\ Covered'
  BY DEF K!Check, K!world, TokensInv, TokensTyped, Admissions, Covered, K!Live, K!IsDenied
<1>4. ASSUME NEW s \in Requests PROVE Vouched(s)'
  BY <1>2 DEF K!Check, K!world, TokensInv, TokensTyped, Admissions, Vouched
<1> QED
  BY <1>3, <1>4 DEF TokensInv

\* The other steps of a request.
LEMMA RequestInv ==
  ASSUME TokensLast, TokensInv, NEW r \in Requests,
         K!Verify(r) \/ K!Load(r) \/ K!Deny(r) \/ K!Answer(r)
  PROVE  TokensInv'
<1>1. CASE K!Verify(r)
  <2> DEFINE New(t, l) == [step |-> "check", token |-> t, logout |-> l,
                           after |-> t \in tokensOut, open |-> FALSE, expired |-> FALSE]
  <2>1. PICK t \in AccessTokens, l \in BOOLEAN : req' = [req EXCEPT ![r] = New(t, l)]
    BY <1>1 DEF K!Verify
  <2>2. /\ New(t, l) \in Admissions
        /\ New(t, l).step = "check" /\ New(t, l).token = t
        /\ New(t, l).after => t \in tokensOut
    BY Zenon, AdmissionIsTyped
  <2> HIDE DEF New
  <2>3. UNCHANGED <<K!world, denied, tokensOut>>
    BY <1>1 DEF K!Verify
  <2>4. TokensTyped' /\ Covered'
    BY <2>1, <2>2, <2>3 DEF K!world, TokensInv, TokensTyped, Admissions, Covered
  <2>5. ASSUME NEW s \in Requests PROVE Vouched(s)'
    BY <2>1, <2>2, <2>3 DEF K!world, TokensInv, TokensTyped, Admissions, Vouched
  <2> QED
    BY <2>4, <2>5 DEF TokensInv
<1>2. CASE K!Load(r)
  BY <1>2 DEF K!Load, K!Goes, K!world, TokensInv, TokensTyped, Admissions, Covered, Vouched
<1>3. CASE K!Deny(r)
  <2> DEFINE t == req[r].token
  <2>1. t \in AccessTokens
    BY DEF TokensInv, TokensTyped, Admissions
  <2>2. now + 2 * K!Ttl(t) \in Int /\ now + 2 * K!Ttl(t) >= 2 * token[t].exp
    BY <2>1, EntryOutlivesToken DEF TokensInv
  <2> HIDE DEF t
  <2>3. \/ denied' = [denied EXCEPT ![t] = now + 2 * K!Ttl(t)]
           /\ tokensOut' = tokensOut \cup {t}
        \/ UNCHANGED <<denied, tokensOut>>
    BY <1>3 DEF K!Deny, t
  <2>4. req' = [req EXCEPT ![r] = K!Idle] /\ UNCHANGED K!world
    BY <1>3 DEF K!Deny
  <2>5. TokensTyped'
    BY <2>1, <2>2, <2>3, <2>4, IdleType DEF K!world, TokensInv, TokensTyped, Admissions
  <2>6. Covered'
    BY <2>1, <2>2, <2>3, <2>4 DEF K!world, TokensInv, TokensTyped, Admissions, Covered
  <2>7. ASSUME NEW s \in Requests PROVE Vouched(s)'
    BY <2>3, <2>4 DEF K!world, TokensInv, TokensTyped, Admissions, Vouched, K!Idle
  <2> QED
    BY <2>5, <2>6, <2>7 DEF TokensInv
<1>4. CASE K!Answer(r)
  BY <1>4, IdleType DEF K!Answer, K!world, TokensInv, TokensTyped, Admissions, Covered,
     Vouched, K!Idle
<1> QED
  BY <1>1, <1>2, <1>3, <1>4

LEMMA TokensStep == ASSUME TokensLast PROVE TokensInv /\ [K!Next]_K!vars => TokensInv'
<1> SUFFICES ASSUME TokensInv, [K!Next]_K!vars PROVE TokensInv'
  OBVIOUS
<1>1. CASE UNCHANGED K!vars
  BY <1>1 DEF K!vars, K!world, TokensInv, TokensTyped, Admissions, Covered, Vouched
<1>2. CASE K!Next
  BY <1>1, <1>2, IssueInv, WorldInv, CheckInv, RequestInv
  DEF K!Next, K!Login, K!Refresh, K!Done
<1> QED
  BY <1>1, <1>2
----------------------------------------------------------------------------
\* After logging out a token does not get a later request in (is_denied, deny_jti): whatever
\* the rounding of its entry's lifetime and the order of the requests, only a denylist that
\* does not answer, or the end of the token between two steps, lets one through.
THEOREM LoggedOutStaysOut == ASSUME TokensLast PROVE K!Spec => []LogoutHolds
<1>1. TokensInv => LogoutHolds
  BY DEF TokensInv, Vouched, LogoutHolds, K!LogoutHolds
<1>2. K!Init => TokensInv
  BY TokensInit
<1>3. TokensInv /\ [K!Next]_K!vars => TokensInv'
  BY TokensStep
<1> QED
  BY <1>1, <1>2, <1>3, PTL DEF K!Spec
-----------------------------------------------------------------------------
(* The users of a tenant. *)

(***************************************************************************)
(* The inductive invariant.  A request that is about to write was decided  *)
(* on what it had read: it deletes another user than its actor, or gives   *)
(* its actor no lesser role (Decided).  As long as each actor is still an  *)
(* administrator when his request commits, he is one who remains.          *)
(***************************************************************************)
Changes == [step : {"idle", "read", "count", "commit"}, op : {"invite", "role", "delete"},
            actor : Users, target : Users, to : D!Roles, was : D!Roles \cup {"none"}]

UsersTyped ==
  /\ Users # {}
  /\ adminsRole \in [Users -> D!Roles \cup {"none"}]
  /\ adminsReq \in [Requests -> Changes]
  /\ lateActor \in BOOLEAN

Decided(q) ==
  q.step \in {"count", "commit"} =>
    /\ q.op = "delete" => q.actor # q.target
    /\ q.op = "role" /\ q.actor = q.target => q.to = "admin"

AdminsInv ==
  UsersTyped /\ (\A r \in Requests : Decided(adminsReq[r])) /\ (D!Admins # {} \/ lateActor)
-----------------------------------------------------------------------------
LEMMA BlankChange ==
  ASSUME Users # {}
  PROVE  D!Blank \in Changes /\ Decided(D!Blank)
<1>1. (CHOOSE u \in Users : TRUE) \in Users
  OBVIOUS
<1>2. D!Blank \in Changes
  BY <1>1 DEF D!Blank, Changes, D!Roles
<1>3. D!Blank.step = "idle"
  BY DEF D!Blank
<1> QED
  BY <1>2, <1>3 DEF Decided

LEMMA AdminsInit == D!Init => AdminsInv
<1> SUFFICES ASSUME D!Init PROVE AdminsInv
  OBVIOUS
<1>1. PICK first \in Users :
        adminsRole = [u \in Users |-> IF u = first THEN "admin" ELSE "none"]
  BY DEF D!Init
<1>2. first \in D!Admins
  BY <1>1 DEF D!Admins
<1>3. UsersTyped
  BY <1>1, BlankChange DEF D!Init, UsersTyped, D!Roles
<1> QED
  BY <1>2, <1>3, BlankChange DEF D!Init, AdminsInv

\* A request goes on, or ends: the rows are untouched, and what it may write was decided.
LEMMA RequestGoesOn ==
  ASSUME AdminsInv, NEW r \in Requests, NEW q \in Changes, Decided(q),
         adminsReq' = [adminsReq EXCEPT ![r] = q], UNCHANGED <<adminsRole, lateActor>>
  PROVE  AdminsInv'
BY DEF AdminsInv, UsersTyped, D!Admins

\* The administrator who asked for the change is still there after it (Written).
LEMMA ActorStays ==
  ASSUME UsersTyped, NEW q \in Changes, Decided(q), q.step = "commit",
         adminsRole[q.actor] = "admin"
  PROVE  D!Written(q)[q.actor] = "admin"
BY DEF UsersTyped, Changes, Decided, D!Written, D!Roles

LEMMA WrittenIsTyped ==
  ASSUME UsersTyped, NEW q \in Changes
  PROVE  D!Written(q) \in [Users -> D!Roles \cup {"none"}]
BY DEF UsersTyped, Changes, D!Written, D!Roles

LEMMA AdminsStep == AdminsInv /\ [D!Next]_D!vars => AdminsInv'
<1> SUFFICES ASSUME AdminsInv, [D!Next]_D!vars PROVE AdminsInv'
  OBVIOUS
<1>1. ASSUME UNCHANGED D!vars PROVE AdminsInv'
  BY <1>1 DEF D!vars, AdminsInv, UsersTyped, D!Admins
<1>2. D!Blank \in Changes /\ Decided(D!Blank)
  BY BlankChange DEF AdminsInv, UsersTyped
<1>3. ASSUME NEW r \in Requests, D!Admit(r) PROVE AdminsInv'
  <2> DEFINE New(a, t, op, to) == [D!Blank EXCEPT !.step = "read", !.op = op, !.actor = a,
                                                  !.target = t, !.to = to]
  <2>1. PICK a \in D!Admins, t \in Users, op \in {"invite", "role", "delete"}, to \in D!Roles :
          /\ op = "delete" => to = "operator"
          /\ adminsReq' = [adminsReq EXCEPT ![r] = New(a, t, op, to)]
    BY Zenon, <1>3 DEF D!Admit
  <2>2. New(a, t, op, to) \in Changes /\ New(a, t, op, to).step = "read"
    BY <1>2 DEF Changes, D!Admins
  <2>3. Decided(New(a, t, op, to))
    BY <2>2 DEF Decided
  <2>4. UNCHANGED <<adminsRole, lateActor>>
    BY <1>3 DEF D!Admit
  <2> HIDE DEF New
  <2> QED
    BY <2>1, <2>2, <2>3, <2>4, RequestGoesOn
<1>4. ASSUME NEW r \in Requests, D!Read(r) PROVE AdminsInv'
  <2> DEFINE q == [adminsReq[r] EXCEPT !.was = adminsRole[adminsReq[r].target]]
  <2>1. q \in Changes
    BY DEF AdminsInv, UsersTyped, Changes
  <2> HIDE DEF q
  <2> DEFINE On(p) == [q EXCEPT !.step = p]
  <2>2. /\ UNCHANGED <<adminsRole, lateActor>>
        /\ \/ adminsReq' = [adminsReq EXCEPT ![r] = D!Blank]
           \/ /\ \/ q.op = "delete" /\ q.actor # q.target
                 \/ q.op = "invite"
                 \/ q.op = "role" /\ (q.actor = q.target => q.to = "admin")
              /\ \E p \in {"count", "commit"} :
                   adminsReq' = [adminsReq EXCEPT ![r] = On(p)]
    BY <1>4 DEF D!Read, D!MayDelete, D!MayChange, q
  <2>3. CASE adminsReq' = [adminsReq EXCEPT ![r] = D!Blank]
    BY <1>2, <2>2, <2>3, RequestGoesOn
  <2>4. ASSUME NEW p \in {"count", "commit"},
               \/ q.op = "delete" /\ q.actor # q.target
               \/ q.op = "invite"
               \/ q.op = "role" /\ (q.actor = q.target => q.to = "admin"),
               adminsReq' = [adminsReq EXCEPT ![r] = On(p)]
        PROVE  AdminsInv'
    <3>1. On(p) \in Changes /\ Decided(On(p))
      BY <2>1, <2>4 DEF Changes, Decided
    <3> HIDE DEF On
    <3> QED
      BY <2>2, <2>4, <3>1, RequestGoesOn
  <2> QED
    BY <2>2, <2>3, <2>4
<1>5. ASSUME NEW r \in Requests, D!Count(r) PROVE AdminsInv'
  <2> DEFINE q == adminsReq[r]
             c == [q EXCEPT !.step = "commit"]
  <2>1. q \in Changes /\ Decided(q) /\ q.step = "count"
    BY <1>5 DEF D!Count, AdminsInv, UsersTyped
  <2>2. c \in Changes /\ Decided(c)
    BY <2>1 DEF Changes, Decided
  <2>3. \/ adminsReq' = [adminsReq EXCEPT ![r] = D!Blank]
        \/ adminsReq' = [adminsReq EXCEPT ![r] = c]
    BY <1>5 DEF D!Count, AdminsInv, UsersTyped
  <2>4. UNCHANGED <<adminsRole, lateActor>>
    BY <1>5 DEF D!Count
  <2> HIDE DEF c
  <2> QED
    BY <1>2, <2>2, <2>3, <2>4, RequestGoesOn
<1>6. ASSUME NEW r \in Requests, D!Commit(r) PROVE AdminsInv'
  <2> DEFINE q == adminsReq[r]
  <2>1. q \in Changes /\ Decided(q) /\ q.step = "commit" /\ UsersTyped
    BY <1>6 DEF D!Commit, AdminsInv, UsersTyped
  <2>2. /\ adminsRole' = D!Written(q)
        /\ lateActor' = (lateActor \/ adminsRole[q.actor] # "admin")
        /\ adminsReq' = [adminsReq EXCEPT ![r] = D!Blank]
    BY <1>6 DEF D!Commit
  <2>3. UsersTyped'
    BY <1>2, <2>1, <2>2, WrittenIsTyped DEF UsersTyped
  <2>4. ASSUME NEW s \in Requests PROVE Decided(adminsReq'[s])
    BY <1>2, <2>2 DEF AdminsInv, UsersTyped
  <2>5. ASSUME ~lateActor' PROVE q.actor \in D!Admins'
    BY <2>1, <2>2, <2>5, ActorStays DEF UsersTyped, Changes, D!Admins
  <2> QED
    BY <2>3, <2>4, <2>5 DEF AdminsInv
<1> QED
  BY <1>1, <1>3, <1>4, <1>5, <1>6 DEF D!Next, D!LockedOut

\* Whatever requests invite, promote, demote and delete at once (invite_user,
\* update_user_role, delete_user): an administrator remains, unless a request commits whose
\* actor has lost the role since he was admitted.
THEOREM SomebodyIsAdmin == D!Spec => []AdminsRemain
<1>1. AdminsInv => AdminsRemain
  BY DEF AdminsInv, AdminsRemain, D!AdminsRemain
<1> QED
  BY <1>1, AdminsInit, AdminsStep, PTL DEF D!Spec
-----------------------------------------------------------------------------
(* Agents. *)

(***************************************************************************)
(* The inductive invariant.  What a request read was stored then and still *)
(* is, and the edit that it read was not taken back; an upload writes the  *)
(* list after it has stored the recording (Holds).                         *)
(***************************************************************************)
Edits == [step : {"idle", "put", "write"},
          kind : {"upload", "delete", "update", "archive", "promote"},
          rec : Recordings \cup {A!Blank.rec}, list : SUBSET Recordings,
          status : {"draft", "ready", "archived"}, profile : {"made", "edited"}]

AgentsTyped ==
  /\ stored \subseteq Recordings
  /\ status \in {"draft", "ready", "archived"}
  /\ profile \in {"made", "edited"}
  /\ agentsReq \in [Requests -> Edits]
  /\ edited \in BOOLEAN /\ overlapped \in BOOLEAN

Holds(q) ==
  /\ q.list \subseteq stored
  /\ q.profile = "edited" => profile = "edited"
  /\ q.step = "put" => q.kind = "upload" /\ q.rec \in Recordings
  /\ q.step = "write" /\ q.kind = "upload" => q.rec \in stored

AgentsInv ==
  AgentsTyped /\ (\A r \in Requests : Holds(agentsReq[r])) /\ A!AgentIsConsistent
-----------------------------------------------------------------------------
\* The request of one that is idle.
LEMMA BlankEdit == A!Blank \in Edits /\ (AgentsInv => Holds(A!Blank))
BY DEF A!Blank, Edits, Holds

LEMMA AgentsInit == A!Init => AgentsInv
<1> SUFFICES ASSUME A!Init PROVE AgentsInv
  OBVIOUS
<1>1. AgentsTyped
  BY BlankEdit DEF A!Init, AgentsTyped
<1>2. Holds(A!Blank)
  BY DEF A!Init, A!Blank, Holds
<1>3. \A r \in Requests : agentsReq[r] = A!Blank
  BY DEF A!Init
<1> QED
  BY <1>1, <1>2, <1>3 DEF A!Init, AgentsInv, A!AgentIsConsistent, A!ListedIsStored,
     A!RequestsKeepApart

\* A request goes on from what it read; the others hold what they held.
LEMMA OthersHold ==
  ASSUME AgentsInv, NEW r \in Requests, NEW q \in Edits, Holds(q)',
         agentsReq' = [agentsReq EXCEPT ![r] = q], stored \subseteq stored',
         profile' \in {profile, "edited"}
  PROVE  \A s \in Requests : Holds(agentsReq[s])'
BY DEF AgentsInv, AgentsTyped, Holds

LEMMA ReadInv ==
  ASSUME AgentsInv, NEW r \in Requests, NEW x \in Recordings \cup {A!Blank.rec},
         NEW k \in {"upload", "delete", "update", "archive", "promote"},
         NEW p \in {"put", "write"}, A!Read(r, k, x, p),
         IF p = "put" THEN k = "upload" /\ x \in Recordings ELSE k # "upload"
  PROVE  AgentsInv'
<1> DEFINE q == [step |-> p, kind |-> k, rec |-> x, list |-> listed, status |-> status,
                 profile |-> profile]
<1>1. q \in Edits /\ Holds(q)
  BY DEF AgentsInv, AgentsTyped, Edits, Holds, A!AgentIsConsistent, A!ListedIsStored
<1>2. agentsReq' = [agentsReq EXCEPT ![r] = q]
  BY DEF A!Read
<1> HIDE DEF q
<1>3. UNCHANGED <<status, listed, stored, profile, asked, edited, kept, overlapped>>
  BY DEF A!Read
<1> QED
  BY <1>1, <1>2, <1>3 DEF AgentsInv, AgentsTyped, Holds, A!AgentIsConsistent,
     A!ListedIsStored, A!RequestsKeepApart

\* The object is stored, or the upload ends.
LEMMA PutInv ==
  ASSUME AgentsInv, NEW r \in Requests, A!Put(r)
  PROVE  AgentsInv'
<1> DEFINE q == agentsReq[r]
<1>1. q \in Edits /\ Holds(q) /\ q.step = "put"
  BY DEF A!Put, AgentsInv, AgentsTyped
<1>2. PICK w \in Edits : w = [q EXCEPT !.step = "write"]
  BY <1>1 DEF Edits
<1>3. /\ \/ stored' = stored \cup {q.rec} /\ agentsReq' = [agentsReq EXCEPT ![r] = w]
         \/ stored' = stored /\ agentsReq' = [agentsReq EXCEPT ![r] = A!Blank]
      /\ UNCHANGED <<status, listed, profile, asked, edited, kept, overlapped>>
  BY <1>2 DEF A!Put, A!Ends, AgentsInv, AgentsTyped
<1>4. q.rec \in Recordings
  BY <1>1 DEF Holds
<1>5. w.step = "write" /\ w.rec = q.rec /\ w.list = q.list /\ w.profile = q.profile
  BY <1>1, <1>2 DEF Edits
<1> HIDE DEF q
<1>6. AgentsTyped'
  BY <1>3, <1>4, BlankEdit DEF AgentsInv, AgentsTyped
<1>7. PICK b \in Edits : b = A!Blank
  BY BlankEdit
<1>8. Holds(b)'
  BY <1>7 DEF A!Blank, Holds
<1>9. \A s \in Requests : Holds(agentsReq[s])'
  <2>1. CASE stored' = stored /\ agentsReq' = [agentsReq EXCEPT ![r] = b]
    BY <1>3, <1>8, <2>1, OthersHold
  <2>2. CASE stored' = stored \cup {q.rec} /\ agentsReq' = [agentsReq EXCEPT ![r] = w]
    <3>1. Holds(w)'
      BY <1>1, <1>3, <1>5, <2>2 DEF Holds
    <3> QED
      BY <1>3, <2>2, <3>1, OthersHold
  <2> QED
    BY <1>3, <1>7, <2>1, <2>2
<1>10. A!AgentIsConsistent'
  BY <1>3 DEF AgentsInv, A!AgentIsConsistent, A!ListedIsStored, A!RequestsKeepApart
<1> QED
  BY <1>6, <1>9, <1>10 DEF AgentsInv

\* The columns that are written: each goes from what the request read to what it makes of it.
LEMMA ColumnsAre ==
  ASSUME NEW q \in Edits
  PROVE  /\ "list" \in A!Columns(q) <=> A!NewList(q) # q.list
         /\ "status" \in A!Columns(q) <=> A!NewStatus(q) # q.status
         /\ "profile" \in A!Columns(q) <=> A!NewProfile(q) # q.profile
BY DEF A!Columns

LEMMA WriteInv ==
  ASSUME AgentsInv, NEW r \in Requests, A!Write(r)
  PROVE  AgentsInv'
<1> DEFINE q == agentsReq[r]
<1>1. q \in Edits /\ Holds(q) /\ q.step = "write"
  BY DEF A!Write, AgentsInv, AgentsTyped
<1>2. agentsReq' = [agentsReq EXCEPT ![r] = A!Blank] /\ stored' = stored
  BY DEF A!Write, A!Ends
<1>3. CASE UNCHANGED <<status, listed, profile, asked, edited, kept, overlapped>>
  BY <1>2, <1>3, BlankEdit DEF AgentsInv, AgentsTyped, Holds, A!AgentIsConsistent,
     A!ListedIsStored, A!RequestsKeepApart
<1>4. ASSUME
        /\ listed' = (IF A!NewList(q) # q.list THEN A!NewList(q) ELSE listed)
        /\ status' = (IF A!NewStatus(q) # q.status THEN A!NewStatus(q) ELSE status)
        /\ profile' = (IF A!NewProfile(q) # q.profile THEN A!NewProfile(q) ELSE profile)
        /\ edited' = (edited \/ q.kind = "update")
        /\ asked' = (IF A!NewStatus(q) # q.status THEN A!NewStatus(q) ELSE asked)
        /\ kept' = CASE q.kind = "upload" -> kept \cup {q.rec}
                     [] q.kind = "delete" -> kept \ {q.rec}
                     [] OTHER -> kept
        /\ overlapped' = (overlapped \/ (q.kind \in {"upload", "delete"} /\ q.list # listed))
      PROVE AgentsInv'
  <2> HIDE DEF q
  <2>1. A!NewList(q) \subseteq stored /\ A!NewStatus(q) \in {"draft", "ready", "archived"}
    BY <1>1 DEF Edits, Holds, A!NewList, A!NewStatus
  <2>2. listed' \subseteq stored'
    BY <1>2, <1>4, <2>1 DEF AgentsInv, A!AgentIsConsistent, A!ListedIsStored
  <2>3. status' = asked'
    BY <1>4 DEF AgentsInv, A!AgentIsConsistent, A!RequestsKeepApart
  <2>4. profile' \in {profile, "edited"} /\ (q.kind = "update" => profile' = "edited")
    BY <1>1, <1>4 DEF Edits, Holds, A!NewProfile, AgentsInv, AgentsTyped
  <2>5. edited' => profile' = "edited"
    BY <1>4, <2>4 DEF AgentsInv, A!AgentIsConsistent, A!RequestsKeepApart
  <2>6. listed' = kept' \/ overlapped'
    BY <1>1, <1>4 DEF Edits, A!NewList, AgentsInv, A!AgentIsConsistent, A!RequestsKeepApart
  <2>7. AgentsTyped'
    BY <1>2, <1>4, <2>1, <2>4, BlankEdit DEF AgentsInv, AgentsTyped
  <2>8. \A s \in Requests : Holds(agentsReq[s])'
    BY <1>2, <2>4, BlankEdit DEF AgentsInv, AgentsTyped, Holds
  <2> QED
    BY <2>2, <2>3, <2>5, <2>6, <2>7, <2>8
    DEF AgentsInv, A!AgentIsConsistent, A!ListedIsStored, A!RequestsKeepApart
<1> QED
  BY <1>1, <1>3, <1>4, ColumnsAre DEF A!Write

LEMMA AgentsStep == AgentsInv /\ [A!Next]_A!vars => AgentsInv'
<1> SUFFICES ASSUME AgentsInv, [A!Next]_A!vars PROVE AgentsInv'
  OBVIOUS
<1>1. CASE UNCHANGED A!vars
  BY <1>1 DEF A!vars, AgentsInv, AgentsTyped, Holds, A!AgentIsConsistent, A!ListedIsStored,
     A!RequestsKeepApart
<1>2. ASSUME NEW r \in Requests,
             A!Upload(r) \/ A!Delete(r) \/ A!Update(r) \/ A!Archive(r) \/ A!Promote(r)
      PROVE  AgentsInv'
  <2>1. stored \subseteq Recordings
    BY DEF AgentsInv, AgentsTyped
  <2> QED
    BY <1>2, <2>1, ReadInv DEF A!Upload, A!Delete, A!Update, A!Archive, A!Promote
<1>3. ASSUME NEW r \in Requests, A!NotFound(r) PROVE AgentsInv'
  BY <1>3, BlankEdit DEF A!NotFound, A!Ends, AgentsInv, AgentsTyped, Holds,
     A!AgentIsConsistent, A!ListedIsStored, A!RequestsKeepApart
<1> QED
  BY <1>1, <1>2, <1>3, PutInv, WriteInv DEF A!Next

\* Whatever uploads, deletions and updates overlap and fail (upload_recording, update_agent,
\* delete_training_recording): what is listed is stored, no request takes back another's
\* column, and an answered upload is lost only to a list that was read before it.
THEOREM AgentsStayConsistent == A!Spec => []AgentIsConsistent
<1>1. AgentsInv => AgentIsConsistent
  BY DEF AgentsInv, AgentIsConsistent
<1> QED
  BY <1>1, AgentsInit, AgentsStep, PTL DEF A!Spec
=============================================================================
