---------------------------- MODULE BrowserLogin ----------------------------
(***************************************************************************)
(* The session manager's pool of browser contexts and the logins that      *)
(* borrow them (login.py).  A context is given back without cookies, so    *)
(* that no login finds the session of another.                             *)
(***************************************************************************)
EXTENDS Naturals, FiniteSets, Sequences, SequencesExt

CONSTANTS Contexts, Logins, NoLogin, NoContext,
          MaxRuns,    \* bound on logins
          MaxFaults   \* bound on failures and cancellations

VARIABLES pool,      \* the free contexts, in the order they came back
          waiting,   \* logins waiting for one
          login,     \* login -> [step, ctx]
          page,      \* context -> the login whose page is open in it
          cookies,   \* context -> the login whose session it holds
          inherited, \* a login began in a context with another one's cookies
          tainted,   \* contexts whose page did not close or whose cookies were not cleared
          runs, faults

contexts == <<page, cookies, tainted>>
vars     == <<pool, waiting, login, contexts, inherited, runs, faults>>

Away  == [step |-> "away", ctx |-> NoContext]
Fault == faults < MaxFaults /\ faults' = faults + 1
At(l, step) == login[l].step = step
Goes(l, step) == login' = [login EXCEPT ![l].step = step]

Init == /\ pool = SetToSeq(Contexts)
        /\ waiting = <<>>
        /\ login = [l \in Logins |-> Away]
        /\ page = [c \in Contexts |-> NoLogin] /\ cookies = [c \in Contexts |-> NoLogin]
        /\ inherited = FALSE /\ tainted = {} /\ runs = 0 /\ faults = 0

\* acquire(): the waiters are served in turn.
Acquire(l) == /\ At(l, "away") /\ runs < MaxRuns
              /\ runs' = runs + 1
              /\ waiting' = Append(waiting, l)
              /\ Goes(l, "waiting")
              /\ UNCHANGED <<pool, contexts, inherited, faults>>

Acquired(l) == /\ waiting # <<>> /\ Head(waiting) = l /\ pool # <<>>
               /\ login' = [login EXCEPT ![l] = [step |-> "open", ctx |-> Head(pool)]]
               /\ pool' = Tail(pool) /\ waiting' = Tail(waiting)
               /\ UNCHANGED <<contexts, inherited, runs, faults>>

\* new_page and goto; without a page there is none to close.
OpenPage(l) == LET c == login[l].ctx
               IN /\ At(l, "open")
                  /\ \/ /\ page' = [page EXCEPT ![c] = l]
                        /\ inherited' = (inherited \/ (cookies[c] # NoLogin /\ c \notin tainted))
                        /\ Goes(l, "form")
                        /\ UNCHANGED faults
                     \/ Fault /\ Goes(l, "clear") /\ UNCHANGED <<page, inherited>>
                  /\ UNCHANGED <<pool, waiting, cookies, tainted, runs>>

\* The form is filled and submitted; the agent page renders, or does not in time.
Submit(l) == /\ At(l, "form")
             /\ cookies' = [cookies EXCEPT ![login[l].ctx] = l]
             /\ \/ Goes(l, "rendered") /\ UNCHANGED faults
                \/ Fault /\ Goes(l, "close")
             /\ UNCHANGED <<pool, waiting, page, inherited, tainted, runs>>

\* A page that is open goes on talking to the dialler, which sets cookies.
PageSets(c) == /\ page[c] # NoLogin /\ cookies[c] = NoLogin
               /\ ~\E l \in Logins : login[l].ctx = c /\ login[l].step = "form"
               /\ cookies' = [cookies EXCEPT ![c] = page[c]]
               /\ UNCHANGED <<pool, waiting, login, page, inherited, tainted, runs, faults>>

\* The content and the cookies are read; parse_agent_page may reject them.
Capture(l) == /\ At(l, "rendered")
              /\ Goes(l, "close")
              /\ UNCHANGED <<pool, waiting, contexts, inherited, runs, faults>>

\* Mutant of ClosePage: the page is closed when the context is back already.
LateClosePage(l) == /\ At(l, "close")
                    /\ Goes(l, "clear")
                    /\ UNCHANGED <<pool, waiting, contexts, inherited, runs, faults>>

\* finally: the page, then the context.
ClosePage(l) == LET c == login[l].ctx
                IN /\ At(l, "close")
                   /\ Goes(l, "clear")
                   /\ \/ page' = [page EXCEPT ![c] = NoLogin] /\ UNCHANGED <<tainted, faults>>
                      \/ Fault /\ tainted' = tainted \cup {c} /\ UNCHANGED page
                   /\ UNCHANGED <<pool, waiting, cookies, inherited, runs>>

\* release(): clear_cookies may fail, the context goes back all the same.
Release(l) == LET c == login[l].ctx
              IN /\ At(l, "clear")
                 /\ \/ cookies' = [cookies EXCEPT ![c] = NoLogin] /\ UNCHANGED <<tainted, faults>>
                    \/ Fault /\ tainted' = tainted \cup {c} /\ UNCHANGED cookies
                 /\ pool' = Append(pool, c)
                 /\ login' = [login EXCEPT ![l] = Away]
                 /\ UNCHANGED <<waiting, page, inherited, runs>>

\* The task is cancelled (a heartbeat loop whose worker left): the finally clause runs, but
\* one that comes in it takes the context along.
Cancel(l) == /\ Fault
             /\ CASE At(l, "waiting") -> /\ waiting' = SelectSeq(waiting, LAMBDA x : x # l)
                                         /\ login' = [login EXCEPT ![l] = Away]
                  [] At(l, "open") -> Goes(l, "clear") /\ UNCHANGED waiting
                  [] login[l].step \in {"form", "rendered"} -> Goes(l, "close") /\ UNCHANGED waiting
                  [] login[l].step \in {"close", "clear"} ->
                       login' = [login EXCEPT ![l] = Away] /\ UNCHANGED waiting
                  [] OTHER -> FALSE
             /\ UNCHANGED <<pool, contexts, inherited, runs>>

Held == {login[l].ctx : l \in {l \in Logins : login[l].ctx # NoContext}}
Left == ToSet(pool) \cup Held    \* the contexts that are still in use

\* With every context lost, the logins wait for ever.
Resting == /\ \A l \in Logins : At(l, "away") \/ (At(l, "waiting") /\ Left = {})
           /\ UNCHANGED vars

LoginStep(l) == \/ Acquired(l) \/ OpenPage(l) \/ Submit(l) \/ Capture(l) \/ ClosePage(l)
                \/ Release(l)

Next == \/ Resting
        \/ \E l \in Logins : Acquire(l) \/ LoginStep(l) \/ Cancel(l)
        \/ \E c \in Contexts : PageSets(c)

Spec == Init /\ [][Next]_vars

\* Every await of a login ends: the page calls have time-outs.
FairSpec == Spec /\ \A l \in Logins : WF_vars(LoginStep(l))

----------------------------------------------------------------------------
\* No login finds another one's session in the context it was given, unless the browser
\* failed to close a page or to clear the cookies of that context; and a login that waits
\* gets a context in the end, however the ones before it fail, while the cancellations have
\* not taken every context away.
LoginsKeepApart ==
  /\ []~inherited
  /\ \A l \in Logins : At(l, "waiting") ~> (~At(l, "waiting") \/ Left = {})
=============================================================================
