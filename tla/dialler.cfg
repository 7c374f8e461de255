CONSTANTS
  Deployments = {d1}
  Accounts = {a1, a2}
  None = None
  MaxMessages = 2
  MaxFlaps = 1
  Backoffs = 2
  Requests = {q1, q2}
  NoRequest = NoRequest
  Contexts = {b1, b2}
  Logins = {l1, l2, l3}
  NoLogin = NoLogin
  NoContext = NoContext
  MaxFaults = 1
SPECIFICATION FairSpec
PROPERTIES AccountsKeepTrying StopIsHonoured ActionsAreHonest LoginsKeepApart
CHECK_DEADLOCK FALSE
