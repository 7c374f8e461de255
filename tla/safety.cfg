CONSTANTS
  Calls = {c1, c2}
  MaxBacklog = 1
  KeepTopK = 2
  Long = 4
  Short = 2
  Tokens = {1, 2, 5}
  Sentences = 5
  Target = 4
  Overlap = 2
  Versions = {1, 2}
  Models <- ModelServices
  Apps <- AppServices
  Web = "web"
  MaxScripts = 3
  MaxFaults = 1
  MaxCalls = 2
  MaxDbFaults = 2
  Requests = {q1, q2}
  AccessTokens = {t1}
  Lifetime = 2
  MaxTime = 5
  Users = {u1, u2}
  Owner = u1
  Recordings = {x1, x2}
  Campaigns = {k1, k2}
  NoCampaign = NoCampaign
  MaxEdits = 2
  Events = 4
  BatchMax = 2
  Chunks = {1, 2, 3}
  MaxBytes = 7
SPECIFICATION MCSpec
SYMMETRY CallSymmetry
INVARIANTS CountedOnce RefusedLeavesNoSocket TrackedIsLive PoolIsBest ChunksAreSound OneVersionRuns
  LogoutHolds AdminsRemain AgentIsConsistent PromptIsOfOnePiece TranscriptIsWhole RecordingIsSound
CHECK_DEADLOCK FALSE
