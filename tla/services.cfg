CONSTANTS
  Calls = {c1}
  MaxBacklog = 2
  Frames = 4
  QUEUE_MAX_FRAMES = 2
  WireMax = 1
  Blocks = 5
  FramesMax = 2
  CapBlocks = 2
  Requests = {q1, q2}
  Threads = 1
  Slices = 3
  QueueSlices = 1
  Runs = {r1, r2}
  Streams = {s1}
  NoRun = NoRun
  MaxLines = 2
  QueueMax = 2
  MaxEvents = 4
  Docs = {d1}
  Sizes = {0, 2}
  MaxTries = 3
SPECIFICATION MCFairSpec
PROPERTIES CallsAreLetGo AudioKeepsOrder LatestAudioArrives SpeechIsTranscribed SpeechReachesItsEnd
  ProxyLives UpdateIsFollowed EventsAreStreamed DocumentIsIngested VoiceIsCloned
CHECK_DEADLOCK FALSE
