\* The scheduler, the hub, the awaits, the jobs and the session tail, one
\* after the other (variable subject).
SPECIFICATION ServicesSpec
CONSTANTS
  \* scheduler
  Streams = {a}
  NoStream = NoStream
  Senders = {s1, s2}
  NoFrame = NoFrame
  FrameSizes = {1}
  MaxFrameBytes = 1
  MaxQueuedEnvelopes = 2
  MaxQueuedBytes = 4
  MaxFrames = 3
  Traffic <- SchedTraffic
  \* hub
  Nodes = {n1, n2}
  Owners = {n2}
  Connectors = {n1}
  Links = {l1}
  NodeConns = {w1, w2}
  CtrlConns = {k1, k2}
  NoConn = NoConn
  NoNode = NoNode
  NoLink = NoLink
  MaxInbox = 1
  MaxRemovals = 1
  \* awaits
  t1 = t1
  c1 = c1
  c2 = c2
  j1 = j1
  j2 = j2
  Timers = {t1}
  Inline = {c1, c2}
  Scripts = {j1, j2}
  ResultKeys = {r1}
  NoKey = NoKey
  MaxEvaluationErrors = 2
  HeavyConcurrency = 1
  MaxInlineChecks = 2
  MaxScriptChecks = 1
  Position <- AwaitPosition
  MaxSends = 3
  MaxCrashes = 1
  \* jobs
  Jobs = {j}
  Requests = {q1, q2}
  NoJob = NoJob
  PollerCall = PollerCall
  MaxRequests = 3
  MaxJobCrashes = 1
  \* session tail
  TailLimit = 2
  StreamLimit = 1
  Oversized = {3}
  MaxVersion = 4
  MaxDrops = 1
INVARIANTS
  ServicesTypeOK
  LanesAreScheduled CountersMatchQueue BulkNeverBlocksControl
  LinksHaveNodes OneControllerPerLink OnlineIsOwned
  WakeUpsAreAccounted OneWakePerResult
  OwnersSeeOneOutcome
  NothingSkipped
PROPERTIES
  StreamsStayOrdered RefusedSendersProceed
  DetachedControllersEnd DeadSocketsLeave
  ScriptsAreChecked
  OutcomesAreProjected
  TailCatchesUp
CHECK_DEADLOCK FALSE
