CONSTANTS
  Reviewers = {r1, r2}
  Values <- FiveDollars
  Types = {"date", "amount"}
  MaxClock = 4
  FlagCount = 3
  Decisions = {"resolved"}
  PageSize = 2
  MaxNew = 1
  MaxQueueEvents = 2
  Docs = {"letter", "deed"}
  PageCount = 2
  DocFlags <- ThreeFlags
  MaxLoads = 3
  People = {p1, p2}
  Slots = {s1, s2}
  Ttl = 1
  Ticks = 2
  MaxTime = 4
  MaxLogins = 2
  MaxDenylistFaults = 1
  Processes = {a1, a2}
  Requests <- ThreeRequests
  Trusted = {"proxy"}
  Limit = 2
  Window = 3
  Cooldown = 2
  FailClosed = TRUE
  MaxNow = 4
  MaxPerWindow = 3
  MaxLimitFaults = 2
SPECIFICATION ReviewSpec
SYMMETRY Alike
INVARIANTS
  TrailExplainsValue
  TornOnlyByOverlap
  OwnDecisionsLeaveQueue
  ImageUrlsAccounted
  SelectionOnPage
  RevokedStaysOut
  TwinsOnly
  LimitKept
CHECK_DEADLOCK FALSE
