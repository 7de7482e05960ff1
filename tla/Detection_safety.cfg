\* Two connections, three mints of which two have one label, a watchlist of two.
SPECIFICATION Spec
CONSTANTS
  m1 = m1
  m2 = m2
  m3 = m3
  c1 = c1
  c2 = c2
  label = label
  None = None
  NoLabel = NoLabel
  Mints = {m1, m2, m3}
  Creators = {c1}
  Accounts = {c1}
  LabelOf <- MCLabelOf
  CreatorOf <- MCCreatorOf
  Levels = {65, 95}
  Skeleton = FALSE
  LabelWindow = 0
  MaxLabels = 2
  MaxLog = 2
  FlowAge = 0
  FlowBuys = 1
  LaunchAge = 0
  LaunchProgress = 70
  MaxGap = 0
  FlowProgress = 30
  ProbeAt = 60
  AddAt = 75
  MoreBuyers = 0
  MinPressure = 60
  MinScore = 50
  SignalVolume = 2
  MaxWatch = 2
  MaxScores = 2
  DedupWindow = 1
  EnoughTrades = 2
  ChannelSize = 1
  MaxConnections = 2
  MaxRosters = 1
  MaxEvents = 4
  MaxInbox = 1
  TimeBound = 1
SYMMETRY Symmetry
CHECK_DEADLOCK FALSE
INVARIANTS
  LaneOnce
  LadderComplete
  OneTokenPerGraduation
  LabelsExact
  NewestWatched
  SubscribedWatched
