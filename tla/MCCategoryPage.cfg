SPECIFICATION FairSpec
CONSTANTS
  u1 = u1
  u2 = u2
  unrecognized = unrecognized
  games = games
  Buffers <- Grids
  Blank = Blank
  NoAnswer = NoAnswer
  NoWindow = NoWindow
  Progress = Progress
  MaxCalls = 3
  Urls <- TwoUrls
  Cids <- TwoCids
  Unrecognized = unrecognized
  Rows0 <- OneRow
  MaxIds = 5
  NoItem = NoItem
  MaxCommands = 2
  MaxLooks = 1
  Scenarios <- Habits
CHECK_DEADLOCK FALSE
INVARIANTS TypeOK CommandsAreWhole NothingArmed PerformedOnce GridsAgree
PROPERTY RefreshEnds
