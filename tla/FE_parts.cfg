SPECIFICATION Spec
CONSTANTS
  v1 = v1
  v2 = v2
  w1 = w1
  w2 = w2
  List = List
  ListVideos = {1, 2, 3}
  Tenants = {"t1", "t2"}
  Owner <- MCOwner
  ListKeys <- MCKeys
  LIMIT = 2
  MaxSends = 2
  ListMoves = 1
  MaxSaves = 1
  DashVideos = {v1, v2}
  DashPages = {v2}
  Crossings <- MCCrossings
  DashMoves = 1
  FigureVideos = {1, 2}
  Published = {1, 2, 4}
  Captions = {3, 5}
  ListPage = 2
  POOL = 1
  Loads = {1, 2, 3}
  Levels = {1, 2}
  MaxStarts = 3
  KeyVideos = {1}
  Workers = {w1}
  MaxEdits = 2
  Clicks = {1, 2}
  CardMoves = 2
  MaxEditors = 2
  Bases = {"api1", "api2"}
  BaseDefault = "api1"
  SettingsSaves = 3
  Slots = {w1, w2}
  Requests = {1, 2}
  Attempts = 2
  PoolMax = 1
CHECK_DEADLOCK FALSE
INVARIANTS
  LabelMatches
  OwnTenant
  QuietPageIsTrue
  FigureIsWhole
  NothingElseLeft
  MenuTrue
  KeysDeliverable
  ClicksAnswered
  DotIsTrue
  DrainAnswers
