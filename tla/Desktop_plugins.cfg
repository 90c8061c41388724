SPECIFICATION SumSpec
CONSTANTS
  a = a
  b = b
  Code = {a, b}
  Key <- MCKey
  Contested = {a}
  Entry = {e1, e2}
  Path = {p1, p2}
  d1 = d1
  d2 = d2
  Device = {d1, d2}
  Themed = {t1, t2}
  Other = {o}
  Player = {n1, n2}
  App = {a1}
  NoTimer = NoTimer
  NoPlayer = NoPlayer
  Lost = Lost
  MaxStarts = 2
  MaxChanges = 3
  MaxKills = 2
  MaxNotes = 2
  MaxDialogs = 1
  MaxThemes = 3
  MaxOthers = 1
  MaxCalls = 2
  MaxMoves = 2
  Length = 3
  Width = 3
  MaxTime = 3
  Half = 4
  NoWarning = NoWarning
  MaxFiles = 2
  MaxJobs = 2
SYMMETRY Symmetry
CHECK_DEADLOCK FALSE
INVARIANT TypeOK
INVARIANT GrabsAreBound
INVARIANT BoundIsGrabbed
INVARIANT InputFollowsSettings
INVARIANT DesktopFollowsSettings
INVARIANT NothingDangles
INVARIANT KeysGoToPlayers
INVARIANT AnswersAreTrue
INVARIANT HouseIsKept
PROPERTY ServicePromise
PROPERTY SerialsTellChanges
