SPECIFICATION FairSpec
CONSTANTS
  c1 = c1
  c2 = c2
  Config = {c1, c2}
  NoFile = NoFile
  MaxTries = 3
CHECK_DEADLOCK FALSE
INVARIANT TypeOK
INVARIANT UnconfirmedIsTakenBack
INVARIANT NoStaleBackup
PROPERTY MenuChangeIsUndone
PROPERTY EveryDialogEnds
