SPECIFICATION FairSpec
CONSTANTS
  early = early
  middle = middle
  late = late
  Plugin = {early}
  FilePriority <- MCFilePriority
  SettingsPriority <- MCSettingsPriority
  InitLoadPriority = 2
  NestedLoop = {"ctk_main", "ctk_dialog_run"}
  MaxDepth = 3
CHECK_DEADLOCK FALSE
INVARIANT TypeOK
INVARIANT ActiveIsRunning
PROPERTY TermReachesMainLoop
