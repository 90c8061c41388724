SPECIFICATION FairSpec
CONSTANTS
  early = early
  middle = middle
  late = late
  Plugin = {early}
  FilePriority <- MCFilePriority
  SettingsPriority <- MCSettingsPriority
  InitLoadPriority = 2
  NestedLoop = {"ctk_main"}
  MaxDepth = 2
CHECK_DEADLOCK FALSE
PROPERTY TermExits
