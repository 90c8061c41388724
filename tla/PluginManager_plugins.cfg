SPECIFICATION Spec
CONSTANTS
  early = early
  middle = middle
  late = late
  Plugin = {early, middle, late}
  FilePriority <- MCFilePriority
  SettingsPriority <- MCSettingsPriority
  InitLoadPriority = 2
  NestedLoop = {}
  MaxDepth = 1
CHECK_DEADLOCK FALSE
CONSTRAINT TwoInMainLoop
INVARIANT EnabledIsActiveUnlessFoundLate
INVARIANT DisabledIsInactiveUnlessStale
PROPERTY StartupOrder
PROPERTY StrayOnlyIfDisabledAtLoad
