SPECIFICATION Spec
CONSTANTS
  early = early
  middle = middle
  late = late
  Plugin = {early}
  FilePriority <- MCFilePriority
  SettingsPriority <- MCSettingsPriority
  InitLoadPriority = 2
  NestedLoop = {}
  MaxDepth = 1
CHECK_DEADLOCK FALSE
INVARIANT SettingIsObeyed
