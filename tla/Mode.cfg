SPECIFICATION FairSpec
CONSTANTS
  Exposed = {"sta", "softap", "go"}
  ApMode = TRUE
  Default = "go"
  Budget = 3
INVARIANTS SwitchBoots OneMode
PROPERTY CyclesThroughAll
