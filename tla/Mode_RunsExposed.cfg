SPECIFICATION Spec
CONSTANTS
  Exposed = {"sta", "go", "gc"}
  ApMode = TRUE
  Default = "sta"
  Budget = 1
INVARIANT RunsExposed
