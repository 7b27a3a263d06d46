SPECIFICATION Spec
CONSTANTS
  Exposed = {"go", "gc"}
  ApMode = TRUE
  Default = "go"
  Budget = 1
INVARIANT PressesExposed
