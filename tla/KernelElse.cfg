SPECIFICATION Spec
CONSTANTS
  Flags = {"a"}
  Predicates = {"m"}
  Opaque = {"x"}
  UseTests <- MCUseTests
  Tests <- MCTests
  Functions = {"pkg_setup", "helper", "deep", "exported_pkg_setup"}
  Exported = {"exported_pkg_setup"}
  Phase = "pkg_setup"
  Arrays <- MCArrays
  LoopLimit = 2
  Dialects <- NestedElse
INVARIANTS ActiveIsKept
