---------------------------- MODULE MCKernelScan ----------------------------
(***************************************************************************)
(* Instances of KernelScan: one USE flag, one test that the context        *)
(* answers, one that the parser refuses.                                   *)
(***************************************************************************)
EXTENDS KernelScan

MCUseTests == [flag : Flags, enabled : BOOLEAN]
MCTests == {target("m"), either(use([flag |-> "a", enabled |-> TRUE]), target("m")), opaque("x")}

\* Plain arrays of two and three values, and one with keys; loops of up to two are expanded.
MCArrays ==
  {[keys |-> {}, values |-> {3, 4}], [keys |-> {}, values |-> {3, 4, 5}],
   [keys |-> {3, 4}, values |-> {5}]}

\* Dialect has literal values, AnyDialect the forms it is given.
AnyDialect(forms, functions, depth, lines) ==
  [forms |-> forms, functions |-> functions, depth |-> depth, lines |-> lines, eclassFirst |-> TRUE]
Dialect(forms, functions, depth, lines) == AnyDialect(forms \cup {"static"}, functions, depth, lines)

\* Each dialect mixes the forms that have to do with one another.
MCDialects ==
  {Dialect({"top", "ifUse", "else", "block", "+="}, {}, 2, 6),
   Dialect({"top", "if", "elif", "else", "+="}, {}, 1, 6),
   Dialect({"check", "=", "+=", "ifUse"}, {"pkg_setup"}, 1, 7),
   Dialect({"check", "=", "self", "guarded"}, {"pkg_setup"}, 0, 5),
   Dialect({"check", "=", "dynamic", "unmatched", "warning", "if"}, {"pkg_setup"}, 1, 6),
   Dialect({"call", "check"}, {"pkg_setup", "helper", "deep"}, 0, 9),
   Dialect({"top", "check", "+="}, {"pkg_setup", "exported_pkg_setup"}, 0, 7),
   Dialect({"top", "check", "local", "+="}, {"pkg_setup", "helper"}, 0, 8),
   AnyDialect({"top", "array", "loop", "each", "ifUse", "+="}, {}, 2, 6),
   Dialect({"top", "array", "loop", "each", "+="}, {}, 1, 5),
   AnyDialect({"top", "array", "emptyArray", "loop", "each", "+="}, {}, 1, 4),
   AnyDialect({"array", "loop", "each", "check", "+="}, {"pkg_setup"}, 1, 7),
   AnyDialect({"dynamicArray", "loop", "each", "check", "+="}, {"pkg_setup"}, 1, 7),
   Dialect({"top", "dynamicArray", "loop", "each", "+=", "missing"}, {}, 1, 4),
   Dialect({"top", "eclass", "check", "=", "+="}, {"pkg_setup"}, 0, 5)}

\* They are such ebuilds as the theorems are about.
ASSUME MCAssumption == \A d \in MCDialects : LoopsUnderstood(d) /\ ConditionsUnmixed(d) /\ ValuesUnderstood(d)

\* a test that is no "use flag" inside a block of one that is
NestedElse == {Dialect({"top", "ifUse", "if", "else", "+="}, {}, 2, 6)}

\* a bare local followed by any assignments
LocalAssignments == {Dialect({"check", "local", "=", "+="}, {"pkg_setup"}, 0, 6)}
=============================================================================
