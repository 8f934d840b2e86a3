-------------------------------- MODULE Atoms --------------------------------
(***************************************************************************)
(* Package atoms and what they match (atom.go: Atom.Matches,               *)
(* parseUseDependencies).  Names of packages, slots and repositories are   *)
(* numbers; 0 is the empty string, a part that an atom does not give.      *)
(***************************************************************************)
EXTENDS Versions, SequencesExt

CONSTANT Flags  \* USE flags

(***************************************************************************)
(* The text of a version, for the prefix that =* asks for.  Digits are     *)
(* themselves, 10 is the dot, 11 to 36 are letters; _pre begins as _p      *)
(* does, no other two words begin alike.                                   *)
(***************************************************************************)
Dot == <<10>>
Word(rank) == CASE rank = -4 -> <<41>> [] rank = -3 -> <<42>> [] rank = -2 -> <<43, 44>>
                [] rank = -1 -> <<45>> [] rank = 1 -> <<43>>
Digits(n) == [k \in 1..n.width |-> (n.value \div Power[n.width - k]) % 10]

Text(v) ==
  FlattenSeq([i \in DOMAIN v.numbers |-> (IF i = 1 THEN <<>> ELSE Dot) \o Digits(v.numbers[i])])
  \o (IF v.letter = 0 THEN <<>> ELSE <<10 + v.letter>>)
  \o FlattenSeq([i \in DOMAIN v.suffixes |-> Word(v.suffixes[i].rank) \o Digits(v.suffixes[i].number)])
  \o (IF v.revision = Empty THEN <<>> ELSE <<46>> \o Digits(v.revision))

-----------------------------------------------------------------------------
(* USE dependencies                                                        *)

DependencySet ==
  [name : Flags, enabled : BOOLEAN, conditional : BOOLEAN, equal : BOOLEAN, negated : BOOLEAN,
   default : {"none", "on", "off"}]

\* What parseUseDependencies accepts: x, -x, x?, !x?, x=, !x=, each with a default
\* or without, and no flag twice.
ValidDependency(d) ==
  /\ ~(d.conditional /\ d.equal)
  /\ ~d.enabled => ~d.negated /\ ~d.conditional /\ ~d.equal
  /\ d.negated => d.conditional \/ d.equal

ValidDependencies(deps) ==
  /\ deps \subseteq DependencySet
  /\ \A d \in deps : ValidDependency(d) /\ \A e \in deps : e.name = d.name => e = d

UseStateSet == [enabled : SUBSET Flags, declared : SUBSET Flags, caller : SUBSET Flags]

Target(d, use) == IF d.name \in use.declared THEN d.name \in use.enabled ELSE d.default = "on"

\* Defect: the caller's flag is not inverted.
RequiredAsCaller(d, use) ==
  IF d.conditional \/ d.equal THEN d.name \in use.caller ELSE d.enabled

Required(d, use) ==
  IF d.conditional \/ d.equal THEN (d.name \in use.caller) # d.negated ELSE d.enabled

\* Neither declared nor given a default: no match, conditional or not.
DependencyMet(d, use) ==
  /\ d.name \in use.declared \/ d.default # "none"
  /\ \/ d.conditional /\ ~Required(d, use)
     \/ Target(d, use) = Required(d, use)

-----------------------------------------------------------------------------
(* Matches                                                                 *)

Operators == {"<", "<=", "=", "=*", "~", ">=", ">"}

\* Defect: < is taken for <=.
VersionMatchesInclusive(op, candidate, version) ==
  CASE op = "="  -> Compare(candidate, version) = 0
    [] op \in {"<", "<="} -> Compare(candidate, version) <= 0
    [] op = ">"  -> Compare(candidate, version) > 0
    [] op = ">=" -> Compare(candidate, version) >= 0
    [] op = "~"  -> SameBase(candidate, version)
    [] op = "=*" -> IsPrefix(Text(version), Text(candidate))

VersionMatches(op, candidate, version) ==
  CASE op = "="  -> Compare(candidate, version) = 0
    [] op = "<"  -> Compare(candidate, version) < 0
    [] op = "<=" -> Compare(candidate, version) <= 0
    [] op = ">"  -> Compare(candidate, version) > 0
    [] op = ">=" -> Compare(candidate, version) >= 0
    [] op = "~"  -> SameBase(candidate, version)
    [] op = "=*" -> IsPrefix(Text(version), Text(candidate))

Fits(wanted, actual) == wanted = 0 \/ wanted = actual

\* "any" is an atom without a version, "bare" one with a version and no operator.
Matches(atom, id, use) ==
  IF ~(/\ atom.cp = id.cp
       /\ Fits(atom.repository, id.repository)
       /\ Fits(atom.slot, id.slot) /\ Fits(atom.subslot, id.subslot))
    THEN "no"
  ELSE IF atom.op # "any" /\ (~Parses(id.version) \/ atom.op = "bare") THEN "error"
  ELSE IF atom.op # "any" /\ ~VersionMatches(atom.op, id.version, atom.version) THEN "no"
  ELSE IF \A d \in atom.use : DependencyMet(d, use) THEN "yes" ELSE "no"
=============================================================================
