------------------------------ MODULE Versions ------------------------------
(***************************************************************************)
(* Gentoo package versions and their order (atom.go: ParseVersion,         *)
(* Version.Compare, parseVersionParts).                                    *)
(*                                                                         *)
(* A text of digits is a numeral: how many digits it has and their value.  *)
(* Two numerals are equal when the texts are; a leading zero shows in a    *)
(* value too small for the width; width 0 is no text at all.  A version    *)
(* is the list of its parts, and two are equal when their texts are.       *)
(***************************************************************************)
EXTENDS Integers, Sequences

CONSTANTS
  MaxWidth,  \* no text of digits is longer (bound of the model)
  Power,     \* Power[n]: ten to the n
  MaxInt     \* the largest int: a revision above it is not parsed

ASSUME VersionAssumption ==
  /\ MaxWidth \in Nat \ {0} /\ MaxInt \in Nat
  /\ Power \in [0..MaxWidth -> Nat \ {0}] /\ Power[0] = 1
  /\ \A m, n \in 0..MaxWidth : m + n <= MaxWidth => Power[m + n] = Power[m] * Power[n]

NumeralSet == {n \in [width : 0..MaxWidth, value : Nat] : n.value < Power[n.width]}
Empty == [width |-> 0, value |-> 0]
Zero == [width |-> 1, value |-> 0]

\* suffixRank: alpha, beta, pre, rc, none, p
RankSet == -4..1
SuffixSet == [rank : RankSet, number : NumeralSet]
NoSuffix == [rank |-> 0, number |-> Zero]

\* What atomVersionPattern accepts.  Letter 0 is none.
VersionSet ==
  {v \in [numbers : Seq(NumeralSet), letter : 0..26, suffixes : Seq(SuffixSet),
          revision : NumeralSet] :
     /\ v.numbers # <<>>
     /\ \A i \in DOMAIN v.numbers : v.numbers[i].width > 0
     /\ \A i \in DOMAIN v.suffixes : v.suffixes[i].rank # 0}

\* The error of ParseVersion: strconv.Atoi overflows.
Parses(v) == v.revision.value <= MaxInt

-----------------------------------------------------------------------------
(* Compare.  The sign of a comparison is -1, 0 or 1.                       *)

\* compareInt, compareNumeric
Sign(x, y) == IF x < y THEN -1 ELSE IF x > y THEN 1 ELSE 0

\* The first of several signs that is not zero decides.
Decisive[signs \in Seq({-1, 0, 1})] ==
  IF \E i \in DOMAIN signs : signs[i] # 0
    THEN signs[CHOOSE i \in DOMAIN signs :
                 signs[i] # 0 /\ \A j \in DOMAIN signs : j < i => signs[j] = 0]
    ELSE 0

\* HasPrefix(a, "0")
LeadingZero(n) == n.value < Power[n.width - 1]

Longer(m, n) == IF m > n THEN m ELSE n

\* n with zeros appended to width w
Padded(n, w) == n.value * Power[w - n.width]

\* Defect: both must have a leading zero.
PadsAtBoth(i, a, b) == i > 1 /\ (LeadingZero(a) /\ LeadingZero(b))

\* Components after the first are fractions when either has a leading zero.
PadsAt(i, a, b) == i > 1 /\ (LeadingZero(a) \/ LeadingZero(b))

CompareNumber(i, a, b) ==
  IF PadsAt(i, a, b)
    THEN Sign(Padded(a, Longer(a.width, b.width)), Padded(b, Longer(a.width, b.width)))
    ELSE Sign(a.value, b.value)

NumberAt(v, i) == IF i <= Len(v.numbers) THEN v.numbers[i] ELSE Zero

NumberSigns(a, b) ==
  [i \in 1..Longer(Len(a.numbers), Len(b.numbers)) |->
     CompareNumber(i, NumberAt(a, i), NumberAt(b, i))]

SuffixAt(v, i) == IF i <= Len(v.suffixes) THEN v.suffixes[i] ELSE NoSuffix

CompareSuffix(s, t) == Decisive[<<Sign(s.rank, t.rank), Sign(s.number.value, t.number.value)>>]

SuffixSigns(a, b) ==
  [i \in 1..Longer(Len(a.suffixes), Len(b.suffixes)) |->
     CompareSuffix(SuffixAt(a, i), SuffixAt(b, i))]

Stages(a, b) ==
  << Decisive[NumberSigns(a, b)],
     Sign(Len(a.numbers), Len(b.numbers)),
     Sign(a.letter, b.letter),
     Decisive[SuffixSigns(a, b)],
     Sign(a.revision.value, b.revision.value) >>

\* A version that does not parse is a nil pointer, which comes first.
Compare(a, b) ==
  IF Parses(a) /\ Parses(b) THEN Decisive[Stages(a, b)]
  ELSE IF Parses(b) THEN -1
  ELSE IF Parses(a) THEN 1
  ELSE 0

-----------------------------------------------------------------------------
(* Texts                                                                   *)

\* The text without its revision: Version.base
SameBase(a, b) ==
  a.numbers = b.numbers /\ a.letter = b.letter /\ a.suffixes = b.suffixes
=============================================================================
