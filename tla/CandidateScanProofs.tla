-------------------------- MODULE CandidateScanProofs --------------------------
(***************************************************************************)
(* Proofs about CandidateScan: candidates stand where their rank puts them *)
(* and carry one text of their file, what does not change is answered as   *)
(* it is, and atoms agree with the order, for any number of files and      *)
(* workers and whatever changes meanwhile.                                 *)
(*                                                                         *)
(* The order of versions (Version.Compare, atom.go) is a total preorder,   *)
(* for versions of any number of components and suffixes.  The comparison  *)
(* is a list of signs of which the first that is not zero decides, and     *)
(* lists of such lists.  Lists that chain place by place chain when        *)
(* decided (Lexicographic); a component with a leading zero is below all   *)
(* without one, and within each kind padding keeps the order               *)
(* (NumbersChain).                                                         *)
(***************************************************************************)
EXTENDS CandidateScan, WellFoundedInduction, FiniteSetTheorems, SequenceTheorems, TLAPS

-----------------------------------------------------------------------------
(* Versions                                                                *)

Signs == {-1, 0, 1}

\* If p and q say "at most", so does r, and "equal" only if both do.
Chain(p, q, r) == p <= 0 /\ q <= 0 => r <= 0 /\ (r = 0 <=> p = 0 /\ q = 0)

\* The sign at a place, 0 beyond the end.
At(s, i) == IF i \in DOMAIN s THEN s[i] ELSE 0

\* Every nonempty set of numbers has a least.
LEMMA LeastNumber ==
  ASSUME NEW T, T \subseteq Nat, T # {}
  PROVE  \E x \in T : \A y \in T : x <= y
<1>1. PICK x \in T : \A y \in T : <<y, x>> \notin OpToRel(<, Nat)
  BY WFMin, NatLessThanWellFounded
<1>2. \A y \in T : ~(y < x)
  BY <1>1 DEF OpToRel
<1>. QED BY <1>2

\* What Decisive returns: the first sign that is not zero, or zero.
LEMMA DecisiveIsFirst ==
  ASSUME NEW s \in Seq(Signs)
  PROVE  \/ (\A i \in DOMAIN s : s[i] = 0) /\ Decisive[s] = 0
         \/ \E k \in DOMAIN s : /\ s[k] # 0 /\ Decisive[s] = s[k]
                                /\ \A j \in DOMAIN s : j < k => s[j] = 0
<1>. DEFINE First(k) == s[k] # 0 /\ \A j \in DOMAIN s : j < k => s[j] = 0
<1>1. Decisive[s] = IF \E i \in DOMAIN s : s[i] # 0
                      THEN s[CHOOSE k \in DOMAIN s : First(k)] ELSE 0
  BY DEF Decisive, Signs
<1>2. CASE \A i \in DOMAIN s : s[i] = 0
  BY <1>1, <1>2
<1>3. CASE \E i \in DOMAIN s : s[i] # 0
  <2>. DEFINE T == {i \in DOMAIN s : s[i] # 0}
  <2>1. T \subseteq Nat /\ T # {}
    BY <1>3
  <2>2. PICK k \in T : \A y \in T : k <= y
    BY <2>1, LeastNumber
  <2>3. k \in DOMAIN s /\ First(k)
    <3>1. ASSUME NEW j \in DOMAIN s, j < k PROVE s[j] = 0
      BY <2>1, <2>2, <3>1
    <3>. QED BY <2>2, <3>1
  <2>4. (CHOOSE m \in DOMAIN s : First(m)) \in DOMAIN s /\ First(CHOOSE m \in DOMAIN s : First(m))
    BY <2>3
  <2>. QED BY <1>1, <1>3, <2>4
<1>. QED BY <1>2, <1>3

\* The first sign that is not zero is a sign.
LEMMA DecisiveIsSign ==
  ASSUME NEW s \in Seq(Signs)
  PROVE  Decisive[s] \in Signs
BY DecisiveIsFirst DEF Signs

(***************************************************************************)
(* Lists of signs that chain place by place chain when they are decided.   *)
(***************************************************************************)
LEMMA Lexicographic ==
  ASSUME NEW x \in Seq(Signs), NEW y \in Seq(Signs), NEW z \in Seq(Signs),
         \A i \in Nat \ {0} : Chain(At(x, i), At(y, i), At(z, i))
  PROVE  Chain(Decisive[x], Decisive[y], Decisive[z])
<1>1. \A s \in Seq(Signs) : DOMAIN s \subseteq Nat \ {0} /\ \A i \in Nat \ {0} : At(s, i) \in Signs
  BY DEF At, Signs
<1>. DEFINE T == {i \in Nat \ {0} : At(x, i) # 0 \/ At(y, i) # 0}
<1>. SUFFICES ASSUME Decisive[x] <= 0, Decisive[y] <= 0
              PROVE  Decisive[z] <= 0 /\ (Decisive[z] = 0 <=> Decisive[x] = 0 /\ Decisive[y] = 0)
  BY DEF Chain
<1>2. CASE T = {}
  <2>1. \A i \in Nat \ {0} : At(x, i) = 0 /\ At(y, i) = 0 /\ At(z, i) = 0
    BY <1>1, <1>2 DEF Chain
  <2>2. ASSUME NEW s \in {x, y, z} PROVE Decisive[s] = 0
    BY <2>1, <1>1, DecisiveIsFirst DEF At
  <2>. QED BY <2>2
<1>3. CASE T # {}
  <2>1. PICK k \in T : \A i \in T : k <= i
    <3>. HIDE DEF T
    <3>1. T \subseteq Nat
      BY DEF T
    <3>. QED BY <3>1, <1>3, LeastNumber
  <2>2. \A j \in Nat \ {0} : j < k => At(x, j) = 0 /\ At(y, j) = 0 /\ At(z, j) = 0
    <3>1. ASSUME NEW j \in Nat \ {0}, j < k PROVE At(x, j) = 0 /\ At(y, j) = 0
      BY <2>1, <3>1
    <3>2. ASSUME NEW j \in Nat \ {0}, j < k PROVE At(z, j) = 0
      BY <3>1, <3>2, <1>1 DEF Chain
    <3>. QED BY <3>1, <3>2
  <2>3. ASSUME NEW s \in {x, y, z}, At(s, k) # 0 PROVE Decisive[s] = At(s, k)
    <3>1. k \in DOMAIN s /\ s[k] # 0
      BY <2>3 DEF At
    <3>2. \A j \in DOMAIN s : j < k => s[j] = 0
      BY <1>1, <2>2 DEF At
    <3>3. PICK m \in DOMAIN s : s[m] # 0 /\ Decisive[s] = s[m] /\ \A j \in DOMAIN s : j < m => s[j] = 0
      BY <3>1, DecisiveIsFirst
    <3>4. m = k
      BY <1>1, <3>1, <3>2, <3>3
    <3>. QED BY <3>1, <3>3, <3>4 DEF At
  <2>4. At(x, k) \in Signs /\ At(y, k) \in Signs /\ At(z, k) \in Signs
    BY <1>1
  <2>5. At(x, k) <= 0 /\ At(y, k) <= 0
    BY <2>3, <2>4
  <2>6. At(x, k) # 0 \/ At(y, k) # 0
    BY <2>1
  <2>7. At(z, k) <= 0 /\ At(z, k) # 0
    BY <2>4, <2>5, <2>6 DEF Chain
  <2>8. Decisive[z] = At(z, k)
    BY <2>3, <2>7
  <2>9. Decisive[x] # 0 \/ Decisive[y] # 0
    BY <2>3, <2>6
  <2>. QED BY <2>7, <2>8, <2>9
<1>. QED BY <1>2, <1>3

(***************************************************************************)
(* A list whose signs are all opposite is decided the opposite way.        *)
(***************************************************************************)
LEMMA Opposite ==
  ASSUME NEW x \in Seq(Signs), NEW y \in Seq(Signs), Len(x) = Len(y),
         \A i \in DOMAIN x : y[i] = -x[i]
  PROVE  Decisive[y] = -Decisive[x]
<1>1. DOMAIN x = DOMAIN y /\ \A i \in DOMAIN x : x[i] \in Signs
  OBVIOUS
<1>2. CASE \A i \in DOMAIN x : x[i] = 0
  <2>1. \A i \in DOMAIN y : y[i] = 0
    BY <1>1, <1>2
  <2>. QED BY <1>2, <2>1, DecisiveIsFirst
<1>3. CASE \E i \in DOMAIN x : x[i] # 0
  <2>1. PICK k \in DOMAIN x : x[k] # 0 /\ Decisive[x] = x[k] /\ \A j \in DOMAIN x : j < k => x[j] = 0
    BY <1>3, DecisiveIsFirst
  <2>2. y[k] # 0
    BY <1>1, <2>1 DEF Signs
  <2>3. PICK m \in DOMAIN y : y[m] # 0 /\ Decisive[y] = y[m] /\ \A j \in DOMAIN y : j < m => y[j] = 0
    BY <1>1, <2>2, DecisiveIsFirst
  <2>4. x[m] # 0
    BY <1>1, <2>3 DEF Signs
  <2>5. m = k
    BY <1>1, <2>1, <2>2, <2>3, <2>4
  <2>. QED BY <2>1, <2>3, <2>5
<1>. QED BY <1>2, <1>3

-----------------------------------------------------------------------------
(* Numerals                                                                *)

\* What NumberAt and the parts of a version are.
Number == {n \in NumeralSet : n.width > 0}

\* What the assumption says of the powers of ten.
LEMMA PowerFacts ==
  /\ MaxWidth \in Nat \ {0}
  /\ \A n \in 0..MaxWidth : Power[n] \in Nat \ {0}
  /\ Power[0] = 1
  /\ \A m, n \in 0..MaxWidth : m + n <= MaxWidth => Power[m + n] = Power[m] * Power[n]
BY VersionAssumption DEF VersionAssumption

\* Sign is antisymmetric, and zero for equals only.
LEMMA SignFacts ==
  ASSUME NEW x \in Int, NEW y \in Int
  PROVE  /\ Sign(x, y) \in Signs /\ Sign(y, x) = -Sign(x, y)
         /\ Sign(x, y) <= 0 <=> x <= y
         /\ Sign(x, y) = 0 <=> x = y
BY DEF Sign, Signs

\* Integers chain.
LEMMA SignsChain ==
  ASSUME NEW x \in Int, NEW y \in Int, NEW z \in Int
  PROVE  Chain(Sign(x, y), Sign(y, z), Sign(x, z))
BY DEF Sign, Chain

\* Factors that are not zero keep an order.
LEMMA FactorKeepsOrder ==
  ASSUME NEW x \in Nat, NEW y \in Nat, NEW p \in Nat \ {0}
  PROVE  x < y <=> x * p < y * p
<1>1. ASSUME NEW m \in Nat, NEW n \in Nat, m < n PROVE m * p < n * p
  <2>1. PICK d \in Nat \ {0} : n = m + d
    <3>1. n - m \in Nat \ {0} /\ n = m + (n - m)
      BY <1>1
    <3>. QED BY <3>1
  <2>2. d * p >= p
    BY SMT
  <2>3. n * p = m * p + d * p
    BY <2>1, SMT
  <2>4. m * p \in Nat /\ d * p \in Nat
    BY SMT
  <2>. QED BY <2>2, <2>3, <2>4
<1>2. CASE x < y
  BY <1>1, <1>2
<1>3. CASE y < x
  <2>1. y * p < x * p
    BY <1>1, <1>3
  <2>. QED BY <1>3, <2>1
<1>4. CASE x = y
  BY <1>4
<1>. QED BY <1>2, <1>3, <1>4

\* A numeral as a fraction of the greatest width.
Full(n) == Padded(n, MaxWidth)

\* The value of a numeral is less than ten to its width, and a full one is a number.
LEMMA NumeralFacts ==
  ASSUME NEW n \in Number
  PROVE  /\ n.width \in 1..MaxWidth /\ n.value \in Nat /\ n.value < Power[n.width]
         /\ Full(n) \in Nat
<1>1. n.width \in 0..MaxWidth /\ n.width > 0 /\ n.value \in Nat /\ n.value < Power[n.width]
  BY DEF Number, NumeralSet
<1>2. n.width \in 1..MaxWidth /\ MaxWidth - n.width \in 0..MaxWidth
  BY <1>1, PowerFacts
<1>3. Power[MaxWidth - n.width] \in Nat
  BY <1>2, PowerFacts
<1>4. n.value * Power[MaxWidth - n.width] \in Nat
  BY <1>1, <1>3, SMT
<1>. QED BY <1>1, <1>2, <1>4 DEF Full, Padded

\* Padding to any width that is enough for both compares as fractions do.
LEMMA PaddingIsFraction ==
  ASSUME NEW a \in Number, NEW b \in Number
  PROVE  Sign(Padded(a, Longer(a.width, b.width)), Padded(b, Longer(a.width, b.width)))
           = Sign(Full(a), Full(b))
<1>. DEFINE w == Longer(a.width, b.width)
            p == Power[MaxWidth - w]
<1>1. w \in 1..MaxWidth /\ a.width <= w /\ b.width <= w
  BY NumeralFacts DEF Longer
<1>. HIDE DEF w
<1>2. p \in Nat \ {0}
  BY <1>1, PowerFacts
<1>3. ASSUME NEW n \in {a, b} PROVE Padded(n, w) \in Nat /\ Full(n) = Padded(n, w) * p
  <2>1. n.width \in 1..w /\ n.value \in Nat
    BY <1>1, NumeralFacts
  <2>2. Power[(w - n.width) + (MaxWidth - w)] = Power[w - n.width] * Power[MaxWidth - w]
    BY <1>1, <2>1, PowerFacts
  <2>3. (w - n.width) + (MaxWidth - w) = MaxWidth - n.width
    BY <1>1, <2>1, PowerFacts
  <2>4. Power[w - n.width] \in Nat
    BY <1>1, <2>1, PowerFacts
  <2>. HIDE DEF p
  <2>5. Power[MaxWidth - n.width] = Power[w - n.width] * p
    BY <2>2, <2>3 DEF p
  <2>6. n.value * (Power[w - n.width] * p) = (n.value * Power[w - n.width]) * p
    BY <1>2, <2>1, <2>4, SMT
  <2>. QED BY <2>1, <2>4, <2>5, <2>6 DEF Full, Padded
<1>. HIDE DEF p
<1>4. Padded(a, w) < Padded(b, w) <=> Full(a) < Full(b)
  BY <1>2, <1>3, FactorKeepsOrder
<1>5. Padded(b, w) < Padded(a, w) <=> Full(b) < Full(a)
  BY <1>2, <1>3, FactorKeepsOrder
<1>. QED BY <1>4, <1>5 DEF Sign, w

\* A leading zero puts a fraction below every one without.
LEMMA LeadingZeroIsLess ==
  ASSUME NEW a \in Number, NEW b \in Number, LeadingZero(a), ~LeadingZero(b)
  PROVE  Full(a) < Full(b)
<1>1. ASSUME NEW n \in {a, b}
      PROVE  /\ Power[n.width - 1] \in Nat \ {0} /\ Power[MaxWidth - n.width] \in Nat \ {0}
             /\ Power[n.width - 1] * Power[MaxWidth - n.width] = Power[MaxWidth - 1]
  <2>1. n.width - 1 \in 0..MaxWidth /\ MaxWidth - n.width \in 0..MaxWidth
    BY NumeralFacts, PowerFacts
  <2>2. (n.width - 1) + (MaxWidth - n.width) = MaxWidth - 1
    BY NumeralFacts, PowerFacts
  <2>3. MaxWidth - 1 <= MaxWidth
    BY PowerFacts
  <2>. QED BY <2>1, <2>2, <2>3, PowerFacts
<1>2. Full(a) < Power[MaxWidth - 1]
  <2>1. a.value \in Nat /\ a.value < Power[a.width - 1]
    BY NumeralFacts DEF LeadingZero
  <2>2. a.value * Power[MaxWidth - a.width] < Power[a.width - 1] * Power[MaxWidth - a.width]
    BY <1>1, <2>1, FactorKeepsOrder
  <2>. QED BY <1>1, <2>2 DEF Full, Padded
<1>3. ~(Full(b) < Power[MaxWidth - 1])
  <2>1. b.value \in Nat /\ ~(b.value < Power[b.width - 1])
    BY NumeralFacts DEF LeadingZero
  <2>2. ~(b.value * Power[MaxWidth - b.width] < Power[b.width - 1] * Power[MaxWidth - b.width])
    BY <1>1, <2>1, FactorKeepsOrder
  <2>. QED BY <1>1, <2>2 DEF Full, Padded
<1>4. Power[MaxWidth - 1] \in Nat
  BY PowerFacts
<1>. QED BY <1>2, <1>3, <1>4, NumeralFacts

\* A component is compared as a fraction or as a number.
LEMMA NumberSign ==
  ASSUME NEW i \in Nat \ {0}, NEW a \in Number, NEW b \in Number
  PROVE  CompareNumber(i, a, b) =
           IF i > 1 /\ (LeadingZero(a) \/ LeadingZero(b))
             THEN Sign(Full(a), Full(b)) ELSE Sign(a.value, b.value)
BY PaddingIsFraction DEF CompareNumber, PadsAt

\* Comparing two components is antisymmetric.
LEMMA NumberSignFacts ==
  ASSUME NEW i \in Nat \ {0}, NEW a \in Number, NEW b \in Number
  PROVE  /\ CompareNumber(i, a, b) \in Signs
         /\ CompareNumber(i, b, a) = -CompareNumber(i, a, b)
<1>1. Full(a) \in Int /\ Full(b) \in Int /\ a.value \in Int /\ b.value \in Int
  BY NumeralFacts
<1>2. /\ Sign(Full(a), Full(b)) \in Signs /\ Sign(Full(b), Full(a)) = -Sign(Full(a), Full(b))
      /\ Sign(a.value, b.value) \in Signs /\ Sign(b.value, a.value) = -Sign(a.value, b.value)
  BY <1>1, SignFacts
<1>. QED BY <1>2, NumberSign

(***************************************************************************)
(* Components chain at every place, with leading zeros or without.         *)
(***************************************************************************)
LEMMA NumbersChain ==
  ASSUME NEW i \in Nat \ {0}, NEW a \in Number, NEW b \in Number, NEW c \in Number
  PROVE  Chain(CompareNumber(i, a, b), CompareNumber(i, b, c), CompareNumber(i, a, c))
<1>1. \A n \in {a, b, c} : Full(n) \in Int /\ n.value \in Int
  BY NumeralFacts
<1>2. \A m, n \in {a, b, c} : LeadingZero(m) /\ ~LeadingZero(n) => Full(m) < Full(n)
  BY LeadingZeroIsLess
<1>3. \A m, n \in {a, b, c} :
        CompareNumber(i, m, n) =
          IF i > 1 /\ (LeadingZero(m) \/ LeadingZero(n))
            THEN Sign(Full(m), Full(n)) ELSE Sign(m.value, n.value)
  BY NumberSign
<1>4. CASE ~(i > 1) \/ (~LeadingZero(a) /\ ~LeadingZero(b) /\ ~LeadingZero(c))
  BY <1>1, <1>3, <1>4, SignsChain
<1>5. CASE i > 1 /\ LeadingZero(a)
  <2>1. CASE LeadingZero(b) \/ LeadingZero(c)
    BY <1>1, <1>3, <1>5, <2>1, SignsChain
  <2>2. CASE ~LeadingZero(b) /\ ~LeadingZero(c)
    <3>1. CompareNumber(i, a, b) = -1 /\ CompareNumber(i, a, c) = -1
      BY <1>1, <1>2, <1>3, <1>5, <2>2 DEF Sign
    <3>. QED BY <3>1 DEF Chain
  <2>. QED BY <2>1, <2>2
<1>6. CASE i > 1 /\ ~LeadingZero(a) /\ LeadingZero(b)
  <2>1. CompareNumber(i, a, b) = 1
    BY <1>1, <1>2, <1>3, <1>6 DEF Sign
  <2>. QED BY <2>1 DEF Chain
<1>7. CASE i > 1 /\ ~LeadingZero(a) /\ ~LeadingZero(b) /\ LeadingZero(c)
  <2>1. CompareNumber(i, b, c) = 1
    BY <1>1, <1>2, <1>3, <1>7 DEF Sign
  <2>. QED BY <2>1 DEF Chain
<1>. QED BY <1>4, <1>5, <1>6, <1>7

-----------------------------------------------------------------------------
(* Versions                                                                *)

\* The parts of a version, and its places beyond the last.
LEMMA PartFacts ==
  ASSUME NEW v \in VersionSet
  PROVE  /\ v.numbers \in Seq(NumeralSet) /\ v.suffixes \in Seq(SuffixSet)
         /\ Len(v.numbers) \in Nat /\ Len(v.suffixes) \in Nat
         /\ v.letter \in Int /\ v.revision.value \in Int
         /\ \A i \in Nat \ {0} : NumberAt(v, i) \in Number
         /\ \A i \in Nat \ {0} : SuffixAt(v, i) \in SuffixSet
<1>1. /\ v.numbers \in Seq(NumeralSet) /\ v.suffixes \in Seq(SuffixSet)
      /\ v.letter \in Int /\ v.revision \in NumeralSet
      /\ \A i \in DOMAIN v.numbers : v.numbers[i].width > 0
  <2>1. v \in [numbers : Seq(NumeralSet), letter : 0..26, suffixes : Seq(SuffixSet),
               revision : NumeralSet]
    BY Zenon DEF VersionSet
  <2>2. \A i \in DOMAIN v.numbers : v.numbers[i].width > 0
    BY Zenon DEF VersionSet
  <2>3. v.letter \in 0..26
    BY <2>1
  <2>4. v.numbers \in Seq(NumeralSet) /\ v.suffixes \in Seq(SuffixSet) /\ v.revision \in NumeralSet
    BY <2>1
  <2>5. v.letter \in Int
    BY <2>3
  <2>. QED BY <2>2, <2>4, <2>5
<1>2. v.revision.value \in Int
  BY <1>1 DEF NumeralSet
<1>3. Zero \in Number
  BY PowerFacts DEF Zero, Number, NumeralSet
<1>4. NoSuffix \in SuffixSet
  BY <1>3 DEF NoSuffix, SuffixSet, RankSet, Number
<1>5. \A i \in Nat \ {0} : NumberAt(v, i) \in Number
  BY <1>1, <1>3 DEF NumberAt, Number
<1>6. \A i \in Nat \ {0} : SuffixAt(v, i) \in SuffixSet
  BY <1>1, <1>4 DEF SuffixAt
<1>. QED BY <1>1, <1>2, <1>5, <1>6

\* Beyond the end of two versions their components are equal.
LEMMA NumberPlaces ==
  ASSUME NEW a \in VersionSet, NEW b \in VersionSet
  PROVE  /\ NumberSigns(a, b) \in Seq(Signs)
         /\ \A i \in Nat \ {0} :
              At(NumberSigns(a, b), i) = CompareNumber(i, NumberAt(a, i), NumberAt(b, i))
<1>. DEFINE top == Longer(Len(a.numbers), Len(b.numbers))
<1>1. top \in Nat /\ Len(a.numbers) <= top /\ Len(b.numbers) <= top
  BY PartFacts DEF Longer
<1>. HIDE DEF top
<1>2. NumberSigns(a, b) =
        [i \in 1..top |-> CompareNumber(i, NumberAt(a, i), NumberAt(b, i))]
  BY DEF NumberSigns, top
<1>3. \A i \in 1..top : CompareNumber(i, NumberAt(a, i), NumberAt(b, i)) \in Signs
  BY <1>1, PartFacts, NumberSignFacts
<1>4. NumberSigns(a, b) \in [1..top -> Signs]
  BY <1>2, <1>3
<1>5. ASSUME NEW i \in Nat \ {0} PROVE At(NumberSigns(a, b), i) = CompareNumber(i, NumberAt(a, i), NumberAt(b, i))
  <2>1. CASE i \in 1..top
    BY <1>2, <2>1 DEF At
  <2>2. CASE i \notin 1..top
    <3>1. NumberAt(a, i) = Zero /\ NumberAt(b, i) = Zero
      BY <1>1, <2>2, PartFacts DEF NumberAt
    <3>2. Zero \in Number
      BY <3>1, PartFacts
    <3>3. CompareNumber(i, Zero, Zero) = -CompareNumber(i, Zero, Zero) /\ CompareNumber(i, Zero, Zero) \in Signs
      BY <3>2, NumberSignFacts
    <3>4. CompareNumber(i, Zero, Zero) = 0
      BY <3>3 DEF Signs
    <3>. QED BY <1>2, <2>2, <3>1, <3>4 DEF At
  <2>. QED BY <2>1, <2>2
<1>. QED BY <1>1, <1>4, <1>5

\* What is compared of a suffix are numbers.
LEMMA SuffixFacts ==
  ASSUME NEW s \in SuffixSet
  PROVE  s.rank \in Int /\ s.number.value \in Int
BY DEF SuffixSet, RankSet, NumeralSet

\* A suffix is a list of two signs.
SuffixList(s, t) == <<Sign(s.rank, t.rank), Sign(s.number.value, t.number.value)>>

\* Comparing two suffixes is antisymmetric.
LEMMA SuffixSign ==
  ASSUME NEW s \in SuffixSet, NEW t \in SuffixSet
  PROVE  /\ CompareSuffix(s, t) \in Signs
         /\ CompareSuffix(t, s) = -CompareSuffix(s, t)
<1>1. /\ SuffixList(s, t) \in Seq(Signs) /\ SuffixList(t, s) \in Seq(Signs)
      /\ Len(SuffixList(s, t)) = 2 /\ Len(SuffixList(t, s)) = 2
  BY SuffixFacts, SignFacts DEF SuffixList
<1>2. \A i \in 1..2 : SuffixList(t, s)[i] = -SuffixList(s, t)[i]
  BY SuffixFacts, SignFacts DEF SuffixList
<1>3. Decisive[SuffixList(t, s)] = -Decisive[SuffixList(s, t)]
  <2>. HIDE DEF SuffixList
  <2>1. DOMAIN SuffixList(s, t) = 1..2
    BY <1>1
  <2>. QED BY <1>1, <1>2, <2>1, Opposite
<1>. QED BY <1>1, <1>3, DecisiveIsSign DEF CompareSuffix, SuffixList

\* Comparing suffixes is transitive.
LEMMA SuffixChain ==
  ASSUME NEW s \in SuffixSet, NEW t \in SuffixSet, NEW u \in SuffixSet
  PROVE  Chain(CompareSuffix(s, t), CompareSuffix(t, u), CompareSuffix(s, u))
<1>1. \A x, y \in {s, t, u} : SuffixList(x, y) \in Seq(Signs) /\ DOMAIN SuffixList(x, y) = 1..2
  BY SuffixFacts, SignFacts DEF SuffixList
<1>2. Chain(Sign(s.rank, t.rank), Sign(t.rank, u.rank), Sign(s.rank, u.rank))
  BY SuffixFacts, SignsChain
<1>3. Chain(Sign(s.number.value, t.number.value), Sign(t.number.value, u.number.value),
            Sign(s.number.value, u.number.value))
  BY SuffixFacts, SignsChain
<1>4. ASSUME NEW i \in Nat \ {0}
      PROVE  Chain(At(SuffixList(s, t), i), At(SuffixList(t, u), i), At(SuffixList(s, u), i))
  <2>1. CASE i = 1
    BY <1>1, <1>2, <2>1 DEF At, SuffixList
  <2>2. CASE i = 2
    BY <1>1, <1>3, <2>2 DEF At, SuffixList
  <2>3. CASE i \notin 1..2
    BY <1>1, <2>3 DEF At, Chain
  <2>. QED BY <2>1, <2>2, <2>3
<1>5. Chain(Decisive[SuffixList(s, t)], Decisive[SuffixList(t, u)], Decisive[SuffixList(s, u)])
  <2>. HIDE DEF SuffixList
  <2>. QED BY <1>1, <1>4, Lexicographic
<1>. QED BY <1>5 DEF CompareSuffix, SuffixList

\* Beyond the end of two versions neither has a suffix.
LEMMA SuffixPlaces ==
  ASSUME NEW a \in VersionSet, NEW b \in VersionSet
  PROVE  /\ SuffixSigns(a, b) \in Seq(Signs)
         /\ \A i \in Nat \ {0} :
              At(SuffixSigns(a, b), i) = CompareSuffix(SuffixAt(a, i), SuffixAt(b, i))
<1>. DEFINE top == Longer(Len(a.suffixes), Len(b.suffixes))
<1>1. top \in Nat /\ Len(a.suffixes) <= top /\ Len(b.suffixes) <= top
  BY PartFacts DEF Longer
<1>. HIDE DEF top
<1>2. SuffixSigns(a, b) = [i \in 1..top |-> CompareSuffix(SuffixAt(a, i), SuffixAt(b, i))]
  BY DEF SuffixSigns, top
<1>3. \A i \in 1..top : CompareSuffix(SuffixAt(a, i), SuffixAt(b, i)) \in Signs
  BY <1>1, PartFacts, SuffixSign
<1>4. SuffixSigns(a, b) \in [1..top -> Signs]
  BY <1>2, <1>3
<1>5. ASSUME NEW i \in Nat \ {0} PROVE At(SuffixSigns(a, b), i) = CompareSuffix(SuffixAt(a, i), SuffixAt(b, i))
  <2>1. CASE i \in 1..top
    BY <1>2, <2>1 DEF At
  <2>2. CASE i \notin 1..top
    <3>1. SuffixAt(a, i) = NoSuffix /\ SuffixAt(b, i) = NoSuffix
      BY <1>1, <2>2, PartFacts DEF SuffixAt
    <3>2. NoSuffix \in SuffixSet
      BY <3>1, PartFacts
    <3>3. CompareSuffix(NoSuffix, NoSuffix) = -CompareSuffix(NoSuffix, NoSuffix)
          /\ CompareSuffix(NoSuffix, NoSuffix) \in Signs
      BY <3>2, SuffixSign
    <3>4. CompareSuffix(NoSuffix, NoSuffix) = 0
      BY <3>3 DEF Signs
    <3>. QED BY <1>2, <2>2, <3>1, <3>4 DEF At
  <2>. QED BY <2>1, <2>2
<1>. QED BY <1>1, <1>4, <1>5

-----------------------------------------------------------------------------
(* The five stages of the comparison                                       *)

\* The five stages are signs, and opposite when the versions are exchanged.
LEMMA StageFacts ==
  ASSUME NEW a \in VersionSet, NEW b \in VersionSet
  PROVE  /\ Stages(a, b) \in Seq(Signs) /\ DOMAIN Stages(a, b) = 1..5
         /\ \A i \in 1..5 : Stages(b, a)[i] = -Stages(a, b)[i]
<1>. DEFINE x == NumberSigns(a, b)
            y == NumberSigns(b, a)
            s == SuffixSigns(a, b)
            t == SuffixSigns(b, a)
<1>1. x \in Seq(Signs) /\ y \in Seq(Signs) /\ s \in Seq(Signs) /\ t \in Seq(Signs)
  BY NumberPlaces, SuffixPlaces
<1>2. Len(x) = Len(y) /\ Len(s) = Len(t)
  BY PartFacts DEF NumberSigns, SuffixSigns, Longer
<1>3. Decisive[y] = -Decisive[x]
  <2>1. ASSUME NEW i \in DOMAIN x PROVE y[i] = -x[i]
    <3>1. i \in Nat \ {0} /\ i \in DOMAIN y
      BY <1>1, <1>2
    <3>2. x[i] = At(x, i) /\ y[i] = At(y, i)
      BY <3>1 DEF At
    <3>. HIDE DEF x, y
    <3>. QED BY <3>1, <3>2, NumberPlaces, PartFacts, NumberSignFacts DEF x, y
  <2>. HIDE DEF x, y
  <2>. QED BY <1>1, <1>2, <2>1, Opposite
<1>4. Decisive[t] = -Decisive[s]
  <2>1. ASSUME NEW i \in DOMAIN s PROVE t[i] = -s[i]
    <3>1. i \in Nat \ {0} /\ i \in DOMAIN t
      BY <1>1, <1>2
    <3>2. s[i] = At(s, i) /\ t[i] = At(t, i)
      BY <3>1 DEF At
    <3>. HIDE DEF s, t
    <3>. QED BY <3>1, <3>2, SuffixPlaces, PartFacts, SuffixSign DEF s, t
  <2>. HIDE DEF s, t
  <2>. QED BY <1>1, <1>2, <2>1, Opposite
<1>5. Decisive[x] \in Signs /\ Decisive[s] \in Signs
  BY <1>1, DecisiveIsSign
<1>6. /\ Sign(Len(a.numbers), Len(b.numbers)) \in Signs
      /\ Sign(Len(b.numbers), Len(a.numbers)) = -Sign(Len(a.numbers), Len(b.numbers))
  <2>1. Len(a.numbers) \in Nat /\ Len(b.numbers) \in Nat
    BY PartFacts
  <2>. QED BY <2>1, SignFacts
<1>7. /\ Sign(a.letter, b.letter) \in Signs
      /\ Sign(b.letter, a.letter) = -Sign(a.letter, b.letter)
  BY PartFacts, SignFacts
<1>8. /\ Sign(a.revision.value, b.revision.value) \in Signs
      /\ Sign(b.revision.value, a.revision.value) = -Sign(a.revision.value, b.revision.value)
  BY PartFacts, SignFacts
<1>. HIDE DEF x, y, s, t
<1>9. Stages(a, b) = <<Decisive[x], Sign(Len(a.numbers), Len(b.numbers)), Sign(a.letter, b.letter),
                       Decisive[s], Sign(a.revision.value, b.revision.value)>>
  BY DEF Stages, x, s
<1>10. Stages(b, a) = <<Decisive[y], Sign(Len(b.numbers), Len(a.numbers)), Sign(b.letter, a.letter),
                        Decisive[t], Sign(b.revision.value, a.revision.value)>>
  BY DEF Stages, y, t
<1>. QED BY <1>3, <1>4, <1>5, <1>6, <1>7, <1>8, <1>9, <1>10

\* The first stage that decides is transitive in the versions.
LEMMA StagesChain ==
  ASSUME NEW a \in VersionSet, NEW b \in VersionSet, NEW c \in VersionSet
  PROVE  Chain(Decisive[Stages(a, b)], Decisive[Stages(b, c)], Decisive[Stages(a, c)])
<1>1. Chain(Decisive[NumberSigns(a, b)], Decisive[NumberSigns(b, c)], Decisive[NumberSigns(a, c)])
  <2>1. ASSUME NEW i \in Nat \ {0}
        PROVE  Chain(At(NumberSigns(a, b), i), At(NumberSigns(b, c), i), At(NumberSigns(a, c), i))
    BY NumberPlaces, PartFacts, NumbersChain
  <2>. QED BY <2>1, NumberPlaces, Lexicographic
<1>2. Chain(Decisive[SuffixSigns(a, b)], Decisive[SuffixSigns(b, c)], Decisive[SuffixSigns(a, c)])
  <2>1. ASSUME NEW i \in Nat \ {0}
        PROVE  Chain(At(SuffixSigns(a, b), i), At(SuffixSigns(b, c), i), At(SuffixSigns(a, c), i))
    BY SuffixPlaces, PartFacts, SuffixChain
  <2>. QED BY <2>1, SuffixPlaces, Lexicographic
<1>3. Chain(Sign(Len(a.numbers), Len(b.numbers)), Sign(Len(b.numbers), Len(c.numbers)),
            Sign(Len(a.numbers), Len(c.numbers)))
  BY PartFacts, SignsChain
<1>4. Chain(Sign(a.letter, b.letter), Sign(b.letter, c.letter), Sign(a.letter, c.letter))
  BY PartFacts, SignsChain
<1>5. Chain(Sign(a.revision.value, b.revision.value), Sign(b.revision.value, c.revision.value),
            Sign(a.revision.value, c.revision.value))
  BY PartFacts, SignsChain
<1>6. \A i \in 1..5 : Chain(Stages(a, b)[i], Stages(b, c)[i], Stages(a, c)[i])
  <2>1. \A i \in 1..5 : i \in {1, 2, 3, 4, 5}
    OBVIOUS
  <2>. QED BY <1>1, <1>2, <1>3, <1>4, <1>5, <2>1 DEF Stages
<1>7. ASSUME NEW i \in Nat \ {0}
      PROVE  Chain(At(Stages(a, b), i), At(Stages(b, c), i), At(Stages(a, c), i))
  <2>1. CASE i \in 1..5
    BY <1>6, <2>1, StageFacts DEF At
  <2>2. CASE i \notin 1..5
    BY <2>2, StageFacts DEF At, Chain
  <2>. QED BY <2>1, <2>2
<1>. QED BY <1>7, StageFacts, Lexicographic

(***************************************************************************)
(* Version.Compare is a total preorder of all versions: it returns -1, 0   *)
(* or 1, the opposite sign for the opposite question, and at most chains   *)
(* with at most, strictly if either is strict.  Sorting by it puts every   *)
(* candidate where its rank is, and <, = and > cut any inventory in three. *)
(***************************************************************************)
THEOREM CompareIsPreorder ==
  ASSUME NEW a \in VersionSet, NEW b \in VersionSet, NEW c \in VersionSet
  PROVE  /\ Compare(a, b) \in {-1, 0, 1}
         /\ Compare(b, a) = -Compare(a, b)
         /\ Chain(Compare(a, b), Compare(b, c), Compare(a, c))
<1>1. Decisive[Stages(a, b)] \in Signs
  BY StageFacts, DecisiveIsSign
<1>2. Decisive[Stages(b, a)] = -Decisive[Stages(a, b)]
  <2>1. Len(Stages(a, b)) = 5 /\ Len(Stages(b, a)) = 5
    BY DEF Stages
  <2>2. /\ Stages(a, b) \in Seq(Signs) /\ Stages(b, a) \in Seq(Signs)
        /\ \A i \in DOMAIN Stages(a, b) : Stages(b, a)[i] = -Stages(a, b)[i]
    BY StageFacts
  <2>. QED BY <2>1, <2>2, Opposite
<1>3. Chain(Decisive[Stages(a, b)], Decisive[Stages(b, c)], Decisive[Stages(a, c)])
  BY StagesChain
<1>. QED BY <1>1, <1>2, <1>3 DEF Compare, Signs, Chain

(***************************************************************************)
(* Versions that Compare calls equal are interchangeable in every          *)
(* comparison, and a version equals itself.                                *)
(***************************************************************************)
THEOREM EqualVersionsCompareAlike ==
  ASSUME NEW a \in VersionSet, NEW b \in VersionSet, Compare(a, b) = 0
  PROVE  /\ Compare(a, a) = 0
         /\ \A c \in VersionSet : Compare(a, c) = Compare(b, c)
<1>1. Compare(a, a) = 0
  BY CompareIsPreorder
<1>2. Compare(b, a) = 0
  BY CompareIsPreorder
<1>3. ASSUME NEW c \in VersionSet PROVE Compare(a, c) = Compare(b, c)
  <2>1. /\ Compare(a, c) \in {-1, 0, 1} /\ Compare(b, c) \in {-1, 0, 1}
        /\ Compare(c, a) = -Compare(a, c) /\ Compare(c, b) = -Compare(b, c)
    BY CompareIsPreorder
  <2>2. Chain(Compare(a, b), Compare(b, c), Compare(a, c))
    BY CompareIsPreorder
  <2>3. Chain(Compare(b, a), Compare(a, c), Compare(b, c))
    BY CompareIsPreorder
  <2>. QED BY <1>2, <2>1, <2>2, <2>3 DEF Chain
<1>. QED BY <1>1, <1>3

-----------------------------------------------------------------------------
(* Sequences                                                               *)

Items(s) == {s[i] : i \in DOMAIN s}
Once(s) == \A i, j \in DOMAIN s : s[i] = s[j] => i = j

(***************************************************************************)
(* What is appended is one item more.                                      *)
(***************************************************************************)
LEMMA AppendItems ==
  ASSUME NEW S, NEW s \in Seq(S), NEW x \in S
  PROVE  /\ Append(s, x) \in Seq(S) /\ Len(Append(s, x)) = Len(s) + 1
         /\ Items(Append(s, x)) = Items(s) \cup {x}
         /\ Once(s) /\ x \notin Items(s) => Once(Append(s, x))
<1>. DEFINE t == Append(s, x)
<1>1. /\ t \in Seq(S) /\ Len(t) = Len(s) + 1 /\ Len(s) \in Nat
      /\ DOMAIN s = 1..Len(s) /\ DOMAIN t = 1..Len(s) + 1
      /\ \A i \in 1..Len(s) : t[i] = s[i]
      /\ t[Len(s) + 1] = x
  OBVIOUS
<1>. HIDE DEF t
<1>2. \A i \in 1..Len(s) + 1 : i \in 1..Len(s) \/ i = Len(s) + 1
  BY <1>1
<1>3. Items(t) = Items(s) \cup {x}
  BY <1>1, <1>2 DEF Items
<1>4. ASSUME Once(s), x \notin Items(s), NEW i \in DOMAIN t, NEW j \in DOMAIN t, t[i] = t[j]
      PROVE  i = j
  BY <1>1, <1>2, <1>4 DEF Once, Items
<1>5. Once(s) /\ x \notin Items(s) => Once(t)
  BY <1>4 DEF Once
<1>. QED BY <1>1, <1>3, <1>5 DEF t

(***************************************************************************)
(* The tail lacks the head.                                                *)
(***************************************************************************)
LEMMA TailItems ==
  ASSUME NEW S, NEW s \in Seq(S), s # <<>>
  PROVE  /\ Head(s) \in S /\ Tail(s) \in Seq(S) /\ Len(Tail(s)) = Len(s) - 1
         /\ Items(s) = Items(Tail(s)) \cup {Head(s)}
         /\ Once(s) => Once(Tail(s)) /\ Head(s) \notin Items(Tail(s))
<1>. DEFINE t == Tail(s)
<1>1. /\ t \in Seq(S) /\ Len(t) = Len(s) - 1 /\ Len(s) \in Nat /\ Len(s) >= 1
      /\ DOMAIN s = 1..Len(s) /\ DOMAIN t = 1..Len(s) - 1
      /\ \A i \in 1..Len(s) - 1 : t[i] = s[i + 1]
      /\ Head(s) = s[1] /\ s[1] \in S
  BY HeadTailProperties
<1>. HIDE DEF t
<1>2. \A i \in 1..Len(s) - 1 : i + 1 \in 1..Len(s) /\ i + 1 # 1
  BY <1>1
<1>3. ASSUME NEW i \in 1..Len(s), i # 1 PROVE i - 1 \in 1..Len(s) - 1 /\ t[i - 1] = s[i]
  <2>1. i - 1 \in 1..Len(s) - 1 /\ (i - 1) + 1 = i
    BY <1>1, <1>3
  <2>. QED BY <1>1, <2>1
<1>4. 1 \in 1..Len(s)
  BY <1>1
<1>5. Items(s) = Items(t) \cup {Head(s)}
  <2>1. \A i \in DOMAIN s : s[i] \in Items(t) \cup {Head(s)}
    BY <1>1, <1>3 DEF Items
  <2>2. \A i \in DOMAIN t : t[i] \in Items(s)
    BY <1>1, <1>2 DEF Items
  <2>3. Head(s) \in Items(s)
    BY <1>1, <1>4 DEF Items
  <2>. QED BY <2>1, <2>2, <2>3 DEF Items
<1>6. ASSUME Once(s), NEW i \in DOMAIN t, NEW j \in DOMAIN t, t[i] = t[j] PROVE i = j
  <2>1. /\ i + 1 \in DOMAIN s /\ j + 1 \in DOMAIN s /\ s[i + 1] = s[j + 1]
        /\ i \in Nat /\ j \in Nat
    BY <1>1, <1>2, <1>6
  <2>2. i + 1 = j + 1
    BY <1>6, <2>1 DEF Once
  <2>. QED BY <2>1, <2>2
<1>7. ASSUME Once(s) PROVE Head(s) \notin Items(t)
  BY <1>1, <1>2, <1>4, <1>7 DEF Once, Items
<1>8. Once(s) => Once(t) /\ Head(s) \notin Items(t)
  BY <1>6, <1>7 DEF Once
<1>. QED BY <1>1, <1>5, <1>8 DEF t

(***************************************************************************)
(* An item that is inserted moves those behind it by one.                  *)
(***************************************************************************)
LEMMA InsertItems ==
  ASSUME NEW S, NEW s \in Seq(S), NEW x \in S, NEW j \in 0..Len(s),
         NEW t, t = InsertAt(s, j + 1, x)
  PROVE  /\ t \in Seq(S) /\ Len(t) = Len(s) + 1
         /\ \A k \in 1..j : t[k] = s[k]
         /\ \A k \in {j + 1} : t[k] = x
         /\ \A k \in j + 2..Len(s) + 1 : t[k] = s[k - 1]
<1>. DEFINE a == SubSeq(s, 1, j)
<1>. DEFINE b == <<x>>
<1>. DEFINE c == SubSeq(s, j + 1, Len(s))
<1>0. j \in Nat /\ Len(s) \in Nat /\ j <= Len(s) /\ (j + 1) - 1 = j
      /\ \A k \in 1..Len(s) : s[k] \in S
  OBVIOUS
<1>1. a \in Seq(S) /\ Len(a) = j /\ \A k \in 1..j : a[k] = s[k]
  <2>1. \A k \in 1..j : s[k] \in S /\ 1 + k - 1 = k
    BY <1>0
  <2>2. j - 1 + 1 = j /\ (~(1 <= j) => j = 0)
    BY <1>0
  <2>. QED BY <1>0, <2>1, <2>2, SubSeqProperties
<1>2. b \in Seq(S) /\ Len(b) = 1 /\ b[1] = x
  OBVIOUS
<1>3. c \in Seq(S) /\ Len(c) = Len(s) - j /\ \A k \in 1..Len(s) - j : c[k] = s[j + k]
  <2>1. \A k \in j + 1..Len(s) : s[k] \in S
    BY <1>0
  <2>2. /\ c \in Seq(S) /\ Len(c) = (IF j + 1 <= Len(s) THEN Len(s) - (j + 1) + 1 ELSE 0)
        /\ \A k \in 1..Len(s) - (j + 1) + 1 : c[k] = s[(j + 1) + k - 1]
    BY <1>0, <2>1, SubSeqProperties
  <2>. HIDE DEF c
  <2>3. Len(s) - (j + 1) + 1 = Len(s) - j /\ (~(j + 1 <= Len(s)) => Len(s) - j = 0)
        /\ \A k \in 1..Len(s) - j : (j + 1) + k - 1 = j + k
    BY <1>0
  <2>. QED BY <2>2, <2>3
<1>4. InsertAt(s, j + 1, x) = (a \o b) \o c
  BY <1>0 DEF InsertAt
<1>. HIDE DEF a, b, c
<1>5. /\ a \o b \in Seq(S) /\ Len(a \o b) = Len(a) + Len(b)
      /\ \A k \in 1..Len(a) + Len(b) : (a \o b)[k] = IF k <= Len(a) THEN a[k] ELSE b[k - Len(a)]
  BY <1>1, <1>2, ConcatProperties
<1>. DEFINE ab == a \o b
<1>6. ab[j + 1] = x /\ \A k \in 1..j : ab[k] = s[k]
  <2>1. j + 1 \in 1..j + 1 /\ ~(j + 1 <= j) /\ (j + 1) - j = 1
    BY <1>0
  <2>2. \A k \in 1..j : k \in 1..j + 1 /\ k <= j
    BY <1>0
  <2>. QED BY <1>1, <1>2, <1>5, <2>1, <2>2
<1>7. ab \in Seq(S) /\ Len(ab) = j + 1
  BY <1>1, <1>2, <1>5
<1>. HIDE DEF ab
<1>8. /\ ab \o c \in Seq(S) /\ Len(ab \o c) = Len(ab) + Len(c)
      /\ \A k \in 1..Len(ab) + Len(c) :
           (ab \o c)[k] = IF k <= Len(ab) THEN ab[k] ELSE c[k - Len(ab)]
  BY <1>3, <1>7, ConcatProperties
<1>9. Len(ab) + Len(c) = Len(s) + 1
  BY <1>0, <1>3, <1>7
<1>10. t \in Seq(S) /\ Len(t) = Len(s) + 1
       /\ \A k \in 1..Len(s) + 1 : t[k] = IF k <= j + 1 THEN ab[k] ELSE c[k - (j + 1)]
  BY <1>4, <1>7, <1>8, <1>9 DEF ab
<1>11. \A k \in 1..j : t[k] = s[k]
  <2>1. \A k \in 1..j : k \in 1..Len(s) + 1 /\ k <= j + 1
    BY <1>0
  <2>. QED BY <1>6, <1>10, <2>1
<1>12. t[j + 1] = x
  <2>1. j + 1 \in 1..Len(s) + 1 /\ j + 1 <= j + 1
    BY <1>0
  <2>. QED BY <1>6, <1>10, <2>1
<1>13. ASSUME NEW k \in j + 2..Len(s) + 1 PROVE t[k] = s[k - 1]
  <2>1. k \in 1..Len(s) + 1 /\ ~(k <= j + 1) /\ k - (j + 1) \in 1..Len(s) - j /\ j + (k - (j + 1)) = k - 1
    BY <1>0, <1>13
  <2>. QED BY <1>3, <1>10, <2>1
<1>. QED BY <1>10, <1>11, <1>12, <1>13

(***************************************************************************)
(* What is inserted is one item more.                                      *)
(***************************************************************************)
LEMMA InsertOnce ==
  ASSUME NEW S, NEW s \in Seq(S), NEW t \in Seq(S), NEW x \in S, NEW j \in 0..Len(s),
         Len(t) = Len(s) + 1,
         \A k \in 1..j : t[k] = s[k],
         t[j + 1] = x,
         \A k \in j + 2..Len(s) + 1 : t[k] = s[k - 1]
  PROVE  /\ Items(t) = Items(s) \cup {x}
         /\ Once(s) /\ x \notin Items(s) => Once(t)
<1>1. /\ \A k \in 1..j : t[k] = s[k]
      /\ t[j + 1] = x
      /\ \A k \in j + 2..Len(s) + 1 : t[k] = s[k - 1]
  OBVIOUS
<1>2. j \in Nat /\ Len(s) \in Nat /\ j <= Len(s) /\ DOMAIN s = 1..Len(s) /\ DOMAIN t = 1..Len(s) + 1
  OBVIOUS
\* Where an item of t was in s.
<1>. DEFINE From(k) == IF k <= j THEN k ELSE k - 1
<1>3. \A k \in DOMAIN t : k = j + 1 \/ (From(k) \in DOMAIN s /\ t[k] = s[From(k)])
  BY <1>1, <1>2
<1>4. \A k \in DOMAIN s : \E m \in DOMAIN t : t[m] = s[k]
  <2>1. SUFFICES ASSUME NEW k \in DOMAIN s PROVE \E m \in DOMAIN t : t[m] = s[k]
    OBVIOUS
  <2>2. CASE k <= j
    <3>1. k \in 1..j /\ k \in DOMAIN t
      BY <1>2, <2>1, <2>2
    <3>. QED BY <1>1, <3>1
  <2>3. CASE k > j
    <3>1. k + 1 \in j + 2..Len(s) + 1 /\ k + 1 \in DOMAIN t /\ (k + 1) - 1 = k
      BY <1>2, <2>1, <2>3
    <3>. QED BY <1>1, <3>1
  <2>. QED BY <1>2, <2>1, <2>2, <2>3
<1>5. j + 1 \in DOMAIN t
  BY <1>2
<1>6. Items(t) = Items(s) \cup {x}
  <2>1. \A k \in DOMAIN t : t[k] \in Items(s) \cup {x}
    BY <1>1, <1>3 DEF Items
  <2>2. \A k \in DOMAIN s : s[k] \in Items(t)
    BY <1>4 DEF Items
  <2>3. x \in Items(t)
    BY <1>1, <1>5 DEF Items
  <2>. QED BY <2>1, <2>2, <2>3 DEF Items
<1>7. ASSUME Once(s), x \notin Items(s), NEW k \in DOMAIN t, NEW m \in DOMAIN t, t[k] = t[m]
      PROVE  k = m
  <2>1. \A i \in DOMAIN s : s[i] # x
    BY <1>7 DEF Items
  <2>2. k = j + 1 <=> m = j + 1
    BY <1>1, <1>3, <1>7, <2>1
  <2>3. CASE k # j + 1
    <3>1. From(k) = From(m)
      BY <1>3, <1>7, <2>2, <2>3 DEF Once
    <3>2. k \in Nat /\ m \in Nat
      BY <1>2
    <3>. QED BY <1>2, <2>2, <2>3, <3>1, <3>2
  <2>. QED BY <2>2, <2>3
<1>8. Once(s) /\ x \notin Items(s) => Once(t)
  BY <1>7 DEF Once
<1>. QED BY <1>6, <1>8

(***************************************************************************)
(* A sequence that holds each item once is as long as its items are many.  *)
(***************************************************************************)
LEMMA CountItems ==
  ASSUME NEW S, NEW s \in Seq(S), Once(s)
  PROVE  IsFiniteSet(Items(s)) /\ Cardinality(Items(s)) = Len(s)
<1>1. Len(s) \in Nat /\ DOMAIN s = 1..Len(s) /\ s = [i \in 1..Len(s) |-> s[i]]
  OBVIOUS
<1>2. s \in Bijection(1..Len(s), Items(s))
  <2>1. s \in [1..Len(s) -> Items(s)]
    BY <1>1 DEF Items
  <2>2. \A x \in Items(s) : \E i \in 1..Len(s) : s[i] = x
    BY <1>1 DEF Items
  <2>. QED BY <1>1, <2>1, <2>2 DEF Bijection, Injection, IsInjective, Surjection, Once
<1>3. IsFiniteSet(1..Len(s)) /\ Cardinality(1..Len(s)) = Len(s)
  <2>1. Len(s) \in Int /\ 1 \in Int /\ (IF 1 > Len(s) THEN 0 ELSE Len(s) - 1 + 1) = Len(s)
    BY <1>1
  <2>. QED BY <2>1, FS_Interval
<1>. QED BY <1>2, <1>3, FS_Bijection DEF ExistsBijection

-----------------------------------------------------------------------------
(* Types                                                                   *)

Busy(w) == wpc[w] \in {"took", "open", "read", "check"}

CacheTypeOK ==
  /\ scene \in Scenes /\ request \in Requests
  /\ version \in [Entries -> 0..clock] /\ clock \in 1..MaxChange + 1
  /\ done \in BOOLEAN

ListTypeOK ==
  /\ phase \in {"start", "listing", "entering", "reading", "sorting", "returned"}
  /\ turn \in 1..Len(Repositories) + 1
  /\ unlisted \in SUBSET Categories /\ listed \in SUBSET Entries
  /\ toFeed \subseteq listed /\ feeding \in BOOLEAN
  /\ result \in {"none", "ok", "incomplete", "canceled", "invalid"}

WorkTypeOK ==
  /\ wpc \in [Workers -> {"exited", "idle", "took", "open", "read", "check"}]
  /\ task \in [Workers -> Entries \cup {0}]
  /\ stat \in [Workers -> 0..clock] /\ opened \in [Workers -> 0..clock]
  /\ text \in [Entries -> SUBSET (1..clock)]

OutTypeOK ==
  /\ channel \in Seq(listed \X (Codes \cup {"good"}))
  /\ collected \in Seq(listed) /\ inventory \in Seq(listed)
  /\ issues \subseteq IssueSet

\* What the call and the workers do fits the phase, and what a worker holds fits
\* what it does.
PhaseInv ==
  /\ phase \in {"start", "listing", "entering"} =>
       toFeed = {} /\ channel = <<>> /\ collected = <<>>
  /\ phase \in {"start", "listing", "entering", "reading"} => inventory = <<>>
  /\ phase = "sorting" => channel = <<>>
  /\ phase # "reading" => AllExited /\ ~feeding
  /\ phase # "returned" => result = "none"
  /\ phase = "start" => turn = 1 /\ listed = {} /\ unlisted = {}
  /\ phase = "entering" => turn <= Len(Repositories)
  /\ phase \in {"reading", "sorting"} \/ Answered => turn = Len(Repositories) + 1
  /\ Answered => collected = <<>> /\ channel = <<>>
  /\ \A w \in Workers :
       /\ Busy(w) => task[w] \in listed
       /\ wpc[w] \in {"open", "read", "check"} => stat[w] # 0
       /\ wpc[w] = "read" => opened[w] # 0

TypeInv == CacheTypeOK /\ ListTypeOK /\ WorkTypeOK /\ OutTypeOK /\ PhaseInv

(***************************************************************************)
(* The repositories are a sequence of numbers.                             *)
(***************************************************************************)
LEMMA RepositoryFacts ==
  /\ Repositories \in Seq(RepositorySet) /\ Len(Repositories) \in Nat
  /\ RepositorySet \subseteq Nat \ {0}
  /\ \A i \in 1..Len(Repositories) : Repositories[i] \in RepositorySet
BY CandidateAssumption DEF RepositorySet

(***************************************************************************)
(* The initial states are well typed.                                      *)
(***************************************************************************)
LEMMA TypeInit == Init => TypeInv
<1> SUFFICES ASSUME Init PROVE TypeInv
  OBVIOUS
<1>1. clock = 1 /\ 0 \in 0..1 /\ 1 \in 0..1 /\ clock \in 1..MaxChange + 1
  BY CandidateAssumption DEF Init
<1>2. CacheTypeOK
  <2>1. version \in [Entries -> 0..clock]
    BY <1>1 DEF Init
  <2>. QED BY <1>1, <2>1 DEF Init, CacheTypeOK
<1>3. ListTypeOK
  <2>1. 1 \in 1..Len(Repositories) + 1
    BY RepositoryFacts
  <2>. QED BY <2>1 DEF Init, ListTypeOK
<1>4. WorkTypeOK
  BY <1>1 DEF Init, WorkTypeOK
<1>5. OutTypeOK
  BY DEF Init, OutTypeOK
<1>6. PhaseInv
  BY DEF Init, PhaseInv, AllExited, Busy, Answered
<1>. QED BY <1>2, <1>3, <1>4, <1>5, <1>6 DEF TypeInv

(***************************************************************************)
(* A busy worker is on a listed entry, while the files are read.           *)
(***************************************************************************)
LEMMA BusyFacts ==
  ASSUME TypeInv, NEW w \in Workers, Busy(w)
  PROVE  task[w] \in listed /\ task[w] \in Entries /\ phase = "reading"
BY DEF TypeInv, PhaseInv, ListTypeOK, AllExited, Busy

(***************************************************************************)
(* Changes of the caches leave all that the call holds well typed:         *)
(* versions only grow.                                                     *)
(***************************************************************************)
LEMMA ChangeTyped ==
  ASSUME TypeInv, (\E e \in Entries : Change(e)) \/ ContextDone
  PROVE  TypeInv'
<1>. USE DEF listVars, poolVars, workVars, outVars, cacheVars
<1>1. CASE ContextDone
  <2>1. CacheTypeOK' /\ ListTypeOK' /\ WorkTypeOK' /\ OutTypeOK'
    BY <1>1 DEF ContextDone, TypeInv, CacheTypeOK, ListTypeOK, WorkTypeOK, OutTypeOK
  <2>2. PhaseInv'
    BY <1>1 DEF ContextDone, TypeInv, PhaseInv, AllExited, Busy, Answered
  <2>. QED BY <2>1, <2>2 DEF TypeInv
<1>2. ASSUME NEW e \in Entries, Change(e) PROVE TypeInv'
  <2>1. /\ clock \in Nat /\ clock' = clock + 1 /\ clock' \in 1..MaxChange + 1
        /\ 0..clock \subseteq 0..clock' /\ 1..clock \subseteq 1..clock'
        /\ clock + 1 \in 0..clock' /\ 0 \in 0..clock'
    BY <1>2, CandidateAssumption DEF Change, TypeInv, CacheTypeOK
  <2>2. version' \in [Entries -> 0..clock']
    <3>1. version \in [Entries -> 0..clock']
      BY <2>1 DEF TypeInv, CacheTypeOK
    <3>. QED BY <1>2, <2>1, <3>1 DEF Change
  <2>3. CacheTypeOK'
    BY <1>2, <2>1, <2>2 DEF Change, TypeInv, CacheTypeOK
  <2>4. WorkTypeOK'
    <3>1. SUBSET (1..clock) \subseteq SUBSET (1..clock')
      BY <2>1
    <3>. QED BY <1>2, <2>1, <3>1 DEF Change, TypeInv, WorkTypeOK
  <2>5. ListTypeOK' /\ OutTypeOK'
    BY <1>2 DEF Change, TypeInv, ListTypeOK, OutTypeOK
  <2>6. PhaseInv'
    BY <1>2 DEF Change, TypeInv, PhaseInv, AllExited, Busy, Answered
  <2>. QED BY <2>3, <2>4, <2>5, <2>6 DEF TypeInv
<1>. QED BY <1>1, <1>2

(***************************************************************************)
(* A worker that sends its result is idle again.                           *)
(***************************************************************************)
LEMMA SendTyped ==
  ASSUME TypeInv, NEW w \in Workers, Busy(w), NEW code \in Codes \cup {"good"}, Send(w, code),
         UNCHANGED <<cacheVars, done, phase, listVars, poolVars, outVars, result>>
  PROVE  TypeInv'
<1>. USE DEF listVars, poolVars, outVars, cacheVars
<1>1. CacheTypeOK' /\ ListTypeOK'
  BY DEF TypeInv, CacheTypeOK, ListTypeOK
<1>2. 0 \in 0..clock
  BY CandidateAssumption DEF TypeInv, CacheTypeOK
<1>3. WorkTypeOK'
  BY <1>2 DEF Send, TypeInv, WorkTypeOK
<1>4. OutTypeOK'
  <2>1. <<task[w], code>> \in listed \X (Codes \cup {"good"})
    BY BusyFacts
  <2>. QED BY <2>1 DEF Send, TypeInv, OutTypeOK
<1>5. PhaseInv'
  <2>1. phase = "reading"
    BY BusyFacts
  <2>2. \A v \in Workers : /\ Busy(v)' => Busy(v) /\ task'[v] = task[v] /\ wpc'[v] = wpc[v]
                           /\ v # w => stat'[v] = stat[v] /\ opened'[v] = opened[v]
                           /\ wpc'[w] = "idle"
    BY DEF Send, Busy, TypeInv, WorkTypeOK
  <2>. QED BY <2>1, <2>2 DEF TypeInv, PhaseInv, Answered, Busy
<1>. QED BY <1>1, <1>3, <1>4, <1>5 DEF TypeInv

(***************************************************************************)
(* A worker that goes on with its file is well typed.                      *)
(***************************************************************************)
LEMMA GoOnTyped ==
  ASSUME TypeInv, NEW w \in Workers, Busy(w),
         NEW place \in {"open", "read", "check"}, GoTo(w, place),
         stat' \in [Workers -> 0..clock], opened' \in [Workers -> 0..clock],
         text' \in [Entries -> SUBSET (1..clock)],
         \A v \in Workers \ {w} : stat'[v] = stat[v] /\ opened'[v] = opened[v],
         stat'[w] # 0, place = "read" => opened'[w] # 0,
         UNCHANGED <<cacheVars, done, phase, listVars, poolVars, outVars, result>>
  PROVE  TypeInv'
<1>. USE DEF listVars, poolVars, outVars, cacheVars
<1>1. CacheTypeOK' /\ ListTypeOK' /\ OutTypeOK'
  BY DEF GoTo, TypeInv, CacheTypeOK, ListTypeOK, OutTypeOK
<1>2. WorkTypeOK'
  BY DEF GoTo, TypeInv, WorkTypeOK
<1>3. PhaseInv'
  <2>1. phase = "reading" /\ task[w] \in listed
    BY BusyFacts
  <2>2. wpc'[w] = place /\ \A v \in Workers \ {w} : wpc'[v] = wpc[v]
    BY DEF GoTo, TypeInv, WorkTypeOK
  <2>3. UNCHANGED <<task, channel, phase, listed, turn, inventory, collected, result>>
    BY DEF GoTo
  <2>4. \A v \in Workers : /\ Busy(v)' => task'[v] \in listed'
                           /\ wpc'[v] \in {"open", "read", "check"} => stat'[v] # 0
                           /\ wpc'[v] = "read" => opened'[v] # 0
    <3>1. SUFFICES ASSUME NEW v \in Workers
                   PROVE  /\ Busy(v)' => task'[v] \in listed'
                          /\ wpc'[v] \in {"open", "read", "check"} => stat'[v] # 0
                          /\ wpc'[v] = "read" => opened'[v] # 0
      OBVIOUS
    <3>2. CASE v = w
      BY <2>1, <2>2, <2>3, <3>2
    <3>3. CASE v # w
      BY <2>2, <2>3, <3>1, <3>3 DEF TypeInv, PhaseInv, Busy
    <3>. QED BY <3>2, <3>3
  <2>. QED BY <2>1, <2>3, <2>4 DEF TypeInv, PhaseInv, Answered
<1>. QED BY <1>1, <1>2, <1>3 DEF TypeInv

(***************************************************************************)
(* The steps of a worker keep the types.                                   *)
(***************************************************************************)
LEMMA WorkerTyped ==
  ASSUME TypeInv, NEW w \in Workers, WorkerStep(w)
  PROVE  TypeInv'
<1>. USE DEF listVars, poolVars, outVars, cacheVars
<1>1. /\ "good" \in Codes \cup {"good"} /\ "malformed" \in Codes \cup {"good"}
      /\ "unreadable" \in Codes \cup {"good"} /\ "mutation" \in Codes \cup {"good"}
      /\ "invalid" \in Codes \cup {"good"}
  BY DEF Codes
<1>2. /\ wpc \in [Workers -> {"exited", "idle", "took", "open", "read", "check"}]
      /\ task \in [Workers -> Entries \cup {0}]
      /\ stat \in [Workers -> 0..clock] /\ opened \in [Workers -> 0..clock]
      /\ text \in [Entries -> SUBSET (1..clock)] /\ clock \in Nat
  BY CandidateAssumption DEF TypeInv, WorkTypeOK, CacheTypeOK
<1>3. ASSUME Busy(w) PROVE task[w] \in Entries /\ VersionNow(w) \in 0..clock
  BY <1>3, BusyFacts DEF VersionNow, TypeInv, CacheTypeOK
<1>4. CASE Feed(w)
  <2>1. PICK e \in toFeed : /\ toFeed' = toFeed \ {e} /\ task' = [task EXCEPT ![w] = e]
                            /\ feeding /\ wpc' = [wpc EXCEPT ![w] = "took"]
    BY <1>4 DEF Feed
  <2>2. e \in listed /\ e \in Entries /\ phase = "reading"
    BY <2>1 DEF TypeInv, ListTypeOK, PhaseInv
  <2>3. CacheTypeOK' /\ ListTypeOK' /\ OutTypeOK'
    BY <1>4, <2>1 DEF Feed, TypeInv, CacheTypeOK, ListTypeOK, OutTypeOK
  <2>4. WorkTypeOK'
    BY <1>2, <1>4, <2>1, <2>2 DEF Feed, WorkTypeOK
  <2>5. PhaseInv'
    BY <1>2, <1>4, <2>1, <2>2 DEF Feed, TypeInv, PhaseInv, Answered, Busy
  <2>. QED BY <2>3, <2>4, <2>5 DEF TypeInv
<1>5. CASE WorkerExits(w)
  <2>1. phase = "reading"
    BY <1>5 DEF WorkerExits, TypeInv, PhaseInv, AllExited
  <2>2. CacheTypeOK' /\ ListTypeOK' /\ OutTypeOK'
    BY <1>5 DEF WorkerExits, TypeInv, CacheTypeOK, ListTypeOK, OutTypeOK
  <2>3. WorkTypeOK'
    BY <1>2, <1>5 DEF WorkerExits, WorkTypeOK
  <2>4. PhaseInv'
    BY <1>2, <1>5, <2>1 DEF WorkerExits, TypeInv, PhaseInv, Answered, Busy
  <2>. QED BY <2>2, <2>3, <2>4 DEF TypeInv
<1>6. CASE Stat(w)
  <2>1. Busy(w) /\ UNCHANGED <<cacheVars, done, phase, listVars, poolVars, outVars, result>>
    BY <1>6 DEF Stat, Busy
  <2>2. CASE Send(w, "malformed") \/ Send(w, "unreadable")
    BY <1>1, <2>1, <2>2, SendTyped
  <2>3. CASE /\ VersionNow(w) # 0 /\ stat' = [stat EXCEPT ![w] = VersionNow(w)]
             /\ GoTo(w, "open") /\ UNCHANGED <<opened, text>>
    <3>1. /\ stat' \in [Workers -> 0..clock] /\ stat'[w] # 0
          /\ \A v \in Workers \ {w} : stat'[v] = stat[v]
      BY <1>2, <1>3, <2>1, <2>3
    <3>. QED BY <1>2, <2>1, <2>3, <3>1, GoOnTyped
  <2>. QED BY <1>6, <2>2, <2>3 DEF Stat
<1>7. CASE Open(w)
  <2>1. Busy(w) /\ wpc[w] = "open" /\ UNCHANGED <<cacheVars, done, phase, listVars, poolVars, outVars, result>>
    BY <1>7 DEF Open, Busy
  <2>2. CASE Send(w, "unreadable")
    BY <1>1, <2>1, <2>2, SendTyped
  <2>3. CASE /\ VersionNow(w) # 0 /\ opened' = [opened EXCEPT ![w] = VersionNow(w)]
             /\ text' = [text EXCEPT ![task[w]] = {VersionNow(w)}]
             /\ GoTo(w, "read") /\ UNCHANGED stat
    <3>1. VersionNow(w) \in 1..clock
      BY <1>2, <1>3, <2>1, <2>3
    <3>2. /\ opened' \in [Workers -> 0..clock] /\ opened'[w] # 0
          /\ \A v \in Workers \ {w} : opened'[v] = opened[v]
      BY <1>2, <1>3, <2>1, <2>3
    <3>3. text' \in [Entries -> SUBSET (1..clock)]
      BY <1>2, <2>3, <3>1
    <3>4. stat[w] # 0
      BY <2>1 DEF TypeInv, PhaseInv
    <3>. QED BY <1>2, <2>1, <2>3, <3>2, <3>3, <3>4, GoOnTyped
  <2>. QED BY <1>7, <2>2, <2>3 DEF Open
<1>8. CASE Read(w)
  <2>1. Busy(w) /\ wpc[w] = "read" /\ UNCHANGED <<cacheVars, done, phase, listVars, poolVars, outVars, result>>
    BY <1>8 DEF Read, Busy
  <2>2. CASE Send(w, "unreadable")
    BY <1>1, <2>1, <2>2, SendTyped
  <2>3. CASE /\ \E v \in {opened[w], VersionNow(w)} \ {0} :
                   text' = [text EXCEPT ![task[w]] = @ \cup {v}]
             /\ GoTo(w, "check") /\ UNCHANGED <<stat, opened>>
    <3>1. PICK v \in {opened[w], VersionNow(w)} \ {0} : text' = [text EXCEPT ![task[w]] = @ \cup {v}]
      BY <2>3
    <3>2. v \in 1..clock
      BY <1>2, <1>3, <2>1, <3>1
    <3>3. text' \in [Entries -> SUBSET (1..clock)]
      BY <1>2, <3>1, <3>2
    <3>4. stat[w] # 0
      BY <2>1 DEF TypeInv, PhaseInv
    <3>. QED BY <1>2, <2>1, <2>3, <3>3, <3>4, GoOnTyped
  <2>. QED BY <1>8, <2>2, <2>3 DEF Read
<1>9. CASE Check(w)
  <2>1. Busy(w) /\ UNCHANGED <<cacheVars, done, phase, listVars, poolVars, outVars, result>>
    BY <1>9 DEF Check, Busy
  <2>2. \E code \in Codes \cup {"good"} : Send(w, code)
    BY <1>1, <1>9 DEF Check
  <2>. QED BY <2>1, <2>2, SendTyped
<1>. QED BY <1>4, <1>5, <1>6, <1>7, <1>8, <1>9 DEF WorkerStep

(***************************************************************************)
(* The paths of issues.                                                    *)
(***************************************************************************)
LEMMA IssueFacts ==
  /\ \A r \in RepositorySet, k \in {"missing", "symlink", "unreadable"} :
       <<RootPath(r), k>> \in IssueSet
  /\ \A r \in RepositorySet, c \in Categories, k \in {"symlink", "unreadable"} :
       <<CategoryPath(r, c), k>> \in IssueSet
  /\ \A e \in Entries, k \in Codes \cup {"symlink"} : <<EntryPath(e), k>> \in IssueSet
<1>1. ASSUME NEW r \in RepositorySet, NEW k \in {"missing", "symlink", "unreadable"}
      PROVE  <<RootPath(r), k>> \in ({"root"} \X RepositorySet) \X {"missing", "symlink", "unreadable"}
  BY DEF RootPath
<1>2. ASSUME NEW r \in RepositorySet, NEW c \in Categories, NEW k \in {"symlink", "unreadable"}
      PROVE  <<CategoryPath(r, c), k>>
               \in ({"category"} \X RepositorySet \X Categories) \X {"symlink", "unreadable"}
  BY DEF CategoryPath
<1>3. ASSUME NEW e \in Entries, NEW k \in Codes \cup {"symlink"}
      PROVE  <<EntryPath(e), k>> \in ({"entry"} \X Entries) \X (Codes \cup {"symlink"})
  BY DEF EntryPath
<1>. QED BY <1>1, <1>2, <1>3 DEF IssueSet

(***************************************************************************)
(* The listing keeps the types.                                            *)
(***************************************************************************)
LEMMA ListingTyped ==
  ASSUME TypeInv, Start \/ ListRoot \/ ListCategory \/ NextRepository
  PROVE  TypeInv'
<1>. USE DEF listVars, poolVars, workVars, outVars, cacheVars
<1>1. CacheTypeOK' /\ WorkTypeOK'
  BY DEF Start, ListRoot, ListCategory, NextRepository, TypeInv, CacheTypeOK, WorkTypeOK
<1>2. Len(Repositories) \in Nat
  BY RepositoryFacts
<1>3. CASE Start
  <2>1. ListTypeOK' /\ OutTypeOK'
    BY <1>3 DEF Start, Return, TypeInv, ListTypeOK, OutTypeOK
  <2>2. PhaseInv'
    BY <1>3 DEF Start, Return, TypeInv, PhaseInv, AllExited, Busy, Answered
  <2>. QED BY <1>1, <2>1, <2>2 DEF TypeInv
<1>4. CASE ListRoot
  <2>1. turn \in 1..Len(Repositories) /\ Current \in RepositorySet /\ turn + 1 \in 1..Len(Repositories) + 1
    BY <1>2, <1>4, RepositoryFacts DEF ListRoot, TypeInv, ListTypeOK, Current
  <2>2. ListTypeOK'
    BY <1>4, <2>1 DEF ListRoot, Return, TypeInv, ListTypeOK
  <2>3. OutTypeOK'
    BY <1>4, <2>1, IssueFacts DEF ListRoot, Blame, TypeInv, OutTypeOK
  <2>4. PhaseInv'
    BY <1>4, <2>1 DEF ListRoot, Return, TypeInv, PhaseInv, AllExited, Busy, Answered
  <2>. QED BY <1>1, <2>2, <2>3, <2>4 DEF TypeInv
<1>5. CASE ListCategory
  <2>1. Current \in RepositorySet /\ phase = "entering"
    BY <1>2, <1>5, RepositoryFacts DEF ListCategory, TypeInv, ListTypeOK, PhaseInv, Current
  <2>2. listed \subseteq listed'
    BY <1>5 DEF ListCategory
  <2>3. ListTypeOK'
    BY <1>5, <2>2 DEF ListCategory, Return, Seen, EntriesAt, TypeInv, ListTypeOK
  <2>4. issues' \subseteq IssueSet
    <3>1. PICK c \in unlisted :
            issues' \in {issues,
              issues \cup {<<EntryPath(e), "symlink">> :
                             e \in {f \in IF scene.directory[<<Current, c>>] = "directory"
                                            THEN Seen(Current, c) ELSE {}
                                      : scene.kind[f] = "symlink"}}
                     \cup (IF scene.directory[<<Current, c>>] \in {"symlink", "unreadable"}
                             THEN {<<CategoryPath(Current, c), scene.directory[<<Current, c>>]>>}
                             ELSE {})}
      BY <1>5 DEF ListCategory
    <3>2. c \in Categories
      BY DEF TypeInv, ListTypeOK
    <3>3. \A e \in Seen(Current, c) : <<EntryPath(e), "symlink">> \in IssueSet
      BY IssueFacts DEF Seen, EntriesAt
    <3>4. scene.directory[<<Current, c>>] \in {"symlink", "unreadable"} =>
            <<CategoryPath(Current, c), scene.directory[<<Current, c>>]>> \in IssueSet
      BY <2>1, <3>2, IssueFacts
    <3>. DEFINE found == IF scene.directory[<<Current, c>>] = "directory" THEN Seen(Current, c) ELSE {}
    <3>. DEFINE links == {<<EntryPath(e), "symlink">> : e \in {f \in found : scene.kind[f] = "symlink"}}
    <3>. DEFINE bad == IF scene.directory[<<Current, c>>] \in {"symlink", "unreadable"}
                         THEN {<<CategoryPath(Current, c), scene.directory[<<Current, c>>]>>} ELSE {}
    <3>5. links \subseteq IssueSet
      BY <3>3
    <3>6. bad \subseteq IssueSet
      BY <3>4
    <3>7. issues' \in {issues, issues \cup links \cup bad}
      BY <3>1
    <3>. HIDE DEF links, bad
    <3>. QED BY <3>5, <3>6, <3>7 DEF TypeInv, OutTypeOK
  <2>5. OutTypeOK'
    BY <1>5, <2>1, <2>4 DEF ListCategory, TypeInv, PhaseInv, OutTypeOK
  <2>6. PhaseInv'
    BY <1>5, <2>1, <2>2 DEF ListCategory, Return, TypeInv, PhaseInv, AllExited, Busy, Answered
  <2>. QED BY <1>1, <2>3, <2>5, <2>6 DEF TypeInv
<1>6. CASE NextRepository
  <2>1. turn + 1 \in 1..Len(Repositories) + 1
    BY <1>2, <1>6 DEF NextRepository, TypeInv, ListTypeOK, PhaseInv
  <2>2. ListTypeOK' /\ OutTypeOK'
    BY <1>6, <2>1 DEF NextRepository, TypeInv, ListTypeOK, OutTypeOK
  <2>3. PhaseInv'
    BY <1>6 DEF NextRepository, TypeInv, PhaseInv, AllExited, Busy, Answered
  <2>. QED BY <1>1, <2>2, <2>3 DEF TypeInv
<1>. QED BY <1>3, <1>4, <1>5, <1>6

(***************************************************************************)
(* The start and the end of the pool, and the sort, keep the types.        *)
(***************************************************************************)
LEMMA PoolTyped ==
  ASSUME TypeInv, StartPool \/ StopFeeding \/ EndPool \/ Sort \/ Finish
  PROVE  TypeInv'
<1>. USE DEF listVars, poolVars, workVars, outVars, cacheVars
<1>1. CacheTypeOK'
  BY DEF StartPool, StopFeeding, EndPool, Sort, Finish, TypeInv, CacheTypeOK
<1>2. Len(Repositories) \in Nat
  BY RepositoryFacts
<1>3. CASE StartPool
  <2>1. ListTypeOK' /\ WorkTypeOK' /\ OutTypeOK'
    BY <1>3 DEF StartPool, TypeInv, ListTypeOK, WorkTypeOK, OutTypeOK
  <2>2. turn = Len(Repositories) + 1
    BY <1>2, <1>3 DEF StartPool, TypeInv, ListTypeOK
  <2>3. \A w \in Workers : wpc'[w] \in {"idle", "exited"}
    BY <1>3 DEF StartPool
  <2>4. PhaseInv'
    BY <1>3, <2>2, <2>3 DEF StartPool, TypeInv, PhaseInv, Busy, Answered
  <2>. QED BY <1>1, <2>1, <2>4 DEF TypeInv
<1>4. CASE StopFeeding
  <2>1. ListTypeOK' /\ WorkTypeOK' /\ OutTypeOK'
    BY <1>4 DEF StopFeeding, TypeInv, ListTypeOK, WorkTypeOK, OutTypeOK
  <2>2. PhaseInv'
    BY <1>4 DEF StopFeeding, TypeInv, PhaseInv, AllExited, Busy, Answered
  <2>. QED BY <1>1, <2>1, <2>2 DEF TypeInv
<1>5. CASE EndPool
  <2>1. ListTypeOK' /\ WorkTypeOK' /\ OutTypeOK'
    BY <1>5 DEF EndPool, Return, TypeInv, ListTypeOK, WorkTypeOK, OutTypeOK
  <2>2. PhaseInv'
    BY <1>5 DEF EndPool, PoolOver, Return, TypeInv, PhaseInv, AllExited, Busy, Answered
  <2>. QED BY <1>1, <2>1, <2>2 DEF TypeInv
<1>6. CASE Sort
  <2>1. PICK j \in Place(Head(collected), inventory) \cup {0} :
             inventory' = InsertAt(inventory, j + 1, Head(collected))
    BY <1>6 DEF Sort
  <2>2. inventory \in Seq(listed) /\ collected \in Seq(listed) /\ collected # <<>>
    BY <1>6 DEF Sort, TypeInv, OutTypeOK
  <2>3. j \in 0..Len(inventory)
    BY <2>2 DEF Place
  <2>4. Head(collected) \in listed /\ Tail(collected) \in Seq(listed)
    BY <2>2, TailItems
  <2>5. inventory' \in Seq(listed)
    BY <2>1, <2>2, <2>3, <2>4, InsertItems
  <2>6. ListTypeOK' /\ WorkTypeOK'
    BY <1>6 DEF Sort, TypeInv, ListTypeOK, WorkTypeOK
  <2>7. OutTypeOK'
    BY <1>6, <2>4, <2>5 DEF Sort, TypeInv, OutTypeOK
  <2>8. PhaseInv'
    BY <1>6 DEF Sort, TypeInv, PhaseInv, AllExited, Busy, Answered
  <2>. QED BY <1>1, <2>6, <2>7, <2>8 DEF TypeInv
<1>7. CASE Finish
  <2>1. ListTypeOK' /\ WorkTypeOK' /\ OutTypeOK'
    BY <1>7 DEF Finish, Return, TypeInv, ListTypeOK, WorkTypeOK, OutTypeOK
  <2>2. PhaseInv'
    BY <1>7 DEF Finish, Return, TypeInv, PhaseInv, AllExited, Busy, Answered
  <2>. QED BY <1>1, <2>1, <2>2 DEF TypeInv
<1>. QED BY <1>3, <1>4, <1>5, <1>6, <1>7

(***************************************************************************)
(* What the collector receives keeps the types.                            *)
(***************************************************************************)
LEMMA CollectTyped ==
  ASSUME TypeInv, Collect
  PROVE  TypeInv'
<1>. USE DEF listVars, poolVars, workVars, outVars, cacheVars
<1>1. CacheTypeOK' /\ ListTypeOK' /\ WorkTypeOK'
  BY DEF Collect, TypeInv, CacheTypeOK, ListTypeOK, WorkTypeOK
<1>2. /\ channel \in Seq(listed \X (Codes \cup {"good"})) /\ channel # <<>>
      /\ collected \in Seq(listed)
  BY DEF Collect, TypeInv, OutTypeOK
<1>3. Head(channel) \in listed \X (Codes \cup {"good"}) /\ Tail(channel) \in Seq(listed \X (Codes \cup {"good"}))
  BY <1>2, TailItems
<1>4. Head(channel)[1] \in listed /\ Head(channel)[1] \in Entries /\ Head(channel)[2] \in Codes \cup {"good"}
  BY <1>3 DEF TypeInv, ListTypeOK
<1>5. OutTypeOK'
  <2>1. CASE Head(channel)[2] = "good"
    <3>1. /\ collected' = Append(collected, Head(channel)[1])
          /\ UNCHANGED <<issues, listed, inventory>> /\ channel' = Tail(channel)
      BY <2>1 DEF Collect
    <3>2. Append(collected, Head(channel)[1]) \in Seq(listed)
      BY <1>2, <1>4, AppendItems
    <3>. QED BY <1>3, <3>1, <3>2 DEF TypeInv, OutTypeOK
  <2>2. CASE Head(channel)[2] # "good"
    BY <1>2, <1>3, <1>4, <2>2, IssueFacts DEF Collect, Blame, TypeInv, OutTypeOK
  <2>. QED BY <2>1, <2>2
<1>6. PhaseInv'
  BY DEF Collect, TypeInv, PhaseInv, AllExited, Busy, Answered
<1>. QED BY <1>1, <1>5, <1>6 DEF TypeInv

(***************************************************************************)
(* Every step keeps the types.                                             *)
(***************************************************************************)
LEMMA TypeStep == TypeInv /\ [Next]_vars => TypeInv'
<1>. SUFFICES ASSUME TypeInv, [Next]_vars PROVE TypeInv'
  OBVIOUS
<1>1. CASE UNCHANGED vars
  <2>. USE <1>1 DEF vars, cacheVars, listVars, poolVars, workVars, outVars
  <2>1. CacheTypeOK' /\ ListTypeOK' /\ WorkTypeOK' /\ OutTypeOK'
    BY DEF TypeInv, CacheTypeOK, ListTypeOK, WorkTypeOK, OutTypeOK
  <2>2. PhaseInv'
    BY DEF TypeInv, PhaseInv, AllExited, Busy, Answered
  <2>. QED BY <2>1, <2>2 DEF TypeInv
<1>2. CASE Next
  <2>1. CASE CallStep
    BY <2>1, ListingTyped, PoolTyped, CollectTyped DEF CallStep
  <2>2. CASE \E w \in Workers : WorkerStep(w)
    BY <2>2, WorkerTyped
  <2>3. CASE ContextDone \/ \E e \in Entries : Change(e)
    BY <2>3, ChangeTyped
  <2>. QED BY <1>1, <1>2, <2>1, <2>2, <2>3 DEF Next, Terminated
<1>. QED BY <1>1, <1>2

-----------------------------------------------------------------------------
(* No entry is in two places                                               *)

First(s) == [i \in 1..Len(s) |-> s[i][1]]

Sent == Items(First(channel))
Delivered == Sent \cup Items(collected) \cup Items(inventory)

\* A task is still to be fed, or a worker has it, or its result is in the channel, or
\* it is collected, or sorted: in one place only, and once.
PlaceInv ==
  /\ Once(First(channel)) /\ Once(collected) /\ Once(inventory)
  /\ Sent \cap Items(collected) = {} /\ Sent \cap Items(inventory) = {}
  /\ Items(collected) \cap Items(inventory) = {}
  /\ toFeed \cap Delivered = {}
  /\ \A w \in Workers : Busy(w) => task[w] \notin toFeed /\ task[w] \notin Delivered
  /\ \A v, w \in Workers : Busy(v) /\ Busy(w) /\ task[v] = task[w] => v = w

(***************************************************************************)
(* The first components of a sequence of pairs.                            *)
(***************************************************************************)
LEMMA FirstItems ==
  ASSUME NEW P, NEW S, \A r \in P : r[1] \in S, NEW s \in Seq(P)
  PROVE  /\ First(s) \in Seq(S) /\ Len(First(s)) = Len(s)
         /\ \A r \in P : First(Append(s, r)) = Append(First(s), r[1])
         /\ s # <<>> => First(s) # <<>> /\ Head(First(s)) = Head(s)[1] /\ First(Tail(s)) = Tail(First(s))
<1>1. /\ Len(s) \in Nat /\ DOMAIN s = 1..Len(s)
      /\ \A i \in 1..Len(s) : s[i] \in P /\ s[i][1] \in S
  OBVIOUS
<1>2. First(s) \in Seq(S) /\ Len(First(s)) = Len(s)
  BY <1>1 DEF First
<1>3. ASSUME NEW r \in P PROVE First(Append(s, r)) = Append(First(s), r[1])
  <2>. DEFINE t == Append(s, r)
  <2>. DEFINE x == r[1]
  <2>1. x \in S
    OBVIOUS
  <2>2. /\ t \in Seq(P) /\ Len(t) = Len(s) + 1 /\ t[Len(s) + 1][1] = x
        /\ \A i \in 1..Len(s) : t[i] = s[i]
    BY <2>1
  <2>. HIDE DEF t, x
  <2>3. /\ Append(First(s), x) \in Seq(S) /\ Len(Append(First(s), x)) = Len(s) + 1
        /\ Append(First(s), x)[Len(s) + 1] = x
        /\ \A i \in 1..Len(s) : Append(First(s), x)[i] = First(s)[i]
    BY <1>2, <2>1
  <2>4. \A i \in 1..Len(s) + 1 : i \in 1..Len(s) \/ i = Len(s) + 1
    BY <1>1
  <2>5. \A i \in 1..Len(s) + 1 : Append(First(s), x)[i] = t[i][1]
    BY <2>2, <2>3, <2>4 DEF First
  <2>6. Append(First(s), x) = [i \in 1..Len(s) + 1 |-> t[i][1]]
    <3>. DEFINE u == Append(First(s), x)
    <3>. HIDE DEF u
    <3>0. u \in Seq(S) /\ Len(u) = Len(s) + 1
      BY <2>3 DEF u
    <3>1. u = [i \in 1..Len(u) |-> u[i]] /\ Len(u) = Len(s) + 1
      BY <3>0
    <3>2. \A i \in 1..Len(s) + 1 : u[i] = t[i][1]
      BY <2>5 DEF u
    <3>. QED BY <3>1, <3>2 DEF u
  <2>7. First(t) = [i \in 1..Len(s) + 1 |-> t[i][1]]
    BY <2>2 DEF First
  <2>. QED BY <2>6, <2>7 DEF t, x
<1>4. ASSUME s # <<>>
      PROVE  First(s) # <<>> /\ Head(First(s)) = Head(s)[1] /\ First(Tail(s)) = Tail(First(s))
  <2>1. /\ Tail(s) \in Seq(P) /\ Len(Tail(s)) = Len(s) - 1
        /\ \A i \in 1..Len(s) - 1 : Tail(s)[i] = s[i + 1]
        /\ Head(s) = s[1] /\ 1 \in 1..Len(s)
    BY <1>4, HeadTailProperties
  <2>2. First(s) # <<>>
    BY <1>1, <1>2, <2>1
  <2>3. /\ Tail(First(s)) \in Seq(S) /\ Len(Tail(First(s))) = Len(s) - 1
        /\ \A i \in 1..Len(s) - 1 : Tail(First(s))[i] = First(s)[i + 1]
        /\ Head(First(s)) = First(s)[1]
    BY <1>2, <2>2, HeadTailProperties
  <2>4. \A i \in 1..Len(s) - 1 : i + 1 \in 1..Len(s)
    BY <1>1
  <2>5. \A i \in 1..Len(s) - 1 : Tail(First(s))[i] = Tail(s)[i][1]
    BY <2>1, <2>3, <2>4 DEF First
  <2>6. Tail(First(s)) = [i \in 1..Len(s) - 1 |-> Tail(s)[i][1]]
    <3>. DEFINE u == Tail(First(s))
    <3>. HIDE DEF u
    <3>0. u \in Seq(S) /\ Len(u) = Len(s) - 1
      BY <2>3 DEF u
    <3>1. u = [i \in 1..Len(u) |-> u[i]] /\ Len(u) = Len(s) - 1
      BY <3>0
    <3>2. \A i \in 1..Len(s) - 1 : u[i] = Tail(s)[i][1]
      BY <2>5 DEF u
    <3>. QED BY <3>1, <3>2 DEF u
  <2>7. First(Tail(s)) = [i \in 1..Len(s) - 1 |-> Tail(s)[i][1]]
    BY <2>1 DEF First
  <2>8. Head(First(s)) = Head(s)[1]
    BY <2>1, <2>3 DEF First
  <2>. QED BY <2>2, <2>6, <2>7, <2>8
<1>. QED BY <1>2, <1>3, <1>4

(***************************************************************************)
(* Nothing is in an empty sequence.                                        *)
(***************************************************************************)
LEMMA EmptyItems == Items(<<>>) = {} /\ Once(<<>>) /\ First(<<>>) = <<>>
BY DEF Items, Once, First

(***************************************************************************)
(* What the sequences of a well-typed state hold.                          *)
(***************************************************************************)
LEMMA SequenceFacts ==
  ASSUME TypeInv
  PROVE  /\ channel \in Seq(listed \X (Codes \cup {"good"}))
         /\ First(channel) \in Seq(listed) /\ Len(First(channel)) = Len(channel)
         /\ collected \in Seq(listed) /\ inventory \in Seq(listed)
         /\ Delivered \subseteq listed /\ listed \subseteq Entries
<1>1. /\ channel \in Seq(listed \X (Codes \cup {"good"}))
      /\ collected \in Seq(listed) /\ inventory \in Seq(listed) /\ listed \subseteq Entries
  BY DEF TypeInv, OutTypeOK, ListTypeOK
<1>2. First(channel) \in Seq(listed) /\ Len(First(channel)) = Len(channel)
  <2>. DEFINE R == listed \X (Codes \cup {"good"})
  <2>1. channel \in Seq(R) /\ \A r \in R : r[1] \in listed
    BY <1>1
  <2>. HIDE DEF R
  <2>. QED BY <2>1, FirstItems
<1>3. \A s \in Seq(listed) : Items(s) \subseteq listed
  BY DEF Items
<1>. QED BY <1>1, <1>2, <1>3 DEF Delivered, Sent

(***************************************************************************)
(* What one step of a worker is: it takes a task, it ends, it goes on with *)
(* its file, or it sends a result.                                         *)
(***************************************************************************)
Takes(w, e) ==
  /\ feeding /\ wpc[w] = "idle" /\ e \in toFeed /\ toFeed' = toFeed \ {e}
  /\ task' = [task EXCEPT ![w] = e] /\ wpc' = [wpc EXCEPT ![w] = "took"]
  /\ UNCHANGED <<cacheVars, done, phase, listVars, feeding, stat, opened, text, channel, outVars,
                 result>>

Quiet == UNCHANGED <<cacheVars, done, phase, listVars, poolVars, outVars, result>>
GoesOn(w) == Busy(w) /\ Quiet /\ \E place \in {"open", "read", "check"} : GoTo(w, place)
Sends(w, code) == Busy(w) /\ Quiet /\ Send(w, code)

(***************************************************************************)
(* The kinds of steps of a worker.                                         *)
(***************************************************************************)
LEMMA WorkerKinds ==
  ASSUME NEW w \in Workers, WorkerStep(w)
  PROVE  \/ \E e \in toFeed : Takes(w, e)
         \/ WorkerExits(w)
         \/ GoesOn(w)
         \/ \E code \in Codes \cup {"good"} : Sends(w, code)
<1>1. /\ "good" \in Codes \cup {"good"} /\ "malformed" \in Codes \cup {"good"}
      /\ "unreadable" \in Codes \cup {"good"} /\ "mutation" \in Codes \cup {"good"}
      /\ "invalid" \in Codes \cup {"good"}
  BY DEF Codes
<1>2. CASE Feed(w)
  BY <1>2 DEF Feed, Takes, cacheVars, listVars, outVars
<1>3. CASE Stat(w)
  BY <1>1, <1>3 DEF Stat, Busy, Quiet, GoesOn, Sends
<1>4. CASE Open(w)
  BY <1>1, <1>4 DEF Open, Busy, Quiet, GoesOn, Sends
<1>5. CASE Read(w)
  BY <1>1, <1>5 DEF Read, Busy, Quiet, GoesOn, Sends
<1>6. CASE Check(w)
  BY <1>1, <1>6 DEF Check, Busy, Quiet, GoesOn, Sends
<1>. QED BY <1>2, <1>3, <1>4, <1>5, <1>6 DEF WorkerStep

(***************************************************************************)
(* A result that is sent is no longer with its worker: the channel holds   *)
(* one entry more.                                                         *)
(***************************************************************************)
LEMMA SendFacts ==
  ASSUME TypeInv, NEW w \in Workers, NEW code \in Codes \cup {"good"}, Sends(w, code)
  PROVE  /\ task[w] \in listed
         /\ channel' = Append(channel, <<task[w], code>>)
         /\ First(channel') = Append(First(channel), task[w])
         /\ Items(First(channel')) = Sent \cup {task[w]}
         /\ Once(First(channel)) /\ task[w] \notin Sent => Once(First(channel'))
         /\ ~Busy(w)'
         /\ \A v \in Workers \ {w} : wpc'[v] = wpc[v] /\ task'[v] = task[v]
<1>1. task[w] \in listed /\ channel' = Append(channel, <<task[w], code>>)
  BY BusyFacts DEF Sends, Send
<1>2. First(channel') = Append(First(channel), task[w])
  <2>. DEFINE R == listed \X (Codes \cup {"good"})
  <2>. DEFINE r == <<task[w], code>>
  <2>1. channel \in Seq(R) /\ (\A q \in R : q[1] \in listed) /\ r \in R /\ r[1] = task[w]
    BY <1>1, SequenceFacts
  <2>. HIDE DEF R, r
  <2>2. First(Append(channel, r)) = Append(First(channel), r[1])
    BY <2>1, FirstItems
  <2>. QED BY <1>1, <2>1, <2>2 DEF r
<1>3. /\ Items(Append(First(channel), task[w])) = Items(First(channel)) \cup {task[w]}
      /\ Once(First(channel)) /\ task[w] \notin Items(First(channel))
           => Once(Append(First(channel), task[w]))
  BY <1>1, SequenceFacts, AppendItems
<1>4. ~Busy(w)' /\ \A v \in Workers \ {w} : wpc'[v] = wpc[v] /\ task'[v] = task[v]
  BY DEF Sends, Send, Busy, TypeInv, WorkTypeOK
<1>. QED BY <1>1, <1>2, <1>3, <1>4 DEF Sent

(***************************************************************************)
(* The steps of a worker leave every entry in one place.                   *)
(***************************************************************************)
LEMMA WorkerPlaces ==
  ASSUME TypeInv, PlaceInv, NEW w \in Workers, WorkerStep(w)
  PROVE  PlaceInv'
<1>1. wpc \in [Workers -> {"exited", "idle", "took", "open", "read", "check"}]
      /\ task \in [Workers -> Entries \cup {0}]
  BY DEF TypeInv, WorkTypeOK
<1>2. ASSUME NEW e \in toFeed, Takes(w, e) PROVE PlaceInv'
  <2>1. UNCHANGED <<channel, collected, inventory>> /\ toFeed' = toFeed \ {e}
    BY <1>2 DEF Takes, outVars
  <2>2. task'[w] = e /\ \A v \in Workers \ {w} : task'[v] = task[v] /\ wpc'[v] = wpc[v]
    BY <1>1, <1>2 DEF Takes
  <2>3. Delivered' = Delivered /\ Sent' = Sent
    BY <2>1 DEF Delivered, Sent
  <2>4. e \notin toFeed' /\ e \notin Delivered' /\ \A v \in Workers \ {w} : Busy(v)' => task'[v] # e
    BY <1>2, <2>1, <2>2, <2>3 DEF PlaceInv, Busy
  <2>5. \A v \in Workers : Busy(v)' => task'[v] \notin toFeed' /\ task'[v] \notin Delivered'
    BY <2>1, <2>2, <2>3, <2>4 DEF PlaceInv, Busy
  <2>6. ASSUME NEW v \in Workers, NEW u \in Workers, Busy(v)', Busy(u)', task'[v] = task'[u]
        PROVE  v = u
    <3>1. CASE v = w \/ u = w
      BY <2>2, <2>4, <2>6, <3>1
    <3>2. CASE v # w /\ u # w
      BY <2>2, <2>6, <3>2 DEF PlaceInv, Busy
    <3>. QED BY <3>1, <3>2
  <2>. QED BY <2>1, <2>3, <2>5, <2>6 DEF PlaceInv
<1>3. CASE WorkerExits(w) \/ GoesOn(w)
  <2>1. UNCHANGED <<channel, collected, inventory, toFeed>>
    BY <1>3 DEF WorkerExits, GoesOn, GoTo, Quiet, outVars, poolVars
  <2>2. \A v \in Workers : Busy(v)' => Busy(v) /\ task'[v] = task[v]
    BY <1>1, <1>3 DEF WorkerExits, GoesOn, GoTo, Busy
  <2>3. Delivered' = Delivered /\ Sent' = Sent
    BY <2>1 DEF Delivered, Sent
  <2>. QED BY <2>1, <2>2, <2>3 DEF PlaceInv
<1>4. ASSUME NEW code \in Codes \cup {"good"}, Sends(w, code) PROVE PlaceInv'
  <2>1. UNCHANGED <<collected, inventory, toFeed>> /\ Busy(w)
    BY <1>4 DEF Sends, Quiet, outVars, poolVars
  <2>2. task[w] \notin toFeed /\ task[w] \notin Delivered
        /\ \A v \in Workers \ {w} : Busy(v) => task[v] # task[w]
    BY <2>1 DEF PlaceInv
  <2>3. Once(First(channel))' /\ Sent' = Sent \cup {task[w]} /\ Delivered' = Delivered \cup {task[w]}
    BY <1>4, <2>1, <2>2, SendFacts DEF PlaceInv, Sent, Delivered
  <2>4. \A v \in Workers : Busy(v)' => v # w /\ Busy(v) /\ task'[v] = task[v]
    BY <1>4, SendFacts DEF Busy
  <2>5. task[w] \notin Items(collected) /\ task[w] \notin Items(inventory)
    BY <2>2 DEF Delivered
  <2>. QED BY <2>1, <2>2, <2>3, <2>4, <2>5 DEF PlaceInv
<1>. QED BY <1>2, <1>3, <1>4, WorkerKinds

(***************************************************************************)
(* What Collect does: the first result leaves the channel, and is an issue *)
(* or a candidate.                                                         *)
(***************************************************************************)
LEMMA CollectFacts ==
  ASSUME TypeInv, Once(First(channel)), Collect
  PROVE  /\ Head(channel)[1] \in listed /\ Head(channel)[2] \in Codes \cup {"good"}
         /\ First(channel)' = Tail(First(channel))
         /\ Once(First(channel))' /\ Head(channel)[1] \notin Sent'
         /\ Sent = Sent' \cup {Head(channel)[1]}
         /\ Head(channel) \in Items(channel) /\ Items(channel') \subseteq Items(channel)
         /\ \/ /\ Head(channel)[2] = "good" /\ UNCHANGED issues
               /\ collected' = Append(collected, Head(channel)[1])
               /\ Items(collected') = Items(collected) \cup {Head(channel)[1]}
               /\ Once(collected) /\ Head(channel)[1] \notin Items(collected) => Once(collected')
            \/ /\ Head(channel)[2] # "good" /\ UNCHANGED collected
               /\ issues' = issues \cup {<<EntryPath(Head(channel)[1]), Head(channel)[2]>>}
<1>. DEFINE R == listed \X (Codes \cup {"good"})
<1>1. channel \in Seq(R) /\ (\A r \in R : r[1] \in listed /\ r[2] \in Codes \cup {"good"})
      /\ channel # <<>> /\ channel' = Tail(channel)
  BY SequenceFacts DEF Collect
<1>. HIDE DEF R
<1>2. /\ Head(channel) \in R /\ Items(channel) = Items(Tail(channel)) \cup {Head(channel)}
  BY <1>1, TailItems
<1>3. /\ First(channel) # <<>> /\ Head(First(channel)) = Head(channel)[1]
      /\ First(Tail(channel)) = Tail(First(channel))
  BY <1>1, FirstItems
<1>4. /\ Items(First(channel)) = Items(Tail(First(channel))) \cup {Head(First(channel))}
      /\ Once(Tail(First(channel))) /\ Head(First(channel)) \notin Items(Tail(First(channel)))
  BY <1>3, SequenceFacts, TailItems
<1>5. Head(channel)[1] \in listed /\ Head(channel)[2] \in Codes \cup {"good"}
  BY <1>1, <1>2
<1>6. /\ Items(Append(collected, Head(channel)[1])) = Items(collected) \cup {Head(channel)[1]}
      /\ Once(collected) /\ Head(channel)[1] \notin Items(collected)
           => Once(Append(collected, Head(channel)[1]))
  BY <1>5, SequenceFacts, AppendItems
<1>7. First(channel)' = Tail(First(channel)) /\ Sent' = Items(Tail(First(channel)))
  BY <1>1, <1>3 DEF Sent
<1>8. \/ /\ Head(channel)[2] = "good" /\ UNCHANGED issues
         /\ collected' = Append(collected, Head(channel)[1])
      \/ /\ Head(channel)[2] # "good" /\ UNCHANGED collected
         /\ issues' = issues \cup {<<EntryPath(Head(channel)[1]), Head(channel)[2]>>}
  BY DEF Collect, Blame
<1>. QED BY <1>1, <1>2, <1>3, <1>4, <1>5, <1>6, <1>7, <1>8 DEF Sent

(***************************************************************************)
(* What Sort does: a candidate is inserted after the last one it is not    *)
(* smaller than.                                                           *)
(***************************************************************************)
LEMMA SortFacts ==
  ASSUME TypeInv, Sort
  PROVE  \E j \in 0..Len(inventory) :
           /\ j \in Place(Head(collected), inventory) \cup {0}
           /\ \A k \in Place(Head(collected), inventory) : k <= j
           /\ Head(collected) \in listed
           /\ collected' = Tail(collected)
           /\ Items(collected) = Items(collected') \cup {Head(collected)}
           /\ Once(collected) => Once(collected') /\ Head(collected) \notin Items(collected')
           /\ inventory' \in Seq(listed) /\ Len(inventory') = Len(inventory) + 1
           /\ \A k \in 1..j : inventory'[k] = inventory[k]
           /\ inventory'[j + 1] = Head(collected)
           /\ \A k \in j + 2..Len(inventory) + 1 : inventory'[k] = inventory[k - 1]
           /\ Items(inventory') = Items(inventory) \cup {Head(collected)}
           /\ Once(inventory) /\ Head(collected) \notin Items(inventory) => Once(inventory')
<1>1. /\ inventory \in Seq(listed) /\ collected \in Seq(listed) /\ collected # <<>>
      /\ collected' = Tail(collected)
  BY SequenceFacts DEF Sort
<1>2. PICK j \in Place(Head(collected), inventory) \cup {0} :
        /\ \A k \in Place(Head(collected), inventory) : k <= j
        /\ inventory' = InsertAt(inventory, j + 1, Head(collected))
  BY DEF Sort
<1>3. j \in 0..Len(inventory)
  BY <1>1 DEF Place
<1>4. /\ Head(collected) \in listed
      /\ Items(collected) = Items(collected') \cup {Head(collected)}
      /\ Once(collected) => Once(collected') /\ Head(collected) \notin Items(collected')
  BY <1>1, TailItems
<1>5. /\ inventory' \in Seq(listed) /\ Len(inventory') = Len(inventory) + 1
      /\ \A k \in 1..j : inventory'[k] = inventory[k]
      /\ inventory'[j + 1] = Head(collected)
      /\ \A k \in j + 2..Len(inventory) + 1 : inventory'[k] = inventory[k - 1]
  <2>. DEFINE x == Head(collected)
  <2>. DEFINE t == inventory'
  <2>1. x \in listed /\ t = InsertAt(inventory, j + 1, x)
    BY <1>2, <1>4
  <2>. HIDE DEF x, t
  <2>2. t \in Seq(listed) /\ Len(t) = Len(inventory) + 1
    BY <1>1, <1>3, <2>1, InsertItems
  <2>3. \A k \in 1..j : t[k] = inventory[k]
    BY <1>1, <1>3, <2>1, InsertItems
  <2>4. \A k \in {j + 1} : t[k] = x
    BY <1>1, <1>3, <2>1, InsertItems
  <2>5. \A k \in j + 2..Len(inventory) + 1 : t[k] = inventory[k - 1]
    BY <1>1, <1>3, <2>1, InsertItems
  <2>. QED BY <2>2, <2>3, <2>4, <2>5 DEF x, t
<1>6. /\ Items(inventory') = Items(inventory) \cup {Head(collected)}
      /\ Once(inventory) /\ Head(collected) \notin Items(inventory) => Once(inventory')
  BY <1>1, <1>3, <1>4, <1>5, InsertOnce
<1>. QED BY <1>1, <1>2, <1>3, <1>4, <1>5, <1>6

(***************************************************************************)
(* Every step leaves every entry in one place.                             *)
(***************************************************************************)
LEMMA PlaceStep == TypeInv /\ PlaceInv /\ [Next]_vars => PlaceInv'
<1>. SUFFICES ASSUME TypeInv, PlaceInv, [Next]_vars PROVE PlaceInv'
  OBVIOUS
<1>1. CASE UNCHANGED <<channel, collected, inventory, toFeed, wpc, task>>
  BY <1>1 DEF PlaceInv, Sent, Delivered, Busy
<1>2. CASE UNCHANGED vars \/ ContextDone \/ (\E e \in Entries : Change(e)) \/ Start \/ ListRoot
           \/ ListCategory \/ NextRepository \/ StopFeeding \/ EndPool \/ Finish
  BY <1>1, <1>2 DEF vars, ContextDone, Change, Start, ListRoot, ListCategory, NextRepository,
                    StopFeeding, EndPool, Finish, listVars, poolVars, workVars, outVars, cacheVars
<1>3. CASE StartPool
  <2>1. /\ channel' = <<>> /\ collected' = <<>> /\ inventory' = <<>>
        /\ \A w \in Workers : wpc'[w] \in {"idle", "exited"}
    BY <1>3 DEF StartPool, outVars, TypeInv, PhaseInv
  <2>2. Sent' = {} /\ Items(collected') = {} /\ Items(inventory') = {} /\ Delivered' = {}
        /\ Once(First(channel))' /\ Once(collected)' /\ Once(inventory)'
    BY <2>1, EmptyItems DEF Sent, Delivered
  <2>. QED BY <2>1, <2>2 DEF PlaceInv, Busy
<1>4. CASE Collect
  <2>1. UNCHANGED <<wpc, task, toFeed, inventory>>
    BY <1>4 DEF Collect, workVars, poolVars
  <2>2. /\ Sent = Sent' \cup {Head(channel)[1]} /\ Head(channel)[1] \notin Sent' /\ Once(First(channel))'
        /\ \/ /\ Items(collected') = Items(collected) \cup {Head(channel)[1]}
              /\ Once(collected) /\ Head(channel)[1] \notin Items(collected) => Once(collected')
           \/ UNCHANGED collected
    BY <1>4, CollectFacts DEF PlaceInv
  <2>3. Delivered' \subseteq Delivered
    BY <2>1, <2>2 DEF Delivered
  <2>4. Once(collected') /\ Items(collected)' \subseteq Items(collected) \cup {Head(channel)[1]}
    BY <2>2 DEF PlaceInv
  <2>5. \A w \in Workers : Busy(w)' <=> Busy(w)
    BY <2>1 DEF Busy
  <2>. QED BY <2>1, <2>2, <2>3, <2>4, <2>5 DEF PlaceInv
<1>5. CASE Sort
  <2>1. UNCHANGED <<wpc, task, toFeed, channel>>
    BY <1>5 DEF Sort, workVars, poolVars
  <2>2. /\ Items(collected) = Items(collected') \cup {Head(collected)}
        /\ Once(collected') /\ Head(collected) \notin Items(collected')
        /\ Items(inventory') = Items(inventory) \cup {Head(collected)}
        /\ Once(inventory) /\ Head(collected) \notin Items(inventory) => Once(inventory')
    BY <1>5, SortFacts DEF PlaceInv
  <2>3. Delivered' = Delivered /\ Sent' = Sent
    BY <2>1, <2>2 DEF Delivered, Sent
  <2>4. \A w \in Workers : Busy(w)' <=> Busy(w)
    BY <2>1 DEF Busy
  <2>. QED BY <2>1, <2>2, <2>3, <2>4 DEF PlaceInv
<1>. QED BY <1>2, <1>3, <1>4, <1>5, WorkerPlaces DEF Next, CallStep, Terminated

(***************************************************************************)
(* No more results are in the channel, collected and sorted than there are *)
(* tasks.                                                                  *)
(***************************************************************************)
LEMMA PlaceCount ==
  ASSUME TypeInv, PlaceInv
  PROVE  Len(channel) + Len(collected) + Len(inventory) <= Cardinality(listed)
<1>1. IsFiniteSet(listed) /\ Delivered \subseteq listed
  BY SequenceFacts, CandidateAssumption, FS_Subset
<1>2. /\ IsFiniteSet(Sent) /\ Cardinality(Sent) = Len(channel)
      /\ IsFiniteSet(Items(collected)) /\ Cardinality(Items(collected)) = Len(collected)
      /\ IsFiniteSet(Items(inventory)) /\ Cardinality(Items(inventory)) = Len(inventory)
  BY SequenceFacts, CountItems DEF PlaceInv, Sent
<1>3. Len(channel) \in Nat /\ Len(collected) \in Nat /\ Len(inventory) \in Nat
  BY SequenceFacts
<1>. DEFINE Both == Sent \cup Items(collected)
<1>4. IsFiniteSet(Both) /\ Cardinality(Both) = Len(channel) + Len(collected)
  <2>1. Cardinality(Sent \cap Items(collected)) = 0
    BY FS_EmptySet DEF PlaceInv
  <2>2. IsFiniteSet(Both) /\ Cardinality(Both) = Cardinality(Sent) + Cardinality(Items(collected))
                                                 - Cardinality(Sent \cap Items(collected))
    BY <1>2, FS_Union
  <2>. QED BY <1>2, <1>3, <2>1, <2>2
<1>5. Cardinality(Delivered) = Len(channel) + Len(collected) + Len(inventory)
  <2>1. Both \cap Items(inventory) = {} /\ Delivered = Both \cup Items(inventory)
    BY DEF PlaceInv, Delivered
  <2>2. Cardinality(Both \cap Items(inventory)) = 0
    BY <2>1, FS_EmptySet
  <2>. HIDE DEF Both
  <2>3. Cardinality(Both \cup Items(inventory)) = Cardinality(Both) + Cardinality(Items(inventory))
                                                  - Cardinality(Both \cap Items(inventory))
    BY <1>2, <1>4, FS_Union
  <2>. QED BY <1>2, <1>3, <1>4, <2>1, <2>2, <2>3
<1>6. Cardinality(Delivered) <= Cardinality(listed)
  BY <1>1, FS_Subset
<1>. QED BY <1>5, <1>6

(***************************************************************************)
(* No entry is in two places, in every reachable state.                    *)
(***************************************************************************)
LEMMA PlaceInvariant == Spec => [](TypeInv /\ PlaceInv)
<1>1. Init => PlaceInv
  <2>. SUFFICES ASSUME Init PROVE PlaceInv
    OBVIOUS
  <2>1. channel = <<>> /\ collected = <<>> /\ inventory = <<>> /\ \A w \in Workers : ~Busy(w)
    BY DEF Init, Busy
  <2>2. Sent = {} /\ Items(collected) = {} /\ Items(inventory) = {} /\ Delivered = {}
        /\ Once(First(channel)) /\ Once(collected) /\ Once(inventory)
    BY <2>1, EmptyItems DEF Sent, Delivered
  <2>. QED BY <2>1, <2>2 DEF PlaceInv
<1>. QED BY <1>1, TypeInit, TypeStep, PlaceStep, PTL DEF Spec

(***************************************************************************)
(* The call's variables keep their types, and no more results arrive than  *)
(* there are tasks: the buffer of the channel is never too small.          *)
(***************************************************************************)
THEOREM ScanTypeCorrect == Spec => []TypeOK
<1>1. TypeInv /\ PlaceInv => TypeOK
  <2>. SUFFICES ASSUME TypeInv, PlaceInv PROVE TypeOK
    OBVIOUS
  <2>1. Len(channel) + Len(collected) + Len(inventory) <= Cardinality(listed)
    BY PlaceCount
  <2>2. CacheTypeOK /\ ListTypeOK /\ WorkTypeOK /\ OutTypeOK
    BY DEF TypeInv
  <2>. QED BY <2>1, <2>2 DEF TypeOK, CacheTypeOK, ListTypeOK, WorkTypeOK, OutTypeOK
<1>. QED BY <1>1, PlaceInvariant, PTL

-----------------------------------------------------------------------------
(* One text of the file                                                    *)

Whole(e) == \E v \in Nat : text[e] = {v}

\* A version that the file still has is the one it had all the time: it has been
\* opened, and read, if the first lstat saw it and the second would.
WorkText(w) ==
  /\ wpc[w] = "read" =>
       text[task[w]] = {opened[w]} /\ (VersionNow(w) = stat[w] => opened[w] = stat[w])
  /\ wpc[w] = "check" => (VersionNow(w) = stat[w] => text[task[w]] = {stat[w]})

TextInv ==
  /\ \A w \in Workers : WorkText(w)
  /\ \A r \in Items(channel) : r[2] = "good" => Whole(r[1])
  /\ \A e \in Items(collected) \cup Items(inventory) : Whole(e)

(***************************************************************************)
(* A result in the channel is one of an entry that was sent.               *)
(***************************************************************************)
LEMMA SentFacts ==
  ASSUME TypeInv
  PROVE  \A r \in Items(channel) : r[1] \in Sent /\ r[1] \in listed /\ r[2] \in Codes \cup {"good"}
<1>. DEFINE R == listed \X (Codes \cup {"good"})
<1>1. channel \in Seq(R) /\ \A r \in R : r[1] \in listed /\ r[2] \in Codes \cup {"good"}
  BY SequenceFacts
<1>. HIDE DEF R
<1>2. \A i \in DOMAIN channel : i \in 1..Len(channel) /\ channel[i] \in R
  BY <1>1
<1>3. \A i \in DOMAIN channel : channel[i][1] \in Sent
  BY <1>2 DEF Sent, Items, First
<1>. QED BY <1>1, <1>2, <1>3 DEF Items

(***************************************************************************)
(* A worker that is on a file touches neither the files of other workers   *)
(* nor what has been delivered.                                            *)
(***************************************************************************)
LEMMA OthersKeep ==
  ASSUME TypeInv, PlaceInv, NEW w \in Workers, Stat(w) \/ Open(w) \/ Read(w) \/ Check(w)
  PROVE  /\ Busy(w) /\ task[w] \in listed /\ task[w] \in Entries
         /\ task[w] \notin Delivered
         /\ UNCHANGED <<version, collected, inventory, issues, listed, scene>>
         /\ \A v \in Workers \ {w} :
              /\ wpc'[v] = wpc[v] /\ task'[v] = task[v]
              /\ stat'[v] = stat[v] /\ opened'[v] = opened[v]
              /\ Busy(v) => task[v] # task[w]
         /\ \A e \in Entries \ {task[w]} : text'[e] = text[e]
<1>1. Busy(w)
  BY DEF Stat, Open, Read, Check, Busy
<1>2. task[w] \in listed /\ task[w] \in Entries /\ task[w] \notin Delivered
      /\ \A v \in Workers \ {w} : Busy(v) => task[v] # task[w]
  BY <1>1, BusyFacts DEF PlaceInv
<1>3. UNCHANGED <<version, collected, inventory, issues, listed, scene>>
  BY DEF Stat, Open, Read, Check, cacheVars, outVars, listVars
<1>4. /\ wpc \in [Workers -> {"exited", "idle", "took", "open", "read", "check"}]
      /\ task \in [Workers -> Entries \cup {0}]
      /\ stat \in [Workers -> 0..clock] /\ opened \in [Workers -> 0..clock]
      /\ text \in [Entries -> SUBSET (1..clock)]
  BY DEF TypeInv, WorkTypeOK
<1>5. \A v \in Workers \ {w} : wpc'[v] = wpc[v] /\ task'[v] = task[v]
  BY <1>4 DEF Stat, Open, Read, Check, Send, GoTo
<1>6. \A v \in Workers \ {w} : stat'[v] = stat[v] /\ opened'[v] = opened[v]
  BY <1>4 DEF Stat, Open, Read, Check, Send, GoTo
<1>7. \A e \in Entries \ {task[w]} : text'[e] = text[e]
  BY <1>2, <1>4 DEF Stat, Open, Read, Check, Send, GoTo
<1>. QED BY <1>1, <1>2, <1>3, <1>5, <1>6, <1>7

(***************************************************************************)
(* The steps of a worker keep the texts whole.                             *)
(***************************************************************************)
LEMMA WorkerText ==
  ASSUME TypeInv, PlaceInv, TextInv, NEW w \in Workers, WorkerStep(w)
  PROVE  TextInv'
<1>1. /\ wpc \in [Workers -> {"exited", "idle", "took", "open", "read", "check"}]
      /\ task \in [Workers -> Entries \cup {0}]
      /\ stat \in [Workers -> 0..clock] /\ opened \in [Workers -> 0..clock]
      /\ text \in [Entries -> SUBSET (1..clock)] /\ clock \in Nat
  BY CandidateAssumption DEF TypeInv, WorkTypeOK, CacheTypeOK
<1>2. CASE Feed(w) \/ WorkerExits(w)
  <2>1. /\ UNCHANGED <<text, version, stat, opened, channel, collected, inventory>>
        /\ wpc'[w] \in {"took", "exited"}
        /\ \A v \in Workers \ {w} : wpc'[v] = wpc[v] /\ task'[v] = task[v]
    BY <1>1, <1>2 DEF Feed, WorkerExits, cacheVars, outVars
  <2>2. \A v \in Workers : WorkText(v)'
    BY <2>1 DEF TextInv, WorkText, VersionNow
  <2>. QED BY <2>1, <2>2 DEF TextInv, Whole
<1>3. CASE Stat(w) \/ Open(w) \/ Read(w) \/ Check(w)
  <2>1. /\ Busy(w) /\ task[w] \in listed /\ task[w] \in Entries /\ task[w] \notin Delivered
        /\ UNCHANGED <<version, collected, inventory>>
        /\ \A v \in Workers \ {w} :
             /\ wpc'[v] = wpc[v] /\ task'[v] = task[v]
             /\ stat'[v] = stat[v] /\ opened'[v] = opened[v]
             /\ Busy(v) => task[v] # task[w]
        /\ \A e \in Entries \ {task[w]} : text'[e] = text[e]
    BY <1>3, OthersKeep
  <2>2. \A e \in Delivered : text'[e] = text[e]
    BY <2>1, SequenceFacts
  <2>3. ASSUME NEW v \in Workers \ {w} PROVE WorkText(v)'
    <3>1. Busy(v) => task[v] \in Entries /\ task[v] # task[w] /\ text'[task[v]] = text[task[v]]
      BY <2>1, BusyFacts
    <3>2. WorkText(v)
      BY DEF TextInv
    <3>. QED BY <2>1, <3>1, <3>2 DEF WorkText, VersionNow, Busy
  <2>4. \A e \in Items(collected) \cup Items(inventory) : Whole(e)'
    BY <2>2 DEF TextInv, Delivered, Whole
  <2>5. \A r \in Items(channel) : r[2] = "good" => Whole(r[1])'
    BY <2>2, SentFacts DEF TextInv, Delivered, Whole
  <2>6. ASSUME NEW code \in Codes \cup {"good"}, Send(w, code), code = "good" => Whole(task[w])
        PROVE  TextInv'
    <3>1. <<task[w], code>> \in listed \X (Codes \cup {"good"})
      BY <2>1
    <3>2. Items(channel') = Items(channel) \cup {<<task[w], code>>}
      <4>. DEFINE R == listed \X (Codes \cup {"good"})
      <4>. DEFINE r == <<task[w], code>>
      <4>1. channel \in Seq(R) /\ r \in R /\ channel' = Append(channel, r)
        BY <2>6, <3>1, SequenceFacts DEF Send
      <4>. HIDE DEF R, r
      <4>2. Items(channel') = Items(channel) \cup {r}
        BY <4>1, AppendItems
      <4>. QED BY <4>2 DEF r
    <3>3. UNCHANGED text /\ wpc'[w] = "idle"
      BY <1>1, <2>6 DEF Send
    <3>4. WorkText(w)'
      BY <3>3 DEF WorkText
    <3>5. \A r \in Items(channel') : r[2] = "good" => Whole(r[1])'
      BY <2>5, <2>6, <3>2, <3>3 DEF Whole
    <3>. QED BY <2>1, <2>3, <2>4, <3>4, <3>5 DEF TextInv
  <2>7. ASSUME UNCHANGED channel, WorkText(w)' PROVE TextInv'
    BY <2>1, <2>3, <2>4, <2>5, <2>7 DEF TextInv
  <2>8. /\ "malformed" \in Codes /\ "unreadable" \in Codes /\ "mutation" \in Codes /\ "invalid" \in Codes
        /\ "malformed" # "good" /\ "unreadable" # "good" /\ "mutation" # "good" /\ "invalid" # "good"
    BY DEF Codes
  <2>9. CASE Stat(w)
    <3>1. CASE Send(w, "malformed") \/ Send(w, "unreadable")
      BY <2>6, <2>8, <3>1
    <3>2. CASE GoTo(w, "open")
      BY <1>1, <2>7, <3>2 DEF GoTo, WorkText
    <3>. QED BY <2>9, <3>1, <3>2 DEF Stat
  <2>10. CASE Open(w)
    <3>1. CASE Send(w, "unreadable")
      BY <2>6, <2>8, <3>1
    <3>2. CASE /\ opened' = [opened EXCEPT ![w] = VersionNow(w)]
               /\ text' = [text EXCEPT ![task[w]] = {VersionNow(w)}]
               /\ GoTo(w, "read") /\ UNCHANGED stat
      <4>1. /\ opened'[w] = VersionNow(w) /\ text'[task[w]] = {VersionNow(w)} /\ wpc'[w] = "read"
            /\ task' = task /\ UNCHANGED <<channel, stat>>
        BY <1>1, <2>1, <3>2 DEF GoTo
      <4>2. WorkText(w)'
        BY <2>1, <4>1 DEF WorkText, VersionNow
      <4>. QED BY <2>7, <4>1, <4>2
    <3>. QED BY <2>10, <3>1, <3>2 DEF Open
  <2>11. CASE Read(w)
    <3>1. CASE Send(w, "unreadable")
      BY <2>6, <2>8, <3>1
    <3>2. CASE /\ \E v \in {opened[w], VersionNow(w)} \ {0} : text' = [text EXCEPT ![task[w]] = @ \cup {v}]
               /\ GoTo(w, "check") /\ UNCHANGED <<stat, opened>>
      <4>1. PICK v \in {opened[w], VersionNow(w)} : text' = [text EXCEPT ![task[w]] = @ \cup {v}]
        BY <3>2
      <4>2. /\ text'[task[w]] = text[task[w]] \cup {v} /\ wpc'[w] = "check"
            /\ task' = task /\ UNCHANGED <<channel, stat>>
        BY <1>1, <2>1, <3>2, <4>1 DEF GoTo
      <4>3. wpc[w] = "read" /\ WorkText(w)
        BY <2>11 DEF Read, TextInv
      <4>4. WorkText(w)'
        BY <2>1, <4>1, <4>2, <4>3 DEF WorkText, VersionNow
      <4>. QED BY <2>7, <4>2, <4>4
    <3>. QED BY <2>11, <3>1, <3>2 DEF Read
  <2>12. CASE Check(w)
    <3>1. wpc[w] = "check" /\ WorkText(w)
      BY <2>12 DEF Check, TextInv
    <3>2. stat[w] \in Nat
      BY <1>1
    <3>3. PICK code \in Codes \cup {"good"} :
            Send(w, code) /\ (code = "good" => VersionNow(w) = stat[w])
      BY <2>8, <2>12 DEF Check
    <3>4. code = "good" => Whole(task[w])
      BY <3>1, <3>2, <3>3 DEF WorkText, Whole
    <3>. QED BY <2>6, <3>3, <3>4
  <2>. QED BY <1>3, <2>9, <2>10, <2>11, <2>12
<1>. QED BY <1>2, <1>3 DEF WorkerStep

(***************************************************************************)
(* A change of a file gives it a version no lstat has seen.                *)
(***************************************************************************)
LEMMA ChangeIsSeen ==
  ASSUME TypeInv, NEW e \in Entries, Change(e)
  PROVE  /\ \A f \in Entries : version'[f] # version[f] => version'[f] \in {0, clock + 1} /\ f = e
         /\ \A w \in Workers : Busy(w) /\ stat[w] # 0 /\ VersionNow(w)' = stat[w] => VersionNow(w) = stat[w]
         /\ clock \in Nat \ {0}
         /\ UNCHANGED <<scene, request, done, phase, listVars, poolVars, wpc, workVars, channel,
                        outVars, result>>
<1>1. version \in [Entries -> 0..clock] /\ clock \in Nat \ {0}
      /\ stat \in [Workers -> 0..clock]
  BY CandidateAssumption DEF TypeInv, CacheTypeOK, WorkTypeOK
<1>2. \A f \in Entries : version'[f] # version[f] => version'[f] \in {0, clock + 1} /\ f = e
  BY <1>1 DEF Change
<1>3. \A w \in Workers : Busy(w) => task[w] \in Entries /\ stat[w] \in 0..clock
  BY <1>1, BusyFacts
<1>4. UNCHANGED <<scene, request, done, phase, listVars, poolVars, wpc, workVars, channel, outVars,
                  result>>
  BY DEF Change
<1>5. task' = task
  BY <1>4 DEF workVars
<1>6. \A w \in Workers : Busy(w) /\ stat[w] # 0 /\ VersionNow(w)' = stat[w] => VersionNow(w) = stat[w]
  BY <1>1, <1>2, <1>3, <1>5 DEF VersionNow
<1>. QED BY <1>1, <1>2, <1>4, <1>6

(***************************************************************************)
(* Every step keeps the texts of candidates whole.                         *)
(***************************************************************************)
LEMMA TextStep == TypeInv /\ PlaceInv /\ TextInv /\ [Next]_vars => TextInv'
<1>. SUFFICES ASSUME TypeInv, PlaceInv, TextInv, [Next]_vars PROVE TextInv'
  OBVIOUS
<1>1. CASE UNCHANGED <<channel, collected, inventory, version, wpc, workVars>>
  <2>1. \A w \in Workers : WorkText(w)'
    BY <1>1 DEF TextInv, WorkText, VersionNow, workVars
  <2>. QED BY <1>1, <2>1 DEF TextInv, Whole, workVars
<1>2. CASE UNCHANGED vars \/ ContextDone \/ Start \/ ListRoot
           \/ ListCategory \/ NextRepository \/ StopFeeding \/ EndPool \/ Finish
  BY <1>1, <1>2 DEF vars, ContextDone, Start, ListRoot, ListCategory, NextRepository,
                    StopFeeding, EndPool, Finish, outVars, cacheVars
<1>3. ASSUME NEW e \in Entries, Change(e) PROVE TextInv'
  <2>1. /\ UNCHANGED <<channel, collected, inventory, wpc, workVars>>
        /\ \A w \in Workers : Busy(w) /\ stat[w] # 0 /\ VersionNow(w)' = stat[w] => VersionNow(w) = stat[w]
    BY <1>3, ChangeIsSeen DEF outVars
  <2>2. \A w \in Workers : wpc[w] \in {"read", "check"} => Busy(w) /\ stat[w] # 0
    BY DEF TypeInv, PhaseInv, Busy
  <2>3. \A w \in Workers : WorkText(w)'
    <3>1. SUFFICES ASSUME NEW w \in Workers PROVE WorkText(w)'
      OBVIOUS
    <3>2. WorkText(w) /\ UNCHANGED <<wpc, text, task, opened, stat>>
      BY <2>1 DEF TextInv, workVars
    <3>3. wpc[w] \in {"read", "check"} /\ VersionNow(w)' = stat[w] => VersionNow(w) = stat[w]
      BY <2>1, <2>2
    <3>. QED BY <3>2, <3>3 DEF WorkText
  <2>. QED BY <2>1, <2>3 DEF TextInv, Whole, workVars
<1>4. CASE StartPool
  <2>1. /\ channel' = <<>> /\ collected' = <<>> /\ inventory' = <<>>
        /\ \A w \in Workers : wpc'[w] \in {"idle", "exited"}
    BY <1>4 DEF StartPool, outVars, TypeInv, PhaseInv
  <2>2. Items(channel') = {} /\ Items(collected') = {} /\ Items(inventory') = {}
    BY <2>1, EmptyItems
  <2>. QED BY <2>1, <2>2 DEF TextInv, WorkText
<1>5. CASE Collect
  <2>1. UNCHANGED <<wpc, workVars, version, inventory>>
    BY <1>5 DEF Collect, cacheVars
  <2>2. /\ Head(channel) \in Items(channel) /\ Items(channel') \subseteq Items(channel)
        /\ \/ Head(channel)[2] = "good" /\ Items(collected') = Items(collected) \cup {Head(channel)[1]}
           \/ UNCHANGED collected
    BY <1>5, CollectFacts DEF PlaceInv
  <2>3. \A w \in Workers : WorkText(w)'
    BY <2>1 DEF TextInv, WorkText, VersionNow, workVars
  <2>. QED BY <2>1, <2>2, <2>3 DEF TextInv, Whole, workVars
<1>6. CASE Sort
  <2>1. UNCHANGED <<wpc, workVars, version, channel>>
    BY <1>6 DEF Sort, cacheVars
  <2>2. /\ Items(collected) = Items(collected') \cup {Head(collected)}
        /\ Items(inventory') = Items(inventory) \cup {Head(collected)}
    BY <1>6, SortFacts
  <2>3. \A w \in Workers : WorkText(w)'
    BY <2>1 DEF TextInv, WorkText, VersionNow, workVars
  <2>. QED BY <2>1, <2>2, <2>3 DEF TextInv, Whole, workVars
<1>. QED BY <1>2, <1>3, <1>4, <1>5, <1>6, WorkerText DEF Next, CallStep, Terminated

(***************************************************************************)
(* The metadata of a candidate is one text of its file: a version that the *)
(* second lstat finds again was there all the time, for versions never     *)
(* come back.                                                              *)
(***************************************************************************)
THEOREM MetadataIsWholeAlways == Spec => []MetadataIsWhole
<1>1. Init => PlaceInv /\ TextInv
  <2>. SUFFICES ASSUME Init PROVE PlaceInv /\ TextInv
    OBVIOUS
  <2>1. channel = <<>> /\ collected = <<>> /\ inventory = <<>>
        /\ \A w \in Workers : wpc[w] = "exited" /\ ~Busy(w)
    BY DEF Init, Busy
  <2>2. Sent = {} /\ Items(channel) = {} /\ Items(collected) = {} /\ Items(inventory) = {}
        /\ Delivered = {} /\ Once(First(channel)) /\ Once(collected) /\ Once(inventory)
    BY <2>1, EmptyItems DEF Sent, Delivered
  <2>. QED BY <2>1, <2>2 DEF PlaceInv, TextInv, WorkText
<1>2. TypeInv /\ TextInv => MetadataIsWhole
  <2>. SUFFICES ASSUME TextInv, NEW e \in Entries, Offered(e) PROVE Cardinality(text[e]) = 1
    BY DEF MetadataIsWhole
  <2>1. e \in Items(inventory)
    BY DEF Offered, Ranks, Items
  <2>2. PICK v \in Nat : text[e] = {v}
    BY <2>1 DEF TextInv, Whole
  <2>. QED BY <2>2, FS_Singleton
<1>. QED BY <1>1, <1>2, TypeInit, TypeStep, PlaceStep, TextStep, PTL DEF Spec

-----------------------------------------------------------------------------
(* The order of the inventory                                              *)

\* Nothing stands behind what is greater.
RankInv == \A i, j \in DOMAIN inventory : i < j => ~Less(inventory[j], inventory[i])

(***************************************************************************)
(* What an entry's file name and repository are.                           *)
(***************************************************************************)
LEMMA EntryFacts ==
  ASSUME TypeInv, NEW e \in Entries
  PROVE  /\ scene.id[e].cp \in Nat /\ scene.id[e].version \in VersionSet
         /\ scene.id[e].slot \in Nat /\ scene.id[e].subslot \in Nat
         /\ scene.repository[e] \in RepositorySet /\ scene.repository[e] \in Nat \ {0}
         /\ scene.category[e] \in Categories
         /\ scene.kind[e] \in EntryKind
<1>1. scene \in SceneSet
  BY CandidateAssumption DEF TypeInv, CacheTypeOK
<1>2. /\ scene.id \in [Entries -> Identity] /\ scene.repository \in [Entries -> RepositorySet]
      /\ scene.category \in [Entries -> Categories] /\ scene.kind \in [Entries -> EntryKind]
  BY <1>1 DEF SceneSet
<1>3. scene.id[e] \in Identity
  BY <1>2
<1>. QED BY <1>2, <1>3, RepositoryFacts DEF Identity

\* The order of candidates is a list of three signs.
OrderList(e, f) ==
  << Sign(scene.id[e].cp, scene.id[f].cp),
     Compare(scene.id[e].version, scene.id[f].version),
     Sign(scene.repository[e], scene.repository[f]) >>

(***************************************************************************)
(* The list is one of signs, the opposite for the opposite question.       *)
(***************************************************************************)
LEMMA OrderListFacts ==
  ASSUME TypeInv, NEW e \in Entries, NEW f \in Entries
  PROVE  /\ OrderList(e, f) \in Seq(Signs) /\ Len(OrderList(e, f)) = 3
         /\ \A i \in 1..3 : OrderList(f, e)[i] = -OrderList(e, f)[i]
         /\ Order(e, f) = Decisive[OrderList(e, f)]
<1>1. /\ scene.id[e].cp \in Int /\ scene.id[f].cp \in Int
      /\ scene.repository[e] \in Int /\ scene.repository[f] \in Int
      /\ scene.id[e].version \in VersionSet /\ scene.id[f].version \in VersionSet
  BY EntryFacts
<1>2. /\ Sign(scene.id[e].cp, scene.id[f].cp) \in Signs
      /\ Sign(scene.id[f].cp, scene.id[e].cp) = -Sign(scene.id[e].cp, scene.id[f].cp)
      /\ Sign(scene.repository[e], scene.repository[f]) \in Signs
      /\ Sign(scene.repository[f], scene.repository[e]) = -Sign(scene.repository[e], scene.repository[f])
  BY <1>1, SignFacts
<1>3. /\ Compare(scene.id[e].version, scene.id[f].version) \in Signs
      /\ Compare(scene.id[f].version, scene.id[e].version)
           = -Compare(scene.id[e].version, scene.id[f].version)
  BY <1>1, CompareIsPreorder DEF Signs
<1>4. OrderList(e, f) \in Seq(Signs) /\ Len(OrderList(e, f)) = 3
  BY <1>2, <1>3 DEF OrderList
<1>5. \A i \in 1..3 : i \in {1, 2, 3}
  OBVIOUS
<1>6. \A i \in 1..3 : OrderList(f, e)[i] = -OrderList(e, f)[i]
  BY <1>2, <1>3, <1>5 DEF OrderList
<1>7. Order(e, f) = Decisive[OrderList(e, f)]
  BY DEF Order, OrderList
<1>. QED BY <1>4, <1>6, <1>7

(***************************************************************************)
(* The order of candidates is a total preorder.                            *)
(***************************************************************************)
LEMMA OrderFacts ==
  ASSUME TypeInv, NEW e \in Entries, NEW f \in Entries, NEW g \in Entries
  PROVE  /\ Order(e, f) \in Signs /\ Order(f, e) = -Order(e, f)
         /\ Chain(Order(e, f), Order(f, g), Order(e, g))
<1>1. \A x, y \in {e, f, g} :
        /\ OrderList(x, y) \in Seq(Signs) /\ DOMAIN OrderList(x, y) = 1..3 /\ Len(OrderList(x, y)) = 3
        /\ \A i \in 1..3 : OrderList(y, x)[i] = -OrderList(x, y)[i]
        /\ Order(x, y) = Decisive[OrderList(x, y)]
  BY OrderListFacts
<1>2. Order(e, f) \in Signs /\ Order(f, e) = -Order(e, f)
  <2>. DEFINE a == OrderList(e, f)
  <2>. DEFINE b == OrderList(f, e)
  <2>1. /\ a \in Seq(Signs) /\ b \in Seq(Signs) /\ Len(a) = Len(b)
        /\ \A i \in DOMAIN a : b[i] = -a[i]
        /\ Order(e, f) = Decisive[a] /\ Order(f, e) = Decisive[b]
    BY <1>1
  <2>. HIDE DEF a, b
  <2>. QED BY <2>1, DecisiveIsSign, Opposite
<1>3. ASSUME NEW i \in Nat \ {0}
      PROVE  Chain(At(OrderList(e, f), i), At(OrderList(f, g), i), At(OrderList(e, g), i))
  <2>1. /\ \A x \in {e, f, g} : scene.id[x].cp \in Int /\ scene.repository[x] \in Int
                                 /\ scene.id[x].version \in VersionSet
    BY EntryFacts
  <2>2. Chain(OrderList(e, f)[1], OrderList(f, g)[1], OrderList(e, g)[1])
    BY <2>1, SignsChain DEF OrderList
  <2>3. Chain(OrderList(e, f)[2], OrderList(f, g)[2], OrderList(e, g)[2])
    BY <2>1, CompareIsPreorder DEF OrderList
  <2>4. Chain(OrderList(e, f)[3], OrderList(f, g)[3], OrderList(e, g)[3])
    BY <2>1, SignsChain DEF OrderList
  <2>5. CASE i \in 1..3
    <3>1. i \in {1, 2, 3}
      BY <2>5
    <3>. QED BY <1>1, <2>2, <2>3, <2>4, <2>5, <3>1 DEF At
  <2>6. CASE i \notin 1..3
    BY <1>1, <2>6 DEF At, Chain
  <2>. QED BY <2>5, <2>6
<1>4. Chain(Decisive[OrderList(e, f)], Decisive[OrderList(f, g)], Decisive[OrderList(e, g)])
  BY <1>1, <1>3, Lexicographic
<1>. QED BY <1>1, <1>2, <1>4

(***************************************************************************)
(* What is not smaller chains, and of two at most one is smaller.          *)
(***************************************************************************)
LEMMA LessFacts ==
  ASSUME TypeInv, NEW e \in Entries, NEW f \in Entries, NEW g \in Entries
  PROVE  /\ ~Less(e, e)
         /\ Less(e, f) => ~Less(f, e)
         /\ ~Less(e, f) /\ ~Less(f, g) => ~Less(e, g)
<1>1. /\ Order(e, f) \in Signs /\ Order(f, e) = -Order(e, f)
      /\ Order(e, e) \in Signs /\ Order(e, e) = -Order(e, e)
      /\ Order(f, g) \in Signs /\ Order(g, f) = -Order(f, g)
      /\ Order(e, g) \in Signs /\ Order(g, e) = -Order(e, g)
  BY OrderFacts
<1>2. Chain(Order(g, f), Order(f, e), Order(g, e))
  BY OrderFacts
<1>. QED BY <1>1, <1>2 DEF Less, Chain, Signs

(***************************************************************************)
(* Sort keeps the order: the candidate goes behind the last one it is not  *)
(* smaller than.                                                           *)
(***************************************************************************)
LEMMA SortKeepsOrder ==
  ASSUME TypeInv, RankInv, Sort
  PROVE  RankInv'
<1>. DEFINE x == Head(collected)
<1>. DEFINE s == inventory
<1>. DEFINE t == inventory'
<1>1. PICK j \in 0..Len(inventory) :
        /\ j \in Place(x, s) \cup {0} /\ \A k \in Place(x, s) : k <= j
        /\ x \in listed
        /\ t \in Seq(listed) /\ Len(t) = Len(s) + 1
        /\ \A k \in 1..j : t[k] = s[k]
        /\ t[j + 1] = x
        /\ \A k \in j + 2..Len(s) + 1 : t[k] = s[k - 1]
  BY SortFacts
<1>2. /\ j \in Nat /\ Len(s) \in Nat /\ j <= Len(s) /\ DOMAIN s = 1..Len(s) /\ DOMAIN t = 1..Len(s) + 1
      /\ \A k \in 1..Len(s) : s[k] \in Entries
      /\ x \in Entries
  BY <1>1, SequenceFacts
<1>3. \A k \in 1..Len(s) : k > j => Less(x, s[k])
  BY <1>1, <1>2 DEF Place
<1>4. \A k \in 1..j : ~Less(x, s[k])
  <2>1. SUFFICES ASSUME NEW k \in 1..j PROVE ~Less(x, s[k])
    OBVIOUS
  <2>2. j \in 1..Len(s) /\ k \in 1..Len(s) /\ ~Less(x, s[j])
    BY <1>1, <1>2, <2>1 DEF Place
  <2>3. CASE k = j
    BY <2>2, <2>3
  <2>4. CASE k < j
    <3>1. ~Less(s[j], s[k])
      BY <1>2, <2>2, <2>4 DEF RankInv
    <3>2. s[j] \in Entries /\ s[k] \in Entries
      BY <1>2, <2>2
    <3>. QED BY <1>2, <2>2, <3>1, <3>2, LessFacts
  <2>. QED BY <1>2, <2>1, <2>3, <2>4
<1>5. scene' = scene
  BY DEF Sort, cacheVars
<1>. HIDE DEF x, t
<1>6. ASSUME NEW m \in DOMAIN t, NEW n \in DOMAIN t, m < n PROVE ~Less(t[n], t[m])
  <2>1. m \in Nat /\ n \in Nat /\ m \in 1..Len(s) + 1 /\ n \in 1..Len(s) + 1
    BY <1>2
  <2>2. CASE n <= j
    BY <1>1, <1>2, <1>6, <2>1, <2>2 DEF RankInv
  <2>3. CASE n = j + 1
    <3>1. m \in 1..j
      BY <1>2, <1>6, <2>1, <2>3
    <3>. QED BY <1>1, <1>4, <2>3, <3>1
  <2>4. CASE n > j + 1
    <3>1. n \in j + 2..Len(s) + 1 /\ n - 1 \in 1..Len(s) /\ t[n] = s[n - 1] /\ n - 1 > j
      BY <1>1, <1>2, <2>1, <2>4
    <3>2. CASE m <= j
      <4>1. t[m] = s[m] /\ m \in 1..Len(s) /\ m < n - 1
        BY <1>1, <1>2, <2>1, <2>4, <3>2
      <4>. QED BY <1>2, <3>1, <4>1 DEF RankInv
    <3>3. CASE m = j + 1
      <4>1. Less(x, s[n - 1]) /\ s[n - 1] \in Entries
        BY <1>2, <1>3, <3>1
      <4>. QED BY <1>1, <1>2, <3>1, <3>3, <4>1, LessFacts
    <3>4. CASE m > j + 1
      <4>1. m \in j + 2..Len(s) + 1 /\ m - 1 \in 1..Len(s) /\ m - 1 < n - 1
        BY <1>2, <1>6, <2>1, <3>4
      <4>2. t[m] = s[m - 1]
        BY <1>1, <4>1
      <4>. QED BY <1>2, <3>1, <4>1, <4>2 DEF RankInv
    <3>. QED BY <1>2, <2>1, <3>2, <3>3, <3>4
  <2>. QED BY <1>2, <2>1, <2>2, <2>3, <2>4
<1>7. \A m, n \in DOMAIN inventory' : m < n => ~Less(inventory'[n], inventory'[m])
  BY <1>6 DEF t
<1>. QED BY <1>5, <1>7 DEF RankInv, Less, Order

(***************************************************************************)
(* Every step keeps the inventory in order.                                *)
(***************************************************************************)
LEMMA RankStep == TypeInv /\ RankInv /\ [Next]_vars => RankInv'
<1>. SUFFICES ASSUME TypeInv, RankInv, [Next]_vars PROVE RankInv'
  OBVIOUS
<1>1. CASE UNCHANGED <<scene, inventory>>
  BY <1>1 DEF RankInv, Less, Order
<1>2. CASE \E w \in Workers : WorkerStep(w)
  BY <1>1, <1>2 DEF WorkerStep, Feed, WorkerExits, Stat, Open, Read, Check, cacheVars, outVars
<1>3. CASE UNCHANGED vars \/ ContextDone \/ (\E e \in Entries : Change(e)) \/ Start \/ ListRoot
           \/ ListCategory \/ NextRepository \/ StartPool \/ StopFeeding \/ Collect \/ EndPool \/ Finish
  BY <1>1, <1>3 DEF vars, ContextDone, Change, Start, ListRoot, ListCategory, NextRepository, StartPool,
                    StopFeeding, Collect, EndPool, Finish, outVars, cacheVars
<1>. QED BY <1>2, <1>3, SortKeepsOrder DEF Next, CallStep, Terminated

(***************************************************************************)
(* The inventory is in order, in every reachable state.                    *)
(***************************************************************************)
LEMMA RankInvariant == Spec => [](TypeInv /\ RankInv)
<1>1. Init => RankInv
  BY DEF Init, RankInv
<1>. QED BY <1>1, TypeInit, TypeStep, RankStep, PTL DEF Spec

(***************************************************************************)
(* Every candidate stands where its rank puts it: what stands before it is *)
(* not greater, and what stands behind it not smaller.                     *)
(***************************************************************************)
THEOREM PositionIsRankAlways == Spec => []PositionIsRank
<1>1. TypeInv /\ RankInv => PositionIsRank
  <2>. SUFFICES ASSUME TypeInv, RankInv, NEW i \in Ranks
                PROVE  /\ Cardinality({j \in Ranks : Less(inventory[j], inventory[i])}) < i
                       /\ i <= Cardinality({j \in Ranks : ~Less(inventory[i], inventory[j])})
    BY DEF PositionIsRank
  <2>. DEFINE Below == {j \in Ranks : Less(inventory[j], inventory[i])}
              Upto == {j \in Ranks : ~Less(inventory[i], inventory[j])}
  <2>1. /\ Len(inventory) \in Nat /\ Ranks = 1..Len(inventory) /\ i \in 1..Len(inventory)
        /\ \A k \in Ranks : inventory[k] \in Entries
    BY SequenceFacts DEF Ranks
  <2>2. \A k \in Ranks : ~Less(inventory[k], inventory[k])
    BY <2>1, LessFacts
  <2>3. Below \subseteq 1..i - 1
    <3>1. ASSUME NEW j \in Below PROVE j \in 1..i - 1
      <4>1. j \in 1..Len(inventory) /\ Less(inventory[j], inventory[i])
        BY <2>1
      <4>2. ~(i < j) /\ j # i
        BY <2>1, <2>2, <4>1 DEF RankInv, Ranks
      <4>. QED BY <2>1, <4>1, <4>2
    <3>. QED BY <3>1
  <2>4. 1..i \subseteq Upto
    <3>1. ASSUME NEW j \in 1..i PROVE j \in Upto
      <4>1. j \in Ranks /\ (j = i \/ j < i)
        BY <2>1, <3>1
      <4>. QED BY <2>1, <2>2, <4>1 DEF RankInv, Ranks
    <3>. QED BY <3>1
  <2>5. /\ IsFiniteSet(1..i - 1) /\ Cardinality(1..i - 1) = i - 1
        /\ IsFiniteSet(1..i) /\ Cardinality(1..i) = i
        /\ IsFiniteSet(1..Len(inventory))
    <3>1. /\ 1 \in Int /\ i \in Int /\ i - 1 \in Int /\ Len(inventory) \in Int
          /\ (IF 1 > i - 1 THEN 0 ELSE i - 1 - 1 + 1) = i - 1
          /\ (IF 1 > i THEN 0 ELSE i - 1 + 1) = i
      BY <2>1
    <3>2. \A n \in Int : IsFiniteSet(1..n) /\ Cardinality(1..n) = IF 1 > n THEN 0 ELSE n - 1 + 1
      BY FS_Interval
    <3>. QED BY <3>1, <3>2
  <2>6. Upto \subseteq 1..Len(inventory)
    BY <2>1
  <2>. HIDE DEF Below, Upto
  <2>7. IsFiniteSet(Upto) /\ Cardinality(1..i) <= Cardinality(Upto)
    BY <2>4, <2>5, <2>6, FS_Subset
  <2>8. IsFiniteSet(Below) /\ Cardinality(Below) <= Cardinality(1..i - 1)
    BY <2>3, <2>5, FS_Subset
  <2>9. Cardinality(Below) \in Nat /\ Cardinality(Upto) \in Nat
    BY <2>7, <2>8, FS_CardinalityType
  <2>10. Cardinality(Below) < i /\ i <= Cardinality(Upto)
    BY <2>1, <2>5, <2>7, <2>8, <2>9
  <2>. QED BY <2>10 DEF Below, Upto
<1>. QED BY <1>1, RankInvariant, PTL

-----------------------------------------------------------------------------
(* Atoms                                                                   *)

Inequalities == {"<", "<=", "=", ">", ">="}

(***************************************************************************)
(* An atom with a version picks of its package what parses and compares.   *)
(***************************************************************************)
LEMMA VersionedFacts ==
  ASSUME NEW op \in Inequalities, NEW e \in Entries, NEW v
  PROVE  Versioned(op, e, v) = "yes" <=>
           Parses(scene.id[e].version) /\ VersionMatches(op, scene.id[e].version, v)
<1>. DEFINE atom == [cp |-> Id(e).cp, op |-> op, version |-> v, slot |-> 0, subslot |-> 0,
                     repository |-> 0, use |-> {}]
<1>. DEFINE use == [enabled |-> {}, declared |-> {}, caller |-> {}]
<1>1. /\ atom.cp = Id(e).cp /\ atom.op = op /\ atom.version = v /\ atom.slot = 0
      /\ atom.subslot = 0 /\ atom.repository = 0 /\ atom.use = {}
  OBVIOUS
<1>2. Id(e).version = scene.id[e].version
  BY DEF Id
<1>3. op # "any" /\ op # "bare"
  BY DEF Inequalities
<1>. HIDE DEF atom, use
<1>4. Matches(atom, Id(e), use) = "yes" <=>
        Parses(scene.id[e].version) /\ VersionMatches(op, scene.id[e].version, v)
  <2>1. Fits(atom.repository, Id(e).repository) /\ Fits(atom.slot, Id(e).slot)
        /\ Fits(atom.subslot, Id(e).subslot)
    BY <1>1 DEF Fits
  <2>2. \A d \in atom.use : DependencyMet(d, use)
    BY <1>1
  <2>3. Matches(atom, Id(e), use) =
          IF ~Parses(scene.id[e].version) THEN "error"
          ELSE IF ~VersionMatches(op, scene.id[e].version, v) THEN "no" ELSE "yes"
    BY <1>1, <1>2, <1>3, <2>1, <2>2 DEF Matches
  <2>. QED BY <2>3
<1>. QED BY <1>4 DEF Versioned, atom, use

(***************************************************************************)
(* What <, = and > ask, and their complements.                             *)
(***************************************************************************)
LEMMA InequalityFacts ==
  ASSUME NEW c, NEW v
  PROVE  /\ VersionMatches("<", c, v) <=> Compare(c, v) < 0
         /\ VersionMatches("<=", c, v) <=> Compare(c, v) <= 0
         /\ VersionMatches("=", c, v) <=> Compare(c, v) = 0
         /\ VersionMatches(">", c, v) <=> Compare(c, v) > 0
         /\ VersionMatches(">=", c, v) <=> Compare(c, v) >= 0
BY DEF VersionMatches

(***************************************************************************)
(* Of two candidates of a package the one that stands first has no greater *)
(* version.                                                                *)
(***************************************************************************)
LEMMA OrderOfVersions ==
  ASSUME TypeInv, RankInv, NEW i \in Ranks, NEW j \in Ranks, i < j,
         scene.id[inventory[i]].cp = scene.id[inventory[j]].cp
  PROVE  Compare(scene.id[inventory[j]].version, scene.id[inventory[i]].version) >= 0
<1>. DEFINE e == inventory[i]
<1>. DEFINE f == inventory[j]
<1>1. e \in Entries /\ f \in Entries /\ ~Less(f, e)
  BY SequenceFacts DEF Ranks, RankInv
<1>. HIDE DEF e, f
<1>2. /\ OrderList(f, e) \in Seq(Signs) /\ DOMAIN OrderList(f, e) = 1..3
      /\ ~(Decisive[OrderList(f, e)] < 0)
  BY <1>1, OrderListFacts DEF Less
<1>3. OrderList(f, e)[1] = 0
  <2>1. scene.id[e].cp = scene.id[f].cp /\ scene.id[e].cp \in Int
    BY <1>1, EntryFacts DEF e, f
  <2>. QED BY <2>1 DEF OrderList, Sign
<1>4. OrderList(f, e)[2] = Compare(scene.id[f].version, scene.id[e].version)
  BY DEF OrderList
<1>5. Compare(scene.id[f].version, scene.id[e].version) \in {-1, 0, 1}
  BY <1>1, EntryFacts, CompareIsPreorder
<1>6. ~(OrderList(f, e)[2] < 0)
  <2>. HIDE DEF OrderList
  <2>1. CASE \A k \in DOMAIN OrderList(f, e) : OrderList(f, e)[k] = 0
    <3>1. 2 \in DOMAIN OrderList(f, e)
      BY <1>2
    <3>. QED BY <2>1, <3>1
  <2>2. ASSUME NEW k \in DOMAIN OrderList(f, e), OrderList(f, e)[k] # 0,
               Decisive[OrderList(f, e)] = OrderList(f, e)[k],
               \A m \in DOMAIN OrderList(f, e) : m < k => OrderList(f, e)[m] = 0
        PROVE  ~(OrderList(f, e)[2] < 0)
    <3>1. 2 \in DOMAIN OrderList(f, e) /\ k \in {2, 3}
      BY <1>2, <1>3, <2>2
    <3>. QED BY <1>2, <2>2, <3>1
  <2>. QED BY <1>2, <2>1, <2>2, DecisiveIsFirst
<1>. QED BY <1>4, <1>5, <1>6 DEF e, f

(***************************************************************************)
(* <, = and > cut the candidates of a package in three, in the order of    *)
(* the inventory, whatever the version they name.                          *)
(***************************************************************************)
THEOREM OperatorsCutAlways == Spec => []OperatorsCutTheOrder
<1>1. TypeInv /\ RankInv => OperatorsCutTheOrder
  <2>. DEFINE Picks(op, x, v) == Versioned(op, x, v) = "yes"
  <2>. SUFFICES ASSUME TypeInv, RankInv, NEW v \in {scene.id[e].version : e \in Entries}, Parses(v),
                       NEW i \in Ranks, NEW j \in Ranks
                PROVE  /\ Parses(Id(inventory[i]).version) =>
                            /\ Cardinality({op \in {"<", "=", ">"} : Picks(op, inventory[i], v)}) = 1
                            /\ Picks("<=", inventory[i], v) <=> ~Picks(">", inventory[i], v)
                            /\ Picks(">=", inventory[i], v) <=> ~Picks("<", inventory[i], v)
                       /\ i < j /\ Id(inventory[i]).cp = Id(inventory[j]).cp =>
                            /\ Picks("<", inventory[j], v) =>
                                 Picks("<", inventory[i], v) \/ ~Parses(Id(inventory[i]).version)
                            /\ Picks(">", inventory[i], v) => Picks(">", inventory[j], v)
    BY Zenon DEF OperatorsCutTheOrder
  <2>. DEFINE a == scene.id[inventory[i]].version
              b == scene.id[inventory[j]].version
  <2>1. inventory[i] \in Entries /\ inventory[j] \in Entries
    BY SequenceFacts DEF Ranks
  <2>2. a \in VersionSet /\ b \in VersionSet /\ v \in VersionSet
    BY <2>1, EntryFacts
  <2>3. /\ Id(inventory[i]).version = a /\ Id(inventory[j]).version = b
        /\ Id(inventory[i]).cp = scene.id[inventory[i]].cp
        /\ Id(inventory[j]).cp = scene.id[inventory[j]].cp
    BY DEF Id
  <2>4. /\ "<" \in Inequalities /\ "<=" \in Inequalities /\ "=" \in Inequalities
        /\ ">" \in Inequalities /\ ">=" \in Inequalities
    BY DEF Inequalities
  <2>5. /\ Picks("<", inventory[i], v) <=> Parses(a) /\ Compare(a, v) < 0
        /\ Picks("<=", inventory[i], v) <=> Parses(a) /\ Compare(a, v) <= 0
        /\ Picks("=", inventory[i], v) <=> Parses(a) /\ Compare(a, v) = 0
        /\ Picks(">", inventory[i], v) <=> Parses(a) /\ Compare(a, v) > 0
        /\ Picks(">=", inventory[i], v) <=> Parses(a) /\ Compare(a, v) >= 0
        /\ Picks("<", inventory[j], v) <=> Parses(b) /\ Compare(b, v) < 0
        /\ Picks(">", inventory[j], v) <=> Parses(b) /\ Compare(b, v) > 0
    BY <2>1, <2>4, VersionedFacts, InequalityFacts
  <2>6. /\ Compare(a, v) \in {-1, 0, 1} /\ Compare(b, v) \in {-1, 0, 1} /\ Compare(a, b) \in {-1, 0, 1}
        /\ Compare(v, a) = -Compare(a, v) /\ Compare(v, b) = -Compare(b, v) /\ Compare(b, a) = -Compare(a, b)
        /\ Chain(Compare(a, b), Compare(b, v), Compare(a, v))
        /\ Chain(Compare(v, a), Compare(a, b), Compare(v, b))
    BY <2>2, CompareIsPreorder
  <2>7. i < j /\ Id(inventory[i]).cp = Id(inventory[j]).cp => Compare(b, a) >= 0
    BY <2>3, OrderOfVersions
  <2>8. Compare(b, a) >= 0 /\ Parses(a) => Parses(b)
    BY DEF Compare
  <2>. HIDE DEF Picks, a, b
  <2>9. Parses(a) => Cardinality({op \in {"<", "=", ">"} : Picks(op, inventory[i], v)}) = 1
    <3>. SUFFICES ASSUME Parses(a)
                  PROVE  \E o : {op \in {"<", "=", ">"} : Picks(op, inventory[i], v)} = {o}
      BY FS_Singleton
    <3>1. CASE Compare(a, v) = -1
      <4>1. {op \in {"<", "=", ">"} : Picks(op, inventory[i], v)} = {"<"}
        BY <2>5, <3>1
      <4>. QED BY <4>1
    <3>2. CASE Compare(a, v) = 0
      <4>1. {op \in {"<", "=", ">"} : Picks(op, inventory[i], v)} = {"="}
        BY <2>5, <3>2
      <4>. QED BY <4>1
    <3>3. CASE Compare(a, v) = 1
      <4>1. {op \in {"<", "=", ">"} : Picks(op, inventory[i], v)} = {">"}
        BY <2>5, <3>3
      <4>. QED BY <4>1
    <3>. QED BY <2>6, <3>1, <3>2, <3>3
  <2>10. Parses(a) => /\ Picks("<=", inventory[i], v) <=> ~Picks(">", inventory[i], v)
                      /\ Picks(">=", inventory[i], v) <=> ~Picks("<", inventory[i], v)
    BY <2>5, <2>6
  <2>11. ASSUME Compare(b, a) >= 0
         PROVE  /\ Picks("<", inventory[j], v) => Picks("<", inventory[i], v) \/ ~Parses(a)
                /\ Picks(">", inventory[i], v) => Picks(">", inventory[j], v)
    BY <2>5, <2>6, <2>8, <2>11 DEF Chain
  <2>. QED BY <2>3, <2>7, <2>9, <2>10, <2>11
<1>. QED BY <1>1, RankInvariant, PTL

(***************************************************************************)
(* An atom without a version picks of its package, slot and repository     *)
(* what meets its dependency.                                              *)
(***************************************************************************)
LEMMA UnversionedFacts ==
  ASSUME NEW e, NEW d, NEW use
  PROVE  Unversioned(e, d, use) <=> DependencyMet(d, use)
<1>. DEFINE atom == [cp |-> Id(e).cp, op |-> "any", slot |-> Id(e).slot, subslot |-> 0,
                     repository |-> 0, use |-> {d}]
<1>1. /\ atom.cp = Id(e).cp /\ atom.op = "any" /\ atom.slot = Id(e).slot
      /\ atom.subslot = 0 /\ atom.repository = 0 /\ atom.use = {d}
  OBVIOUS
<1>. HIDE DEF atom
<1>2. Matches(atom, Id(e), use) = IF DependencyMet(d, use) THEN "yes" ELSE "no"
  BY <1>1 DEF Matches, Fits
<1>. QED BY <1>2 DEF Unversioned, atom

\* Whether the flag of a dependency is known of a package, and whether it stands there.
Known(d, use) == d.name \in use.declared \/ d.default # "none"
On(d, use) == IF d.name \in use.declared THEN d.name \in use.enabled ELSE d.default = "on"

(***************************************************************************)
(* A dependency is met when its flag is known and stands as it must; a     *)
(* conditional one also when it asks nothing.                              *)
(***************************************************************************)
LEMMA MetFacts ==
  ASSUME NEW d, NEW use, NEW wanted \in BOOLEAN, Required(d, use) = wanted
  PROVE  DependencyMet(d, use) <=>
           Known(d, use) /\ ((d.conditional /\ ~wanted) \/ (On(d, use) <=> wanted))
<1>1. ASSUME NEW on \in BOOLEAN, Target(d, use) = on
      PROVE  DependencyMet(d, use) <=> Known(d, use) /\ ((d.conditional /\ ~wanted) \/ on = wanted)
  BY <1>1 DEF DependencyMet, Known
<1>2. CASE On(d, use)
  <2>1. Target(d, use) = TRUE
    <3>1. CASE d.name \in use.declared
      BY <1>2, <3>1 DEF On, Target
    <3>2. CASE d.name \notin use.declared
      BY <1>2, <3>2 DEF On, Target
    <3>. QED BY <3>1, <3>2
  <2>. QED BY <1>1, <1>2, <2>1
<1>3. CASE ~On(d, use)
  <2>1. Target(d, use) = FALSE
    <3>1. CASE d.name \in use.declared
      BY <1>3, <3>1 DEF On, Target
    <3>2. CASE d.name \notin use.declared
      BY <1>3, <3>2 DEF On, Target
    <3>. QED BY <3>1, <3>2
  <2>. QED BY <1>1, <1>3, <2>1
<1>. QED BY <1>2, <1>3

(***************************************************************************)
(* What the forms of a dependency ask: x and -x the flag as written, the   *)
(* others the caller's, inverted where they are negated.                   *)
(***************************************************************************)
LEMMA PlainMet ==
  ASSUME NEW d, NEW use, ~d.conditional, ~d.equal
  PROVE  /\ d.enabled = TRUE => (DependencyMet(d, use) <=> Known(d, use) /\ On(d, use))
         /\ d.enabled = FALSE => (DependencyMet(d, use) <=> Known(d, use) /\ ~On(d, use))
<1>1. Required(d, use) = d.enabled
  BY DEF Required
<1>. QED BY <1>1, MetFacts

\* A dependency that follows the caller compares with the caller's flag.
LEMMA CallerMet ==
  ASSUME NEW d, NEW use, d.conditional \/ d.equal
  PROVE  /\ d.negated = FALSE =>
              (DependencyMet(d, use) <=>
                 /\ Known(d, use)
                 /\ \/ d.conditional /\ d.name \notin use.caller
                    \/ On(d, use) <=> d.name \in use.caller)
         /\ d.negated = TRUE =>
              (DependencyMet(d, use) <=>
                 /\ Known(d, use)
                 /\ \/ d.conditional /\ d.name \in use.caller
                    \/ On(d, use) <=> d.name \notin use.caller)
<1>1. ASSUME d.negated = FALSE, d.name \in use.caller PROVE Required(d, use) = TRUE
  BY <1>1 DEF Required
<1>2. ASSUME d.negated = FALSE, d.name \notin use.caller PROVE Required(d, use) = FALSE
  <2>1. (d.name \in use.caller) = FALSE
    BY <1>2
  <2>. QED BY <1>2, <2>1 DEF Required
<1>3. ASSUME d.negated = TRUE, d.name \in use.caller PROVE Required(d, use) = FALSE
  BY <1>3 DEF Required
<1>4. ASSUME d.negated = TRUE, d.name \notin use.caller PROVE Required(d, use) = TRUE
  BY <1>4 DEF Required
<1>. QED BY <1>1, <1>2, <1>3, <1>4, MetFacts

(***************************************************************************)
(* Opposed USE dependencies exclude each other, and one of them holds if   *)
(* the flag is known; of two conditionals one always does.                 *)
(***************************************************************************)
LEMMA OpposedDependencies ==
  ASSUME NEW flag, NEW default, NEW use
  PROVE  LET Met(enabled, mark, negated) ==
               DependencyMet(Dependency(flag, enabled, mark, negated, default), use)
             known == flag \in use.declared \/ default # "none"
         IN  /\ ~(Met(TRUE, "", FALSE) /\ Met(FALSE, "", FALSE))
             /\ ~(Met(TRUE, "=", FALSE) /\ Met(TRUE, "=", TRUE))
             /\ Met(TRUE, "", FALSE) \/ Met(FALSE, "", FALSE) <=> known
             /\ Met(TRUE, "=", FALSE) \/ Met(TRUE, "=", TRUE) <=> known
             /\ Met(TRUE, "?", FALSE) \/ Met(TRUE, "?", TRUE) <=> known
<1>. DEFINE Form(enabled, mark, negated) == Dependency(flag, enabled, mark, negated, default)
<1>. DEFINE known == flag \in use.declared \/ default # "none"
<1>. DEFINE on == IF flag \in use.declared THEN flag \in use.enabled ELSE default = "on"
<1>1. \A enabled, mark, negated :
        /\ Known(Form(enabled, mark, negated), use) <=> known
        /\ On(Form(enabled, mark, negated), use) <=> on
        /\ Form(enabled, mark, negated).name = flag
  BY DEF Dependency, Known, On
<1>2. /\ DependencyMet(Form(TRUE, "", FALSE), use) <=> known /\ on
      /\ DependencyMet(Form(FALSE, "", FALSE), use) <=> known /\ ~on
  <2>1. ASSUME NEW enabled
        PROVE  /\ ~Form(enabled, "", FALSE).conditional /\ ~Form(enabled, "", FALSE).equal
               /\ Form(enabled, "", FALSE).enabled = enabled
    BY DEF Dependency
  <2>. HIDE DEF Form, known, on
  <2>. QED BY <1>1, <2>1, PlainMet
<1>3. /\ DependencyMet(Form(TRUE, "=", FALSE), use) <=> known /\ (on <=> flag \in use.caller)
      /\ DependencyMet(Form(TRUE, "=", TRUE), use) <=> known /\ (on <=> flag \notin use.caller)
  <2>1. ASSUME NEW negated
        PROVE  /\ ~Form(TRUE, "=", negated).conditional /\ Form(TRUE, "=", negated).equal
               /\ Form(TRUE, "=", negated).negated = negated
    BY DEF Dependency
  <2>. HIDE DEF Form, known, on
  <2>2. DependencyMet(Form(TRUE, "=", FALSE), use) <=> known /\ (on <=> flag \in use.caller)
    BY <1>1, <2>1, CallerMet
  <2>3. DependencyMet(Form(TRUE, "=", TRUE), use) <=> known /\ (on <=> flag \notin use.caller)
    BY <1>1, <2>1, CallerMet
  <2>. QED BY <2>2, <2>3
<1>4. /\ DependencyMet(Form(TRUE, "?", FALSE), use) <=>
           known /\ (flag \notin use.caller \/ (on <=> flag \in use.caller))
      /\ DependencyMet(Form(TRUE, "?", TRUE), use) <=>
           known /\ (flag \in use.caller \/ (on <=> flag \notin use.caller))
  <2>1. ASSUME NEW negated
        PROVE  /\ Form(TRUE, "?", negated).conditional
               /\ Form(TRUE, "?", negated).negated = negated
    BY DEF Dependency
  <2>. HIDE DEF Form, known, on
  <2>2. DependencyMet(Form(TRUE, "?", FALSE), use) <=>
          known /\ (flag \notin use.caller \/ (on <=> flag \in use.caller))
    <3>. DEFINE d == Form(TRUE, "?", FALSE)
    <3>1. d.conditional /\ d.negated = FALSE
      BY <2>1
    <3>2. d.name = flag /\ (Known(d, use) <=> known) /\ (On(d, use) <=> on)
      BY <1>1
    <3>. HIDE DEF d
    <3>3. DependencyMet(d, use) <=>
            Known(d, use) /\ ((d.conditional /\ d.name \notin use.caller) \/ (On(d, use) <=> d.name \in use.caller))
      BY <3>1, <3>2, CallerMet
    <3>4. DependencyMet(d, use) <=> known /\ (flag \notin use.caller \/ (on <=> flag \in use.caller))
      BY <3>1, <3>3, <3>2
    <3>. QED BY <3>4 DEF d
  <2>3. DependencyMet(Form(TRUE, "?", TRUE), use) <=>
          known /\ (flag \in use.caller \/ (on <=> flag \notin use.caller))
    <3>. DEFINE d == Form(TRUE, "?", TRUE)
    <3>1. d.conditional /\ d.negated = TRUE
      BY <2>1
    <3>2. d.name = flag /\ (Known(d, use) <=> known) /\ (On(d, use) <=> on)
      BY <1>1
    <3>. HIDE DEF d
    <3>3. DependencyMet(d, use) <=>
            Known(d, use) /\ ((d.conditional /\ d.name \in use.caller) \/ (On(d, use) <=> d.name \notin use.caller))
      BY <3>1, <3>2, CallerMet
    <3>4. DependencyMet(d, use) <=> known /\ (flag \in use.caller \/ (on <=> flag \notin use.caller))
      BY <3>1, <3>3, <3>2
    <3>. QED BY <3>4 DEF d
  <2>. QED BY <2>2, <2>3
<1>. HIDE DEF on
<1>. QED BY <1>2, <1>3, <1>4 DEF Form

(***************************************************************************)
(* Opposed USE dependencies never both hold of a candidate, and one does   *)
(* where the flag is declared or has a default.                            *)
(***************************************************************************)
THEOREM DependenciesDecideAlways == Spec => []DependenciesDecide
<1>1. DependenciesDecide
  <2>. SUFFICES ASSUME NEW use \in UseStateSet, NEW flag \in Flags, NEW default \in {"none", "on", "off"}
                PROVE  LET Holds(enabled, mark, negated) ==
                             Unversioned(inventory[1], Dependency(flag, enabled, mark, negated, default), use)
                           known == flag \in use.declared \/ default # "none"
                       IN  /\ ~(Holds(TRUE, "", FALSE) /\ Holds(FALSE, "", FALSE))
                           /\ ~(Holds(TRUE, "=", FALSE) /\ Holds(TRUE, "=", TRUE))
                           /\ Holds(TRUE, "", FALSE) \/ Holds(FALSE, "", FALSE) <=> known
                           /\ Holds(TRUE, "=", FALSE) \/ Holds(TRUE, "=", TRUE) <=> known
                           /\ Holds(TRUE, "?", FALSE) \/ Holds(TRUE, "?", TRUE) <=> known
    BY Zenon DEF DependenciesDecide
  <2>. QED BY OpposedDependencies, UnversionedFacts
<1>. QED BY <1>1, PTL

-----------------------------------------------------------------------------
(* What does not change is answered as it is                               *)

\* The call has not been refused, and not been canceled.
Going == phase # "returned" \/ Answered

Visited(i, c) == i < turn \/ (i = turn /\ phase = "entering" /\ c \notin unlisted)

Skipped == {"symlink", "unreadable"}

\* The issues of repositories and categories are those of the ones that were visited.
VisitInv ==
  /\ phase = "entering" => RootListed(Current)
  /\ Going => \A i \in DOMAIN Repositories :
       /\ IssueAt(RootPath(Repositories[i])) <=> i < turn /\ ~RootListed(Repositories[i])
       /\ \A c \in Categories :
            IssueAt(CategoryPath(Repositories[i], c)) <=>
              /\ Visited(i, c) /\ RootListed(Repositories[i])
              /\ scene.directory[<<Repositories[i], c>>] \in Skipped

\* Files that do not change are listed, symlinks are issues.
ListedInv ==
  /\ \A e \in listed : scene.kind[e] \notin {"symlink", "directory"}
  /\ Going => \A i \in DOMAIN Repositories, e \in Entries :
       /\ scene.repository[e] = Repositories[i] /\ Visited(i, scene.category[e])
       /\ version[e] = 1 /\ Listed(scene.repository[e], scene.category[e])
       => /\ scene.kind[e] \notin {"symlink", "directory"} => e \in listed
          /\ scene.kind[e] = "symlink" => IssueAt(EntryPath(e))

Worked(e) == \E w \in Workers : Busy(w) /\ task[w] = e
Pending(e) == e \in toFeed \/ Worked(e) \/ e \in Delivered

\* No task is lost, unless the call is canceled, and an issue is the end of it.
KeptInv ==
  /\ phase = "sorting" \/ Answered => toFeed = {}
  /\ phase = "reading" /\ ~done /\ ~feeding => toFeed = {}
  /\ phase = "sorting" \/ Answered \/ (phase = "reading" /\ ~done) =>
       \A e \in listed : Pending(e) \/ IssueAt(EntryPath(e))
  /\ \A e \in Entries : IssueAt(EntryPath(e)) =>
       \/ scene.kind[e] = "symlink"
       \/ phase \notin {"start", "listing", "entering"} /\ e \in listed /\ ~Pending(e)

\* A file that does not change gets the result that is due to it.
WorkCode(w) ==
  /\ wpc[w] \in {"open", "read", "check"} =>
       Kind(w) # "nameless" /\ (VersionNow(w) = 1 => stat[w] = 1)
  /\ wpc[w] = "check" => Kind(w) # "unreadable"

CodeInv ==
  /\ \A w \in Workers : WorkCode(w)
  /\ \A r \in Items(channel) :
       /\ r[2] = "good" => scene.kind[r[1]] = "good"
       /\ version[r[1]] = 1 /\ scene.kind[r[1]] = "good" => r[2] = "good"
  /\ \A e \in Items(collected) \cup Items(inventory) : scene.kind[e] = "good"
  /\ \A e \in Entries : IssueAt(EntryPath(e)) /\ version[e] = 1 => scene.kind[e] # "good"
(***************************************************************************)
(* Issues of different paths are different.                                *)
(***************************************************************************)
LEMMA PathFacts ==
  /\ \A q, r : RootPath(q) = RootPath(r) => q = r
  /\ \A q, r, c, d : CategoryPath(q, c) = CategoryPath(r, d) => q = r /\ c = d
  /\ \A e, f : EntryPath(e) = EntryPath(f) => e = f
  /\ \A r, q, c, e : /\ RootPath(r) # CategoryPath(q, c) /\ RootPath(r) # EntryPath(e)
                     /\ CategoryPath(q, c) # EntryPath(e)
BY DEF RootPath, CategoryPath, EntryPath

(***************************************************************************)
(* Where there is an issue once others have been found.                    *)
(***************************************************************************)
LEMMA IssuesGrow ==
  ASSUME NEW X, issues' = issues \cup X
  PROVE  \A path : IssueAt(path)' <=> IssueAt(path) \/ \E i \in X : i[1] = path
BY DEF IssueAt

(***************************************************************************)
(* What ListRoot and ListCategory find.                                    *)
(***************************************************************************)
LEMMA ListRootFacts ==
  ASSUME TypeInv, ListRoot
  PROVE  /\ turn \in DOMAIN Repositories /\ phase = "listing" /\ UNCHANGED <<scene, version, listed>>
         /\ \/ ~Going'
            \/ /\ RootListed(Current) /\ unlisted' = Categories /\ phase' = "entering"
               /\ UNCHANGED <<turn, issues, result>>
            \/ /\ ~RootListed(Current) /\ turn' = turn + 1 /\ UNCHANGED <<phase, unlisted, result>>
               /\ \A path : IssueAt(path)' <=> IssueAt(path) \/ path = RootPath(Current)
<1>1. turn \in DOMAIN Repositories /\ phase = "listing" /\ UNCHANGED <<scene, version, listed>>
  BY RepositoryFacts DEF ListRoot, TypeInv, ListTypeOK, cacheVars
<1>2. ASSUME Return("invalid") PROVE ~Going'
  BY <1>2 DEF Return, Going, Answered
<1>3. ASSUME Blame(RootPath(Current), scene.root[Current])
      PROVE  \A path : IssueAt(path)' <=> IssueAt(path) \/ path = RootPath(Current)
  <2>. DEFINE X == {<<RootPath(Current), scene.root[Current]>>}
  <2>1. issues' = issues \cup X
    BY <1>3 DEF Blame
  <2>2. \A path : (\E i \in X : i[1] = path) <=> path = RootPath(Current)
    OBVIOUS
  <2>. HIDE DEF X
  <2>. QED BY <2>1, <2>2, IssuesGrow
<1>. QED BY <1>1, <1>2, <1>3 DEF ListRoot, RootListed

\* What listing a category adds to the tasks and to the issues.
LEMMA ListCategoryFacts ==
  ASSUME TypeInv, ListCategory
  PROVE  /\ turn \in DOMAIN Repositories /\ phase = "entering"
         /\ UNCHANGED <<scene, version, turn>>
         /\ \/ ~Going'
            \/ \E c \in unlisted :
                 /\ c \in Categories /\ unlisted' = unlisted \ {c} /\ UNCHANGED <<phase, result>>
                 /\ LET found == IF scene.directory[<<Current, c>>] = "directory"
                                   THEN Seen(Current, c) ELSE {}
                    IN  /\ listed' = listed \cup {e \in found : scene.kind[e] \notin {"symlink", "directory"}}
                        /\ \A path : IssueAt(path)' <=>
                             \/ IssueAt(path)
                             \/ \E e \in found : scene.kind[e] = "symlink" /\ path = EntryPath(e)
                             \/ /\ scene.directory[<<Current, c>>] \in Skipped
                                /\ path = CategoryPath(Current, c)
<1>1. turn \in DOMAIN Repositories /\ phase = "entering" /\ UNCHANGED <<scene, version, turn>>
  BY RepositoryFacts DEF ListCategory, TypeInv, ListTypeOK, PhaseInv, cacheVars
<1>2. ASSUME Return("canceled") PROVE ~Going'
  BY <1>2 DEF Return, Going, Answered
<1>3. CASE done
  BY <1>1, <1>2, <1>3 DEF ListCategory
<1>4. CASE ~done
  <2>. DEFINE Found(c) == IF scene.directory[<<Current, c>>] = "directory" THEN Seen(Current, c) ELSE {}
  <2>. DEFINE Links(c) == {<<EntryPath(e), "symlink">> : e \in {f \in Found(c) : scene.kind[f] = "symlink"}}
  <2>. DEFINE Bad(c) == IF scene.directory[<<Current, c>>] \in {"symlink", "unreadable"}
                          THEN {<<CategoryPath(Current, c), scene.directory[<<Current, c>>]>>} ELSE {}
  <2>1. PICK c \in unlisted :
          /\ unlisted' = unlisted \ {c} /\ UNCHANGED <<phase, result>>
          /\ listed' = listed \cup {e \in Found(c) : scene.kind[e] \notin {"symlink", "directory"}}
          /\ issues' = issues \cup Links(c) \cup Bad(c)
    BY <1>4 DEF ListCategory
  <2>2. c \in Categories
    BY DEF TypeInv, ListTypeOK
  <2>3. \A path : (\E i \in Links(c) : i[1] = path) <=>
                    \E e \in Found(c) : scene.kind[e] = "symlink" /\ path = EntryPath(e)
    <3>. HIDE DEF Found
    <3>1. ASSUME NEW path, NEW i \in Links(c), i[1] = path
          PROVE  \E e \in Found(c) : scene.kind[e] = "symlink" /\ path = EntryPath(e)
      BY <3>1
    <3>2. ASSUME NEW path, NEW e \in Found(c), scene.kind[e] = "symlink", path = EntryPath(e)
          PROVE  \E i \in Links(c) : i[1] = path
      <4>1. <<EntryPath(e), "symlink">> \in Links(c) /\ <<EntryPath(e), "symlink">>[1] = EntryPath(e)
        BY <3>2
      <4>. QED BY <3>2, <4>1
    <3>. QED BY <3>1, <3>2
  <2>4. \A path : (\E i \in Bad(c) : i[1] = path) <=>
                    scene.directory[<<Current, c>>] \in Skipped /\ path = CategoryPath(Current, c)
    <3>. DEFINE kind == scene.directory[<<Current, c>>]
    <3>. DEFINE place == CategoryPath(Current, c)
    <3>1. Bad(c) = IF kind \in Skipped THEN {<<place, kind>>} ELSE {}
      BY DEF Skipped
    <3>. HIDE DEF kind, place, Bad
    <3>2. \A path : (\E i \in Bad(c) : i[1] = path) <=> kind \in Skipped /\ path = place
      <4>1. CASE kind \in Skipped
        <5>1. Bad(c) = {<<place, kind>>} /\ <<place, kind>>[1] = place
          BY <3>1, <4>1
        <5>. QED BY <4>1, <5>1
      <4>2. CASE kind \notin Skipped
        BY <3>1, <4>2
      <4>. QED BY <4>1, <4>2
    <3>. QED BY <3>2 DEF kind, place
  <2>. HIDE DEF Links, Bad
  <2>5. \A path : IssueAt(path)' <=> IssueAt(path) \/ \E i \in Links(c) \cup Bad(c) : i[1] = path
    <3>. DEFINE X == Links(c) \cup Bad(c)
    <3>1. issues' = issues \cup X
      BY <2>1
    <3>. HIDE DEF X
    <3>2. \A path : IssueAt(path)' <=> IssueAt(path) \/ \E i \in X : i[1] = path
      BY <3>1, IssuesGrow
    <3>. QED BY <3>2 DEF X
  <2>6. \A path : IssueAt(path)' <=>
          \/ IssueAt(path)
          \/ \E e \in Found(c) : scene.kind[e] = "symlink" /\ path = EntryPath(e)
          \/ scene.directory[<<Current, c>>] \in Skipped /\ path = CategoryPath(Current, c)
    BY <2>3, <2>4, <2>5
  <2>. QED BY <1>1, <2>1, <2>2, <2>6
<1>. QED BY <1>3, <1>4

(***************************************************************************)
(* The listing finds the issues of repositories and categories.            *)
(***************************************************************************)
LEMMA ListingVisits ==
  ASSUME TypeInv, VisitInv, ListRoot \/ ListCategory \/ NextRepository
  PROVE  VisitInv'
<1>1. /\ DOMAIN Repositories = 1..Len(Repositories) /\ Len(Repositories) \in Nat /\ turn \in Nat
      /\ \A i, j \in DOMAIN Repositories : Repositories[i] = Repositories[j] => i = j
  BY RepositoryFacts, CandidateAssumption DEF TypeInv, ListTypeOK
<1>2. CASE ListRoot
  <2>1. turn \in DOMAIN Repositories /\ phase = "listing" /\ UNCHANGED scene
    BY <1>2, ListRootFacts
  <2>2. CASE ~Going'
    <3>1. phase' # "entering"
      BY <2>2 DEF Going
    <3>. QED BY <2>2, <3>1 DEF VisitInv
  <2>3. CASE /\ RootListed(Current) /\ unlisted' = Categories /\ phase' = "entering"
             /\ UNCHANGED <<turn, issues, result>>
    <3>1. Going /\ RootListed(Current)'
      BY <2>1, <2>3 DEF Going, RootListed, Current
    <3>2. \A i \in DOMAIN Repositories, c \in Categories : Visited(i, c)' <=> Visited(i, c)
      BY <2>1, <2>3 DEF Visited
    <3>. QED BY <2>1, <2>3, <3>1, <3>2 DEF VisitInv, IssueAt, RootListed
  <2>4. CASE /\ ~RootListed(Current) /\ turn' = turn + 1 /\ UNCHANGED <<phase, unlisted, result>>
             /\ \A path : IssueAt(path)' <=> IssueAt(path) \/ path = RootPath(Current)
    <3>1. Going /\ phase' # "entering"
      BY <2>1, <2>4 DEF Going
    <3>2. ASSUME NEW i \in DOMAIN Repositories
          PROVE  /\ IssueAt(RootPath(Repositories[i]))' <=> (i < turn /\ ~RootListed(Repositories[i]))'
                 /\ \A c \in Categories :
                      IssueAt(CategoryPath(Repositories[i], c))' <=>
                        (/\ Visited(i, c) /\ RootListed(Repositories[i])
                         /\ scene.directory[<<Repositories[i], c>>] \in Skipped)'
      <4>1. /\ IssueAt(RootPath(Repositories[i])) <=> i < turn /\ ~RootListed(Repositories[i])
            /\ \A c \in Categories :
                 IssueAt(CategoryPath(Repositories[i], c)) <=>
                   /\ Visited(i, c) /\ RootListed(Repositories[i])
                   /\ scene.directory[<<Repositories[i], c>>] \in Skipped
        BY <3>1 DEF VisitInv
      <4>2. RootPath(Repositories[i]) = RootPath(Current) <=> i = turn
        BY <1>1, <2>1, PathFacts DEF Current
      <4>3. i < turn + 1 <=> i < turn \/ i = turn
        BY <1>1
      <4>4. IssueAt(RootPath(Repositories[i]))' <=> i < turn' /\ ~RootListed(Repositories[i])
        BY <2>4, <4>1, <4>2, <4>3 DEF Current
      <4>5. ASSUME NEW c \in Categories
            PROVE  IssueAt(CategoryPath(Repositories[i], c))' <=>
                     /\ Visited(i, c)' /\ RootListed(Repositories[i])
                     /\ scene.directory[<<Repositories[i], c>>] \in Skipped
        <5>1. IssueAt(CategoryPath(Repositories[i], c))' <=> IssueAt(CategoryPath(Repositories[i], c))
          BY <2>4, PathFacts
        <5>2. Visited(i, c)' <=> Visited(i, c) \/ i = turn
          BY <2>1, <2>4, <4>3 DEF Visited
        <5>. QED BY <2>4, <4>1, <5>1, <5>2 DEF Current
      <4>. QED BY <2>1, <4>4, <4>5 DEF RootListed
    <3>. QED BY <3>1, <3>2 DEF VisitInv
  <2>. QED BY <1>2, <2>2, <2>3, <2>4, ListRootFacts
<1>3. CASE ListCategory
  <2>1. turn \in DOMAIN Repositories /\ phase = "entering" /\ UNCHANGED <<scene, turn>>
    BY <1>3, ListCategoryFacts
  <2>2. CASE ~Going'
    <3>1. phase' # "entering"
      BY <2>2 DEF Going
    <3>. QED BY <2>2, <3>1 DEF VisitInv
  <2>3. ASSUME NEW d \in unlisted, d \in Categories, unlisted' = unlisted \ {d}, UNCHANGED <<phase, result>>,
               \A path : (\A e : path # EntryPath(e)) =>
                 (IssueAt(path)' <=>
                   \/ IssueAt(path)
                   \/ scene.directory[<<Current, d>>] \in Skipped /\ path = CategoryPath(Current, d))
        PROVE  VisitInv'
    <3>1. Going /\ RootListed(Current) /\ RootListed(Current)'
      BY <2>1 DEF Going, VisitInv, RootListed, Current
    <3>2. ASSUME NEW i \in DOMAIN Repositories
          PROVE  /\ IssueAt(RootPath(Repositories[i]))' <=> (i < turn /\ ~RootListed(Repositories[i]))'
                 /\ \A c \in Categories :
                      IssueAt(CategoryPath(Repositories[i], c))' <=>
                        (/\ Visited(i, c) /\ RootListed(Repositories[i])
                         /\ scene.directory[<<Repositories[i], c>>] \in Skipped)'
      <4>1. /\ IssueAt(RootPath(Repositories[i])) <=> i < turn /\ ~RootListed(Repositories[i])
            /\ \A c \in Categories :
                 IssueAt(CategoryPath(Repositories[i], c)) <=>
                   /\ Visited(i, c) /\ RootListed(Repositories[i])
                   /\ scene.directory[<<Repositories[i], c>>] \in Skipped
        BY <3>1 DEF VisitInv
      <4>2. IssueAt(RootPath(Repositories[i]))' <=> IssueAt(RootPath(Repositories[i]))
        BY <2>3, PathFacts
      <4>3. ASSUME NEW c \in Categories
            PROVE  IssueAt(CategoryPath(Repositories[i], c))' <=>
                     /\ Visited(i, c)' /\ RootListed(Repositories[i])
                     /\ scene.directory[<<Repositories[i], c>>] \in Skipped
        <5>1. CategoryPath(Repositories[i], c) = CategoryPath(Current, d) <=> i = turn /\ c = d
          BY <1>1, <2>1, PathFacts DEF Current
        <5>2. IssueAt(CategoryPath(Repositories[i], c))' <=>
                \/ IssueAt(CategoryPath(Repositories[i], c))
                \/ i = turn /\ c = d /\ scene.directory[<<Current, d>>] \in Skipped
          BY <2>3, <5>1, PathFacts
        <5>3. Visited(i, c)' <=> Visited(i, c) \/ (i = turn /\ c = d)
          BY <2>1, <2>3 DEF Visited
        <5>. QED BY <3>1, <4>1, <5>2, <5>3 DEF Current
      <4>. QED BY <2>1, <4>1, <4>2, <4>3 DEF RootListed
    <3>. QED BY <3>1, <3>2 DEF VisitInv
  <2>. QED BY <1>3, <2>2, <2>3, ListCategoryFacts, Zenon
<1>4. CASE NextRepository
  <2>1. /\ phase = "entering" /\ phase' = "listing" /\ unlisted = {} /\ turn' = turn + 1
        /\ UNCHANGED <<scene, unlisted, issues>>
    BY <1>4 DEF NextRepository, outVars, cacheVars
  <2>2. Going /\ RootListed(Current) /\ turn \in DOMAIN Repositories
    BY <1>1, <2>1 DEF Going, VisitInv, TypeInv, PhaseInv, ListTypeOK
  <2>3. \A i \in DOMAIN Repositories : i < turn + 1 <=> i < turn \/ i = turn
    BY <1>1
  <2>4. \A i \in DOMAIN Repositories, c \in Categories : Visited(i, c)' <=> Visited(i, c)
    BY <2>1, <2>3 DEF Visited
  <2>5. \A i \in DOMAIN Repositories :
          i < turn' /\ ~RootListed(Repositories[i]) <=> i < turn /\ ~RootListed(Repositories[i])
    BY <2>1, <2>2, <2>3 DEF Current
  <2>. QED BY <2>1, <2>2, <2>4, <2>5 DEF VisitInv, IssueAt, RootListed
<1>. QED BY <1>2, <1>3, <1>4

(***************************************************************************)
(* What Collect does to the issues of repositories and categories, and of  *)
(* entries.                                                                *)
(***************************************************************************)
LEMMA CollectIssues ==
  ASSUME TypeInv, Once(First(channel)), Collect
  PROVE  \A path : IssueAt(path)' <=>
           \/ IssueAt(path)
           \/ Head(channel)[2] # "good" /\ path = EntryPath(Head(channel)[1])
<1>. DEFINE e == Head(channel)[1]
<1>. DEFINE code == Head(channel)[2]
<1>1. \/ code = "good" /\ UNCHANGED issues
      \/ code # "good" /\ issues' = issues \cup {<<EntryPath(e), code>>}
  BY DEF Collect, Blame
<1>. HIDE DEF e, code
<1>2. CASE code = "good" /\ UNCHANGED issues
  BY <1>2 DEF IssueAt, code
<1>3. CASE code # "good" /\ issues' = issues \cup {<<EntryPath(e), code>>}
  <2>. DEFINE X == {<<EntryPath(e), code>>}
  <2>1. issues' = issues \cup X /\ \A path : (\E i \in X : i[1] = path) <=> path = EntryPath(e)
    BY <1>3
  <2>. HIDE DEF X
  <2>. QED BY <1>3, <2>1, IssuesGrow DEF e, code
<1>. QED BY <1>1, <1>2, <1>3

(***************************************************************************)
(* The steps that touch no issue and none of what the listing keeps.       *)
(***************************************************************************)
Apart ==
  /\ UNCHANGED <<scene, turn, unlisted, listed, issues>>
  /\ phase \notin {"entering", "returned"} /\ phase' # "entering"

\* The steps of the call itself that neither list nor collect stay apart.
LEMMA ApartSteps ==
  ASSUME TypeInv, Start \/ StartPool \/ StopFeeding \/ EndPool \/ Sort \/ Finish
  PROVE  Apart /\ version' = version
BY DEF Start, StartPool, StopFeeding, EndPool, PoolOver, Sort, Finish, Return, Apart, TypeInv, PhaseInv,
       ListTypeOK, cacheVars, listVars, outVars

\* The steps of the workers and of the environment, for the listing.
Aside == UNCHANGED <<scene, turn, unlisted, listed, issues, phase, result, collected, inventory>>

\* Workers, changes of files and the end of the context touch no listing.
LEMMA AsideSteps ==
  ASSUME ContextDone \/ (\E e \in Entries : Change(e)) \/ (\E w \in Workers : WorkerStep(w))
  PROVE  Aside
<1>1. CASE ContextDone \/ \E e \in Entries : Change(e)
  BY <1>1 DEF ContextDone, Change, Aside, cacheVars, listVars, outVars
<1>2. ASSUME NEW w \in Workers, WorkerStep(w) PROVE Aside
  BY <1>2 DEF WorkerStep, Feed, WorkerExits, Stat, Open, Read, Check, Aside, cacheVars, listVars, outVars
<1>. QED BY <1>1, <1>2

(***************************************************************************)
(* Every step leaves the issues of repositories and categories as they     *)
(* were visited.                                                           *)
(***************************************************************************)
LEMMA VisitStep == TypeInv /\ PlaceInv /\ VisitInv /\ [Next]_vars => VisitInv'
<1>. SUFFICES ASSUME TypeInv, PlaceInv, VisitInv, [Next]_vars PROVE VisitInv'
  OBVIOUS
<1>1. CASE UNCHANGED vars \/ ContextDone \/ (\E e \in Entries : Change(e))
           \/ (\E w \in Workers : WorkerStep(w))
  <2>1. UNCHANGED <<scene, turn, unlisted, issues, phase, result>>
    <3>1. CASE UNCHANGED vars
      BY <3>1 DEF vars, cacheVars, listVars, outVars
    <3>. QED BY <1>1, <3>1, AsideSteps DEF Aside
  <2>. QED BY <2>1 DEF VisitInv, Going, Answered, IssueAt, Visited, RootListed, Current
<1>2. CASE Apart
  <2>1. Going /\ phase # "entering" /\ phase' # "entering" /\ UNCHANGED <<scene, turn, issues>>
    BY <1>2 DEF Apart, Going
  <2>2. \A i \in DOMAIN Repositories, c \in Categories : Visited(i, c)' <=> Visited(i, c)
    BY <2>1 DEF Visited
  <2>. QED BY <2>1, <2>2 DEF VisitInv, IssueAt, RootListed
<1>3. CASE Collect
  <2>1. phase = "reading" /\ phase' = phase /\ UNCHANGED <<scene, turn, unlisted>>
    BY <1>3 DEF Collect, cacheVars, listVars
  <2>2. /\ \A r : IssueAt(RootPath(r))' <=> IssueAt(RootPath(r))
        /\ \A r, c : IssueAt(CategoryPath(r, c))' <=> IssueAt(CategoryPath(r, c))
    BY <1>3, CollectIssues, PathFacts DEF PlaceInv
  <2>3. \A i \in DOMAIN Repositories, c \in Categories : Visited(i, c)' <=> Visited(i, c)
    BY <2>1 DEF Visited
  <2>4. Going
    BY <2>1 DEF Going
  <2>. QED BY <2>1, <2>2, <2>3, <2>4 DEF VisitInv, RootListed
<1>. QED BY <1>1, <1>2, <1>3, ListingVisits, ApartSteps DEF Next, CallStep, Terminated

(***************************************************************************)
(* A file that has its first version has had no other, and no step changes *)
(* what the caches were at first.                                          *)
(***************************************************************************)
LEMMA FirstVersion ==
  ASSUME TypeInv, [Next]_vars
  PROVE  scene' = scene /\ \A e \in Entries : version'[e] = 1 => version[e] = 1
<1>1. CASE UNCHANGED <<scene, version>>
  BY <1>1
<1>2. ASSUME NEW f \in Entries, Change(f)
      PROVE  scene' = scene /\ \A e \in Entries : version'[e] = 1 => version[e] = 1
  <2>1. scene' = scene /\ clock \in Nat \ {0} /\ 1 \notin {0, clock + 1}
    BY <1>2, ChangeIsSeen
  <2>. QED BY <1>2, <2>1, ChangeIsSeen
<1>3. CASE \E w \in Workers : WorkerStep(w)
  BY <1>1, <1>3 DEF WorkerStep, Feed, WorkerExits, Stat, Open, Read, Check, cacheVars
<1>4. CASE CallStep \/ ContextDone \/ UNCHANGED vars
  BY <1>1, <1>4 DEF CallStep, Start, ListRoot, ListCategory, NextRepository, StartPool, StopFeeding,
                    Collect, EndPool, Sort, Finish, ContextDone, vars, cacheVars
<1>. QED BY <1>2, <1>3, <1>4 DEF Next, Terminated

(***************************************************************************)
(* The listing finds the files that do not change.                         *)
(***************************************************************************)
LEMMA ListingLists ==
  ASSUME TypeInv, VisitInv, ListedInv, ListRoot \/ ListCategory \/ NextRepository
  PROVE  ListedInv'
<1>1. /\ DOMAIN Repositories = 1..Len(Repositories) /\ Len(Repositories) \in Nat /\ turn \in Nat
      /\ \A i, j \in DOMAIN Repositories : Repositories[i] = Repositories[j] => i = j
  BY RepositoryFacts, CandidateAssumption DEF TypeInv, ListTypeOK
<1>2. \A e \in Entries : scene.category[e] \in Categories
  BY EntryFacts
<1>3. CASE ListRoot
  <2>1. turn \in DOMAIN Repositories /\ phase = "listing" /\ UNCHANGED <<scene, version, listed>> /\ Going
    BY <1>3, ListRootFacts DEF Going
  <2>2. CASE ~Going'
    BY <2>1, <2>2 DEF ListedInv
  <2>3. CASE /\ RootListed(Current) /\ unlisted' = Categories /\ phase' = "entering"
             /\ UNCHANGED <<turn, issues, result>>
    <3>1. \A i \in DOMAIN Repositories, c \in Categories : Visited(i, c)' <=> Visited(i, c)
      BY <2>1, <2>3 DEF Visited
    <3>. QED BY <1>2, <2>1, <2>3, <3>1 DEF ListedInv, IssueAt, Listed, RootListed
  <2>4. CASE /\ ~RootListed(Current) /\ turn' = turn + 1 /\ UNCHANGED <<phase, unlisted, result>>
             /\ \A path : IssueAt(path)' <=> IssueAt(path) \/ path = RootPath(Current)
    <3>1. \A i \in DOMAIN Repositories, c \in Categories : Visited(i, c)' => Visited(i, c) \/ i = turn
      BY <1>1, <2>1, <2>4 DEF Visited
    <3>. QED BY <1>2, <2>1, <2>4, <3>1 DEF ListedInv, Listed, RootListed, Current
  <2>. QED BY <1>3, <2>2, <2>3, <2>4, ListRootFacts
<1>4. CASE ListCategory
  <2>1. turn \in DOMAIN Repositories /\ phase = "entering" /\ UNCHANGED <<scene, version, turn>> /\ Going
    BY <1>4, ListCategoryFacts DEF Going
  <2>2. CASE ~Going'
    <3>1. listed' = listed
      <4>1. CASE done
        BY <1>4, <4>1 DEF ListCategory
      <4>2. CASE ~done
        BY <1>4, <2>1, <2>2, <4>2 DEF ListCategory, Going
      <4>. QED BY <4>1, <4>2
    <3>. QED BY <2>1, <2>2, <3>1 DEF ListedInv
  <2>3. ASSUME NEW d \in unlisted, d \in Categories, unlisted' = unlisted \ {d}, UNCHANGED <<phase, result>>,
               NEW found,
               found = (IF scene.directory[<<Current, d>>] = "directory" THEN Seen(Current, d) ELSE {}),
               listed' = listed \cup {e \in found : scene.kind[e] \notin {"symlink", "directory"}},
               \A path : IssueAt(path)' <=>
                           \/ IssueAt(path)
                           \/ \E e \in found : scene.kind[e] = "symlink" /\ path = EntryPath(e)
                           \/ /\ scene.directory[<<Current, d>>] \in Skipped
                              /\ path = CategoryPath(Current, d)
        PROVE  ListedInv'
    <3>1. \A e \in listed' : scene.kind[e] \notin {"symlink", "directory"}
      BY <2>3 DEF ListedInv
    <3>2. ASSUME NEW i \in DOMAIN Repositories, NEW e \in Entries, scene.repository[e] = Repositories[i],
                 Visited(i, scene.category[e])', version[e] = 1,
                 Listed(scene.repository[e], scene.category[e])
          PROVE  /\ scene.kind[e] \notin {"symlink", "directory"} => e \in listed'
                 /\ scene.kind[e] = "symlink" => IssueAt(EntryPath(e))'
      <4>1. CASE Visited(i, scene.category[e])
        <5>1. /\ scene.kind[e] \notin {"symlink", "directory"} => e \in listed
              /\ scene.kind[e] = "symlink" => IssueAt(EntryPath(e))
          BY <2>1, <3>2, <4>1 DEF ListedInv
        <5>. QED BY <2>3, <5>1
      <4>2. CASE i = turn /\ scene.category[e] = d
        <5>1. scene.directory[<<Current, d>>] = "directory" /\ e \in Seen(Current, d)
          BY <3>2, <4>2 DEF Listed, Seen, EntriesAt, Current
        <5>2. e \in found
          BY <2>3, <5>1
        <5>. QED BY <2>3, <5>2
      <4>3. Visited(i, scene.category[e])' => Visited(i, scene.category[e]) \/ (i = turn /\ scene.category[e] = d)
        BY <1>2, <2>1, <2>3 DEF Visited
      <4>. QED BY <3>2, <4>1, <4>2, <4>3
    <3>3. \A i \in DOMAIN Repositories, e \in Entries :
            Visited(i, scene.category[e])' <=> (i < turn' \/ (i = turn' /\ phase' = "entering" /\ scene.category[e] \notin unlisted'))
      BY <2>1 DEF Visited
    <3>. QED BY <2>1, <3>1, <3>2, <3>3 DEF ListedInv, Listed, RootListed, Visited
  <2>. QED BY <1>4, <2>2, <2>3, ListCategoryFacts
<1>5. CASE NextRepository
  <2>1. /\ phase = "entering" /\ phase' = "listing" /\ unlisted = {} /\ turn' = turn + 1
        /\ UNCHANGED <<scene, version, listed, unlisted, issues>> /\ Going
    BY <1>5 DEF NextRepository, outVars, cacheVars, Going
  <2>2. \A i \in DOMAIN Repositories, c \in Categories : Visited(i, c)' => Visited(i, c)
    BY <1>1, <2>1 DEF Visited
  <2>. QED BY <1>2, <2>1, <2>2 DEF ListedInv, IssueAt, Listed, RootListed
<1>. QED BY <1>3, <1>4, <1>5

(***************************************************************************)
(* Every step keeps what is listed of the files that do not change.        *)
(***************************************************************************)
LEMMA ListedStep == TypeInv /\ PlaceInv /\ VisitInv /\ ListedInv /\ [Next]_vars => ListedInv'
<1>. SUFFICES ASSUME TypeInv, PlaceInv, VisitInv, ListedInv, [Next]_vars PROVE ListedInv'
  OBVIOUS
<1>1. scene' = scene /\ \A e \in Entries : version'[e] = 1 => version[e] = 1
  BY FirstVersion
<1>2. \A e \in Entries : scene.category[e] \in Categories
  BY EntryFacts
<1>3. CASE UNCHANGED vars \/ ContextDone \/ (\E e \in Entries : Change(e))
           \/ (\E w \in Workers : WorkerStep(w))
  <2>1. UNCHANGED <<turn, unlisted, listed, issues, phase, result>>
    <3>1. CASE UNCHANGED vars
      BY <3>1 DEF vars, listVars, outVars
    <3>. QED BY <1>3, <3>1, AsideSteps DEF Aside
  <2>. QED BY <1>1, <2>1 DEF ListedInv, Going, Answered, IssueAt, Visited, Listed, RootListed
<1>4. CASE Apart
  <2>1. Going /\ phase # "entering" /\ phase' # "entering" /\ UNCHANGED <<turn, listed, issues>>
    BY <1>4 DEF Apart, Going
  <2>2. \A i \in DOMAIN Repositories, c \in Categories : Visited(i, c)' <=> Visited(i, c)
    BY <2>1 DEF Visited
  <2>. QED BY <1>1, <1>2, <2>1, <2>2 DEF ListedInv, IssueAt, Listed, RootListed
<1>5. CASE Collect
  <2>1. phase = "reading" /\ phase' = phase /\ UNCHANGED <<turn, unlisted, listed>> /\ Going
    BY <1>5 DEF Collect, listVars, Going
  <2>2. \A path : IssueAt(path) => IssueAt(path)'
    BY <1>5, CollectIssues DEF PlaceInv
  <2>3. \A i \in DOMAIN Repositories, c \in Categories : Visited(i, c)' <=> Visited(i, c)
    BY <2>1 DEF Visited
  <2>. QED BY <1>1, <1>2, <2>1, <2>2, <2>3 DEF ListedInv, Listed, RootListed
<1>. QED BY <1>3, <1>4, <1>5, ListingLists, ApartSteps DEF Next, CallStep, Terminated

(***************************************************************************)
(* The steps of a worker lose no task, unless the call is canceled.        *)
(***************************************************************************)
LEMMA WorkerKeeps ==
  ASSUME TypeInv, PlaceInv, KeptInv, NEW w \in Workers, WorkerStep(w)
  PROVE  KeptInv'
<1>1. /\ wpc \in [Workers -> {"exited", "idle", "took", "open", "read", "check"}]
      /\ task \in [Workers -> Entries \cup {0}]
  BY DEF TypeInv, WorkTypeOK
<1>2. UNCHANGED <<scene, listed, issues, phase, result, collected, inventory>>
  BY AsideSteps DEF Aside
<1>3. UNCHANGED <<done, feeding>>
  BY DEF WorkerStep, Feed, WorkerExits, Stat, Open, Read, Check, poolVars
<1>4. ASSUME \A f \in Entries : Pending(f)' <=> Pending(f), toFeed' = toFeed \/ feeding
      PROVE  KeptInv'
  <2>1. phase = "reading" \/ toFeed' = toFeed
    BY <1>4 DEF TypeInv, PhaseInv
  <2>2. listed \subseteq Entries
    BY SequenceFacts
  <2>3. phase = "reading" => ~Answered
    BY DEF TypeInv, PhaseInv, Answered
  <2>. QED BY <1>2, <1>3, <1>4, <2>1, <2>2, <2>3 DEF KeptInv, IssueAt, Answered
<1>5. ASSUME NEW e \in toFeed, Takes(w, e) PROVE KeptInv'
  <2>1. /\ toFeed' = toFeed \ {e} /\ feeding /\ UNCHANGED channel
        /\ wpc[w] = "idle" /\ wpc'[w] = "took" /\ task'[w] = e
        /\ \A v \in Workers \ {w} : wpc'[v] = wpc[v] /\ task'[v] = task[v]
    BY <1>1, <1>5 DEF Takes
  <2>2. Delivered' = Delivered
    BY <1>2, <2>1 DEF Delivered, Sent
  <2>3. ASSUME NEW f \in Entries PROVE Pending(f)' <=> Pending(f)
    <3>1. Worked(f)' <=> Worked(f) \/ f = e
      <4>1. ~Busy(w) /\ Busy(w)' /\ \A v \in Workers \ {w} : Busy(v)' <=> Busy(v)
        BY <2>1 DEF Busy
      <4>. QED BY <2>1, <4>1 DEF Worked
    <3>. QED BY <2>1, <2>2, <3>1 DEF Pending
  <2>. QED BY <1>4, <2>1, <2>3
<1>6. CASE WorkerExits(w)
  <2>1. UNCHANGED <<toFeed, channel>> /\ wpc'[w] = "exited"
        /\ \A v \in Workers \ {w} : wpc'[v] = wpc[v] /\ task'[v] = task[v]
    BY <1>1, <1>6 DEF WorkerExits, poolVars
  <2>2. Delivered' = Delivered /\ ~Busy(w)' /\ \A v \in Workers \ {w} : Busy(v)' <=> Busy(v)
    BY <1>2, <2>1 DEF Delivered, Sent, Busy
  <2>3. CASE wpc[w] = "idle"
    <3>1. \A f \in Entries : Worked(f)' <=> Worked(f)
      <4>1. ~Busy(w)
        BY <2>3 DEF Busy
      <4>. QED BY <2>1, <2>2, <4>1 DEF Worked
    <3>. QED BY <1>4, <2>1, <2>2, <3>1 DEF Pending
  <2>4. CASE wpc[w] # "idle"
    <3>1. done /\ wpc[w] = "took"
      BY <1>6, <2>4 DEF WorkerExits
    <3>2. phase = "reading" /\ ~Answered
      <4>1. Busy(w)
        BY <3>1 DEF Busy
      <4>. QED BY <4>1, BusyFacts DEF TypeInv, PhaseInv, Answered
    <3>3. \A f \in Entries : Pending(f)' => Pending(f)
      BY <2>1, <2>2 DEF Pending, Worked
    <3>. QED BY <1>2, <1>3, <2>1, <3>1, <3>2, <3>3 DEF KeptInv, IssueAt, Answered
  <2>. QED BY <2>3, <2>4
<1>7. CASE GoesOn(w)
  <2>1. /\ UNCHANGED <<toFeed, channel, task>> /\ Busy(w) /\ Busy(w)'
        /\ \A v \in Workers \ {w} : wpc'[v] = wpc[v]
    BY <1>1, <1>7 DEF GoesOn, GoTo, Quiet, poolVars, Busy
  <2>2. Delivered' = Delivered /\ \A v \in Workers : Busy(v)' <=> Busy(v)
    BY <1>2, <2>1 DEF Delivered, Sent, Busy
  <2>. QED BY <1>4, <2>1, <2>2 DEF Pending, Worked
<1>8. ASSUME NEW code \in Codes \cup {"good"}, Sends(w, code) PROVE KeptInv'
  <2>1. UNCHANGED toFeed /\ Busy(w)
    BY <1>8 DEF Sends, Quiet, poolVars
  <2>2. /\ Items(First(channel')) = Sent \cup {task[w]} /\ ~Busy(w)'
        /\ \A v \in Workers \ {w} : wpc'[v] = wpc[v] /\ task'[v] = task[v]
    BY <1>8, SendFacts
  <2>3. Delivered' = Delivered \cup {task[w]} /\ \A v \in Workers \ {w} : Busy(v)' <=> Busy(v)
    BY <1>2, <2>2 DEF Delivered, Sent, Busy
  <2>4. \A f \in Entries : Worked(f) \/ f = task[w] <=> Worked(f)' \/ f = task[w]
    BY <2>1, <2>2, <2>3 DEF Worked
  <2>5. Worked(task[w])
    BY <2>1 DEF Worked
  <2>. QED BY <1>4, <2>1, <2>3, <2>4, <2>5 DEF Pending
<1>. QED BY <1>5, <1>6, <1>7, <1>8, WorkerKinds

(***************************************************************************)
(* The listing finds no issue of an entry but that it is a symlink.        *)
(***************************************************************************)
LEMMA ListingIssues ==
  ASSUME TypeInv, Start \/ ListRoot \/ ListCategory \/ NextRepository
  PROVE  \A e \in Entries :
           IssueAt(EntryPath(e))' => IssueAt(EntryPath(e)) \/ scene.kind[e] = "symlink"
<1>1. phase \in {"start", "listing", "entering"}
  BY DEF Start, ListRoot, ListCategory, NextRepository
<1>2. CASE UNCHANGED issues
  BY <1>2 DEF IssueAt
<1>3. CASE Start \/ NextRepository
  BY <1>2, <1>3 DEF Start, NextRepository, outVars
<1>4. CASE ListRoot
  <2>1. CASE Going'
    BY <1>2, <1>4, <2>1, ListRootFacts, PathFacts
  <2>2. CASE ~Going'
    <3>1. UNCHANGED issues
      BY <1>1, <1>4, <2>2 DEF ListRoot, Going
    <3>. QED BY <1>2, <3>1
  <2>. QED BY <2>1, <2>2
<1>5. CASE ListCategory
  <2>1. CASE Going'
    <3>. DEFINE Found(c) == IF scene.directory[<<Current, c>>] = "directory"
                              THEN Seen(Current, c) ELSE {}
    <3>1. PICK c \in unlisted :
            \A path : IssueAt(path)' <=>
              \/ IssueAt(path)
              \/ \E e \in Found(c) : scene.kind[e] = "symlink" /\ path = EntryPath(e)
              \/ scene.directory[<<Current, c>>] \in Skipped /\ path = CategoryPath(Current, c)
      BY <1>5, <2>1, ListCategoryFacts
    <3>. HIDE DEF Found
    <3>. QED BY <3>1, PathFacts
  <2>2. CASE ~Going'
    <3>1. UNCHANGED issues
      BY <1>1, <1>5, <2>2 DEF ListCategory, Going
    <3>. QED BY <1>2, <3>1
  <2>. QED BY <2>1, <2>2
<1>. QED BY <1>3, <1>4, <1>5

(***************************************************************************)
(* Before the files are read no entry has an issue but symlinks.           *)
(***************************************************************************)
LEMMA ListingKeeps ==
  ASSUME TypeInv, KeptInv, Start \/ ListRoot \/ ListCategory \/ NextRepository
  PROVE  KeptInv'
<1>1. phase \in {"start", "listing", "entering"} /\ UNCHANGED <<scene, toFeed>>
  BY DEF Start, ListRoot, ListCategory, NextRepository, cacheVars, poolVars
<1>2. phase' \in {"start", "listing", "entering", "returned"} /\ ~Answered'
  BY DEF Start, ListRoot, ListCategory, NextRepository, Return, Answered, TypeInv, PhaseInv
<1>3. \A e \in Entries : IssueAt(EntryPath(e))' => scene.kind[e] = "symlink"
  BY <1>1, ListingIssues DEF KeptInv
<1>. QED BY <1>1, <1>2, <1>3 DEF KeptInv, Answered

(***************************************************************************)
(* Every step keeps the tasks, unless the call is canceled.                *)
(***************************************************************************)
LEMMA KeptStep == TypeInv /\ PlaceInv /\ ListedInv /\ KeptInv /\ [Next]_vars => KeptInv'
<1>. SUFFICES ASSUME TypeInv, PlaceInv, ListedInv, KeptInv, [Next]_vars PROVE KeptInv'
  OBVIOUS
<1>1. scene' = scene /\ listed \subseteq Entries
  BY FirstVersion, SequenceFacts
<1>2. ASSUME UNCHANGED <<toFeed, wpc, task, channel, collected, inventory>>
      PROVE  \A e \in Entries : Pending(e)' <=> Pending(e)
  BY <1>2 DEF Pending, Worked, Busy, Delivered, Sent
<1>3. CASE UNCHANGED vars \/ ContextDone \/ \E e \in Entries : Change(e)
  <2>1. UNCHANGED <<toFeed, feeding, wpc, task, channel, collected, inventory, issues, phase, result, listed>>
        /\ (done => done')
    BY <1>3 DEF vars, ContextDone, Change, listVars, poolVars, workVars, outVars
  <2>. QED BY <1>1, <1>2, <2>1 DEF KeptInv, IssueAt, Answered
<1>4. CASE StartPool
  <2>1. /\ phase = "listing" /\ phase' = "reading" /\ toFeed' = listed /\ feeding' = TRUE
        /\ UNCHANGED <<listed, issues, result, done>>
    BY <1>4 DEF StartPool, listVars, outVars
  <2>2. \A e \in Entries : IssueAt(EntryPath(e))' => scene.kind[e] = "symlink"
    BY <2>1 DEF KeptInv, IssueAt
  <2>3. ~Answered'
    BY <2>1 DEF Answered, TypeInv, PhaseInv
  <2>. QED BY <1>1, <2>1, <2>2, <2>3 DEF KeptInv, Pending
<1>5. CASE StopFeeding
  <2>1. /\ UNCHANGED <<toFeed, wpc, task, channel, collected, inventory, issues, phase, result, listed, done>>
        /\ toFeed = {} \/ done
    BY <1>5 DEF StopFeeding, listVars, workVars, outVars
  <2>. QED BY <1>1, <1>2, <2>1 DEF KeptInv, IssueAt, Answered
<1>6. CASE Collect
  <2>0. PICK h : h = Head(channel)[1]
    OBVIOUS
  <2>1. /\ UNCHANGED <<toFeed, wpc, task, feeding, phase, result, listed, done, inventory>>
        /\ phase = "reading"
    BY <1>6 DEF Collect, listVars, poolVars, workVars
  <2>2. /\ h \in listed /\ Sent = Sent' \cup {h} /\ h \notin Sent'
        /\ \/ Head(channel)[2] = "good" /\ Items(collected') = Items(collected) \cup {h}
           \/ Head(channel)[2] # "good" /\ UNCHANGED collected
    BY <1>6, <2>0, CollectFacts DEF PlaceInv
  <2>3. \A path : IssueAt(path)' <=>
          IssueAt(path) \/ (Head(channel)[2] # "good" /\ path = EntryPath(h))
    BY <1>6, <2>0, CollectIssues DEF PlaceInv
  <2>4. ~Answered /\ ~Answered'
    BY <2>1 DEF Answered, TypeInv, PhaseInv
  <2>5. \A e \in Entries : Worked(e)' <=> Worked(e)
    BY <2>1 DEF Worked, Busy
  <2>6. \A e \in Entries : e # h => (Pending(e)' <=> Pending(e))
    BY <2>1, <2>2, <2>5 DEF Pending, Delivered
  <2>7. Pending(h)
    BY <2>2 DEF Pending, Delivered
  <2>8. CASE Head(channel)[2] = "good"
    <3>1. Pending(h)'
      BY <2>2, <2>8 DEF Pending, Delivered
    <3>2. \A e \in Entries : Pending(e)' <=> Pending(e)
      BY <2>6, <2>7, <3>1
    <3>3. \A e \in Entries : IssueAt(EntryPath(e))' <=> IssueAt(EntryPath(e))
      BY <2>3, <2>8
    <3>. QED BY <1>1, <2>1, <2>4, <3>2, <3>3 DEF KeptInv
  <2>9. CASE Head(channel)[2] # "good" /\ UNCHANGED collected
    <3>1. ~Pending(h)'
      <4>1. h \in Sent /\ h \in Delivered
        BY <2>2 DEF Delivered
      <4>2. h \notin toFeed /\ ~Worked(h) /\ h \notin Items(collected) /\ h \notin Items(inventory)
        BY <4>1 DEF PlaceInv, Worked
      <4>3. h \in Entries
        BY <1>1, <2>2
      <4>. QED BY <2>1, <2>2, <2>5, <2>9, <4>2, <4>3 DEF Pending, Delivered
    <3>2. IssueAt(EntryPath(h))'
      BY <2>3, <2>9
    <3>3. \A e \in Entries : e # h => (IssueAt(EntryPath(e))' <=> IssueAt(EntryPath(e)))
      BY <2>3, PathFacts
    <3>4. \A e \in listed : phase = "reading" /\ ~done => Pending(e)' \/ IssueAt(EntryPath(e))'
      BY <1>1, <2>6, <3>2, <3>3 DEF KeptInv
    <3>5. \A e \in Entries : IssueAt(EntryPath(e))' =>
            scene.kind[e] = "symlink" \/ (e \in listed /\ ~Pending(e)')
      BY <2>2, <2>6, <3>1, <3>3 DEF KeptInv
    <3>. QED BY <1>1, <2>1, <2>4, <3>4, <3>5 DEF KeptInv
  <2>. QED BY <2>2, <2>8, <2>9
<1>7. CASE EndPool
  <2>1. /\ UNCHANGED <<toFeed, wpc, task, channel, collected, inventory, issues, listed, done>>
        /\ phase = "reading" /\ ~feeding /\ result = "none"
        /\ \/ done /\ phase' = "returned" /\ result' = "canceled"
           \/ ~done /\ phase' = "sorting" /\ result' = result
    BY <1>7 DEF EndPool, PoolOver, Return, listVars, poolVars, workVars, outVars, TypeInv, PhaseInv
  <2>. QED BY <1>1, <1>2, <2>1 DEF KeptInv, IssueAt, Answered
<1>8. CASE Sort
  <2>1. UNCHANGED <<toFeed, wpc, task, feeding, channel, phase, result, listed, done, issues>>
    BY <1>8 DEF Sort, listVars, poolVars, workVars
  <2>2. /\ Items(collected) = Items(collected') \cup {Head(collected)}
        /\ Items(inventory') = Items(inventory) \cup {Head(collected)}
    BY <1>8, SortFacts
  <2>3. Delivered' = Delivered
    BY <2>1, <2>2 DEF Delivered, Sent
  <2>4. \A e \in Entries : Pending(e)' <=> Pending(e)
    BY <2>1, <2>3 DEF Pending, Worked, Busy
  <2>. QED BY <1>1, <2>1, <2>4 DEF KeptInv, IssueAt, Answered
<1>9. CASE Finish
  <2>1. /\ UNCHANGED <<toFeed, wpc, task, channel, collected, inventory, issues, listed, done>>
        /\ phase = "sorting" /\ phase' = "returned"
    BY <1>9 DEF Finish, Return, listVars, poolVars, workVars, outVars
  <2>. QED BY <1>1, <1>2, <2>1 DEF KeptInv, IssueAt, Answered
<1>. QED BY <1>3, <1>4, <1>5, <1>6, <1>7, <1>8, <1>9, ListingKeeps, WorkerKeeps
     DEF Next, CallStep, Terminated

(***************************************************************************)
(* What a worker sends of a file that does not change is due to the file.  *)
(***************************************************************************)
LEMMA WorkerCodes ==
  ASSUME TypeInv, PlaceInv, ListedInv, CodeInv, NEW w \in Workers, WorkerStep(w)
  PROVE  CodeInv'
<1>1. /\ wpc \in [Workers -> {"exited", "idle", "took", "open", "read", "check"}]
      /\ stat \in [Workers -> 0..clock] /\ clock \in Nat
  BY CandidateAssumption DEF TypeInv, WorkTypeOK, CacheTypeOK
<1>2. scene' = scene /\ UNCHANGED <<version, collected, inventory, issues>>
  BY AsideSteps DEF Aside, WorkerStep, Feed, WorkerExits, Stat, Open, Read, Check, cacheVars
<1>3. CASE Feed(w) \/ WorkerExits(w)
  <2>1. /\ UNCHANGED <<stat, channel>> /\ wpc'[w] \in {"took", "exited"}
        /\ \A v \in Workers \ {w} : wpc'[v] = wpc[v] /\ task'[v] = task[v]
    BY <1>1, <1>3, BusyFacts DEF Feed, WorkerExits, TypeInv, WorkTypeOK
  <2>2. \A v \in Workers : WorkCode(v)'
    BY <1>2, <2>1 DEF CodeInv, WorkCode, VersionNow, Kind
  <2>. QED BY <1>2, <2>1, <2>2 DEF CodeInv, IssueAt
<1>4. CASE Stat(w) \/ Open(w) \/ Read(w) \/ Check(w)
  <2>1. /\ task[w] \in listed /\ task[w] \in Entries
        /\ \A v \in Workers \ {w} : wpc'[v] = wpc[v] /\ task'[v] = task[v] /\ stat'[v] = stat[v]
    BY <1>4, OthersKeep
  <2>2. \A v \in Workers \ {w} : WorkCode(v)'
    BY <1>2, <2>1 DEF CodeInv, WorkCode, VersionNow, Kind
  <2>3. WorkCode(w)
    BY DEF CodeInv
  <2>4. ASSUME NEW code \in Codes \cup {"good"}, Send(w, code), code = "good" => Kind(w) = "good",
               VersionNow(w) = 1 /\ Kind(w) = "good" => code = "good"
        PROVE  CodeInv'
    <3>. DEFINE r == <<task[w], code>>
    <3>1. Items(channel') = Items(channel) \cup {r}
      <4>. DEFINE R == listed \X (Codes \cup {"good"})
      <4>1. channel \in Seq(R) /\ r \in R /\ channel' = Append(channel, r)
        BY <2>1, <2>4, SequenceFacts DEF Send
      <4>. HIDE DEF R, r
      <4>. QED BY <4>1, AppendItems
    <3>2. WorkCode(w)'
      BY <1>1, <2>4 DEF Send, WorkCode
    <3>3. /\ r[2] = "good" => scene.kind[r[1]] = "good"
          /\ version[r[1]] = 1 /\ scene.kind[r[1]] = "good" => r[2] = "good"
      BY <2>4 DEF Kind, VersionNow
    <3>. HIDE DEF r
    <3>. QED BY <1>2, <2>2, <3>1, <3>2, <3>3 DEF CodeInv, IssueAt
  <2>5. ASSUME UNCHANGED channel, WorkCode(w)' PROVE CodeInv'
    BY <1>2, <2>2, <2>5 DEF CodeInv, IssueAt
  <2>6. /\ "malformed" \in Codes /\ "unreadable" \in Codes /\ "mutation" \in Codes /\ "invalid" \in Codes
    BY DEF Codes
  <2>7. CASE Stat(w)
    <3>1. CASE Kind(w) = "nameless" /\ Send(w, "malformed")
      BY <2>4, <2>6, <3>1
    <3>2. CASE VersionNow(w) = 0 /\ Send(w, "unreadable")
      BY <2>4, <2>6, <3>2
    <3>3. CASE Kind(w) # "nameless" /\ stat' = [stat EXCEPT ![w] = VersionNow(w)] /\ GoTo(w, "open")
      <4>1. wpc'[w] = "open" /\ stat'[w] = VersionNow(w) /\ task' = task /\ UNCHANGED channel
        BY <1>1, <3>3 DEF GoTo
      <4>2. WorkCode(w)'
        BY <1>2, <3>3, <4>1 DEF WorkCode, VersionNow, Kind
      <4>. QED BY <2>5, <4>1, <4>2
    <3>. QED BY <2>7, <3>1, <3>2, <3>3 DEF Stat
  <2>8. CASE Open(w)
    <3>1. CASE VersionNow(w) = 0 /\ Send(w, "unreadable")
      BY <2>4, <2>6, <3>1
    <3>2. CASE GoTo(w, "read") /\ UNCHANGED stat
      <4>1. wpc[w] = "open" /\ wpc'[w] = "read" /\ task' = task /\ UNCHANGED channel
        BY <1>1, <2>8, <3>2 DEF GoTo, Open
      <4>2. WorkCode(w)'
        BY <1>2, <2>3, <3>2, <4>1 DEF WorkCode, VersionNow, Kind
      <4>. QED BY <2>5, <4>1, <4>2
    <3>. QED BY <2>8, <3>1, <3>2 DEF Open
  <2>9. CASE Read(w)
    <3>1. CASE Kind(w) = "unreadable" /\ Send(w, "unreadable")
      BY <2>4, <2>6, <3>1
    <3>2. CASE Kind(w) # "unreadable" /\ GoTo(w, "check") /\ UNCHANGED stat
      <4>1. wpc[w] = "read" /\ wpc'[w] = "check" /\ task' = task /\ UNCHANGED channel
        BY <1>1, <2>9, <3>2 DEF GoTo, Read
      <4>2. WorkCode(w)'
        BY <1>2, <2>3, <3>2, <4>1 DEF WorkCode, VersionNow, Kind
      <4>. QED BY <2>5, <4>1, <4>2
    <3>. QED BY <2>9, <3>1, <3>2 DEF Read
  <2>10. CASE Check(w)
    <3>1. Kind(w) \notin {"nameless", "unreadable"} /\ (VersionNow(w) = 1 => stat[w] = 1)
      BY <2>3, <2>10 DEF Check, WorkCode
    <3>2. CASE VersionNow(w) # stat[w] /\ Send(w, "mutation")
      BY <2>4, <2>6, <3>1, <3>2
    <3>3. CASE Kind(w) = "bare" /\ Send(w, "invalid")
      BY <2>4, <2>6, <3>3
    <3>4. CASE Kind(w) # "bare" /\ Send(w, "good")
      <4>1. Kind(w) \in EntryKind
        BY <2>1, EntryFacts DEF Kind
      <4>2. Kind(w) \notin {"symlink", "directory"}
        BY <2>1 DEF ListedInv, Kind
      <4>3. Kind(w) = "good"
        BY <3>1, <3>4, <4>1, <4>2 DEF EntryKind
      <4>. QED BY <2>4, <3>4, <4>3
    <3>. QED BY <2>10, <3>2, <3>3, <3>4 DEF Check
  <2>. QED BY <1>4, <2>7, <2>8, <2>9, <2>10
<1>. QED BY <1>3, <1>4 DEF WorkerStep

(***************************************************************************)
(* Every step keeps the results those that are due to the files.           *)
(***************************************************************************)
LEMMA CodeStep == TypeInv /\ PlaceInv /\ ListedInv /\ CodeInv /\ [Next]_vars => CodeInv'
<1>. SUFFICES ASSUME TypeInv, PlaceInv, ListedInv, CodeInv, [Next]_vars PROVE CodeInv'
  OBVIOUS
<1>1. scene' = scene /\ \A e \in Entries : version'[e] = 1 => version[e] = 1
  BY FirstVersion
<1>2. listed \subseteq Entries /\ \A r \in Items(channel) : r[1] \in Entries
  BY SentFacts, SequenceFacts
<1>3. CASE UNCHANGED vars \/ ContextDone \/ \E e \in Entries : Change(e)
  <2>1. UNCHANGED <<scene, wpc, task, stat, channel, collected, inventory, issues>>
    BY <1>1, <1>3 DEF vars, ContextDone, Change, workVars, outVars, cacheVars
  <2>2. ASSUME NEW w \in Workers PROVE WorkCode(w)'
    <3>1. Busy(w) => task[w] \in Entries
      BY BusyFacts
    <3>. QED BY <1>1, <2>1, <3>1 DEF CodeInv, WorkCode, Busy, VersionNow, Kind
  <2>. QED BY <1>1, <1>2, <2>1, <2>2 DEF CodeInv, IssueAt
<1>4. CASE Start \/ ListRoot \/ ListCategory \/ NextRepository
  <2>1. UNCHANGED <<version, wpc, task, stat, channel, collected, inventory>>
    BY <1>4 DEF Start, ListRoot, ListCategory, NextRepository, cacheVars, workVars, outVars
  <2>2. \A w \in Workers : WorkCode(w)'
    BY <1>1, <2>1 DEF CodeInv, WorkCode, VersionNow, Kind
  <2>3. \A e \in Entries : IssueAt(EntryPath(e))' /\ version'[e] = 1 => scene'.kind[e] # "good"
    BY <1>1, <1>4, <2>1, ListingIssues DEF CodeInv
  <2>. QED BY <1>1, <2>1, <2>2, <2>3 DEF CodeInv
<1>5. CASE StartPool
  <2>1. /\ UNCHANGED <<version, channel, collected, inventory, issues>>
        /\ \A w \in Workers : wpc'[w] \in {"idle", "exited"}
    BY <1>5 DEF StartPool, cacheVars, workVars, outVars
  <2>2. \A w \in Workers : WorkCode(w)'
    BY <2>1 DEF WorkCode
  <2>. QED BY <1>1, <2>1, <2>2 DEF CodeInv, IssueAt
<1>6. CASE StopFeeding \/ EndPool \/ Finish
  <2>1. UNCHANGED <<version, wpc, task, stat, channel, collected, inventory, issues>>
    BY <1>6 DEF StopFeeding, EndPool, Finish, cacheVars, workVars, outVars
  <2>2. \A w \in Workers : WorkCode(w)'
    BY <1>1, <2>1 DEF CodeInv, WorkCode, VersionNow, Kind
  <2>. QED BY <1>1, <2>1, <2>2 DEF CodeInv, IssueAt
<1>7. CASE Collect
  <2>1. UNCHANGED <<version, wpc, task, stat, inventory>>
    BY <1>7 DEF Collect, cacheVars, workVars
  <2>2. PICK r : r = Head(channel)
    OBVIOUS
  <2>3. /\ r[1] \in Entries /\ r \in Items(channel) /\ Items(channel') \subseteq Items(channel)
        /\ \/ r[2] = "good" /\ Items(collected') = Items(collected) \cup {r[1]}
           \/ r[2] # "good" /\ UNCHANGED collected
    BY <1>2, <1>7, <2>2, CollectFacts DEF PlaceInv
  <2>4. \A path : IssueAt(path)' => IssueAt(path) \/ (r[2] # "good" /\ path = EntryPath(r[1]))
    BY <1>7, <2>2, CollectIssues DEF PlaceInv
  <2>5. \A w \in Workers : WorkCode(w)'
    BY <1>1, <2>1 DEF CodeInv, WorkCode, VersionNow, Kind
  <2>6. \A q \in Items(channel') :
          /\ q[2] = "good" => scene'.kind[q[1]] = "good"
          /\ version'[q[1]] = 1 /\ scene'.kind[q[1]] = "good" => q[2] = "good"
    BY <1>1, <2>1, <2>3 DEF CodeInv
  <2>7. \A e \in Items(collected') \cup Items(inventory') : scene'.kind[e] = "good"
    BY <1>1, <2>1, <2>3 DEF CodeInv
  <2>8. \A e \in Entries : IssueAt(EntryPath(e))' /\ version'[e] = 1 => scene'.kind[e] # "good"
    BY <1>1, <2>1, <2>3, <2>4, PathFacts DEF CodeInv
  <2>. QED BY <2>5, <2>6, <2>7, <2>8 DEF CodeInv
<1>8. CASE Sort
  <2>1. UNCHANGED <<version, wpc, task, stat, channel, issues>>
    BY <1>8 DEF Sort, cacheVars, workVars
  <2>2. /\ Items(collected) = Items(collected') \cup {Head(collected)}
        /\ Items(inventory') = Items(inventory) \cup {Head(collected)}
    BY <1>8, SortFacts
  <2>3. \A w \in Workers : WorkCode(w)'
    BY <1>1, <2>1 DEF CodeInv, WorkCode, VersionNow, Kind
  <2>. QED BY <1>1, <2>1, <2>2, <2>3 DEF CodeInv, IssueAt
<1>. QED BY <1>3, <1>4, <1>5, <1>6, <1>7, <1>8, WorkerCodes DEF Next, CallStep, Terminated

(***************************************************************************)
(* The invariants behind the answer for what does not change.              *)
(***************************************************************************)
LEMMA SteadyInvariant == Spec => [](TypeInv /\ PlaceInv /\ VisitInv /\ ListedInv /\ KeptInv /\ CodeInv)
<1>1. Init => VisitInv /\ ListedInv /\ KeptInv /\ CodeInv
  <2>. SUFFICES ASSUME Init PROVE VisitInv /\ ListedInv /\ KeptInv /\ CodeInv
    OBVIOUS
  <2>1. /\ phase = "start" /\ turn = 1 /\ issues = {} /\ listed = {}
        /\ result = "none" /\ \A w \in Workers : wpc[w] = "exited"
    BY DEF Init
  <2>2. Items(channel) = {} /\ Items(collected) = {} /\ Items(inventory) = {}
    BY EmptyItems DEF Init
  <2>3. \A path : ~IssueAt(path)
    BY <2>1 DEF IssueAt
  <2>4. \A i \in DOMAIN Repositories, c \in Categories : ~Visited(i, c)
    BY <2>1, RepositoryFacts DEF Visited
  <2>5. VisitInv
    BY <2>1, <2>3, <2>4, RepositoryFacts DEF VisitInv
  <2>6. ListedInv
    <3>1. TypeInv
      BY TypeInit
    <3>. QED BY <2>1, <2>4, <3>1, EntryFacts DEF ListedInv
  <2>7. KeptInv
    BY <2>1, <2>3 DEF KeptInv, Answered
  <2>8. CodeInv
    BY <2>1, <2>2, <2>3 DEF CodeInv, WorkCode
  <2>. QED BY <2>5, <2>6, <2>7, <2>8
<1>2. TypeInv /\ PlaceInv /\ VisitInv /\ ListedInv /\ KeptInv /\ CodeInv /\ [Next]_vars
        => VisitInv' /\ ListedInv' /\ KeptInv' /\ CodeInv'
  BY VisitStep, ListedStep, KeptStep, CodeStep
<1>. QED BY <1>1, <1>2, PlaceInvariant, PTL DEF Spec

(***************************************************************************)
(* A usable file that is in the inventory, and no other, is found by its   *)
(* identity.                                                               *)
(***************************************************************************)
LEMMA LookupFacts ==
  ASSUME TypeInv, CodeInv, NEW e \in Entries
  PROVE  /\ e \in Items(inventory) => Lookup(Id(e)) = e
         /\ Lookup(Id(e)) = e => e \in Items(inventory)
<1>. DEFINE C == Candidates(Id(e))
<1>1. /\ C \subseteq Items(inventory) /\ Items(inventory) \subseteq Entries
      /\ IsFiniteSet(C) /\ Cardinality(C) \in Nat
  <2>1. C \subseteq Items(inventory)
    BY DEF Candidates, Items
  <2>2. Items(inventory) \subseteq Entries
    BY SequenceFacts DEF Delivered
  <2>. QED BY <2>1, <2>2, CandidateAssumption, FS_Subset, FS_CardinalityType
<1>2. ASSUME e \in Items(inventory) PROVE C = {e}
  <2>1. e \in C
    BY <1>2 DEF Candidates, Items, Id, Fits
  <2>2. ASSUME NEW f \in C PROVE f = e
    <3>1. f \in Entries /\ scene.kind[e] = "good" /\ scene.kind[f] = "good"
      BY <1>1, <1>2, <2>2 DEF CodeInv
    <3>2. /\ scene.id[f].cp = scene.id[e].cp /\ scene.id[f].version = scene.id[e].version
          /\ Fits(scene.repository[e], scene.repository[f])
      BY <2>2 DEF Candidates, Id
    <3>3. scene.repository[e] = scene.repository[f]
      BY <3>2, EntryFacts DEF Fits
    <3>4. scene \in Scenes
      BY DEF TypeInv, CacheTypeOK
    <3>5. SameFile(scene, e, f)
      BY <3>1, <3>2, <3>3 DEF SameFile
    <3>. QED BY <3>1, <3>4, <3>5, CandidateAssumption
  <2>. QED BY <2>1, <2>2
<1>3. C = {e} => Cardinality(C) = 1 /\ (CHOOSE f \in C : TRUE) = e
  BY FS_Singleton
<1>4. Cardinality(C) = 1 => (CHOOSE f \in C : TRUE) \in C
  <2>1. Cardinality(C) = 1 => \E f : C = {f}
    BY <1>1, FS_Singleton
  <2>. QED BY <2>1
<1>5. e # NotFound /\ e # Ambiguous
  BY CandidateAssumption DEF NotFound, Ambiguous
<1>6. /\ Cardinality(C) = 0 => Lookup(Id(e)) = NotFound
      /\ Cardinality(C) = 1 => Lookup(Id(e)) = CHOOSE f \in C : TRUE
      /\ Cardinality(C) \notin {0, 1} => Lookup(Id(e)) = Ambiguous
  BY DEF Lookup
<1>. HIDE DEF C
<1>. QED BY <1>1, <1>2, <1>3, <1>4, <1>5, <1>6

(***************************************************************************)
(* At the end every task is a candidate or an issue, and every category    *)
(* has been visited.                                                       *)
(***************************************************************************)
LEMMA AnsweredFacts ==
  ASSUME TypeInv, KeptInv, Answered
  PROVE  /\ Going /\ \A i \in DOMAIN Repositories : i < turn /\ \A c \in Categories : Visited(i, c)
         /\ \A e \in listed : e \in Items(inventory) \/ IssueAt(EntryPath(e))
         /\ \A e \in Entries : IssueAt(EntryPath(e)) =>
              scene.kind[e] = "symlink" \/ (e \in listed /\ e \notin Items(inventory))
<1>1. /\ turn = Len(Repositories) + 1 /\ collected = <<>> /\ channel = <<>> /\ AllExited
      /\ phase = "returned"
  BY DEF TypeInv, PhaseInv, Answered
<1>2. \A i \in DOMAIN Repositories : i < turn /\ \A c \in Categories : Visited(i, c)
  BY <1>1, RepositoryFacts DEF Visited
<1>3. Delivered = Items(inventory)
  BY <1>1, EmptyItems DEF Delivered, Sent
<1>4. \A e : Pending(e) <=> e \in Items(inventory)
  BY <1>1, <1>3 DEF Pending, Worked, Busy, AllExited, KeptInv
<1>. QED BY <1>2, <1>4 DEF KeptInv, Going

(***************************************************************************)
(* What does not change during the scan is answered as it is: for any      *)
(* number of repositories, files, workers, and any order of results.       *)
(***************************************************************************)
THEOREM SteadyAlways == Spec => []SteadyIsAnswered
<1>1. ASSUME TypeInv, VisitInv, ListedInv, KeptInv, CodeInv PROVE SteadyIsAnswered
  <2>. SUFFICES ASSUME Answered
                PROVE  /\ \A r \in RepositorySet : IssueAt(RootPath(r)) <=> ~RootListed(r)
                       /\ \A r \in RepositorySet, c \in Categories :
                            IssueAt(CategoryPath(r, c))
                              <=> RootListed(r) /\ scene.directory[<<r, c>>] \in {"symlink", "unreadable"}
                       /\ \A e \in Entries :
                            Untouched(e) /\ Listed(scene.repository[e], scene.category[e]) =>
                              /\ scene.kind[e] = "good" <=> Lookup(Id(e)) = e
                              /\ IssueAt(EntryPath(e)) <=> scene.kind[e] \notin {"good", "directory"}
    BY DEF SteadyIsAnswered
  <2>1. /\ Going /\ \A i \in DOMAIN Repositories : i < turn /\ \A c \in Categories : Visited(i, c)
        /\ \A e \in listed : e \in Items(inventory) \/ IssueAt(EntryPath(e))
        /\ \A e \in Entries : IssueAt(EntryPath(e)) =>
             scene.kind[e] = "symlink" \/ (e \in listed /\ e \notin Items(inventory))
    BY <1>1, AnsweredFacts
  <2>2. \A r \in RepositorySet : \E i \in DOMAIN Repositories : r = Repositories[i]
    BY DEF RepositorySet
  <2>3. ASSUME NEW r \in RepositorySet PROVE IssueAt(RootPath(r)) <=> ~RootListed(r)
    <3>1. PICK i \in DOMAIN Repositories : r = Repositories[i]
      BY <2>2
    <3>2. IssueAt(RootPath(Repositories[i])) <=> i < turn /\ ~RootListed(Repositories[i])
      BY <1>1, <2>1 DEF VisitInv
    <3>. QED BY <2>1, <3>1, <3>2
  <2>4. ASSUME NEW r \in RepositorySet, NEW c \in Categories
        PROVE  IssueAt(CategoryPath(r, c))
                 <=> RootListed(r) /\ scene.directory[<<r, c>>] \in {"symlink", "unreadable"}
    <3>1. PICK i \in DOMAIN Repositories : r = Repositories[i]
      BY <2>2
    <3>2. IssueAt(CategoryPath(Repositories[i], c)) <=>
            /\ Visited(i, c) /\ RootListed(Repositories[i])
            /\ scene.directory[<<Repositories[i], c>>] \in Skipped
      BY <1>1, <2>1 DEF VisitInv
    <3>. QED BY <2>1, <3>1, <3>2 DEF Skipped
  <2>5. ASSUME NEW e \in Entries, Untouched(e), Listed(scene.repository[e], scene.category[e])
        PROVE  /\ scene.kind[e] = "good" <=> Lookup(Id(e)) = e
               /\ IssueAt(EntryPath(e)) <=> scene.kind[e] \notin {"good", "directory"}
    <3>1. /\ scene.repository[e] \in RepositorySet /\ scene.category[e] \in Categories
          /\ version[e] = 1
      BY <1>1, <2>5, EntryFacts DEF Untouched
    <3>2. PICK i \in DOMAIN Repositories : scene.repository[e] = Repositories[i]
      BY <2>2, <3>1
    <3>3. /\ scene.kind[e] \notin {"symlink", "directory"} => e \in listed
          /\ scene.kind[e] = "symlink" => IssueAt(EntryPath(e))
      BY <1>1, <2>1, <2>5, <3>1, <3>2 DEF ListedInv
    <3>4. e \in listed => scene.kind[e] \notin {"symlink", "directory"}
      BY <1>1 DEF ListedInv
    <3>5. /\ IssueAt(EntryPath(e)) => scene.kind[e] # "good"
          /\ e \in Items(inventory) => scene.kind[e] = "good"
      BY <1>1, <3>1 DEF CodeInv
    <3>6. scene.kind[e] = "good" <=> e \in Items(inventory)
      BY <2>1, <3>3, <3>5
    <3>7. IssueAt(EntryPath(e)) <=> scene.kind[e] \notin {"good", "directory"}
      BY <2>1, <3>3, <3>4, <3>5, <3>6
    <3>. QED BY <1>1, <3>6, <3>7, LookupFacts
  <2>. QED BY <2>3, <2>4, <2>5
<1>. QED BY <1>1, SteadyInvariant, PTL
=============================================================================
