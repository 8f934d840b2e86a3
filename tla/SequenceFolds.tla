---------------------------- MODULE SequenceFolds ----------------------------
(***************************************************************************)
(* What FoldLeft computes, for one operator, what FlattenSeq joins, and    *)
(* which element of a list is the last one of a kind: for every sequence,  *)
(* by induction over sequences.                                            *)
(***************************************************************************)
EXTENDS Integers, SequencesExt, SequenceTheorems, WellFoundedInduction, TLAPS

CONSTANT Op(_, _)

\* A set of numbers that has zero and every successor has them all.
LEMMA Induction ==
  ASSUME NEW S, 0 \in S, \A n \in Nat : n \in S => n + 1 \in S
  PROVE  Nat \subseteq S
<1>. DEFINE Rest == Nat \ S
            R == OpToRel(<, Nat)
<1>. SUFFICES ASSUME Rest # {} PROVE FALSE
  OBVIOUS
<1>1. PICK n \in Rest : \A m \in Rest : <<m, n>> \notin R
  <2>1. IsWellFoundedOn(R, Nat) /\ Rest \subseteq Nat
    BY NatLessThanWellFounded
  <2>. HIDE DEF R, Rest
  <2>. QED BY <2>1, WFMin
<1>2. \A m \in Rest : ~(m < n)
  BY <1>1 DEF OpToRel
<1>3. n \in Nat /\ n # 0
  OBVIOUS
<1>4. n - 1 \in Nat /\ n - 1 < n /\ (n - 1) + 1 = n
  BY <1>3
<1>. QED BY <1>2, <1>4

\* A set of numbers up to n has a greatest, if any, and it is what Max chooses.
LEMMA MaxFacts ==
  ASSUME NEW n \in Nat, NEW s \in SUBSET (1..n), s # {}
  PROVE  Max(s) \in s /\ \A x \in s : x <= Max(s)
<1>. DEFINE Above == {k \in Nat : \A x \in s : x <= n - k}
<1>1. \E m \in s : \A x \in s : x <= m
  <2>. SUFFICES ASSUME ~\E m \in s : \A x \in s : x <= m PROVE FALSE
    OBVIOUS
  <2>1. 0 \in Above
    OBVIOUS
  <2>2. ASSUME NEW k \in Nat, k \in Above PROVE k + 1 \in Above
    <3>1. \A x \in s : x <= n - k
      BY <2>2
    <3>2. n - k \notin s
      BY <3>1
    <3>3. \A x \in s : x \in Int /\ x # n - k
      BY <3>2
    <3>4. \A x \in s : x <= n - (k + 1)
      BY <3>1, <3>3
    <3>. QED BY <3>4
  <2>. HIDE DEF Above
  <2>3. n \in Above
    BY <2>1, <2>2, Induction
  <2>4. \A x \in s : x \in 1..n /\ x <= n - n
    BY <2>3 DEF Above
  <2>5. PICK x \in s : TRUE
    OBVIOUS
  <2>6. x \in 1..n /\ x <= n - n
    BY <2>4, <2>5
  <2>. QED BY <2>6
<1>. QED BY <1>1 DEF Max

\* A table of the folds of the elements of q that have an index in s.
IsTable(t, b, q, n) ==
  t = [s \in SUBSET (1..n) |-> IF s = {} THEN b ELSE Op(t[s \ {Max(s)}], q[Max(s)])]

\* There is a table.
LEMMA TableExists ==
  ASSUME NEW b, NEW q, NEW n \in Nat
  PROVE  \E t : IsTable(t, b, q, n)
<1>. DEFINE S == {k \in Nat : \E t : IsTable(t, b, q, k)}
<1>1. 0 \in S
  <2>. DEFINE t == [s \in SUBSET (1..0) |-> b]
  <2>1. \A s \in SUBSET (1..0) : s = {}
    OBVIOUS
  <2>2. IsTable(t, b, q, 0)
    BY <2>1 DEF IsTable
  <2>. QED BY <2>2
<1>2. ASSUME NEW k \in Nat, k \in S PROVE k + 1 \in S
  <2>1. PICK t : IsTable(t, b, q, k)
    BY <1>2
  <2>. DEFINE u == [s \in SUBSET (1..k + 1) |->
                      IF k + 1 \in s THEN Op(t[s \ {k + 1}], q[k + 1]) ELSE t[s]]
  <2>2. ASSUME NEW s \in SUBSET (1..k + 1)
        PROVE  u[s] = IF s = {} THEN b ELSE Op(u[s \ {Max(s)}], q[Max(s)])
    <3>1. CASE k + 1 \in s
      <4>1. Max(s) = k + 1
        <5>1. Max(s) \in s /\ \A x \in s : x <= Max(s)
          <6>1. k + 1 \in Nat /\ s # {}
            BY <3>1
          <6>. QED BY <6>1, MaxFacts
        <5>2. Max(s) \in 1..k + 1 /\ k + 1 <= Max(s)
          BY <3>1, <5>1
        <5>. QED BY <5>2
      <4>2. s \ {k + 1} \in SUBSET (1..k) /\ s \ {k + 1} \in SUBSET (1..k + 1)
        OBVIOUS
      <4>3. u[s \ {k + 1}] = t[s \ {k + 1}]
        BY <4>2
      <4>. QED BY <3>1, <4>1, <4>3
    <3>2. CASE k + 1 \notin s
      <4>1. s \in SUBSET (1..k)
        BY <3>2
      <4>2. t[s] = IF s = {} THEN b ELSE Op(t[s \ {Max(s)}], q[Max(s)])
        BY <2>1, <4>1 DEF IsTable
      <4>3. u[s] = t[s] /\ u[s \ {Max(s)}] = t[s \ {Max(s)}]
        BY <3>2
      <4>. QED BY <4>2, <4>3
    <3>. QED BY <3>1, <3>2
  <2>3. IsTable(u, b, q, k + 1)
    BY <2>2 DEF IsTable
  <2>. QED BY <2>3
<1>. HIDE DEF S
<1>3. n \in S
  BY <1>1, <1>2, Induction
<1>. QED BY <1>3 DEF S

\* Tables that speak of the same elements agree.
LEMMA TablesAgree ==
  ASSUME NEW b, NEW q, NEW r, NEW m \in Nat, NEW n \in Nat, m <= n,
         NEW t, NEW u, IsTable(t, b, q, m), IsTable(u, b, r, n),
         \A i \in 1..m : q[i] = r[i]
  PROVE  \A s \in SUBSET (1..m) : t[s] = u[s]
<1>. DEFINE S == {k \in Nat : k <= m => \A s \in SUBSET (1..k) : t[s] = u[s]}
<1>1. 0 \in S
  <2>1. \A s \in SUBSET (1..0) : s = {}
    OBVIOUS
  <2>2. {} \in SUBSET (1..m) /\ {} \in SUBSET (1..n)
    OBVIOUS
  <2>3. t[{}] = b /\ u[{}] = b
    BY <2>2 DEF IsTable
  <2>. QED BY <2>1, <2>3
<1>2. ASSUME NEW k \in Nat, k \in S PROVE k + 1 \in S
  <2>. SUFFICES ASSUME k + 1 <= m, NEW s \in SUBSET (1..k + 1) PROVE t[s] = u[s]
    <3>1. k + 1 \in Nat
      OBVIOUS
    <3>. QED BY <3>1
  <2>1. \A x \in SUBSET (1..k) : t[x] = u[x]
    BY <1>2
  <2>2. CASE s = {}
    BY <2>1, <2>2
  <2>3. CASE s # {}
    <3>1. Max(s) \in s /\ \A x \in s : x <= Max(s)
      <4>1. k + 1 \in Nat
        OBVIOUS
      <4>. QED BY <2>3, <4>1, MaxFacts
    <3>2. Max(s) \in 1..k + 1 /\ Max(s) \in 1..m
      <4>1. 1..k + 1 \subseteq 1..m
        OBVIOUS
      <4>2. Max(s) \in 1..k + 1
        BY <3>1
      <4>. QED BY <4>1, <4>2
    <3>3. s \ {Max(s)} \in SUBSET (1..k)
      <4>. SUFFICES ASSUME NEW x \in s, x # Max(s) PROVE x \in 1..k
        OBVIOUS
      <4>1. x \in 1..k + 1 /\ x <= Max(s) /\ Max(s) \in 1..k + 1
        BY <3>1
      <4>. QED BY <4>1
    <3>4. s \in SUBSET (1..m) /\ s \in SUBSET (1..n)
      OBVIOUS
    <3>5. t[s] = Op(t[s \ {Max(s)}], q[Max(s)]) /\ u[s] = Op(u[s \ {Max(s)}], r[Max(s)])
      BY <2>3, <3>4 DEF IsTable
    <3>. QED BY <2>1, <3>2, <3>3, <3>5
  <2>. QED BY <2>2, <2>3
<1>. HIDE DEF S
<1>3. m \in S
  BY <1>1, <1>2, Induction
<1>. QED BY <1>3 DEF S

Fold(b, q) == FoldLeft(Op, b, q)

\* FoldLeft is the last entry of a table.
LEMMA FoldIsTable ==
  ASSUME NEW b, NEW q, NEW n \in Nat, DOMAIN q = 1..n
  PROVE  \E t : IsTable(t, b, q, n) /\ Fold(b, q) = t[1..n]
<1>. DEFINE t == CHOOSE t : t = [s \in SUBSET (1..n) |-> IF s = {} THEN b ELSE Op(t[s \ {Max(s)}], q[Max(s)])]
<1>1. \E u : u = [s \in SUBSET (1..n) |-> IF s = {} THEN b ELSE Op(u[s \ {Max(s)}], q[Max(s)])]
  <2>1. PICK u : IsTable(u, b, q, n)
    BY TableExists
  <2>. QED BY <2>1 DEF IsTable
<1>2. IsTable(t, b, q, n)
  BY <1>1 DEF IsTable
<1>3. Fold(b, q) = t[1..n]
  BY DEF Fold, FoldLeft, MapThenFoldSet
<1>. QED BY <1>2, <1>3

\* The fold of no element.
LEMMA FoldEmpty == \A b : Fold(b, <<>>) = b
<1>. SUFFICES ASSUME NEW b PROVE Fold(b, <<>>) = b
  OBVIOUS
<1>1. PICK t : IsTable(t, b, <<>>, 0) /\ Fold(b, <<>>) = t[1..0]
  <2>1. DOMAIN <<>> = 1..0
    OBVIOUS
  <2>. QED BY <2>1, FoldIsTable
<1>2. 1..0 = {} /\ 1..0 \in SUBSET (1..0)
  OBVIOUS
<1>. QED BY <1>1, <1>2 DEF IsTable

\* The fold of one element more.
LEMMA FoldAppend ==
  ASSUME NEW b, NEW T, NEW q \in Seq(T), NEW e \in T
  PROVE  Fold(b, Append(q, e)) = Op(Fold(b, q), e)
<1>. DEFINE n == Len(q)
            r == Append(q, e)
<1>1. n \in Nat /\ DOMAIN q = 1..n /\ DOMAIN r = 1..n + 1 /\ r[n + 1] = e /\ \A i \in 1..n : q[i] = r[i]
  OBVIOUS
<1>. HIDE DEF n, r
<1>2. PICK t : IsTable(t, b, q, n) /\ Fold(b, q) = t[1..n]
  BY <1>1, FoldIsTable
<1>3. PICK u : IsTable(u, b, r, n + 1) /\ Fold(b, r) = u[1..n + 1]
  BY <1>1, FoldIsTable
<1>4. t[1..n] = u[1..n]
  <2>1. n <= n + 1 /\ n + 1 \in Nat /\ 1..n \in SUBSET (1..n)
    BY <1>1
  <2>2. \A s \in SUBSET (1..n) : t[s] = u[s]
    BY <1>1, <1>2, <1>3, <2>1, TablesAgree
  <2>. QED BY <2>1, <2>2
<1>5. Max(1..n + 1) = n + 1
  <2>. DEFINE s == 1..n + 1
  <2>1. n + 1 \in Nat /\ s \in SUBSET (1..n + 1) /\ s # {} /\ n + 1 \in s
    BY <1>1
  <2>. HIDE DEF s
  <2>2. Max(s) \in s /\ n + 1 <= Max(s)
    BY <2>1, MaxFacts
  <2>3. Max(1..n + 1) \in 1..n + 1 /\ n + 1 <= Max(1..n + 1)
    BY <2>2 DEF s
  <2>. QED BY <1>1, <2>3
<1>6. (1..n + 1) \ {n + 1} = 1..n /\ 1..n + 1 # {} /\ 1..n + 1 \in SUBSET (1..n + 1)
  <2>1. \A i : i \in 1..n + 1 /\ i # n + 1 <=> i \in 1..n
    BY <1>1
  <2>2. n + 1 \in 1..n + 1
    BY <1>1
  <2>. QED BY <2>1, <2>2
<1>7. u[1..n + 1] = Op(u[1..n], r[n + 1])
  BY <1>3, <1>5, <1>6 DEF IsTable
<1>. QED BY <1>1, <1>2, <1>3, <1>4, <1>7 DEF r

(***************************************************************************)
(* A set of sequences that has the empty one, and with each one those that *)
(* are longer by an element, has them all.                                 *)
(***************************************************************************)
LEMMA AllSequences ==
  ASSUME NEW T, NEW S, <<>> \in S, \A q \in Seq(T), e \in T : q \in S => Append(q, e) \in S
  PROVE  Seq(T) \subseteq S
<1>. DEFINE N == {n \in Nat : \A q \in Seq(T) : Len(q) = n => q \in S}
<1>1. 0 \in N
  <2>1. \A q \in Seq(T) : Len(q) = 0 => q = <<>>
    OBVIOUS
  <2>. QED BY <2>1
<1>2. ASSUME NEW n \in Nat, n \in N PROVE n + 1 \in N
  <2>. SUFFICES ASSUME NEW q \in Seq(T), Len(q) = n + 1 PROVE q \in S
    OBVIOUS
  <2>. DEFINE p == SubSeq(q, 1, n)
  <2>1. q[n + 1] \in T /\ 1 \in Int /\ n \in Int /\ \A k \in 1..n : q[k] \in T
    OBVIOUS
  <2>2. p \in Seq(T) /\ Len(p) = n /\ \A k \in 1..n : p[k] = q[k]
    <3>1. p \in Seq(T) /\ Len(p) = (IF 1 <= n THEN n - 1 + 1 ELSE 0)
          /\ \A k \in 1..n - 1 + 1 : p[k] = q[1 + k - 1]
      BY <2>1, SubSeqProperties
    <3>. QED BY <3>1
  <2>. HIDE DEF p
  <2>3. q = Append(p, q[n + 1])
    BY <2>1, <2>2
  <2>4. p \in S
    BY <1>2, <2>2
  <2>. QED BY <2>1, <2>2, <2>3, <2>4
<1>. HIDE DEF N
<1>3. Nat \subseteq N
  BY <1>1, <1>2, Induction
<1>. QED BY <1>3 DEF N

\* A longer list is folded from what a shorter one gives.
LEMMA FoldConcat ==
  ASSUME NEW b, NEW T, NEW p \in Seq(T), NEW q \in Seq(T)
  PROVE  Fold(b, p \o q) = Fold(Fold(b, p), q)
<1>. DEFINE S == {r \in Seq(T) : Fold(b, p \o r) = Fold(Fold(b, p), r)}
<1>1. <<>> \in S
  <2>1. p \o <<>> = p /\ <<>> \in Seq(T)
    OBVIOUS
  <2>. QED BY <2>1, FoldEmpty
<1>2. ASSUME NEW r \in Seq(T), NEW e \in T, r \in S PROVE Append(r, e) \in S
  <2>1. p \o Append(r, e) = Append(p \o r, e) /\ p \o r \in Seq(T) /\ Append(r, e) \in Seq(T)
    OBVIOUS
  <2>2. Fold(b, Append(p \o r, e)) = Op(Fold(b, p \o r), e)
    BY <2>1, FoldAppend
  <2>3. Fold(Fold(b, p), Append(r, e)) = Op(Fold(Fold(b, p), r), e)
    BY FoldAppend
  <2>. QED BY <1>2, <2>1, <2>2, <2>3
<1>. HIDE DEF S
<1>3. q \in S
  BY <1>1, <1>2, AllSequences
<1>. QED BY <1>3 DEF S

\* What every step keeps holds of the fold.
LEMMA FoldInvariant ==
  ASSUME NEW T, NEW D, NEW b \in D, NEW q \in Seq(T), \A d \in D, e \in T : Op(d, e) \in D
  PROVE  Fold(b, q) \in D
<1>. DEFINE S == {r \in Seq(T) : Fold(b, r) \in D}
<1>1. <<>> \in S
  BY FoldEmpty
<1>2. ASSUME NEW r \in Seq(T), NEW e \in T, r \in S PROVE Append(r, e) \in S
  <2>1. Fold(b, Append(r, e)) = Op(Fold(b, r), e)
    BY FoldAppend
  <2>. QED BY <1>2, <2>1
<1>. HIDE DEF S
<1>3. q \in S
  BY <1>1, <1>2, AllSequences
<1>. QED BY <1>3 DEF S


-----------------------------------------------------------------------------
(* FlattenSeq                                                              *)

\* The lists of q up to each index, joined.
IsJoined(f, q, n) == f = [i \in 1..n |-> IF i = 1 THEN q[i] ELSE f[i - 1] \o q[i]]

\* There are such.
LEMMA JoinedExists ==
  ASSUME NEW q, NEW n \in Nat
  PROVE  \E f : IsJoined(f, q, n)
<1>. DEFINE S == {k \in Nat : \E f : IsJoined(f, q, k)}
<1>1. 0 \in S
  <2>. DEFINE f == [i \in 1..0 |-> {}]
  <2>1. IsJoined(f, q, 0)
    BY DEF IsJoined
  <2>. QED BY <2>1
<1>2. ASSUME NEW k \in Nat, k \in S PROVE k + 1 \in S
  <2>1. PICK f : IsJoined(f, q, k)
    BY <1>2
  <2>. DEFINE g == [i \in 1..k + 1 |-> IF i = k + 1 THEN (IF i = 1 THEN q[i] ELSE f[k] \o q[i]) ELSE f[i]]
  <2>2. ASSUME NEW i \in 1..k + 1
        PROVE  g[i] = IF i = 1 THEN q[i] ELSE g[i - 1] \o q[i]
    <3>1. CASE i = k + 1
      <4>1. i # 1 => i - 1 \in 1..k + 1 /\ i - 1 # k + 1 /\ i - 1 = k
        BY <3>1
      <4>2. i # 1 => g[i - 1] = f[k]
        BY <4>1
      <4>. QED BY <3>1, <4>2
    <3>2. CASE i # k + 1
      <4>1. i \in 1..k /\ (i # 1 => i - 1 \in 1..k + 1 /\ i - 1 # k + 1)
        BY <3>2
      <4>2. f[i] = IF i = 1 THEN q[i] ELSE f[i - 1] \o q[i]
        BY <2>1, <4>1 DEF IsJoined
      <4>3. g[i] = f[i] /\ (i # 1 => g[i - 1] = f[i - 1])
        BY <3>2, <4>1
      <4>. QED BY <4>2, <4>3
    <3>. QED BY <3>1, <3>2
  <2>3. IsJoined(g, q, k + 1)
    BY <2>2 DEF IsJoined
  <2>. QED BY <2>3
<1>. HIDE DEF S
<1>3. n \in S
  BY <1>1, <1>2, Induction
<1>. QED BY <1>3 DEF S

\* What is joined of the same lists is the same.
LEMMA JoinedAgree ==
  ASSUME NEW q, NEW r, NEW m \in Nat, NEW n \in Nat, m <= n, NEW f, NEW g,
         IsJoined(f, q, m), IsJoined(g, r, n), \A i \in 1..m : q[i] = r[i]
  PROVE  \A i \in 1..m : f[i] = g[i]
<1>. DEFINE S == {k \in Nat : k + 1 <= m => f[k + 1] = g[k + 1]}
<1>1. 0 \in S
  <2>1. 1 <= m => 1 \in 1..m /\ 1 \in 1..n
    OBVIOUS
  <2>2. 1 <= m => f[1] = q[1] /\ g[1] = r[1]
    BY <2>1 DEF IsJoined
  <2>. QED BY <2>1, <2>2
<1>2. ASSUME NEW k \in Nat, k \in S PROVE k + 1 \in S
  <2>. SUFFICES ASSUME k + 1 + 1 <= m PROVE f[k + 1 + 1] = g[k + 1 + 1]
    <3>1. k + 1 \in Nat
      OBVIOUS
    <3>. QED BY <3>1
  <2>. DEFINE i == k + 1 + 1
  <2>1. i \in 1..m /\ i \in 1..n /\ i # 1 /\ i - 1 = k + 1
    OBVIOUS
  <2>2. f[k + 1] = g[k + 1]
    BY <1>2
  <2>. HIDE DEF i
  <2>3. f[i] = f[i - 1] \o q[i] /\ g[i] = g[i - 1] \o r[i]
    BY <2>1 DEF IsJoined
  <2>. QED BY <2>1, <2>2, <2>3 DEF i
<1>. HIDE DEF S
<1>3. Nat \subseteq S
  BY <1>1, <1>2, Induction
<1>. SUFFICES ASSUME NEW i \in 1..m PROVE f[i] = g[i]
  OBVIOUS
<1>4. i - 1 \in S /\ (i - 1) + 1 = i /\ i <= m
  BY <1>3
<1>. QED BY <1>4 DEF S

Join(q) == FlattenSeq(q)

\* FlattenSeq is the last of what is joined.
LEMMA JoinIsLast ==
  ASSUME NEW q, NEW n \in Nat, Len(q) = n, n # 0
  PROVE  \E f : IsJoined(f, q, n) /\ Join(q) = f[n]
<1>. DEFINE f == CHOOSE f : f = [i \in 1..n |-> IF i = 1 THEN q[i] ELSE f[i - 1] \o q[i]]
<1>1. \E g : g = [i \in 1..n |-> IF i = 1 THEN q[i] ELSE g[i - 1] \o q[i]]
  <2>1. PICK g : IsJoined(g, q, n)
    BY JoinedExists
  <2>. QED BY <2>1 DEF IsJoined
<1>2. IsJoined(f, q, n)
  BY <1>1 DEF IsJoined
<1>3. Join(q) = f[n]
  BY DEF Join, FlattenSeq
<1>. QED BY <1>2, <1>3

\* No lists.
LEMMA JoinEmpty == Join(<<>>) = <<>>
BY DEF Join, FlattenSeq

\* One list more.
LEMMA JoinAppend ==
  ASSUME NEW T, NEW q \in Seq(Seq(T)), NEW s \in Seq(T)
  PROVE  Join(Append(q, s)) = Join(q) \o s
<1>. DEFINE k == Len(q)
            l == Append(q, s)
<1>1. k \in Nat /\ Len(l) = k + 1 /\ l[k + 1] = s /\ \A i \in 1..k : q[i] = l[i]
  OBVIOUS
<1>2. k = 0 => q = <<>>
  OBVIOUS
<1>. HIDE DEF k, l
<1>3. k + 1 \in Nat /\ k + 1 # 0 /\ k <= k + 1 /\ k + 1 \in 1..k + 1
  BY <1>1
<1>4. PICK g : IsJoined(g, l, k + 1) /\ Join(l) = g[k + 1]
  BY <1>1, <1>3, JoinIsLast
<1>5. CASE k = 0
  <2>1. Join(l) = s
    BY <1>1, <1>3, <1>4, <1>5 DEF IsJoined
  <2>2. Join(q) = <<>> /\ <<>> \o s = s
    BY <1>2, <1>5, JoinEmpty
  <2>. QED BY <2>1, <2>2 DEF l
<1>6. CASE k # 0
  <2>1. PICK f : IsJoined(f, q, k) /\ Join(q) = f[k]
    BY <1>1, <1>6, JoinIsLast DEF k
  <2>2. k \in 1..k
    BY <1>1, <1>6
  <2>3. \A i \in 1..k : f[i] = g[i]
    <3>1. k \in Nat /\ k + 1 \in Nat /\ k <= k + 1 /\ \A i \in 1..k : q[i] = l[i]
      BY <1>1, <1>3
    <3>. QED BY <1>4, <2>1, <3>1, JoinedAgree
  <2>4. k + 1 # 1 /\ (k + 1) - 1 = k
    BY <1>1, <1>6
  <2>5. g[k + 1] = g[(k + 1) - 1] \o l[k + 1]
    BY <1>3, <1>4, <2>4 DEF IsJoined
  <2>6. g[k + 1] = g[k] \o l[k + 1]
    BY <2>4, <2>5
  <2>. QED BY <1>1, <1>4, <2>1, <2>2, <2>3, <2>6 DEF l
<1>. QED BY <1>5, <1>6

\* Joined lists are a list.
LEMMA JoinType ==
  ASSUME NEW T, NEW q \in Seq(Seq(T))
  PROVE  Join(q) \in Seq(T)
<1>. DEFINE S == {r \in Seq(Seq(T)) : Join(r) \in Seq(T)}
<1>1. <<>> \in S
  <2>1. <<>> \in Seq(Seq(T)) /\ <<>> \in Seq(T)
    OBVIOUS
  <2>. QED BY <2>1, JoinEmpty
<1>2. ASSUME NEW r \in Seq(Seq(T)), NEW e \in Seq(T), r \in S PROVE Append(r, e) \in S
  <2>1. Append(r, e) \in Seq(Seq(T)) /\ Join(r) \o e \in Seq(T)
    BY <1>2
  <2>2. Join(Append(r, e)) = Join(r) \o e
    BY JoinAppend
  <2>. QED BY <2>1, <2>2
<1>. HIDE DEF S
<1>3. q \in S
  BY <1>1, <1>2, AllSequences
<1>. QED BY <1>3 DEF S

\* Lists and more lists are joined in two parts.
LEMMA JoinConcat ==
  ASSUME NEW T, NEW p \in Seq(Seq(T)), NEW q \in Seq(Seq(T))
  PROVE  Join(p \o q) = Join(p) \o Join(q)
<1>. DEFINE S == {r \in Seq(Seq(T)) : Join(p \o r) = Join(p) \o Join(r)}
<1>1. <<>> \in S
  <2>1. p \o <<>> = p /\ Join(p) \o <<>> = Join(p) /\ <<>> \in Seq(Seq(T))
    BY JoinType
  <2>. QED BY <2>1, JoinEmpty
<1>2. ASSUME NEW r \in Seq(Seq(T)), NEW e \in Seq(T), r \in S PROVE Append(r, e) \in S
  <2>1. p \o Append(r, e) = Append(p \o r, e) /\ p \o r \in Seq(Seq(T)) /\ Append(r, e) \in Seq(Seq(T))
    OBVIOUS
  <2>2. Join(Append(p \o r, e)) = Join(p \o r) \o e /\ Join(Append(r, e)) = Join(r) \o e
    BY <2>1, JoinAppend
  <2>3. Join(p) \in Seq(T) /\ Join(r) \in Seq(T)
    BY JoinType
  <2>4. (Join(p) \o Join(r)) \o e = Join(p) \o (Join(r) \o e)
    BY <2>3
  <2>. QED BY <1>2, <2>1, <2>2, <2>4
<1>. HIDE DEF S
<1>3. q \in S
  BY <1>1, <1>2, AllSequences
<1>. QED BY <1>3 DEF S

-----------------------------------------------------------------------------
(* What each element of a list stands for, one after the other             *)

Mapped(f, q) == [i \in DOMAIN q |-> f[q[i]]]
Collect(f, q) == Join(Mapped(f, q))

\* The images of elements are a list.
LEMMA MapType ==
  ASSUME NEW T, NEW U, NEW f \in [T -> U], NEW q \in Seq(T)
  PROVE  Mapped(f, q) \in Seq(U)
BY DEF Mapped

\* The images grow with the elements.
LEMMA MapAppend ==
  ASSUME NEW T, NEW U, NEW f \in [T -> U], NEW q \in Seq(T), NEW e \in T
  PROVE  Mapped(f, Append(q, e)) = Append(Mapped(f, q), f[e])
<1>. DEFINE n == Len(q)
            r == Append(q, e)
            m == Mapped(f, q)
<1>1. /\ n \in Nat /\ DOMAIN q = 1..n /\ r \in Seq(T) /\ DOMAIN r = 1..n + 1 /\ r[n + 1] = e
      /\ \A i \in 1..n : r[i] = q[i] /\ q[i] \in T
  OBVIOUS
<1>. HIDE DEF n, r
<1>2. m \in Seq(U) /\ Len(m) = n /\ \A i \in 1..n : m[i] = f[q[i]]
  BY <1>1 DEF Mapped
<1>. HIDE DEF m
<1>3. Append(m, f[e]) \in Seq(U) /\ Len(Append(m, f[e])) = n + 1 /\ Append(m, f[e])[n + 1] = f[e]
      /\ \A i \in 1..n : Append(m, f[e])[i] = m[i]
  BY <1>1, <1>2
<1>4. Mapped(f, r) \in Seq(U) /\ Len(Mapped(f, r)) = n + 1 /\ \A i \in 1..n + 1 : Mapped(f, r)[i] = f[r[i]]
  BY <1>1 DEF Mapped
<1>5. ASSUME NEW i \in 1..n + 1 PROVE f[r[i]] = Append(m, f[e])[i]
  <2>1. i \in 1..n \/ i = n + 1
    BY <1>1
  <2>. QED BY <1>1, <1>2, <1>3, <2>1
<1>6. Mapped(f, r) = Append(m, f[e])
  BY <1>1, <1>3, <1>4, <1>5
<1>. QED BY <1>6 DEF r, m

\* No elements stand for nothing.
LEMMA CollectEmpty == \A f : Collect(f, <<>>) = <<>>
<1>1. \A f : Mapped(f, <<>>) = <<>>
  BY DEF Mapped
<1>. QED BY <1>1, JoinEmpty DEF Collect

\* One element more.
LEMMA CollectAppend ==
  ASSUME NEW T, NEW U, NEW f \in [T -> Seq(U)], NEW q \in Seq(T), NEW e \in T
  PROVE  Collect(f, Append(q, e)) = Collect(f, q) \o f[e]
<1>1. Mapped(f, q) \in Seq(Seq(U))
  BY MapType
<1>2. Mapped(f, Append(q, e)) = Append(Mapped(f, q), f[e])
  BY MapAppend
<1>3. f[e] \in Seq(U)
  OBVIOUS
<1>4. Join(Append(Mapped(f, q), f[e])) = Join(Mapped(f, q)) \o f[e]
  BY <1>1, <1>3, JoinAppend
<1>. QED BY <1>2, <1>4 DEF Collect

\* Together they are a list.
LEMMA CollectType ==
  ASSUME NEW T, NEW U, NEW f \in [T -> Seq(U)], NEW q \in Seq(T)
  PROVE  Collect(f, q) \in Seq(U)
<1>. DEFINE S == {r \in Seq(T) : Collect(f, r) \in Seq(U)}
<1>1. <<>> \in S
  <2>1. <<>> \in Seq(T) /\ <<>> \in Seq(U)
    OBVIOUS
  <2>. QED BY <2>1, CollectEmpty
<1>2. ASSUME NEW r \in Seq(T), NEW e \in T, r \in S PROVE Append(r, e) \in S
  <2>1. Collect(f, Append(r, e)) = Collect(f, r) \o f[e]
    BY CollectAppend
  <2>2. f[e] \in Seq(U) /\ Collect(f, r) \in Seq(U) /\ Append(r, e) \in Seq(T)
    BY <1>2
  <2>3. Collect(f, r) \o f[e] \in Seq(U)
    BY <2>2
  <2>. QED BY <2>1, <2>2, <2>3
<1>. HIDE DEF S
<1>3. q \in S
  BY <1>1, <1>2, AllSequences
<1>. QED BY <1>3 DEF S

\* Elements that stand for nothing are nothing.
LEMMA CollectNothing ==
  ASSUME NEW T, NEW U, NEW f \in [T -> Seq(U)], NEW q \in Seq(T), \A i \in DOMAIN q : f[q[i]] = <<>>
  PROVE  Collect(f, q) = <<>>
<1>. DEFINE V == {e \in T : f[e] = <<>>}
            S == {r \in Seq(V) : Collect(f, r) = <<>>}
<1>1. <<>> \in S
  <2>1. <<>> \in Seq(T) /\ <<>> \in Seq(U)
    OBVIOUS
  <2>. QED BY <2>1, CollectEmpty
<1>2. ASSUME NEW r \in Seq(V), NEW e \in V, r \in S PROVE Append(r, e) \in S
  <2>1. r \in Seq(T) /\ e \in T /\ Append(r, e) \in Seq(V) /\ f[e] = <<>>
    OBVIOUS
  <2>2. Collect(f, Append(r, e)) = Collect(f, r) \o f[e]
    BY <2>1, CollectAppend
  <2>. QED BY <1>2, <2>1, <2>2
<1>3. q \in Seq(V)
  OBVIOUS
<1>. HIDE DEF S, V
<1>4. q \in S
  BY <1>1, <1>2, <1>3, AllSequences
<1>. QED BY <1>4 DEF S

\* What is collected is what one of the elements stands for.
LEMMA CollectRange ==
  ASSUME NEW T, NEW U, NEW f \in [T -> Seq(U)], NEW q \in Seq(T)
  PROVE  \A x : x \in Range(Collect(f, q)) <=> \E i \in DOMAIN q : x \in Range(f[q[i]])
<1>. DEFINE S == {r \in Seq(T) : \A x : x \in Range(Collect(f, r)) <=> \E i \in DOMAIN r : x \in Range(f[r[i]])}
<1>1. <<>> \in S
  BY CollectEmpty DEF Range
<1>2. ASSUME NEW r \in Seq(T), NEW e \in T, r \in S PROVE Append(r, e) \in S
  <2>1. Collect(f, Append(r, e)) = Collect(f, r) \o f[e]
    BY CollectAppend
  <2>2. f[e] \in Seq(U) /\ Collect(f, r) \in Seq(U)
    BY CollectType
  <2>3. \A x : x \in Range(Collect(f, r) \o f[e]) <=> x \in Range(Collect(f, r)) \/ x \in Range(f[e])
    BY <2>2, RangeConcatenation
  <2>. DEFINE a == Append(r, e)
              n == Len(r)
  <2>4. /\ n \in Nat /\ a \in Seq(T) /\ DOMAIN r = 1..n /\ DOMAIN a = 1..n + 1 /\ a[n + 1] = e
        /\ \A i \in 1..n : a[i] = r[i]
    OBVIOUS
  <2>. HIDE DEF a, n
  <2>5. \A x : (\E i \in DOMAIN a : x \in Range(f[a[i]])) <=> (\E i \in DOMAIN r : x \in Range(f[r[i]])) \/ x \in Range(f[e])
    <3>1. \A i : i \in DOMAIN a <=> i \in DOMAIN r \/ i = n + 1
      BY <2>4
    <3>2. \A i \in DOMAIN r : a[i] = r[i]
      BY <2>4
    <3>. QED BY <3>1, <3>2, <2>4
  <2>6. \A x : x \in Range(Collect(f, a)) <=> \E i \in DOMAIN a : x \in Range(f[a[i]])
    BY <1>2, <2>1, <2>3, <2>5 DEF a
  <2>. QED BY <2>4, <2>6 DEF a
<1>. HIDE DEF S
<1>3. q \in S
  BY <1>1, <1>2, AllSequences
<1>. QED BY <1>3 DEF S

-----------------------------------------------------------------------------
(* The last element of a list that is in S                                 *)

Latest(list, S, default) ==
  LET i == SelectLastInSeq(list, LAMBDA x : x \in S) IN IF i = 0 THEN default ELSE list[i]

\* It is the default where there is none.
LEMMA LatestNone ==
  ASSUME NEW T, NEW q \in Seq(T), NEW S, NEW default, \A i \in DOMAIN q : q[i] \notin S
  PROVE  Latest(q, S, default) = default
<1>1. {i \in 1..Len(q) : q[i] \in S} = {}
  OBVIOUS
<1>. QED BY <1>1 DEF Latest, SelectLastInSeq

\* It is an element that no other of S follows.
LEMMA LatestFacts ==
  ASSUME NEW T, NEW q \in Seq(T), NEW S, NEW default, NEW k \in 1..Len(q), q[k] \in S,
         \A i \in k + 1..Len(q) : q[i] \notin S
  PROVE  Latest(q, S, default) = q[k]
<1>. DEFINE I == {i \in 1..Len(q) : q[i] \in S}
<1>1. Len(q) \in Nat /\ k \in I
  OBVIOUS
<1>2. \A i \in I : i <= k
  OBVIOUS
<1>3. Max(I) \in I /\ \A x \in I : x <= Max(I)
  <2>1. I \in SUBSET (1..Len(q)) /\ I # {}
    BY <1>1
  <2>. HIDE DEF I
  <2>. QED BY <1>1, <2>1, MaxFacts
<1>4. Max(I) = k
  <2>1. Max(I) \in Int /\ k \in Int /\ Max(I) <= k /\ k <= Max(I)
    BY <1>1, <1>2, <1>3
  <2>. QED BY <2>1
<1>5. SelectLastInSeq(q, LAMBDA x : x \in S) = Max(I)
  BY <1>1 DEF SelectLastInSeq
<1>6. k # 0
  OBVIOUS
<1>. QED BY <1>4, <1>5, <1>6 DEF Latest

\* An element of S that is appended is the last, and another changes nothing.
LEMMA LatestAppend ==
  ASSUME NEW T, NEW q \in Seq(T), NEW e \in T, NEW S, NEW default
  PROVE  Latest(Append(q, e), S, default) = IF e \in S THEN e ELSE Latest(q, S, default)
<1>. DEFINE n == Len(q)
            r == Append(q, e)
<1>1. /\ n \in Nat /\ r \in Seq(T) /\ Len(r) = n + 1 /\ DOMAIN r = 1..n + 1 /\ r[n + 1] = e
      /\ DOMAIN q = 1..n /\ \A i \in 1..n : r[i] = q[i]
  OBVIOUS
<1>2. CASE e \in S
  <2>1. n + 1 \in 1..Len(r) /\ \A i \in n + 1 + 1..Len(r) : r[i] \notin S
    BY <1>1
  <2>. HIDE DEF n, r
  <2>2. Latest(r, S, default) = r[n + 1]
    BY <1>1, <1>2, <2>1, LatestFacts
  <2>. QED BY <1>1, <1>2, <2>2 DEF r
<1>3. CASE e \notin S
  <2>1. {i \in 1..Len(r) : r[i] \in S} = {i \in 1..Len(q) : q[i] \in S}
    BY <1>1, <1>3
  <2>. DEFINE I == {i \in 1..Len(q) : q[i] \in S}
  <2>2. SelectLastInSeq(r, LAMBDA x : x \in S) = SelectLastInSeq(q, LAMBDA x : x \in S)
    BY <2>1 DEF SelectLastInSeq
  <2>3. CASE I = {}
    BY <1>3, <2>2, <2>3 DEF Latest, SelectLastInSeq
  <2>4. CASE I # {}
    <3>1. Max(I) \in I
      <4>1. I \in SUBSET (1..n)
        OBVIOUS
      <4>. HIDE DEF I, n
      <4>. QED BY <1>1, <2>4, <4>1, MaxFacts
    <3>2. SelectLastInSeq(q, LAMBDA x : x \in S) = Max(I)
      BY <2>4 DEF SelectLastInSeq
    <3>. HIDE DEF I
    <3>3. Max(I) \in 1..n
      BY <3>1 DEF I
    <3>. HIDE DEF r, n
    <3>. QED BY <1>1, <1>3, <2>2, <3>2, <3>3 DEF Latest, r
  <2>. QED BY <2>3, <2>4
<1>. QED BY <1>2, <1>3

\* Sets with the same elements of the list have the same last one.
LEMMA LatestAgree ==
  ASSUME NEW q, NEW R, NEW S, NEW default, \A i \in 1..Len(q) : q[i] \in R <=> q[i] \in S
  PROVE  Latest(q, R, default) = Latest(q, S, default)
<1>1. {i \in 1..Len(q) : q[i] \in R} = {i \in 1..Len(q) : q[i] \in S}
  OBVIOUS
<1>. QED BY <1>1 DEF Latest, SelectLastInSeq

-----------------------------------------------------------------------------
(* The last word                                                           *)

\* An element of S is in the list, and no other of S follows it.
LEMMA LatestExists ==
  ASSUME NEW T, NEW q \in Seq(T), NEW S, \E i \in DOMAIN q : q[i] \in S
  PROVE  \E k \in DOMAIN q : q[k] \in S /\ \A j \in k + 1..Len(q) : q[j] \notin S
<1>. DEFINE I == {i \in 1..Len(q) : q[i] \in S}
<1>1. Len(q) \in Nat /\ DOMAIN q = 1..Len(q) /\ I # {} /\ I \in SUBSET (1..Len(q))
  OBVIOUS
<1>2. Max(I) \in I /\ \A x \in I : x <= Max(I)
  <2>. HIDE DEF I
  <2>. QED BY <1>1, MaxFacts
<1>3. \A j \in Max(I) + 1..Len(q) : j \in 1..Len(q) /\ ~(j <= Max(I))
  BY <1>1, <1>2
<1>4. \A j \in Max(I) + 1..Len(q) : q[j] \notin S
  BY <1>2, <1>3
<1>. QED BY <1>1, <1>2, <1>4

\* Elements of S say whether what is folded is in P, and others leave it as it was.
Deciding(T, D, P, S, On) ==
  \A d \in D, e \in T : Op(d, e) \in D /\ (Op(d, e) \in P <=> IF e \in S THEN e \in On ELSE d \in P)

(***************************************************************************)
(* Whether the fold is in P is what the last element of S says.            *)
(***************************************************************************)
LEMMA LastDecides ==
  ASSUME NEW T, NEW D, NEW b \in D, NEW q \in Seq(T), NEW P, NEW S, NEW On,
         Deciding(T, D, P, S, On)
  PROVE  /\ (\A i \in DOMAIN q : q[i] \notin S) => (Fold(b, q) \in P <=> b \in P)
         /\ \A k \in DOMAIN q : q[k] \in S /\ (\A j \in k + 1..Len(q) : q[j] \notin S)
                              => (Fold(b, q) \in P <=> q[k] \in On)
<1>. DEFINE Decided(r) ==
              /\ (\A i \in DOMAIN r : r[i] \notin S) => (Fold(b, r) \in P <=> b \in P)
              /\ \A k \in DOMAIN r : r[k] \in S /\ (\A j \in k + 1..Len(r) : r[j] \notin S)
                                   => (Fold(b, r) \in P <=> r[k] \in On)
            Good == {r \in Seq(T) : Decided(r)}
<1>1. <<>> \in Good
  <2>1. <<>> \in Seq(T) /\ DOMAIN <<>> = {}
    OBVIOUS
  <2>. QED BY <2>1, FoldEmpty
<1>2. ASSUME NEW r \in Seq(T), NEW e \in T, r \in Good PROVE Append(r, e) \in Good
  <2>. DEFINE n == Len(r)
              l == Append(r, e)
  <2>1. /\ n \in Nat /\ l \in Seq(T) /\ Len(l) = n + 1 /\ DOMAIN l = 1..n + 1 /\ l[n + 1] = e
        /\ DOMAIN r = 1..n /\ \A i \in 1..n : l[i] = r[i] /\ i \in 1..n + 1
    OBVIOUS
  <2>2. Decided(r)
    BY <1>2
  <2>3. Fold(b, l) = Op(Fold(b, r), e)
    BY FoldAppend
  <2>4. Fold(b, r) \in D
    <3>1. \A d \in D, x \in T : Op(d, x) \in D
      BY DEF Deciding
    <3>. QED BY <3>1, FoldInvariant
  <2>5. Fold(b, l) \in P <=> IF e \in S THEN e \in On ELSE Fold(b, r) \in P
    BY <2>3, <2>4 DEF Deciding
  <2>. HIDE DEF n, l
  <2>6. ASSUME \A i \in DOMAIN l : l[i] \notin S PROVE Fold(b, l) \in P <=> b \in P
    <3>1. e \notin S /\ \A i \in DOMAIN r : r[i] \notin S
      BY <2>1, <2>6
    <3>. QED BY <2>2, <2>5, <3>1
  <2>7. ASSUME NEW k \in DOMAIN l, l[k] \in S, \A j \in k + 1..Len(l) : l[j] \notin S
        PROVE  Fold(b, l) \in P <=> l[k] \in On
    <3>1. CASE k = n + 1
      BY <2>1, <2>5, <2>7, <3>1
    <3>2. CASE k # n + 1
      <4>1. k \in 1..n /\ n + 1 \in k + 1..Len(l) /\ \A j \in k + 1..n : j \in k + 1..Len(l) /\ j \in 1..n
        BY <2>1, <3>2
      <4>2. e \notin S /\ r[k] \in S /\ \A j \in k + 1..n : r[j] \notin S
        BY <2>1, <2>7, <4>1
      <4>3. Fold(b, r) \in P <=> r[k] \in On
        BY <2>1, <2>2, <4>1, <4>2 DEF n
      <4>. QED BY <2>1, <2>5, <4>1, <4>2, <4>3
    <3>. QED BY <3>1, <3>2
  <2>. QED BY <2>1, <2>6, <2>7 DEF l
<1>. HIDE DEF Good
<1>3. q \in Good
  BY <1>1, <1>2, AllSequences
<1>. QED BY <1>3 DEF Good

=============================================================================
