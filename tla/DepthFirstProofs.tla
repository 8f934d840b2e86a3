--------------------------- MODULE DepthFirstProofs ---------------------------
(***************************************************************************)
(* The walk of DepthFirst puts parents before children, for every graph.   *)
(***************************************************************************)
EXTENDS DepthFirst, FiniteSetTheorems, TLAPS

Graph == [parents : [Nodes -> Seq(Nodes)], roots : Seq(Nodes), usable : SUBSET Nodes]
Frame == [node : Nodes \cup {Top}, rest : Seq(Nodes)]

Shape ==
  /\ graph \in Graph
  /\ calls \in Seq(Frame) /\ Len(calls) >= 1
  /\ \A i \in 2..Len(calls) : calls[i].node \in Nodes
  /\ order \in Seq(Nodes)

In(p, list) == \E k \in 1..Len(list) : list[k] = p

\* no node is called twice, and none whose call has returned
CalledOnce ==
  /\ \A i, j \in 1..Len(calls) : calls[i].node = calls[j].node => i = j
  /\ \A i \in 1..Len(calls) : ~In(calls[i].node, order)

\* a parent of an open node is done, still to be called, or open one frame further
Pending(i, p) ==
  In(p, order) \/ In(p, calls[i].rest) \/ (i < Len(calls) /\ p = calls[i + 1].node)
NothingSkipped ==
  \A i \in 2..Len(calls), p \in Nodes : In(p, graph.parents[calls[i].node]) => Pending(i, p)

Ordered ==
  /\ \A i \in 1..Len(order), p \in Nodes :
       In(p, graph.parents[order[i]]) => \E j \in 1..i - 1 : order[j] = p
  /\ \A i, j \in 1..Len(order) : order[j] = order[i] => j = i

WalkInv == Shape /\ CalledOnce /\ NothingSkipped /\ Ordered

\* What is in a list is its head or in its tail.
LEMMA InTail ==
  ASSUME NEW S, NEW s \in Seq(S), s # <<>>
  PROVE  /\ Head(s) \in S /\ Tail(s) \in Seq(S)
         /\ \A p : In(p, s) => p = Head(s) \/ In(p, Tail(s))
<1>1. Len(s) \in Nat /\ Len(s) >= 1 /\ Head(s) = s[1] /\ Len(Tail(s)) = Len(s) - 1
  OBVIOUS
<1>2. \A m \in 1..Len(s) - 1 : Tail(s)[m] = s[m + 1]
  OBVIOUS
<1>3. ASSUME NEW p, In(p, s), p # Head(s) PROVE In(p, Tail(s))
  <2>1. PICK k \in 1..Len(s) : s[k] = p
    BY <1>3 DEF In
  <2>2. k # 1
    BY <1>1, <1>3, <2>1
  <2>3. k - 1 \in 1..Len(Tail(s)) /\ Tail(s)[k - 1] = p
    BY <1>1, <1>2, <2>1, <2>2
  <2>. QED BY <2>3 DEF In
<1>4. Head(s) \in S /\ Tail(s) \in Seq(S)
  OBVIOUS
<1>. QED BY <1>3, <1>4

\* What is in a list with an element more.
LEMMA InAppend ==
  ASSUME NEW S, NEW s \in Seq(S), NEW x \in S
  PROVE  \A p : In(p, Append(s, x)) <=> In(p, s) \/ p = x
<1>1. /\ Len(s) \in Nat /\ Len(Append(s, x)) = Len(s) + 1 /\ Append(s, x)[Len(s) + 1] = x
      /\ \A k \in 1..Len(s) : Append(s, x)[k] = s[k]
  OBVIOUS
<1>. QED BY <1>1 DEF In

\* Taking the next node off the list of the innermost frame changes nothing else.
LEMMA CalledFacts ==
  ASSUME Shape, Innermost.rest # <<>>
  PROVE  /\ Called \in Seq(Frame) /\ Len(Called) = Len(calls) /\ Len(calls) \in Nat /\ Len(calls) >= 1
         /\ \A i \in 1..Len(calls) : Called[i].node = calls[i].node
         /\ \A i \in 1..Len(calls) : i < Len(calls) => Called[i] = calls[i]
         /\ \A p : In(p, calls[Len(calls)].rest) =>
                     p = Head(Innermost.rest) \/ In(p, Called[Len(calls)].rest)
<1>1. /\ calls[Len(calls)] \in Frame /\ Innermost = calls[Len(calls)]
      /\ Len(calls) \in 1..Len(calls) /\ Len(calls) \in Nat
  BY DEF Shape, Innermost
<1>2. Innermost.rest \in Seq(Nodes)
  BY <1>1 DEF Frame
<1>3. Tail(Innermost.rest) \in Seq(Nodes)
  BY <1>2, InTail
<1>4. \A p : In(p, Innermost.rest) => p = Head(Innermost.rest) \/ In(p, Tail(Innermost.rest))
  BY <1>2, InTail
<1>5. [calls[Len(calls)] EXCEPT !.rest = Tail(@)] \in Frame
  BY <1>1, <1>3 DEF Frame
<1>6. /\ Called \in Seq(Frame) /\ Len(Called) = Len(calls) /\ Len(calls) >= 1
      /\ \A i \in 1..Len(calls) : i < Len(calls) => Called[i] = calls[i]
      /\ Called[Len(calls)] = [calls[Len(calls)] EXCEPT !.rest = Tail(@)]
  <2>. DEFINE frame == [calls[Len(calls)] EXCEPT !.rest = Tail(@)]
  <2>1. frame \in Frame
    BY <1>5
  <2>2. Called = [calls EXCEPT ![Len(calls)] = frame]
    BY DEF Called
  <2>3. calls \in Seq(Frame) /\ Len(calls) >= 1
    BY DEF Shape
  <2>. HIDE DEF frame
  <2>4. /\ Called \in Seq(Frame) /\ Len(Called) = Len(calls)
        /\ \A i \in 1..Len(calls) : Called[i] = IF i = Len(calls) THEN frame ELSE calls[i]
    BY <1>1, <2>1, <2>2, <2>3
  <2>5. Called[Len(calls)] = frame
    BY <1>1, <2>4
  <2>6. \A i \in 1..Len(calls) : i < Len(calls) => Called[i] = calls[i]
    BY <1>1, <2>4
  <2>. QED BY <2>3, <2>4, <2>5, <2>6 DEF frame
<1>7. Called[Len(calls)].rest = Tail(Innermost.rest) /\ Called[Len(calls)].node = calls[Len(calls)].node
  BY <1>1, <1>6 DEF Frame
<1>8. ASSUME NEW i \in 1..Len(calls) PROVE Called[i].node = calls[i].node
  <2>1. i < Len(calls) \/ i = Len(calls)
    BY <1>1
  <2>. QED BY <1>6, <1>7, <2>1
<1>. QED BY <1>1, <1>4, <1>6, <1>7, <1>8

\* What is left to be called was to be called before.
LEMMA CalledLess ==
  ASSUME Shape, Innermost.rest # <<>>
  PROVE  \A i \in 1..Len(calls), p \in Nodes : In(p, Called[i].rest) => In(p, calls[i].rest)
<1>1. calls[Len(calls)] \in Frame /\ Innermost = calls[Len(calls)] /\ Len(calls) \in 1..Len(calls)
      /\ calls \in Seq(Frame)
  BY DEF Shape, Innermost
<1>2. ASSUME NEW p \in Nodes, In(p, Tail(Innermost.rest)) PROVE In(p, Innermost.rest)
  <2>1. Innermost.rest \in Seq(Nodes)
    BY <1>1 DEF Frame
  <2>. QED BY <1>2, <2>1 DEF In
<1>3. Called[Len(calls)].rest = Tail(Innermost.rest)
  <2>1. Called[Len(calls)] = [calls[Len(calls)] EXCEPT !.rest = Tail(@)]
    BY <1>1 DEF Called
  <2>. QED BY <1>1, <2>1 DEF Frame
<1>4. ASSUME NEW i \in 1..Len(calls), i # Len(calls) PROVE Called[i] = calls[i]
  BY <1>1, <1>4 DEF Called
<1>5. ASSUME NEW i \in 1..Len(calls), NEW p \in Nodes, In(p, Called[i].rest)
      PROVE  In(p, calls[i].rest)
  <2>1. CASE i = Len(calls)
    BY <1>1, <1>2, <1>3, <1>5, <2>1
  <2>2. CASE i # Len(calls)
    BY <1>4, <1>5, <2>2
  <2>. QED BY <2>1, <2>2
<1>. QED BY <1>5

\* Before the first call no frame is open.
LEMMA WalkInitInv == GraphAssumption /\ WalkInit => WalkInv
<1>. SUFFICES ASSUME GraphAssumption, WalkInit PROVE WalkInv
  OBVIOUS
<1>1. Shape /\ Len(calls) = 1 /\ Len(order) = 0
  BY DEF GraphAssumption, WalkInit, Shape, Graph, Frame
<1>. QED BY <1>1 DEF WalkInv, CalledOnce, NothingSkipped, Ordered, In

\* A node that is done is passed over.
LEMMA SkipInv ==
  ASSUME WalkInv, NEW n \in Nodes, Skip(n)
  PROVE  WalkInv'
<1>1. /\ Innermost.rest # <<>> /\ n = Head(Innermost.rest) /\ calls' = Called
      /\ graph' = graph /\ order' = order
  BY DEF Skip, Calls
<1>2. In(n, order)
  BY DEF WalkInv, Skip, Closed, Elements, Shape, In
<1>3. /\ calls' \in Seq(Frame) /\ Len(calls') = Len(calls) /\ Len(calls) \in Nat /\ Len(calls) >= 1
      /\ \A i \in 1..Len(calls) : calls'[i].node = calls[i].node
      /\ \A i \in 1..Len(calls) : i < Len(calls) => calls'[i] = calls[i]
      /\ \A p : In(p, calls[Len(calls)].rest) => p = n \/ In(p, calls'[Len(calls)].rest)
  BY <1>1, CalledFacts DEF WalkInv
<1>4. Shape'
  BY <1>1, <1>3 DEF Shape, WalkInv
<1>5. CalledOnce'
  BY <1>1, <1>3 DEF CalledOnce, WalkInv
<1>6. NothingSkipped'
  <2>. SUFFICES ASSUME NEW i \in 2..Len(calls), NEW p \in Nodes, In(p, graph.parents[calls[i].node])
                PROVE  Pending(i, p)'
    BY <1>1, <1>3 DEF NothingSkipped
  <2>1. Pending(i, p)
    BY DEF NothingSkipped, WalkInv
  <2>2. In(p, calls[i].rest) => p = n \/ In(p, calls'[i].rest)
    BY <1>3
  <2>3. i < Len(calls) => calls'[i + 1].node = calls[i + 1].node
    BY <1>3
  <2>. QED BY <1>1, <1>2, <1>3, <2>1, <2>2, <2>3 DEF Pending
<1>7. Ordered'
  BY <1>1 DEF Ordered, WalkInv
<1>. QED BY <1>4, <1>5, <1>6, <1>7 DEF WalkInv

\* A node that is neither open nor done gets a frame with all its parents.
LEMMA EnterInv ==
  ASSUME WalkInv, NEW n \in Nodes, Enter(n)
  PROVE  WalkInv'
<1>. DEFINE new == [node |-> n, rest |-> graph.parents[n]]
<1>1. /\ Innermost.rest # <<>> /\ n = Head(Innermost.rest) /\ calls' = Append(Called, new)
      /\ graph' = graph /\ order' = order
  BY DEF Enter, Calls
<1>2. /\ Called \in Seq(Frame) /\ Len(Called) = Len(calls) /\ Len(calls) \in Nat /\ Len(calls) >= 1
      /\ \A i \in 1..Len(calls) : Called[i].node = calls[i].node
      /\ \A i \in 1..Len(calls) : i < Len(calls) => Called[i] = calls[i]
      /\ \A p : In(p, calls[Len(calls)].rest) => p = n \/ In(p, Called[Len(calls)].rest)
  BY <1>1, CalledFacts DEF WalkInv
<1>3. new \in Frame
  BY DEF WalkInv, Shape, Graph, Frame
<1>4. /\ calls' \in Seq(Frame) /\ Len(calls') = Len(calls) + 1
      /\ calls'[Len(calls) + 1].node = n /\ calls'[Len(calls) + 1].rest = graph.parents[n]
      /\ \A i \in 1..Len(calls) : calls'[i] = Called[i]
  BY <1>1, <1>2, <1>3
<1>5. \A i \in 1..Len(calls) : calls[i].node # n
  BY DEF WalkInv, Enter, Open, Shape
<1>6. ~In(n, order)
  BY DEF WalkInv, Enter, Closed, Elements, Shape, In
<1>7. Shape'
  <2>1. ASSUME NEW i \in 2..Len(calls') PROVE calls'[i].node \in Nodes
    <3>1. i = Len(calls) + 1 \/ (i \in 2..Len(calls) /\ i \in 1..Len(calls))
      BY <1>2, <1>4
    <3>. QED BY <1>2, <1>4, <3>1 DEF Shape, WalkInv
  <2>2. Len(calls') >= 1
    BY <1>2, <1>4
  <2>. QED BY <1>1, <1>4, <2>1, <2>2 DEF Shape, WalkInv
<1>8. CalledOnce'
  <2>1. ASSUME NEW i \in 1..Len(calls) + 1, NEW j \in 1..Len(calls) + 1, calls'[i].node = calls'[j].node
        PROVE  i = j
    <3>1. \A m \in 1..Len(calls) : calls'[m].node = calls[m].node /\ calls[m].node # n
      BY <1>2, <1>4, <1>5
    <3>2. \A m \in 1..Len(calls) + 1 : m \in 1..Len(calls) \/ m = Len(calls) + 1
      BY <1>2
    <3>. QED BY <1>4, <2>1, <3>1, <3>2 DEF CalledOnce, WalkInv
  <2>2. ASSUME NEW i \in 1..Len(calls) + 1 PROVE ~In(calls'[i].node, order)
    <3>1. CASE i = Len(calls) + 1
      BY <1>4, <1>6, <3>1
    <3>2. CASE i \in 1..Len(calls)
      BY <1>2, <1>4, <3>2 DEF CalledOnce, WalkInv
    <3>. QED BY <1>2, <3>1, <3>2
  <2>. QED BY <1>1, <1>4, <2>1, <2>2 DEF CalledOnce
<1>9. NothingSkipped'
  <2>. SUFFICES ASSUME NEW i \in 2..Len(calls) + 1, NEW p \in Nodes, In(p, graph.parents[calls'[i].node])
                PROVE  Pending(i, p)'
    BY <1>1, <1>4 DEF NothingSkipped
  <2>1. CASE i = Len(calls) + 1
    BY <1>1, <1>4, <2>1 DEF Pending
  <2>2. CASE i \in 2..Len(calls)
    <3>1. i \in 1..Len(calls) /\ calls'[i] = Called[i] /\ calls'[i].node = calls[i].node
      BY <1>2, <1>4, <2>2
    <3>2. Pending(i, p)
      BY <2>2, <3>1 DEF NothingSkipped, WalkInv
    <3>3. In(p, calls[i].rest) => p = n \/ In(p, calls'[i].rest)
      BY <1>2, <3>1
    <3>4. i < Len(calls) => calls'[i + 1].node = calls[i + 1].node
      <4>. SUFFICES ASSUME i < Len(calls) PROVE i + 1 \in 1..Len(calls)
        BY <1>2, <1>4
      <4>. QED BY <1>2, <3>1
    <3>5. i = Len(calls) => calls'[i + 1].node = n
      BY <1>4
    <3>6. i < Len(calls') /\ (i < Len(calls) \/ i = Len(calls))
      BY <1>2, <1>4, <3>1
    <3>7. p = n => Pending(i, p)'
      <4>. SUFFICES ASSUME p = n, i < Len(calls) PROVE Pending(i, p)'
        BY <3>5, <3>6 DEF Pending
      <4>1. ~In(p, calls[i].rest) => Pending(i, p)'
        BY <1>1, <3>2, <3>4, <3>6 DEF Pending
      <4>2. In(p, calls[i].rest) => In(p, calls'[i].rest)
        BY <1>2, <3>1
      <4>. QED BY <4>1, <4>2 DEF Pending
    <3>. QED BY <1>1, <3>2, <3>3, <3>4, <3>6, <3>7 DEF Pending
  <2>. QED BY <1>2, <2>1, <2>2
<1>10. Ordered'
  BY <1>1 DEF Ordered, WalkInv
<1>. QED BY <1>7, <1>8, <1>9, <1>10 DEF WalkInv

\* A node is done when all its parents are, and it was not before.
LEMMA LeaveInv ==
  ASSUME WalkInv, Leave
  PROVE  WalkInv'
<1>. DEFINE top == Len(calls)
<1>. DEFINE n == calls[top].node
<1>1. /\ top \in Nat /\ top >= 2 /\ calls[top].rest = <<>> /\ graph' = graph
      /\ calls' = SubSeq(calls, 1, top - 1) /\ order' = Append(order, n)
  BY DEF Leave, Innermost, Shape, WalkInv
<1>2. n \in Nodes
  BY <1>1 DEF Shape, WalkInv
<1>3. /\ Len(calls') = top - 1 /\ calls' \in Seq(Frame)
      /\ \A i \in 1..top - 1 : calls'[i] = calls[i]
  BY <1>1 DEF Shape, WalkInv
<1>4. /\ order \in Seq(Nodes) /\ Len(order) \in Nat /\ order' \in Seq(Nodes)
      /\ Len(order') = Len(order) + 1 /\ order'[Len(order) + 1] = n
      /\ \A k \in 1..Len(order) : order'[k] = order[k]
  BY <1>1, <1>2 DEF Shape, WalkInv
<1>5. \A p : In(p, order') <=> In(p, order) \/ p = n
  BY <1>1, <1>2, <1>4, InAppend
<1>6. Shape'
  BY <1>1, <1>3, <1>4 DEF Shape, WalkInv
<1>7. CalledOnce'
  <2>1. ASSUME NEW i \in 1..top - 1, NEW j \in 1..top - 1, calls'[i].node = calls'[j].node
        PROVE  i = j
    BY <1>1, <1>3, <2>1 DEF CalledOnce, WalkInv
  <2>2. ASSUME NEW i \in 1..top - 1 PROVE ~In(calls'[i].node, order')
    <3>1. i \in 1..top /\ top \in 1..top /\ i # top /\ calls'[i] = calls[i]
      BY <1>1, <1>3
    <3>2. calls[i].node # n /\ ~In(calls[i].node, order)
      BY <3>1 DEF CalledOnce, WalkInv
    <3>. QED BY <1>5, <3>1, <3>2
  <2>. QED BY <1>3, <2>1, <2>2 DEF CalledOnce
<1>8. NothingSkipped'
  <2>. SUFFICES ASSUME NEW i \in 2..top - 1, NEW p \in Nodes, In(p, graph.parents[calls[i].node])
                PROVE  Pending(i, p)'
    BY <1>1, <1>3 DEF NothingSkipped
  <2>1. i \in 2..top /\ calls'[i] = calls[i]
    BY <1>1, <1>3
  <2>2. Pending(i, p)
    BY <2>1 DEF NothingSkipped, WalkInv
  <2>3. CASE p = calls[i + 1].node
    <3>1. i \in Nat /\ (i + 1 = top \/ (i < top - 1 /\ i + 1 \in 1..top - 1))
      BY <1>1
    <3>. QED BY <1>3, <1>5, <2>3, <3>1 DEF Pending
  <2>4. CASE In(p, order) \/ In(p, calls[i].rest)
    BY <1>5, <2>1, <2>4 DEF Pending
  <2>. QED BY <2>2, <2>3, <2>4 DEF Pending
<1>9. Ordered'
  <2>1. ASSUME NEW p \in Nodes, In(p, graph.parents[n])
        PROVE  In(p, order)
    <3>1. Pending(top, p)
      BY <1>1, <2>1 DEF NothingSkipped, WalkInv
    <3>2. ~In(p, calls[top].rest)
      BY <1>1 DEF In
    <3>. QED BY <1>1, <3>1, <3>2 DEF Pending
  <2>2. ASSUME NEW i \in 1..Len(order) + 1, NEW p \in Nodes, In(p, graph.parents[order'[i]])
        PROVE  \E j \in 1..i - 1 : order'[j] = p
    <3>1. CASE i = Len(order) + 1
      <4>1. PICK j \in 1..Len(order) : order[j] = p
        BY <1>4, <2>1, <2>2, <3>1 DEF In
      <4>. QED BY <1>4, <3>1, <4>1
    <3>2. CASE i # Len(order) + 1
      <4>1. i \in 1..Len(order) /\ order'[i] = order[i]
        BY <1>4, <3>2
      <4>2. PICK j \in 1..i - 1 : order[j] = p
        BY <2>2, <4>1 DEF Ordered, WalkInv
      <4>3. order'[j] = order[j]
        BY <1>4, <4>1
      <4>. QED BY <4>2, <4>3
    <3>. QED BY <3>1, <3>2
  <2>3. \A i \in 1..Len(order) : order[i] # n
    <3>1. ~In(n, order)
      BY <1>1 DEF CalledOnce, WalkInv
    <3>. QED BY <3>1 DEF In
  <2>4. ASSUME NEW i \in 1..Len(order) + 1, NEW j \in 1..Len(order) + 1, order'[j] = order'[i]
        PROVE  j = i
    <3>1. \A m \in 1..Len(order) + 1 : m \in 1..Len(order) \/ m = Len(order) + 1
      BY <1>4
    <3>. QED BY <1>4, <2>3, <2>4, <3>1 DEF Ordered, WalkInv
  <2>. QED BY <1>1, <1>4, <2>2, <2>4 DEF Ordered
<1>. QED BY <1>6, <1>7, <1>8, <1>9 DEF WalkInv

\* WalkInv is inductive.
LEMMA WalkNextInv == WalkInv /\ [WalkNext]_walkVars => WalkInv'
<1>. SUFFICES ASSUME WalkInv, [WalkNext]_walkVars PROVE WalkInv'
  OBVIOUS
<1>1. ASSUME UNCHANGED <<graph, calls, order>> PROVE WalkInv'
  BY <1>1 DEF WalkInv, Shape, CalledOnce, NothingSkipped, Pending, Ordered
<1>2. ASSUME NEW n \in Nodes, FindCycle(n) \/ Reject(n) PROVE WalkInv'
  BY <1>1, <1>2 DEF FindCycle, Reject
<1>3. ASSUME NEW n \in Nodes, Skip(n) PROVE WalkInv'
  BY <1>3, SkipInv
<1>4. ASSUME NEW n \in Nodes, Enter(n) PROVE WalkInv'
  BY <1>4, EnterInv
<1>5. CASE Leave
  BY <1>5, LeaveInv
<1>6. CASE WalkReturns
  BY <1>1, <1>6 DEF WalkReturns
<1>7. CASE UNCHANGED walkVars
  BY <1>1, <1>7 DEF walkVars
<1>. QED BY <1>2, <1>3, <1>4, <1>5, <1>6, <1>7 DEF WalkNext

\* The part of the invariant that the property is about.
LEMMA OrderedIsParentsFirst == WalkInv => ParentsFirst
<1>. SUFFICES ASSUME WalkInv PROVE ParentsFirst
  OBVIOUS
<1>1. \A i \in 1..Len(order) : graph.parents[order[i]] \in Seq(Nodes)
  BY DEF WalkInv, Shape, Graph
<1>2. DOMAIN order = 1..Len(order)
  BY DEF WalkInv, Shape
<1>3. ASSUME NEW i \in 1..Len(order), NEW p \in Elements(graph.parents[order[i]])
      PROVE  \E j \in 1..i - 1 : order[j] = p
  <2>1. p \in Nodes /\ In(p, graph.parents[order[i]])
    BY <1>1, <1>3 DEF Elements, In
  <2>. QED BY <2>1 DEF WalkInv, Ordered
<1>. QED BY <1>2, <1>3 DEF WalkInv, Ordered, ParentsFirst

(***************************************************************************)
(* Whatever the graph, at every step of the walk the order has the parents *)
(* of each node before it, and no node twice (orderRepositories and        *)
(* collectProfile).                                                        *)
(***************************************************************************)
THEOREM WalkParentsFirst ==
  ASSUME GraphAssumption
  PROVE  WalkSpec => []ParentsFirst
<1>1. WalkInit => WalkInv
  BY WalkInitInv
<1>2. WalkInv /\ [WalkNext]_walkVars => WalkInv'
  BY WalkNextInv
<1>3. WalkInv => ParentsFirst
  BY OrderedIsParentsFirst
<1>. QED BY <1>1, <1>2, <1>3, PTL DEF WalkSpec

\* The recursion is no deeper than there are nodes: no two frames are of one node.
LEMMA DepthIsBounded == GraphAssumption /\ WalkInv => Len(calls) \in 1..Cardinality(Nodes) + 1
<1>. SUFFICES ASSUME GraphAssumption, WalkInv PROVE Len(calls) \in 1..Cardinality(Nodes) + 1
  OBVIOUS
<1>. DEFINE frames == 1..Len(calls)
            named == Nodes \cup {Top}
            f == [i \in frames |-> calls[i].node]
<1>1. Len(calls) \in Nat /\ Len(calls) >= 1 /\ f \in [frames -> named]
  <2>1. calls \in Seq(Frame) /\ Len(calls) >= 1
    BY DEF WalkInv, Shape
  <2>2. \A i \in frames : calls[i] \in Frame
    BY <2>1
  <2>3. \A i \in frames : calls[i].node \in named
    BY <2>2 DEF Frame
  <2>. QED BY <2>1, <2>3
<1>2. \A i, j \in frames : f[i] = f[j] => i = j
  BY DEF WalkInv, CalledOnce
<1>3. IsFiniteSet(named) /\ Cardinality(named) = Cardinality(Nodes) + 1
  <2>1. IsFiniteSet(Nodes) /\ Top \notin Nodes
    BY DEF GraphAssumption
  <2>2. IsFiniteSet(Nodes \cup {Top})
        /\ Cardinality(Nodes \cup {Top}) = IF Top \in Nodes THEN Cardinality(Nodes) ELSE Cardinality(Nodes) + 1
    BY <2>1, FS_AddElement
  <2>. QED BY <2>1, <2>2
<1>4. IsFiniteSet(frames) /\ Cardinality(frames) = Len(calls)
  BY <1>1, FS_Interval
<1>5. Cardinality(Nodes) \in Nat
  BY FS_CardinalityType DEF GraphAssumption
<1>. HIDE DEF frames, named, f
<1>6. ~(Cardinality(named) < Cardinality(frames))
  BY <1>1, <1>2, <1>3, <1>4, FS_PigeonHole
<1>. QED BY <1>1, <1>3, <1>4, <1>5, <1>6

\* The walk stays on its graph, and its outcome is one of four.
Standing == graph \in Graphs /\ outcome \in {"walking", "ok", "cycle", "unusable"}

\* No step changes the graph.
LEMMA StandingNext == Standing /\ [WalkNext]_walkVars => Standing'
BY DEF Standing, WalkNext, walkVars, FindCycle, Skip, Reject, Enter, Leave, WalkReturns

\* With the invariant of the walk that is the type invariant.
LEMMA StandingTyped == GraphAssumption /\ WalkInv /\ Standing => WalkTypeOK
BY DepthIsBounded DEF WalkTypeOK, WalkInv, Shape, Standing, Frame

(***************************************************************************)
(* The walk is typed, and never deeper than there are nodes, whatever the  *)
(* graph (orderRepositories, collectProfile).                              *)
(***************************************************************************)
THEOREM WalkTypeCorrect ==
  ASSUME GraphAssumption
  PROVE  WalkSpec => []WalkTypeOK
<1>1. WalkInit => WalkInv /\ Standing
  BY WalkInitInv DEF WalkInit, Standing
<1>. QED BY <1>1, WalkNextInv, StandingNext, StandingTyped, PTL DEF WalkSpec

-----------------------------------------------------------------------------
(* The outcome                                                             *)

Below(n) == Above(Elements(graph.parents[n]))

\* What is called is wanted and comes after all that is open, and no root is skipped.
ReachInv ==
  /\ Top \notin Nodes /\ calls[1].node = Top
  /\ \A p \in Nodes : In(p, graph.roots) => Pending(1, p)
  /\ \A j \in 1..Len(calls), p \in Nodes : In(p, calls[j].rest) => p \in Wanted
  /\ \A j \in 1..Len(calls), n \in Nodes : calls[j].node = n => n \in Wanted /\ n \in graph.usable
  /\ \A i, j \in 1..Len(calls), n, p \in Nodes :
       i <= j /\ calls[i].node = n /\ In(p, calls[j].rest) => p \in Below(n)
  /\ \A p \in Nodes : In(p, order) => p \in Wanted /\ p \in graph.usable

\* What is in a list of nodes, as a set.
LEMMA InElements ==
  ASSUME NEW S, NEW s \in Seq(S)
  PROVE  Elements(s) \subseteq S /\ \A p : p \in Elements(s) <=> In(p, s)
BY DEF Elements, In

\* Above(R) is the least closed set of nodes that R is in.
LEMMA AboveFacts ==
  ASSUME graph \in Graph, NEW R, R \subseteq Nodes
  PROVE  /\ R \subseteq Above(R) /\ Above(R) \subseteq Nodes
         /\ \A n \in Above(R), p \in Nodes : In(p, graph.parents[n]) => p \in Above(R)
         /\ \A S \in SUBSET Nodes : R \subseteq S /\ IsClosed(S) => Above(R) \subseteq S
<1>1. \A n \in Nodes, p \in Nodes : In(p, graph.parents[n]) => p \in Elements(graph.parents[n])
  BY InElements DEF Graph
<1>2. ASSUME NEW n \in Above(R), NEW p \in Nodes, In(p, graph.parents[n])
      PROVE  p \in Above(R)
  <2>1. n \in Nodes /\ p \in Elements(graph.parents[n])
    BY <1>1, <1>2 DEF Above
  <2>2. ASSUME NEW S \in SUBSET Nodes, R \subseteq S, IsClosed(S) PROVE p \in S
    <3>1. n \in S
      BY <2>2 DEF Above
    <3>. QED BY <2>1, <2>2, <3>1 DEF IsClosed
  <2>. QED BY <2>2 DEF Above
<1>. QED BY <1>2 DEF Above

\* What is above a node of the order is not after it.
LEMMA AboveIsBefore ==
  ASSUME WalkInv, NEW i \in 1..Len(order), NEW j \in 1..Len(order), order[j] \in Above({order[i]})
  PROVE  j <= i
<1>. DEFINE S == {order[k] : k \in 1..i}
<1>1. /\ graph \in Graph /\ order \in Seq(Nodes) /\ Len(order) \in Nat /\ DOMAIN order = 1..Len(order)
      /\ \A k \in 1..Len(order) : order[k] \in Nodes
  BY DEF WalkInv, Shape
<1>2. \A k \in 1..i : k \in 1..Len(order) /\ \A m \in 1..k - 1 : m \in 1..i
  BY <1>1
<1>3. S \in SUBSET Nodes /\ {order[i]} \subseteq S /\ {order[i]} \subseteq Nodes
  BY <1>1, <1>2
<1>4. IsClosed(S)
  <2>. SUFFICES ASSUME NEW k \in 1..i, NEW p \in Elements(graph.parents[order[k]]) PROVE p \in S
    BY DEF IsClosed
  <2>1. k \in 1..Len(order)
    BY <1>2
  <2>2. \E m \in 1..k - 1 : order[m] = p
    BY <1>1, <2>1, OrderedIsParentsFirst DEF ParentsFirst
  <2>. QED BY <1>2, <2>2
<1>. HIDE DEF S
<1>5. order[j] \in S
  BY <1>1, <1>3, <1>4, AboveFacts
<1>6. PICK k \in 1..i : order[k] = order[j]
  BY <1>5 DEF S
<1>7. k = j
  BY <1>1, <1>2, <1>6, OrderedIsParentsFirst DEF ParentsFirst
<1>. QED BY <1>1, <1>6, <1>7

\* What is above stays what it is while the graph does.
LEMMA AboveKept ==
  ASSUME graph' = graph
  PROVE  Wanted' = Wanted /\ \A n : Below(n)' = Below(n)
BY DEF Wanted, Below, Above, IsClosed, Elements

\* Before the first call every root is still to be called.
LEMMA ReachInit == GraphAssumption /\ WalkInit => ReachInv
<1>. SUFFICES ASSUME GraphAssumption, WalkInit PROVE ReachInv
  OBVIOUS
<1>1. /\ Top \notin Nodes /\ graph \in Graph /\ graph.roots \in Seq(Nodes)
      /\ Len(calls) = 1 /\ calls[1].node = Top /\ calls[1].rest = graph.roots /\ order = <<>>
  BY DEF GraphAssumption, WalkInit, Graph
<1>2. \A p \in Nodes : In(p, graph.roots) => p \in Wanted
  BY <1>1, InElements, AboveFacts DEF Wanted
<1>. QED BY <1>1, <1>2 DEF ReachInv, Pending, In

\* The list of what is to be called only gets shorter.
LEMMA ReachSkip ==
  ASSUME WalkInv, ReachInv, NEW n \in Nodes, Skip(n)
  PROVE  ReachInv'
<1>1. /\ Innermost.rest # <<>> /\ n = Head(Innermost.rest) /\ calls' = Called
      /\ graph' = graph /\ order' = order /\ In(n, order)
  BY DEF Skip, Calls, WalkInv, Closed, Elements, Shape, In
<1>2. /\ Len(calls') = Len(calls) /\ Len(calls) \in Nat /\ Len(calls) >= 1
      /\ \A i \in 1..Len(calls) : calls'[i].node = calls[i].node
      /\ \A i \in 1..Len(calls) : \A p : In(p, calls[i].rest) => p = n \/ In(p, calls'[i].rest)
      /\ \A i \in 1..Len(calls), p \in Nodes : In(p, calls'[i].rest) => In(p, calls[i].rest)
  BY <1>1, CalledFacts, CalledLess DEF WalkInv
<1>3. Wanted' = Wanted /\ \A m : Below(m)' = Below(m)
  BY <1>1, AboveKept
<1>4. ASSUME NEW p \in Nodes, In(p, graph.roots) PROVE Pending(1, p)'
  <2>1. Pending(1, p)
    BY <1>4 DEF ReachInv
  <2>2. 1 \in 1..Len(calls) /\ (1 < Len(calls) => 1 + 1 \in 1..Len(calls))
    BY <1>2
  <2>. QED BY <1>1, <1>2, <2>1, <2>2 DEF Pending
<1>. QED BY <1>1, <1>2, <1>3, <1>4 DEF ReachInv

\* A node that is entered is wanted, and so are its parents.
LEMMA ReachEnter ==
  ASSUME WalkInv, ReachInv, NEW n \in Nodes, Enter(n)
  PROVE  ReachInv'
<1>. DEFINE new == [node |-> n, rest |-> graph.parents[n]]
<1>. DEFINE top == Len(calls)
<1>1. /\ Innermost.rest # <<>> /\ n = Head(Innermost.rest) /\ calls' = Append(Called, new)
      /\ graph' = graph /\ order' = order /\ n \in graph.usable
  BY DEF Enter, Calls
<1>2. /\ Called \in Seq(Frame) /\ Len(Called) = top /\ top \in Nat /\ top >= 1
      /\ \A i \in 1..top : Called[i].node = calls[i].node
      /\ \A i \in 1..top : i < top => Called[i] = calls[i]
      /\ \A p : In(p, calls[top].rest) => p = n \/ In(p, Called[top].rest)
      /\ \A i \in 1..top, p \in Nodes : In(p, Called[i].rest) => In(p, calls[i].rest)
  <2>1. Shape
    BY DEF WalkInv
  <2>. HIDE DEF top
  <2>. QED BY <1>1, <2>1, CalledFacts, CalledLess DEF top
<1>3. /\ Len(calls') = top + 1
      /\ calls'[top + 1].node = n /\ calls'[top + 1].rest = graph.parents[n]
      /\ \A i \in 1..top : calls'[i].node = calls[i].node
      /\ \A i \in 1..top : i < top => calls'[i] = calls[i]
      /\ \A p : In(p, calls[top].rest) => p = n \/ In(p, calls'[top].rest)
      /\ \A i \in 1..top, p \in Nodes : In(p, calls'[i].rest) => In(p, calls[i].rest)
  <2>1. new \in Frame
    BY DEF WalkInv, Shape, Graph, Frame
  <2>. HIDE DEF new, top
  <2>2. /\ Len(calls') = top + 1 /\ calls'[top + 1] = new
        /\ \A i \in 1..top : calls'[i] = Called[i]
    BY <1>1, <1>2, <2>1
  <2>3. top \in 1..top
    BY <1>2
  <2>. QED BY <1>2, <2>2, <2>3 DEF new
<1>4. In(n, calls[top].rest)
  <2>1. Innermost = calls[top] /\ calls[top] \in Frame
    BY <1>2 DEF WalkInv, Shape, Innermost
  <2>2. calls[top].rest \in Seq(Nodes) /\ calls[top].rest # <<>> /\ n = calls[top].rest[1]
    BY <1>1, <2>1 DEF Frame
  <2>. QED BY <2>2 DEF In
<1>5. top \in 1..top /\ 1 \in 1..top /\ \A i \in 1..top + 1 : i \in 1..top \/ i = top + 1
  BY <1>2
<1>6. Wanted' = Wanted /\ \A m : Below(m)' = Below(m)
  BY <1>1, AboveKept
<1>7. /\ graph \in Graph /\ Elements(graph.roots) \subseteq Nodes
      /\ \A m \in Nodes : Elements(graph.parents[m]) \subseteq Nodes
      /\ \A m, p \in Nodes : In(p, graph.parents[m]) => p \in Elements(graph.parents[m])
  BY InElements DEF WalkInv, Shape, Graph
<1>8. n \in Wanted
  BY <1>4, <1>5 DEF ReachInv
<1>9. \A p \in Nodes : In(p, graph.parents[n]) => p \in Wanted /\ p \in Below(n)
  <2>1. \A p \in Nodes : In(p, graph.parents[n]) => p \in Wanted
    BY <1>7, <1>8, AboveFacts DEF Wanted
  <2>2. Elements(graph.parents[n]) \subseteq Below(n)
    BY <1>7, AboveFacts DEF Below
  <2>. QED BY <1>7, <2>1, <2>2
<1>10. \A m, p \in Nodes : n \in Below(m) /\ In(p, graph.parents[n]) => p \in Below(m)
  BY <1>7, AboveFacts DEF Below
<1>. HIDE DEF new, top
<1>11. ASSUME NEW p \in Nodes, In(p, graph.roots) PROVE Pending(1, p)'
  <2>1. Pending(1, p)
    BY <1>11 DEF ReachInv
  <2>2. \/ In(p, order) \/ In(p, calls'[1].rest)
        \/ 1 < top /\ p = calls[1 + 1].node
        \/ p = n /\ 1 = top
        \/ p = n /\ 1 < top /\ In(p, calls[1].rest)
    BY <1>2, <1>3, <1>5, <2>1 DEF Pending, top
  <2>3. 1 < top /\ In(p, calls[1].rest) => In(p, calls'[1].rest)
    BY <1>3, <1>5
  <2>4. 1 < top => calls'[1 + 1].node = calls[1 + 1].node /\ 1 + 1 \in 1..top
    BY <1>2, <1>3
  <2>. QED BY <1>1, <1>2, <1>3, <2>2, <2>3, <2>4 DEF Pending
<1>12. calls'[1].node = Top
  BY <1>3, <1>5 DEF ReachInv
<1>13. \A j \in 1..top + 1, p \in Nodes : In(p, calls'[j].rest) => p \in Wanted
  BY <1>3, <1>5, <1>9 DEF ReachInv, top
<1>14. \A j \in 1..top + 1, m \in Nodes : calls'[j].node = m => m \in Wanted /\ m \in graph.usable
  BY <1>1, <1>3, <1>5, <1>8 DEF ReachInv, top
<1>15. ASSUME NEW i \in 1..top + 1, NEW j \in 1..top + 1, NEW m \in Nodes, NEW p \in Nodes,
              i <= j, calls'[i].node = m, In(p, calls'[j].rest)
       PROVE  p \in Below(m)
  <2>1. CASE j \in 1..top
    <3>1. i \in 1..top
      BY <1>2, <1>15, <2>1
    <3>. QED BY <1>3, <1>15, <2>1, <3>1 DEF ReachInv, top
  <2>2. CASE j = top + 1 /\ i = top + 1
    BY <1>3, <1>9, <1>15, <2>2
  <2>3. CASE j = top + 1 /\ i \in 1..top
    <3>1. i <= top /\ calls[i].node = m
      BY <1>2, <1>3, <1>15, <2>3
    <3>2. n \in Below(m)
      BY <1>4, <1>5, <2>3, <3>1 DEF ReachInv, top
    <3>. QED BY <1>3, <1>10, <1>15, <2>3, <3>2
  <2>. QED BY <1>5, <2>1, <2>2, <2>3
<1>. QED BY <1>1, <1>3, <1>6, <1>11, <1>12, <1>13, <1>14, <1>15 DEF ReachInv

\* A node that is done was open, so it is wanted.
LEMMA ReachLeave ==
  ASSUME WalkInv, ReachInv, Leave
  PROVE  ReachInv'
<1>. DEFINE top == Len(calls)
<1>. DEFINE n == calls[top].node
<1>1. /\ top \in Nat /\ top >= 2 /\ calls[top].rest = <<>> /\ graph' = graph
      /\ calls' = SubSeq(calls, 1, top - 1) /\ order' = Append(order, n)
  BY DEF Leave, Innermost, Shape, WalkInv
<1>2. n \in Nodes /\ order \in Seq(Nodes)
  BY <1>1 DEF Shape, WalkInv
<1>3. /\ Len(calls') = top - 1
      /\ \A i \in 1..top - 1 : calls'[i] = calls[i] /\ i \in 1..top
  BY <1>1 DEF Shape, WalkInv
<1>4. \A p : In(p, order') <=> In(p, order) \/ p = n
  BY <1>1, <1>2, InAppend
<1>5. n \in Wanted /\ n \in graph.usable
  BY <1>1, <1>2 DEF ReachInv
<1>6. Wanted' = Wanted /\ \A m : Below(m)' = Below(m)
  BY <1>1, AboveKept
<1>7. ASSUME NEW p \in Nodes, In(p, graph.roots) PROVE Pending(1, p)'
  <2>1. Pending(1, p)
    BY <1>7 DEF ReachInv
  <2>2. \A t \in Nat : t >= 2 => 1 \in 1..t - 1 /\ (1 < t - 1 => 1 + 1 \in 1..t - 1)
                                 /\ (1 < t - 1 \/ 1 + 1 = t)
    OBVIOUS
  <2>. QED BY <1>1, <1>3, <1>4, <2>1, <2>2 DEF Pending
<1>8. 1 \in 1..top - 1
  BY <1>1
<1>. QED BY <1>1, <1>3, <1>4, <1>5, <1>6, <1>7, <1>8 DEF ReachInv

\* ReachInv is inductive.
LEMMA ReachNext == WalkInv /\ ReachInv /\ [WalkNext]_walkVars => ReachInv'
<1>. SUFFICES ASSUME WalkInv, ReachInv, [WalkNext]_walkVars PROVE ReachInv'
  OBVIOUS
<1>1. ASSUME UNCHANGED <<graph, calls, order>> PROVE ReachInv'
  BY <1>1, AboveKept DEF ReachInv, Pending
<1>. QED BY <1>1, ReachSkip, ReachEnter, ReachLeave DEF WalkNext, walkVars, FindCycle, Reject, WalkReturns

\* A step that ends the walk says what is true of the graph, and ends it for good.
LEMMA OutcomeNext ==
  ASSUME WalkInv, ReachInv, OutcomeIsRight, [WalkNext]_walkVars
  PROVE  OutcomeIsRight'
<1>1. CASE graph' = graph /\ outcome' = outcome /\ (order' = order \/ outcome = "walking")
  BY <1>1, AboveKept DEF OutcomeIsRight, OnCycle, Below
<1>2. /\ graph \in Graph /\ order \in Seq(Nodes) /\ Len(calls) \in Nat /\ Len(calls) >= 1
      /\ graph.roots \in Seq(Nodes) /\ \A n \in Nodes : graph.parents[n] \in Seq(Nodes)
  BY DEF WalkInv, Shape, Graph
<1>3. ASSUME NEW n \in Nodes, Calls(n)
      PROVE  n \in Wanted /\ In(n, calls[Len(calls)].rest)
  <2>1. Innermost = calls[Len(calls)] /\ calls[Len(calls)] \in Frame /\ Len(calls) \in 1..Len(calls)
    BY <1>2 DEF WalkInv, Shape, Innermost
  <2>2. calls[Len(calls)].rest \in Seq(Nodes) /\ calls[Len(calls)].rest # <<>>
        /\ n = calls[Len(calls)].rest[1]
    BY <1>3, <2>1 DEF Frame, Calls
  <2>3. In(n, calls[Len(calls)].rest)
    BY <2>2 DEF In
  <2>. QED BY <2>1, <2>3 DEF ReachInv
<1>4. ASSUME NEW n \in Nodes, FindCycle(n) PROVE OutcomeIsRight'
  <2>1. PICK i \in 1..Len(calls) : calls[i].node = n
    BY <1>4 DEF FindCycle, Open, WalkInv, Shape
  <2>2. n \in Wanted /\ n \in Below(n)
    <3>1. i <= Len(calls) /\ Len(calls) \in 1..Len(calls)
      BY <1>2
    <3>. QED BY <1>3, <1>4, <2>1, <3>1 DEF ReachInv, FindCycle
  <2>3. Wanted' = Wanted /\ Below(n)' = Below(n) /\ outcome' = "cycle"
    BY <1>4, AboveKept DEF FindCycle
  <2>. QED BY <2>2, <2>3 DEF OutcomeIsRight, OnCycle, Below
<1>5. ASSUME NEW n \in Nodes, Reject(n) PROVE OutcomeIsRight'
  <2>1. n \in Wanted /\ n \notin graph.usable
    BY <1>3, <1>5 DEF Reject
  <2>2. Wanted' = Wanted /\ graph' = graph /\ outcome' = "unusable"
    BY <1>5, AboveKept DEF Reject
  <2>. QED BY <2>1, <2>2 DEF OutcomeIsRight
<1>6. CASE WalkReturns
  <2>1. /\ Len(calls) = 1 /\ calls[1].rest = <<>> /\ outcome' = "ok" /\ graph' = graph /\ order' = order
    BY <1>6 DEF WalkReturns, Innermost
  <2>2. \A p \in Nodes : p \in Elements(order) <=> In(p, order)
    BY <1>2, InElements
  <2>3. \A p \in Nodes : In(p, graph.roots) => In(p, order)
    BY <2>1 DEF ReachInv, Pending, In
  <2>4. Elements(order) \subseteq Nodes /\ Elements(graph.roots) \subseteq Nodes
        /\ Elements(graph.roots) \subseteq Elements(order)
    BY <1>2, <2>2, <2>3, InElements
  <2>5. ASSUME NEW k \in 0..Len(order) PROVE IsClosed({order[j] : j \in 1..k})
    <3>1. ASSUME NEW i \in 1..k, NEW p \in Elements(graph.parents[order[i]])
          PROVE  \E j \in 1..k : order[j] = p
      <4>1. i \in 1..Len(order) /\ order[i] \in Nodes
        BY <1>2
      <4>2. p \in Nodes /\ In(p, graph.parents[order[i]])
        BY <1>2, <3>1, <4>1, InElements
      <4>3. PICK j \in 1..i - 1 : order[j] = p
        BY <4>1, <4>2 DEF WalkInv, Ordered
      <4>. QED BY <1>2, <4>3
    <3>. QED BY <3>1 DEF IsClosed
  <2>6. Elements(order) = {order[j] : j \in 1..Len(order)}
    BY <1>2 DEF Elements
  <2>7. IsClosed(Elements(order))
    <3>1. Len(order) \in 0..Len(order)
      BY <1>2
    <3>. QED BY <2>5, <2>6, <3>1
  <2>8. Wanted \subseteq Elements(order)
    BY <1>2, <2>4, <2>7, AboveFacts DEF Wanted
  <2>9. Elements(order) \subseteq Wanted /\ Elements(order) \subseteq graph.usable
    BY <2>2, <2>4 DEF ReachInv
  <2>10. ASSUME NEW n \in Wanted PROVE ~OnCycle(n)
    <3>1. PICK i \in 1..Len(order) : order[i] = n
      BY <2>6, <2>8
    <3>2. n \in Nodes /\ i - 1 \in 0..Len(order)
      BY <1>2, <3>1
    <3>. DEFINE S == {order[j] : j \in 1..i - 1}
    <3>3. S \in SUBSET Nodes
      BY <1>2
    <3>4. IsClosed(S)
      BY <2>5, <3>2
    <3>5. n \notin S
      BY <1>2, <3>1 DEF WalkInv, Ordered
    <3>6. Elements(graph.parents[n]) \subseteq S /\ Elements(graph.parents[n]) \subseteq Nodes
      <4>1. \A p \in Elements(graph.parents[n]) : p \in Nodes /\ In(p, graph.parents[n])
        BY <1>2, <3>2, InElements
      <4>. QED BY <3>1, <4>1 DEF WalkInv, Ordered
    <3>. HIDE DEF S
    <3>. QED BY <1>2, <3>3, <3>4, <3>5, <3>6, AboveFacts DEF OnCycle
  <2>11. Wanted' = Wanted /\ \A n : OnCycle(n)' = OnCycle(n)
    BY <2>1, AboveKept DEF OnCycle, Below
  <2>. QED BY <2>1, <2>8, <2>9, <2>10, <2>11 DEF OutcomeIsRight
<1>. QED BY <1>1, <1>4, <1>5, <1>6
     DEF WalkNext, walkVars, Skip, Enter, Leave, Calls

(***************************************************************************)
(* Whatever the graph, the walk says what is on disk: it succeeds with     *)
(* exactly the wanted nodes, usable and on no cycle, and a cycle or an     *)
(* unusable node that it reports is one (orderRepositories,                *)
(* collectProfile).                                                        *)
(***************************************************************************)
THEOREM WalkOutcome ==
  ASSUME GraphAssumption
  PROVE  WalkSpec => []OutcomeIsRight
<1>1. WalkInit => WalkInv /\ ReachInv /\ OutcomeIsRight
  BY WalkInitInv, ReachInit DEF WalkInit, OutcomeIsRight
<1>2. WalkInv /\ ReachInv /\ OutcomeIsRight /\ [WalkNext]_walkVars
        => (WalkInv /\ ReachInv /\ OutcomeIsRight)'
  BY WalkNextInv, ReachNext, OutcomeNext
<1>. QED BY <1>1, <1>2, PTL DEF WalkSpec
=============================================================================
