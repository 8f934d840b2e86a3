------------------------------ MODULE DepthFirst ------------------------------
(***************************************************************************)
(* The walk that puts what others inherit from before what inherits:       *)
(* orderRepositories over the masters of repositories (repositories.go)    *)
(* and collectProfile over the parents of profiles (profile.go).  A frame  *)
(* of the recursion is a node and those of its parents it has not called   *)
(* yet; the frame at the bottom calls the roots.                           *)
(***************************************************************************)
EXTENDS Naturals, Sequences, FiniteSets

CONSTANTS
  Nodes,   \* repositories, or profile directories
  Top,     \* no node: the caller of the walk
  Graphs   \* what may be on disk: parents of each node, roots, usable nodes

Elements(s) == {s[i] : i \in DOMAIN s}

GraphAssumption ==
  /\ IsFiniteSet(Nodes) /\ Top \notin Nodes
  /\ Graphs \subseteq [parents : [Nodes -> Seq(Nodes)], roots : Seq(Nodes), usable : SUBSET Nodes]

VARIABLES
  graph,
  calls,    \* the frames of the recursion, the innermost last
  order,    \* the nodes whose call has returned
  outcome   \* "walking", "ok", "cycle" or "unusable"

walkVars == <<graph, calls, order, outcome>>

WalkInit ==
  /\ graph \in Graphs
  /\ calls = <<[node |-> Top, rest |-> graph.roots]>>
  /\ order = <<>>
  /\ outcome = "walking"

Innermost == calls[Len(calls)]
\* state 1, or stack[path]
Open(n) == \E i \in DOMAIN calls : calls[i].node = n
\* state 2, or seen[path]
Closed(n) == n \in Elements(order)
Called == [calls EXCEPT ![Len(calls)].rest = Tail(@)]

Calls(n) == outcome = "walking" /\ Innermost.rest # <<>> /\ n = Head(Innermost.rest)

\* Defect: a node whose call is still open is skipped like one that is done.
CycleSkipped(n) ==
  /\ Calls(n) /\ Open(n)
  /\ calls' = Called
  /\ UNCHANGED <<graph, order, outcome>>

FindCycle(n) ==
  /\ Calls(n) /\ Open(n)
  /\ outcome' = "cycle"
  /\ UNCHANGED <<graph, calls, order>>

Skip(n) ==
  /\ Calls(n) /\ ~Open(n) /\ Closed(n)
  /\ calls' = Called
  /\ UNCHANGED <<graph, order, outcome>>

\* A master that is not configured; a parent that escapes the repositories, is
\* no directory or has an unreadable or malformed file.
Reject(n) ==
  /\ Calls(n) /\ ~Open(n) /\ ~Closed(n) /\ n \notin graph.usable
  /\ outcome' = "unusable"
  /\ UNCHANGED <<graph, calls, order>>

\* Defect: a node is put in the order when it is entered.
EnterFirst(n) ==
  /\ Calls(n) /\ ~Open(n) /\ ~Closed(n) /\ n \in graph.usable
  /\ calls' = Append(Called, [node |-> n, rest |-> graph.parents[n]])
  /\ order' = Append(order, n)
  /\ UNCHANGED <<graph, outcome>>

Enter(n) ==
  /\ Calls(n) /\ ~Open(n) /\ ~Closed(n) /\ n \in graph.usable
  /\ calls' = Append(Called, [node |-> n, rest |-> graph.parents[n]])
  /\ UNCHANGED <<graph, order, outcome>>

Leave ==
  /\ outcome = "walking" /\ Innermost.rest = <<>> /\ Len(calls) > 1
  /\ order' = Append(order, Innermost.node)
  /\ calls' = SubSeq(calls, 1, Len(calls) - 1)
  /\ UNCHANGED <<graph, outcome>>

WalkReturns ==
  /\ outcome = "walking" /\ Innermost.rest = <<>> /\ Len(calls) = 1
  /\ outcome' = "ok"
  /\ UNCHANGED <<graph, calls, order>>

WalkNext ==
  \/ \E n \in Nodes : FindCycle(n) \/ Skip(n) \/ Reject(n) \/ Enter(n)
  \/ Leave \/ WalkReturns

WalkSpec == WalkInit /\ [][WalkNext]_walkVars

-----------------------------------------------------------------------------
(* Properties                                                              *)

IsClosed(S) == \A n \in S : Elements(graph.parents[n]) \subseteq S
\* the nodes that a walk from the nodes of R has to come to
Above(R) == {n \in Nodes : \A S \in SUBSET Nodes : R \subseteq S /\ IsClosed(S) => n \in S}
Wanted == Above(Elements(graph.roots))
OnCycle(n) == n \in Above(Elements(graph.parents[n]))

\* The type invariant of the walk.
WalkTypeOK ==
  /\ graph \in Graphs
  /\ calls \in Seq([node : Nodes \cup {Top}, rest : Seq(Nodes)]) /\ Len(calls) \in 1..Cardinality(Nodes) + 1
  /\ order \in Seq(Nodes)
  /\ outcome \in {"walking", "ok", "cycle", "unusable"}

(***************************************************************************)
(* "Masters before children", "root-to-leaf": at any time what is in the   *)
(* order comes after all its parents, and comes once, diamonds or not.     *)
(***************************************************************************)
ParentsFirst ==
  \A i \in DOMAIN order :
    /\ \A p \in Elements(graph.parents[order[i]]) : \E j \in 1..i - 1 : order[j] = p
    /\ \A j \in DOMAIN order : order[j] = order[i] => j = i

(***************************************************************************)
(* The walk says what is on disk: it succeeds with exactly the nodes it    *)
(* was asked for, all usable and none on a cycle; a cycle it reports is    *)
(* one, and so is a node that cannot be used.                              *)
(***************************************************************************)
OutcomeIsRight ==
  /\ outcome = "ok" => Elements(order) = Wanted /\ Wanted \subseteq graph.usable
                       /\ \A n \in Wanted : ~OnCycle(n)
  /\ outcome = "cycle" => \E n \in Wanted : OnCycle(n)
  /\ outcome = "unusable" => ~(Wanted \subseteq graph.usable)

=============================================================================
