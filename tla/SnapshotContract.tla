--------------------------- MODULE SnapshotContract ---------------------------
(***************************************************************************)
(* What ReadSystemSnapshot gives its caller (snapshot.go, the comments of  *)
(* SystemSnapshot and ReadSystemSnapshot): a successful call returns the   *)
(* state of the system at one instant between its call and its outcome.    *)
(* ErrConcurrentMutation is returned only when that state changed, or      *)
(* when what was asked for can be listed in more than one order: the       *)
(* comments promise the former alone, and candidates that compare equal    *)
(* are listed as their readers deliver them.  The system changes as it     *)
(* likes; how the call reads it is not said.                               *)
(***************************************************************************)
EXTENDS Naturals

CONSTANTS
  Slots,     \* the pieces of a snapshot
  CellOf,    \* CellOf[s]: the piece of system state that slot s reports
  Contents,  \* what a cell may hold
  Orders,    \* Orders[s][v]: the orders in which slot s may list content v
  NoView     \* the view of a call that has not succeeded

VARIABLES
  disk,      \* disk[c]: content of cell c
  window,    \* the states of the system from the call to its outcome
  status,    \* "idle", "running", "ok", "changed" or "error"
  wanted,    \* the slots the caller asked for
  view       \* the snapshot returned

vars == <<disk, window, status, wanted, view>>

StateCells == {CellOf[s] : s \in Slots}

\* What snapshots of the wanted slots may show of state d.
ViewsOf(d) ==
  {v \in [wanted -> [content : Contents, order : Nat]] :
     \A s \in wanted : v[s].content = d[CellOf[s]] /\ v[s].order \in Orders[s][v[s].content]}

\* Is there more than one order for something that is wanted of state d?
Varies(d) == \E s \in wanted : \E a, b \in Orders[s][d[CellOf[s]]] : a # b

Init ==
  /\ disk \in [StateCells -> Contents]
  /\ window = {disk}
  /\ status = "idle"
  /\ wanted \in SUBSET Slots
  /\ view = NoView

Change ==
  /\ disk' \in [StateCells -> Contents]
  /\ window' = CASE status = "idle" -> {disk'}
                 [] status = "running" -> window \cup {disk'}
                 [] OTHER -> window
  /\ UNCHANGED <<status, wanted, view>>

Begin ==
  /\ status = "idle" /\ status' = "running"
  /\ UNCHANGED <<disk, window, wanted, view>>

Succeed ==
  /\ status = "running" /\ status' = "ok"
  /\ \E d \in window : view' \in ViewsOf(d)
  /\ UNCHANGED <<disk, window, wanted>>

\* ErrConcurrentMutation
Changed ==
  /\ status = "running" /\ status' = "changed"
  /\ \/ \E d, e \in window : d # e
     \/ \E d \in window : Varies(d)
  /\ UNCHANGED <<disk, window, wanted, view>>

Fail ==
  /\ status \in {"idle", "running"} /\ status' = "error"
  /\ UNCHANGED <<disk, window, wanted, view>>

Next == Change \/ Begin \/ Succeed \/ Changed \/ Fail

Spec == Init /\ [][Next]_vars
=============================================================================
