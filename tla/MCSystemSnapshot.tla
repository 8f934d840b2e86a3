--------------------------- MODULE MCSystemSnapshot ---------------------------
(***************************************************************************)
(* Instances of SystemSnapshot: one cell of state for the VDB, the world   *)
(* file, the profile and the repository metadata; the profile is read      *)
(* twice, as configuration and again for the system selections.  With      *)
(* locks, the two cells that they protect.                                 *)
(***************************************************************************)
EXTENDS SystemSnapshot

MCPaths == {"vdb.lock", "world.lock"}
MCCaller == "snapshot"
MCRequested == [r \in Readers |->
  IF r = "snapshot" THEN <<"vdb.lock", "world.lock">> ELSE <<"world.lock">>]
MCWriterOrder == [w \in Writers |-> <<"vdb.lock", "world.lock">>]

\* Nothing is locked.
TreeLockOf == [vdb |-> "vdb.lock", world |-> NoLock, profile |-> NoLock, tree |-> NoLock]
TreeCells == DOMAIN TreeLockOf
TreeCellOf == [pkgs |-> "vdb", conf |-> "profile", cand |-> "tree", sel |-> "world",
               sys |-> "profile"]
TreeSlots == DOMAIN TreeCellOf
TreeStageOf == [pkgs |-> "installed", conf |-> "config", cand |-> "candidates",
                sel |-> "world", sys |-> "system"]

\* Of the later content of the cache, two candidates compare equal.
TreeOrders == [s \in TreeSlots |-> [v \in Contents |->
  IF s = "cand" /\ v = 1 THEN {0, 1} ELSE {0}]]

\* Two cells only: the VDB and the world file.
PairLockOf == [vdb |-> "vdb.lock", world |-> "world.lock"]
PairCells == DOMAIN PairLockOf
PairCellOf == [pkgs |-> "vdb", sel |-> "world"]
PairSlots == DOMAIN PairCellOf
PairStageOf == [pkgs |-> "installed", sel |-> "world"]
PairOrders == [s \in PairSlots |-> [v \in Contents |-> {0}]]

Requesting(modes, attempts, candidates) ==
  [mode : modes, attempts : attempts, candidates : candidates]
LocklessRequests ==
  Requesting({"lockless"}, {0}, {FALSE}) \cup Requesting({"lockless"}, {2}, {TRUE})
InvalidRequests == Requesting({"locked"}, {1}, {FALSE}) \cup Requesting({"unknown"}, {2}, {FALSE})
MixedRequests == LocklessRequests \cup InvalidRequests
LockedRequests == Requesting({"locked"}, {2}, {FALSE}) \cup Requesting({"lockless"}, {0}, {FALSE})

\* Contents that may come back are interchangeable: one initial disk is enough.
ZeroInit ==
  /\ Init
  /\ disk = [c \in Cells |-> 0]
  /\ request.mode = "lockless" => \A p \in Paths : file[p] = "present"

\* No lock matters to a lockless call: beside it writers need not take any.
LocksMatter == request.mode = "lockless" => UNCHANGED writerVars

ZeroSpec == ZeroInit /\ [][Next]_vars /\ Fairness
=============================================================================
