---------------------------- MODULE MCStateLocks ----------------------------
(***************************************************************************)
(* Instances of StateLocks: two lock files, a snapshot reader of both, a   *)
(* selection reader of the world lock (ReadSelections), a snapshot reader  *)
(* whose VDB and world share one lock file.                                *)
(***************************************************************************)
EXTENDS StateLocks

MCPaths == {"vdb", "world"}

\* A snapshot and a selection reader beside one writer.
TwoReaders == {"snapshot", "selections"}
TwoRequested == [snapshot |-> <<"vdb", "world">>, selections |-> <<"world">>]

\* Two snapshot readers, one of them with equal VDB and world lock paths.
AliasReaders == {"snapshot", "alias"}
AliasRequested == [snapshot |-> <<"vdb", "world">>, alias |-> <<"vdb", "vdb">>]

OneWriter == {"portage"}
SortedOrder == [portage |-> <<"vdb", "world">>]
OppositeOrder == [portage |-> <<"world", "vdb">>]
=============================================================================
