--------------------------- MODULE MCCandidateScan ---------------------------
(***************************************************************************)
(* Instances of CandidateScan: three files in two repositories, of which   *)
(* the one that is listed first has the greater name.  The clean scenes    *)
(* vary the versions, the others what can be wrong with the caches.        *)
(***************************************************************************)
EXTENDS CandidateScan

MCPower == [n \in 0..6 |-> 10^n]
MCRepositories == <<2, 1>>
MCEntries == {1, 2, 3}
MCRepository == <<2, 2, 1>>

N(width, value) == [width |-> width, value |-> value]
V(numbers, letter, suffixes, revision) ==
  [numbers |-> numbers, letter |-> letter, suffixes |-> suffixes, revision |-> revision]
Plain(numbers) == V(numbers, 0, <<>>, Empty)
One == <<N(1, 1)>>
OneDot(width, value) == Plain(<<N(1, 1), N(width, value)>>)
OneWith(rank, number) == V(One, 0, <<[rank |-> rank, number |-> number]>>, Empty)
OneRevised(revision) == V(One, 0, <<>>, revision)

\* 1, 1.9, 1.10, 1.010, 1.08, 1.0, 1b, 1_alpha, 1_p, 1-r1 and a revision that is no int
Pool ==
  << Plain(One), OneDot(1, 9), OneDot(2, 10), OneDot(3, 10), OneDot(2, 8), OneDot(1, 0),
     V(One, 2, <<>>, Empty), OneWith(-4, Empty), OneWith(1, Empty),
     OneRevised(N(1, 1)), OneRevised(N(2, 99)) >>

Scene(versions, root, directory, kind, present) ==
  [repository |-> MCRepository, category |-> <<1, 2, 1>>,
   id |-> [e \in MCEntries |-> [cp |-> 1, version |-> versions[e], slot |-> 1, subslot |-> 1]],
   root |-> root, directory |-> directory, kind |-> kind, present |-> present]

AllRoots == [r \in {1, 2} |-> "directory"]
AllDirectories == [p \in {1, 2} \X {1, 2} |-> "directory"]
AllGood == <<"good", "good", "good">>

\* Every three versions, and two in one repository with one of them in the other.
Triples ==
  {t \in (DOMAIN Pool) \X (DOMAIN Pool) \X (DOMAIN Pool) :
     t[1] < t[2] /\ (t[2] < t[3] \/ (t[2] = t[1] + 1 /\ t[3] = t[1]))}
CleanScenes ==
  {Scene(<<Pool[t[1]], Pool[t[2]], Pool[t[3]]>>, AllRoots, AllDirectories, AllGood, {1, 2, 3}) :
     t \in Triples}

Some == <<Pool[2], Pool[3], Pool[3]>>
Caches(root, directory, kind) == Scene(Some, root, directory, kind, {1, 2, 3})

\* Files of every defect, that change; repositories and categories that cannot be listed.
FaultScenes ==
  {Caches(AllRoots, AllDirectories, kind) :
     kind \in {AllGood, <<"bare", "nameless", "good">>, <<"unreadable", "symlink", "directory">>}}
  \cup {Scene(Some, AllRoots, AllDirectories, AllGood, {1, 3})}
BrokenScenes ==
  {Caches([AllRoots EXCEPT ![2] = kind], AllDirectories, AllGood) : kind \in RootKind}
  \cup {Caches(AllRoots, [AllDirectories EXCEPT ![<<2, 2>>] = kind], AllGood) : kind \in CategoryKind}

MCScenes == CleanScenes \cup FaultScenes \cup BrokenScenes
MCUnsteady == FaultScenes

MCRequests ==
  { [integrity |-> "complete", workers |-> 2], [integrity |-> "partial", workers |-> 0],
    [integrity |-> "partial", workers |-> -1], [integrity |-> "unknown", workers |-> 1] }

\* 1.0 and 1.00 in one repository.
TiedScenes ==
  {Scene(<<OneDot(1, 0), OneDot(2, 0), Pool[1]>>, AllRoots, AllDirectories, AllGood, {1, 2, 3})}
OneRequest == {[integrity |-> "complete", workers |-> 2]}
=============================================================================
