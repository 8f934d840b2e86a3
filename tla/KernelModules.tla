---------------------------- MODULE KernelModules ----------------------------
(***************************************************************************)
(* ReadInstalledKernelModules (kernel_modules.go): the packages of an      *)
(* inventory that own kernel modules, and whether they must be built again *)
(* for a kernel.  CONTENTS of a version is a set of lines, <<kind, path>>; *)
(* a path is the sequence of its components.                               *)
(***************************************************************************)
EXTENDS InstalledScan, SequencesExt

CONSTANTS
  Targets,      \* InstalledKernelModuleOptions.TargetKernelRelease; "" is none
  ModuleNames,  \* file names with the suffix of a kernel module
  Lines,        \* Lines[t][v]: the lines of CONTENTS of version v of record t
  Inherits      \* Inherits[t][v]: does INHERITED of version v name a linux-mod eclass?

INHERITED == "INHERITED"
VersionNumbers == 1..MaxChange + 1

IsLine(line) == line[1] \in {"obj", "sym", "dir"} /\ line[2] \in Seq(STRING) \ {<<>>}

ASSUME ModuleAssumption ==
  /\ INHERITED \in FileSet /\ "kernel" \notin ModuleNames
  /\ \A t \in Records, v \in VersionNumbers : \A line \in Lines[t][v] : IsLine(line)
  /\ Inherits \in [Records -> [VersionNumbers -> BOOLEAN]]

\* moduleKernelRelease: the component after modules, in /lib or /usr/lib
ReleaseAt(path) == IF path[1] = "usr" THEN 4 ELSE 3
moduleKernelRelease(path) == path[ReleaseAt(path)]
IsModule(path) ==
  /\ Last(path) \in ModuleNames
  /\ Len(path) > ReleaseAt(path)
  /\ path[1] = "lib" \/ (path[1] = "usr" /\ path[2] = "lib")
  /\ path[ReleaseAt(path) - 1] = "modules"

\* the kernel's own modules, wherever the three components are
inTreeKernelModule(path, release) ==
  \E i \in 1..Len(path) - 3 : SubSeq(path, i, i + 2) = <<"modules", release, "kernel">>

\* Defect: the kernel's own modules count.
moduleFilesOfAll(lines) == {l[2] : l \in {k \in lines : k[1] = "obj" /\ IsModule(k[2])}}

moduleFilesFromContents(lines) ==
  LET modules == {l[2] : l \in {k \in lines : k[1] = "obj" /\ IsModule(k[2])}}
  IN {path \in modules : ~inTreeKernelModule(path, moduleKernelRelease(path))}

\* A field that is empty names nothing.
LinesOf(t) == IF value[t][CONTENTS] = 0 THEN {} ELSE Lines[t][value[t][CONTENTS]]
Modules(t) == moduleFilesFromContents(LinesOf(t))
LinuxMod(t) == value[t][INHERITED] # 0 /\ Inherits[t][value[t][INHERITED]]

hasModuleForKernel(modules, release) == \E path \in modules : moduleKernelRelease(path) = release

Rebuild(modules, target) ==
  IF modules = {} THEN "no_module_artifacts"
  ELSE IF target = "" THEN "not_evaluated"
  ELSE IF hasModuleForKernel(modules, target) THEN "current"
  ELSE "target_missing"

ClassifyInstalledKernelModules(target) ==
  {[package |-> t, rebuild |-> Rebuild(Modules(t), target)] :
     t \in {u \in Packages : LinuxMod(u) \/ Modules(u) # {}}}

(***************************************************************************)
(* The packages that must be built again for the target are those that     *)
(* owned modules, and none for the target, at one instant: those of the    *)
(* database at the end of the reading, but for packages with an issue.     *)
(* The kernel's own modules never count.                                   *)
(***************************************************************************)
Places == {<<"lib", "modules">>, <<"usr", "lib", "modules">>}

OwnModules(lines, place) ==
  {path \in {l[2] : l \in {k \in lines : k[1] = "obj"}} :
     /\ Last(path) \in ModuleNames
     /\ IsStrictPrefix(place, path) /\ Len(path) > Len(place) + 1
     /\ path[Len(place) + 2] # "kernel"}

OwnReleases(lines) ==
  UNION {{path[Len(p) + 1] : path \in OwnModules(lines, p)} : p \in Places}

MustRebuild(t, target) ==
  /\ t \in boundary.dir /\ boundary.file[t][CONTENTS] # 0
  /\ LET own == OwnReleases(Lines[t][boundary.file[t][CONTENTS]]) IN own # {} /\ target \notin own

RebuildsAreFound ==
  Answered /\ request.includeContents =>
    \A t \in Records, target \in Targets \ {""} :
      ~HasIssue(t) /\ Unchanged(CategoryOf[t]) =>
        ([package |-> t, rebuild |-> "target_missing"] \in ClassifyInstalledKernelModules(target)
           <=> MustRebuild(t, target))

(***************************************************************************)
(* A module is in one directory that is named modules.  Where that does    *)
(* not hold the code takes one that lies under /modules/RELEASE/kernel     *)
(* further down for the kernel's own.                                      *)
(***************************************************************************)
IsPlain(path) ==
  \A i, j \in 1..Len(path) : path[i] = "modules" /\ path[j] = "modules" => i = j

PlainPaths ==
  \A t \in Records, v \in VersionNumbers : \A line \in Lines[t][v] :
    line[1] = "obj" /\ IsModule(line[2]) => IsPlain(line[2])
=============================================================================
