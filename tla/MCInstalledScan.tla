--------------------------- MODULE MCInstalledScan ---------------------------
(***************************************************************************)
(* Instances of KernelModules, over InstalledScan: two records of CONTENTS,*)
(* one required and one optional file, in one category or in two.          *)
(***************************************************************************)
EXTENDS KernelModules

MCCategories == {11, 12}
MCRecords == {1, 2}
MCCategoryOf == <<11, 12>>
MCRequired == <<"SLOT">>
MCOptional == <<"INHERITED">>
MCDefects ==
  {<<"none", "none">>, <<"corrupt", "malformed">>, <<"invalid", "none">>, <<"odd", "irregular">>}

MCRequests ==
  { [integrity |-> "complete", workers |-> 2, includeContents |-> TRUE],
    [integrity |-> "partial", workers |-> 0, includeContents |-> FALSE],
    [integrity |-> "unknown", workers |-> 1, includeContents |-> FALSE],
    [integrity |-> "partial", workers |-> -1, includeContents |-> FALSE] }

File(place, name) == <<"obj", place \o <<name>> >>
Lib(release) == <<"lib", "modules", release>>
UsrLib(release) == <<"usr">> \o Lib(release)

\* The first record owns a module for the old kernel and gets one for the new,
\* the second has the kernel's own, then one of its own.
MCLines ==
  << << {File(Lib("old") \o <<"extra">>, "a.ko"), <<"dir", Lib("old")>>},
        {File(Lib("new"), "a.ko"), File(<<"lib", "a.ko">>, "old")} >>,
     << {File(UsrLib("old") \o <<"kernel">>, "a.ko"), File(<<"usr", "lib", "modules">>, "a.ko")},
        {File(UsrLib("old") \o <<"misc">>, "b.ko"), <<"sym", UsrLib("new") \o <<"b.ko">> >>,
         File(Lib("new") \o <<"kernel">>, "a.ko")} >> >>
MCInherits == << <<TRUE, FALSE>>, <<FALSE, TRUE>> >>

\* The instance is one the theorem about KernelModules is about.
ASSUME PathsArePlain == PlainPaths
=============================================================================
