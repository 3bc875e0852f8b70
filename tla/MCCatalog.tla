----------------------------- MODULE MCCatalog -----------------------------
(* Instances of CatalogQuestions for TLC. *)
EXTENDS CatalogQuestions

Numbers(n) == UNION {[1 .. i -> 0 .. 2] : i \in 0 .. n}
MCTexts == {Text(v) : v \in Numbers(3)} \cup {WithEpoch(e, <<2, 1>>) : e \in 0 .. 1}

Strategy == {"APT", "DNF", "OFFICIAL_REPOSITORY", "PIP", "NPM"}
Declared == {<<s>> : s \in Strategy} \cup {<<s, r>> : s, r \in Strategy}
               \cup {<<"PIP", "SIGNED_BINARY", s>> : s \in Strategy}

Mapped(strategies) == [s \in ToSet(strategies) |-> "package"]

MCTools ==
  {[strategies |-> s, mappings |-> Mapped(s), distributions |-> d, architectures |-> a,
    minimum |-> m, recommended |-> None] :
     s \in Declared, d \in {{}, {"DEBIAN"}}, a \in {{}, {"x86_64"}}, m \in {None, Text(<<2, 0>>)}}
MCSystems ==
  [manager : {"APT", "DNF", "UNKNOWN"}, family : {"DEBIAN", "REDHAT"},
   architecture : {"x86_64", "aarch64"}]
MCPackages ==
  {[installed |-> FALSE, version |-> None]} \cup
  {[installed |-> TRUE, version |-> v] :
     v \in {None, Text(<<1, 9>>), Text(<<2>>), Text(<<2, 1>>), WithEpoch(1, <<2, 1>>)}}

\* git has no recommended version, docker has; the third is in no registry.
MCDefinitions ==
  [t \in {"git", "docker"} |->
     [recommended |-> IF t = "docker" THEN Text(<<2, 0>>) ELSE None]]
Ids == {"git", "docker", "gone"}
MCProfiles ==
  {<<t>> : t \in Ids} \cup {<<t, u>> : t, u \in Ids} \cup {<<"git", "docker", "gone">>}
MCProfileLists ==
  {<< >>} \cup {<<p>> : p \in MCProfiles} \cup (MCProfiles \X MCProfiles \X MCProfiles)
MCCommands ==
  {[exit |-> e, printed |-> None] : e \in {"none", "127"}} \cup
  {[exit |-> "ran", printed |-> v] : v \in {None, Text(<<1, 9>>), Text(<<2>>), WithEpoch(1, <<2, 1>>)}}

\* Tool files: any one, alone or beside a valid or unreadable one.
ToolFile(yaml, id, strategies, mappings, minimum, others) ==
  [yaml |-> yaml, id |-> id, strategies |-> strategies, mappings |-> mappings,
   minimum |-> minimum, recommended |-> Quoted(None), othersValid |-> others]
Keys == {"APT", "PIP", "HOMEBREW"}
AnyToolFile ==
  {ToolFile("mapping", id, s, m, v, o) :
     id \in {"git", BadId},
     s \in {<<>>, <<"APT">>, <<"PIP", "APT">>, <<"HOMEBREW">>},
     m \in UNION {[k -> {"package", "blank"}] : k \in SUBSET Keys},
     v \in {Quoted(None), Quoted(Text(<<2, 0>>)), Unquoted(Text(<<2, 0>>))},
     o \in BOOLEAN}
Plain(yaml, id) ==
  ToolFile(yaml, id, <<"APT">>, Mapped(<<"APT">>), Quoted(None), TRUE)
OtherToolFile ==
  {Plain("mapping", "git"), Plain("mapping", "docker"), Plain("mapping", BadId)}
  \cup {Plain(y, "git") : y \in {"broken", "empty", "scalar"}}
MCToolFiles ==
  {<< >>} \cup {<<f>> : f \in AnyToolFile} \cup {<<f, g>> : f \in AnyToolFile, g \in OtherToolFile}

ProfileFile(id, tools, others) ==
  [yaml |-> "mapping", id |-> id, tools |-> tools, othersValid |-> others]
MCProfileFiles ==
  {<<ProfileFile("developer", ts, o)>> :
     ts \in {<<>>, <<"git">>, <<"docker", "git">>, <<"git", "gone">>}, o \in BOOLEAN}
  \cup {<<ProfileFile("developer", <<"git">>, TRUE), ProfileFile(id, <<"docker">>, TRUE)>> :
           id \in {"developer", "devops", BadId}}

\* Machines with any package managers, of a known family, a derivative, or
\* something else.
Releases == [id : {"ubuntu", "fedora", "custom"}, like : {<<>>, <<"custom", "ubuntu", "fedora">>}]
MCMachines ==
  [programs : SUBSET {"apt-get", "apt", "dnf", "pacman", "zypper"},
   etc : {{}} \cup {{r} : r \in Releases}, usrlib : {{}, {[id |-> "arch", like |-> <<>>]}},
   architecture : {"x86_64"}]

Settings == {Number(n) : n \in {-1, 0, 70, 80, 85, 90, 95, 100, 101}} \cup {NotANumber}
Tables == UNION {[k -> Settings] : k \in SUBSET Threshold}
MCConfigFiles ==
  {[kind |-> k] : k \in {"absent", "unreadable", "broken", "undecodable"}}
  \cup {File(t, "unset", "unset") : t \in Tables}
  \cup {File(t, l, f) : t \in [{"high"} -> Settings], l \in {"fr", "de"}, f \in {"unset", "html", "pdf"}}
  \cup {[File(<<>>, "unset", "unset") EXCEPT !.tableOfThresholds = FALSE]}
=============================================================================
