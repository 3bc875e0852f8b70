-------------------------- MODULE CatalogQuestions --------------------------
(***************************************************************************)
(* The questions hallfix answers by functions of their inputs (Versions,   *)
(* Catalog, Registry, Detection, Configuration), over bounded inputs: two  *)
(* versions, one tool on one system, the profiles on one machine, the      *)
(* files of the registries, a machine, a configuration file. A step asks   *)
(* the same again of other inputs.                                         *)
(***************************************************************************)
EXTENDS Integers, FiniteSets, Sequences, SequencesExt, Versions, Catalog, Registry, Detection, Configuration

CONSTANTS
  Texts,      \* version texts
  Tools,      \* tool definitions
  Systems,    \* what SystemDetector found: manager, family, architecture
  Packages,   \* what the package manager says of a tool's package
  ProfileLists,  \* the profiles in their order, each a sequence of tool ids
  Definitions,  \* the tool definitions by id
  Commands,   \* what becomes of a tool's version command
  ToolFiles, ProfileFiles,  \* the files of a directory, as sequences
  Machines,   \* programs, os-release files and architecture of a machine
  ConfigFiles,  \* what config.toml may be
  Base, Places  \* above any number in a version, and how many it has at most

\* A version as it is read (parse_version) has at most Places numbers, each
\* below Base: with these its value is computed, the code knows no bound.
Version == [epoch : Nat \cup {NoEpoch}, numbers : Seq(Nat)]
BoundedVersion ==
  {v \in Version : LET parsed == ParseVersion(v)
                   IN Len(parsed) <= Places /\ \A i \in DOMAIN parsed : parsed[i] < Base}

ASSUME VersionsAssumption ==
  /\ Base \in Nat /\ Places \in Nat
  /\ Texts \subseteq BoundedVersion
  /\ \A k \in Packages : k.version \in BoundedVersion
  /\ \A t \in Tools : t.minimum \in BoundedVersion
  /\ \A t \in DOMAIN Definitions : Definitions[t].recommended \in BoundedVersion
  /\ \A c \in Commands : c.printed \in BoundedVersion

\* What the registry lets pass of a tool: known strategies, each with a
\* package (LoadedIsUsable).
ASSUME ToolsAssumption ==
  \A t \in Tools : t.strategies \in Seq(KnownStrategy) /\ ToSet(t.strategies) \subseteq DOMAIN t.mappings

\* PackageManagerDetector.detect.
ASSUME SystemsAssumption == \A s \in Systems : s.manager \in Native \cup {"UNKNOWN"}

\* And of a profile: it has a tool.
ASSUME ProfileListsAssumption == ProfileLists \subseteq Seq(Seq(STRING) \ {<< >>})

\* A directory has finitely many files. What a file maps a strategy to is a
\* package or blank; a list in it may hold any text.
ASSUME ToolFilesAssumption ==
  \A files \in ToolFiles :
    /\ IsFiniteSet(DOMAIN files)
    /\ \A i \in DOMAIN files :
         /\ files[i].strategies \in Seq(STRING)
         /\ \A s \in DOMAIN files[i].mappings : files[i].mappings[s] \in {"package", "blank"}
ASSUME ProfileFilesAssumption ==
  \A files \in ProfileFiles : \A i \in DOMAIN files : files[i].tools \in Seq(STRING)

\* A threshold that is a number in the file is one.
ASSUME ConfigFilesAssumption ==
  \A f \in ConfigFiles :
    /\ f.kind \in {"absent", "unreadable", "broken", "undecodable", "table"}
    /\ f.kind = "table" =>
         \A k \in DOMAIN f.thresholds : f.thresholds[k].number => f.thresholds[k].value \in Int

VARIABLE question

VersionQuestions == [about : {"versions"}, a : Texts, b : Texts]
ChoiceQuestions == [about : {"choice"}, tool : Tools, system : Systems, package : Packages]
ProfileQuestions ==
  [about : {"profiles"}, profiles : ProfileLists,
   commands : [DOMAIN Definitions -> Commands]]
RegistryQuestions ==
  [about : {"registries"}, toolFiles : ToolFiles, profileFiles : ProfileFiles]
MachineQuestions == [about : {"machine"}, machine : Machines, tool : Tools, package : Packages]
ConfigQuestions == [about : {"configuration"}, file : ConfigFiles]

\* The question is asked anew of the same text, tool or profiles.
AskAgain ==
  \/ /\ question.about = "versions"
     /\ \E t \in Texts : question' = [question EXCEPT !.b = t]
  \/ /\ question.about = "choice"
     /\ \E s \in Systems, k \in Packages :
          question' = [question EXCEPT !.system = s, !.package = k]
  \/ /\ question.about = "profiles"
     /\ \E c \in [DOMAIN Definitions -> Commands] : question' = [question EXCEPT !.commands = c]
  \/ /\ question.about = "registries"
     /\ \E f \in ProfileFiles : question' = [question EXCEPT !.profileFiles = f]
  \/ /\ question.about = "machine"
     /\ \E k \in Packages : question' = [question EXCEPT !.package = k]
  \/ /\ question.about = "configuration"
     /\ \E f \in ConfigFiles : question' = [question EXCEPT !.file = f]

CatalogSpec ==
  /\ \/ question \in VersionQuestions
     \/ question \in ChoiceQuestions
     \/ question \in ProfileQuestions
     \/ question \in RegistryQuestions
     \/ question \in MachineQuestions
     \/ question \in ConfigQuestions
  /\ [][AskAgain]_question

-----------------------------------------------------------------------------
(* Properties.                                                             *)

\* What the tools of a question's profiles are found to be.
Verified(commands) == [t \in DOMAIN commands |-> Verify(commands[t])]

\* The number that the numbers of a version stand for in base Base.
Digit(v, i) == IF i \in DOMAIN v THEN v[i] ELSE 0
Value(v) ==
  LET upTo[n \in 0 .. Places] == IF n = 0 THEN 0 ELSE Base * upTo[n - 1] + Digit(v, n)
  IN upTo[Places]
Sign(n) == IF n < 0 THEN -1 ELSE IF n > 0 THEN 1 ELSE 0

\* compare_versions orders texts by the numbers that what parse_version reads
\* in them stands for, so that 2, 2.0 and 2.0.0 are equal, and the order is
\* total and transitive; an empty text is never compared.
ComparesByValue ==
  question.about = "versions" /\ Conclusive(question.a, question.b) =>
    CompareVersions(question.a, question.b)
      = Sign(Value(ParseVersion(question.a)) - Value(ParseVersion(question.b)))

\* What is planned with one table (NATIVE_STRATEGY_BY_MANAGER) is executed
\* with another (_MANAGER_KIND_FOR_STRATEGY): an install is planned exactly
\* for the tools that declare the system's own manager, it is executed with
\* that manager, and no less trusted strategy stands in its way. What `tool
\* info` reports agrees: a tool that is installed is not called UNSUPPORTED,
\* unless for its architecture, at which the planner does not look, and one
\* that cannot be installed at all is.
NativePreferred ==
  question.about = "choice" =>
    LET s == ResolveStrategy(question.tool, question.system)
        declared == ToSet(question.tool.strategies)
    IN /\ s \in Native <=> question.system.manager \in Native \cap declared
       /\ PlansInstall(question.tool, question.system, question.package) =>
            ManagerOf(s) = question.system.manager
       /\ \A d \in declared \ Native : s = "none" \/ TrustRank(s) <= TrustRank(d)
       /\ s = "none" => declared \subseteq Native
       /\ AssessCompatibility(question.tool, question.system) = "UNSUPPORTED" <=>
            \/ declared \subseteq Native \ {question.system.manager}
            \/ /\ question.tool.architectures # {}
               /\ question.system.architecture \notin question.tool.architectures

\* A package that is installed in a version at or above the tool's minimum is
\* left alone. (Not so with an epoch in front of either, which is read as the
\* version: 1:2.43 is taken for version 1.)
MinimumIsEnough ==
  question.about = "choice" =>
    LET k == question.package
    IN /\ k.installed
       /\ k.version.epoch = NoEpoch /\ Len(k.version.numbers) > 0
       /\ question.tool.minimum.epoch = NoEpoch
       /\ Value(k.version.numbers) >= Value(question.tool.minimum.numbers)
       => ~PlansInstall(question.tool, question.system, k)

\* `profile diff` calls a tool out of date exactly if its version is known
\* and below the recommended one: nothing is held against a tool whose
\* version could not be read.
MismatchesAreReal ==
  question.about = "profiles" => \A i \in DOMAIN question.profiles :
    LET tools == question.profiles[i]
        diff == ProfileDiff(tools, Definitions, Verified(question.commands))
        command(t) == question.commands[t]
    IN \A j \in DOMAIN tools :
         diff[j] = "VERSION_MISMATCH" <=>
           /\ tools[j] \in DOMAIN Definitions
           /\ command(tools[j]).exit = "ran" /\ command(tools[j]).printed # None
           /\ Value(ParseVersion(command(tools[j]).printed))
                < Value(ParseVersion(Definitions[tools[j]].recommended))

\* The recommended profile has a tool installed, and no profile has a larger
\* share of its tools installed, nor an equal one and an earlier place; none
\* is recommended only when no profile has a tool installed.
BestIsBest ==
  question.about = "profiles" =>
    LET verified == Verified(question.commands)
        best == Recommend(question.profiles, Definitions, verified)
        diff(i) == ProfileDiff(question.profiles[i], Definitions, verified)
        installed(i) == Cardinality({j \in DOMAIN diff(i) : diff(i)[j] = "INSTALLED"})
    IN IF best = 0 THEN \A i \in DOMAIN question.profiles : installed(i) = 0
       ELSE /\ installed(best) > 0
            /\ \A i \in DOMAIN question.profiles :
                 LET mine == installed(best) * Len(diff(i))
                     its  == installed(i) * Len(diff(best))
                 IN mine > its \/ (mine = its /\ best <= i)

\* tool_registry.py:6 "a malformed tool file fails immediately and loudly, not
\* whenever that tool happens to be looked up later": in a registry that loads
\* every document is a tool of its own, each native strategy it declares is
\* chosen where that manager is, with a package, and its minimum version is in
\* force (unless YAML takes it for a number: that one is dropped in silence).
\* A tool id of a profile is unknown exactly if no file defines it, and every
\* profile has a tool, so that its share of installed tools is a number.
LoadedIsUsable ==
  question.about = "registries" =>
    LET tools == ToolRegistry(question.toolFiles)
        profiles == ProfileRegistry(question.profileFiles)
        documents == Documents(question.toolFiles)
        file(i) == question.toolFiles[i]
        unverified == [t \in DOMAIN tools.entries |-> Verify([exit |-> "none", printed |-> None])]
        on(manager) == [manager |-> manager, family |-> "UNKNOWN", architecture |-> "any"]
    IN tools.loaded =>
         /\ Cardinality(DOMAIN tools.entries) = Cardinality(documents)
         /\ \A i \in documents :
              LET tool == tools.entries[file(i).id]
              IN /\ \A s \in ToSet(file(i).strategies) \cap Native :
                      ResolveStrategy(tool, on(s)) = s /\ tool.mappings[s] = "package"
                 /\ file(i).minimum.text => tool.minimum = file(i).minimum.version
         /\ profiles.loaded => \A p \in DOMAIN profiles.entries :
              LET diff == ProfileDiff(profiles.entries[p], tools.entries, unverified)
              IN /\ Len(diff) > 0
                 /\ \A j \in DOMAIN diff :
                      diff[j] = "UNKNOWN_TOOL" <=>
                        \A i \in documents : file(i).id # profiles.entries[p][j]

\* executor.py:114 "callers only pass kinds known to resolve": whatever is
\* planned on a machine, an install, an upgrade or a repair, is executed with
\* a manager whose program is there (apt-get, where apt was found without it,
\* excepted), and with the family's own manager where that is there - unless
\* one earlier in the list of candidates is there too: hallfix takes a foreign
\* apt on Fedora for the native manager.
ActionsAreRunnable ==
  question.about = "machine" =>
    LET machine == question.machine
        system == Detect(machine)
        own == CASE system.family = "DEBIAN" -> {"APT"} [] system.family = "REDHAT" -> {"DNF"}
                 [] system.family = "ARCH" -> {"PACMAN"} [] system.family = "SUSE" -> {"ZYPPER"}
                 [] OTHER -> {}
        place(manager) == CHOOSE i \in DOMAIN Candidates : Candidates[i] = ProgramOf(manager)
    IN \A a \in Planned(question.tool, system, question.package) :
         /\ a.manager \in Native
         /\ ProgramOf(a.manager) \in machine.programs \/ "apt" \in machine.programs
         /\ \A m \in own : ProgramOf(m) \in machine.programs =>
              a.manager = m \/ place(a.manager) < place(m)

Doctor(WarningAt, HighAt, CriticalAt) == INSTANCE Diagnostics

\* For every configuration that is accepted, `doctor` raises the severity of a
\* full disk by one level at each threshold the user set, or at its default:
\* a table that sets some of them cannot silence a level or swap two.
EachLevelCounts ==
  question.about = "configuration" /\ LoadConfig(question.file).kind = "config" =>
    LET file == question.file
        given == IF file.kind = "table" THEN file.thresholds ELSE << >>
        effective(k) == IF k \in DOMAIN given THEN given[k].value ELSE DefaultThreshold[k]
        in == LoadConfig(file).thresholds
        reached(used) == Cardinality({k \in Threshold : effective(k) <= used})
    IN \A used \in 0 .. 100 :
         Doctor(in["warning"], in["high"], in["critical"])!DiskSeverity({used})
           = <<"OK", "WARNING", "ERROR", "CRITICAL">>[reached(used) + 1]
=============================================================================
