------------------------------ MODULE Catalog ------------------------------
(***************************************************************************)
(* What hallfix derives from its tool and profile definitions: the         *)
(* installation strategy and support level of a tool on a system, whether  *)
(* the planner installs it, the diff of a profile with what is installed,  *)
(* and the profile to recommend. Tools and profiles are those of Registry, *)
(* systems those of Detection.                                             *)
(***************************************************************************)
EXTENDS Integers, FiniteSets, Sequences, SequencesExt, Versions

Native == {"APT", "DNF", "PACMAN", "ZYPPER"}
Ecosystem == {"PIP", "PIPX", "NPM", "CARGO", "COMPOSER"}
Secondary == {"OFFICIAL_REPOSITORY", "SIGNED_BINARY"} \cup Ecosystem

\* NATIVE_STRATEGY_BY_MANAGER: the two enumerations share their names.
NativeStrategyByManager == [kind \in Native |-> kind]

TrustRank(s) == CASE s \in Native               -> 1
                  [] s = "OFFICIAL_REPOSITORY"  -> 2
                  [] s = "SIGNED_BINARY"        -> 3
                  [] s \in Ecosystem            -> 4

\* Names with an underscore are plausible mistakes in the definition that
\* follows them; they show that a property can fail and are used nowhere.

Usable_AnyNative(s, tool, system) == s \in DOMAIN tool.mappings

\* There is a package for it; a native strategy is of use only to the
\* system's own manager.
Usable(s, tool, system) ==
  /\ s \in DOMAIN tool.mappings
  /\ s \in Native => /\ system.manager \in Native
                     /\ s = NativeStrategyByManager[system.manager]

\* The usable strategy of the greatest trust, the first declared among equals.
ResolveStrategy(tool, system) ==
  LET trusted(best, s) == IF ~Usable(s, tool, system) THEN best
                          ELSE IF best = "none" THEN s
                          ELSE IF TrustRank(s) < TrustRank(best) THEN s
                          ELSE best
  IN FoldLeft(trusted, "none", tool.strategies)

AssessCompatibility(tool, system) ==
  CASE tool.architectures # {} /\ system.architecture \notin tool.architectures -> "UNSUPPORTED"
    [] OTHER ->
         IF ResolveStrategy(tool, system) = "none" THEN "UNSUPPORTED"
         ELSE IF tool.distributions = {} THEN "EXPERIMENTAL"
         ELSE IF system.family \in tool.distributions THEN "SUPPORTED"
         ELSE "DETECTED_ONLY"

\* The package manager an action's strategy is executed with: the table the
\* other way round.
ManagerOf(strategy) == CHOOSE kind \in Native : NativeStrategyByManager[kind] = strategy

\* plan_tool_install, for a package the manager reports in a version
\* (is_installed, get_version), or does not have.
PlansInstall(tool, system, package) ==
  /\ ResolveStrategy(tool, system) \in Native
  /\ ~(package.installed /\ NotBelowMinimum(package.version, tool.minimum))

-----------------------------------------------------------------------------
(* profile diff and recommend. A version command is "none" for a tool that *)
(* declares none, "127" if its program is not there, else "ran": whatever  *)
(* its exit status, with the version its output shows, if any.             *)

\* ToolVerifier.verify: a command that fails, or that times out, is found.
Verify(command) ==
  [found |-> command.exit = "ran",
   version |-> IF command.exit = "ran" THEN command.printed ELSE None]

Mismatch_InconclusiveToo(verified, tool) ==
  tool.recommended # None /\ ~(Conclusive(verified.version, tool.recommended)
                               /\ NotBelowMinimum(verified.version, tool.recommended))

Mismatch(verified, tool) ==
  tool.recommended # None /\ BelowMinimum(verified.version, tool.recommended)

Status(t, registry, verified) ==
  CASE t \notin DOMAIN registry -> "UNKNOWN_TOOL"
    [] OTHER -> IF ~verified[t].found THEN "MISSING"
                ELSE IF Mismatch(verified[t], registry[t]) THEN "VERSION_MISMATCH"
                ELSE "INSTALLED"

\* compute_profile_diff: one entry for each tool of the profile, in its order.
ProfileDiff(tools, registry, verified) ==
  [i \in DOMAIN tools |-> Status(tools[i], registry, verified)]

Count(diff, status) == Cardinality({i \in DOMAIN diff : diff[i] = status})

MoreInstalled_ByCount(m, n) == Count(m, "INSTALLED") > Count(n, "INSTALLED")

\* match_ratio of m above that of n, without the division.
MoreInstalled(m, n) == Count(m, "INSTALLED") * Len(n) > Count(n, "INSTALLED") * Len(m)

\* best_match: the position of the profile with the highest ratio among those
\* with a tool installed, the first of equals; 0 for none.
BestMatch(diffs) ==
  LET better(best, i) == IF Count(diffs[i], "INSTALLED") = 0 THEN best
                         ELSE IF best = 0 THEN i
                         ELSE IF MoreInstalled(diffs[i], diffs[best]) THEN i
                         ELSE best
  IN FoldLeft(better, 0, [i \in DOMAIN diffs |-> i])

Recommend(profiles, registry, verified) ==
  BestMatch([i \in DOMAIN profiles |-> ProfileDiff(profiles[i], registry, verified)])
=============================================================================
