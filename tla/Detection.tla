----------------------------- MODULE Detection -----------------------------
(***************************************************************************)
(* The detectors that decide what hallfix will run: the distribution's     *)
(* family from os-release, the package manager from the programs on the    *)
(* machine. Neither looks at what the other found. And what the planner    *)
(* makes of both together.                                                 *)
(*                                                                         *)
(* A program is on the machine if it is in one of the four directories of  *)
(* _BIN_DIRS. An os-release file is its ID and the words of its ID_LIKE.   *)
(***************************************************************************)
EXTENDS Integers, Sequences, SequencesExt, Catalog

\* _FAMILY_BY_ID, one id for each family and a derivative it does not know.
FamilyById(id) ==
  CASE id = "ubuntu" -> "DEBIAN" [] id = "fedora" -> "REDHAT"
    [] id = "arch" -> "ARCH" [] id = "sles" -> "SUSE"
    [] OTHER -> "UNKNOWN"

\* The ID decides, or else the first of ID_LIKE that is known.
ResolveFamily(release) ==
  LET ids == <<release.id>> \o release.like
      known == SelectInSeq(ids, LAMBDA i : FamilyById(i) # "UNKNOWN")
  IN IF known = 0 THEN "UNKNOWN" ELSE FamilyById(ids[known])

\* etc/os-release before usr/lib/os-release; without either, a DetectionError.
DetectFamily(machine) ==
  IF machine.etc # {} THEN ResolveFamily(CHOOSE r \in machine.etc : TRUE)
  ELSE IF machine.usrlib # {} THEN ResolveFamily(CHOOSE r \in machine.usrlib : TRUE)
  ELSE "DetectionError"

Candidates == <<"apt-get", "apt", "dnf", "pacman", "zypper">>
ManagerOfProgram(program) ==
  CASE program \in {"apt-get", "apt"} -> "APT" [] program = "dnf" -> "DNF"
    [] program = "pacman" -> "PACMAN" [] program = "zypper" -> "ZYPPER"

\* Names with an underscore are plausible mistakes in the definition that
\* follows them; they show that a property can fail and are used nowhere.

DetectManager_ByFamily(machine) ==
  LET family == DetectFamily(machine)
  IN CASE family = "DEBIAN" -> "APT" [] family = "REDHAT" -> "DNF"
       [] family = "ARCH" -> "PACMAN" [] family = "SUSE" -> "ZYPPER"
       [] OTHER -> "UNKNOWN"

\* PackageManagerDetector.detect: the first candidate that is there.
DetectManager(machine) ==
  LET found == SelectInSeq(Candidates, LAMBDA c : c \in machine.programs)
  IN IF found = 0 THEN "UNKNOWN" ELSE ManagerOfProgram(Candidates[found])

Detect(machine) ==
  [family |-> DetectFamily(machine), manager |-> DetectManager(machine),
   architecture |-> machine.architecture]

-----------------------------------------------------------------------------
(* What is planned on a machine, each action with the kind of manager the  *)
(* executor takes for it.                                                  *)

Installs(tool, system, package) ==
  IF PlansInstall(tool, system, package)
  THEN {[action |-> "install", manager |-> ManagerOf(ResolveStrategy(tool, system))]} ELSE {}

\* plan_system_upgrade.
Upgrades(system) ==
  IF system.manager \in Native THEN {[action |-> "upgrade", manager |-> system.manager]} ELSE {}

\* `fix` on a machine whose dpkg reports broken packages: the check is made
\* where the manager is apt, and plan_fix looks at the family.
Repairs(system) ==
  IF system.manager = "APT" /\ system.family = "DEBIAN"
  THEN {[action |-> "repair", manager |-> system.manager]} ELSE {}

Planned(tool, system, package) ==
  IF system.family = "DetectionError" THEN {}
  ELSE Installs(tool, system, package) \cup Upgrades(system) \cup Repairs(system)

\* The program an adapter runs.
ProgramOf(manager) ==
  CASE manager = "APT" -> "apt-get" [] manager = "DNF" -> "dnf"
    [] manager = "PACMAN" -> "pacman" [] manager = "ZYPPER" -> "zypper"
=============================================================================
