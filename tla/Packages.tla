------------------------------ MODULE Packages ------------------------------
(***************************************************************************)
(* What an install or remove of one native package may report and leave,   *)
(* the contract between the package-manager adapters (PackageManager) and  *)
(* the commands built on them (Workflow).                                  *)
(*                                                                         *)
(* A package is absent, installed in a version below the tool's            *)
(* minimum_version ("old"), or in one that meets it ("new").               *)
(***************************************************************************)
CONSTANT EnglishOutput  \* TRUE: the managers print the phrases the adapters look for

Version == {"absent", "old", "new"}

Installs(v) == CASE v = "absent" -> {"old", "new"}
                 [] v = "old"    -> {"new"}
                 [] OTHER        -> {}

\* succeeded, already_satisfied, and the package afterwards.
Report(ok, already, now) == [ok |-> ok, already |-> already, now |-> now]

\* A failure covers a held lock, an error and a timeout; after a timeout the
\* package may have changed all the same. A package that was installed and
\* needed nothing is recognised by the wording of the output alone.
InstallReports(v) ==
  {Report(TRUE, FALSE, w) : w \in Installs(v)}
  \cup {Report(FALSE, FALSE, w) : w \in Installs(v) \cup {v}}
  \cup {Report(FALSE, TRUE, v) : w \in {v} \ {"absent"}}
  \cup {Report(TRUE, b, v) : b \in {x \in BOOLEAN : v # "absent" /\ (EnglishOutput => x)}}

\* A failed removal whose output happens to contain the "not installed"
\* phrase (apt's "Depends: x but it is not installed") counts as done.
RemoveReports(v) ==
  {Report(TRUE, b, "absent") : b \in BOOLEAN}
  \cup {Report(TRUE, TRUE, v), Report(FALSE, FALSE, v), Report(FALSE, FALSE, "absent")}

\* What upgrading every package may make of this one.
Upgrades(v) == IF v = "absent" THEN {v} ELSE {v, "new"}

\* A call of an adapter, and what its result says.
Request == [op : {"install", "remove", "refresh", "upgrade", "repair"}, dry : BOOLEAN]
Reply   == [ok : BOOLEAN, already : BOOLEAN]
=============================================================================
