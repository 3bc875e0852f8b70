----------------------------- MODULE MCWorkflow -----------------------------
(***************************************************************************)
(* Instances of Workflow for TLC: two processes and two profiles that race *)
(* for one tool; two processes that execute plans for two tools.           *)
(***************************************************************************)
EXTENDS Workflow

CONSTANTS t1, t2, devp, opsp

MCProfile == {devp, opsp}

Plain(kind, prof, ts) ==
  [kind |-> kind, profile |-> prof, tools |-> ts, yes |-> FALSE, dry |-> FALSE]

RaceCommands ==
  {Plain(k, prof, {t2}) : k \in {"profileInstall", "profileRemove"}, prof \in {devp, opsp}}
  \cup {Plain("toolInstall", Hallfix, {t2}), Plain("rollback", Hallfix, {})}

\* Both tools in one profile; t1 has no strategy.
MCTool == {t1, t2}
BothTools ==
  {Plain(k, devp, MCTool) : k \in {"profileInstall", "profileRemove"}}
  \cup {Plain(k, Hallfix, {}) : k \in {"updateTools", "rollback"}}

LowRisk == [t \in Tool |-> Low]
MediumRisk == [t \in Tool |-> Medium]
=============================================================================
