---------------------------- MODULE MCProvenance ----------------------------
(***************************************************************************)
(* Instances of Provenance for TLC: two overlapping profiles over two      *)
(* tools, one of them with a minimum version, as the shipped profiles      *)
(* share tools and python3 declares one.                                   *)
(***************************************************************************)
EXTENDS Provenance, TLC

CONSTANTS t1, t2, devp, opsp

MCTool == {t1, t2}
MCProfile == {devp, opsp}

Cmd(kind, prof, ts, yes, dry) ==
  [kind |-> kind, profile |-> prof, tools |-> ts, yes |-> yes, dry |-> dry]
Plain(kind, prof, ts) == Cmd(kind, prof, ts, FALSE, FALSE)

\* Both tools are in profile devp, t1 alone in opsp.
SharedCommands ==
  {Plain(k, devp, {t1, t2}) : k \in {"profileInstall", "profileRemove"}}
  \cup {Plain(k, opsp, {t1}) : k \in {"profileInstall", "profileRemove"}}
  \cup {Plain(k, Hallfix, {t1}) : k \in {"toolInstall", "toolRemove"}}
  \cup {Plain(k, Hallfix, {}) : k \in {"updateTools", "rollback"}}

\* The profiles alone.
ProfileCommands == {c \in SharedCommands : c.kind \in {"profileInstall", "profileRemove"}}

\* With --yes on a plan of mixed risk and on one that --yes may confirm, and
\* with --dry-run.
FlaggedCommands ==
  SharedCommands
  \cup {Cmd("profileInstall", devp, {t1, t2}, TRUE, FALSE),
        Cmd("profileInstall", opsp, {t1}, TRUE, FALSE),
        Cmd("profileRemove", devp, {t1, t2}, FALSE, TRUE),
        Cmd("rollback", Hallfix, {}, TRUE, TRUE)}

LowRisk == [t \in Tool |-> Low]
MixedRisk == (t1 :> Medium) @@ (t2 :> High)
=============================================================================
