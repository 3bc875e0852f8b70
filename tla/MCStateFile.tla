----------------------------- MODULE MCStateFile -----------------------------
(***************************************************************************)
(* Instances of StateFile for TLC: two tools, the mark and one profile.    *)
(***************************************************************************)
EXTENDS StateFile, TLC

CONSTANTS h1, h2, t1, t2, devp

MCWriter == {h1, h2}
MCTool == {t1, t2}
MCRequester == {Mark, devp}
Symmetry == Permutations(MCWriter) \cup Permutations(MCTool)
=============================================================================
