---------------------------- MODULE MCHistoryLog ----------------------------
(***************************************************************************)
(* Instances of HistoryLog for TLC. Processes are interchangeable.         *)
(***************************************************************************)
EXTENDS HistoryLog, TLC

CONSTANTS w1, w2

MCWriter == {w1, w2}
Symmetry == Permutations(MCWriter)
=============================================================================
