---------------------------- MODULE MCSavedFiles ----------------------------
(* Instances of SavedFiles for TLC. *)
EXTENDS SavedFiles, TLC

CONSTANTS h1, h2, v1, v2, i1, i2

MCProc == {h1, h2}
MCText == {v1, v2}
MCId == {i1, i2}
Symmetry == Permutations(MCProc) \cup Permutations(MCText) \cup Permutations(MCId)
=============================================================================
