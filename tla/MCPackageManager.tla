--------------------------- MODULE MCPackageManager ---------------------------
(***************************************************************************)
(* Instances of PackageManager for TLC.                                    *)
(***************************************************************************)
EXTENDS PackageManager

CONSTANTS h1, h2
=============================================================================
