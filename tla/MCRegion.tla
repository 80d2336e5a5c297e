------------------------------ MODULE MCRegion ------------------------------
(* Small instances of Region for TLC. *)
EXTENDS RegionInv, TLC

\* Clients differ in nothing but their name.
ClientSymmetry == Permutations(Clients)
=============================================================================
