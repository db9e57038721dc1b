------------------------- MODULE MCProductVersions --------------------------
(* Two clients on one product. *)
EXTENDS ProductVersions, TLC

CONSTANTS c1, c2

Two == {c1, c2}
Alike == Permutations(Clients)
=============================================================================
