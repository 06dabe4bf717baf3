---------------------------- MODULE MCMaintenance ----------------------------
(* Maintenance with a few players and operators. *)
EXTENDS Maintenance, TLC

CONSTANTS p1, p2, a1, a2

TwoPlayers == {p1, p2}
OnePlayer  == {p1}
OneAdmin   == {a1}
TwoAdmins  == {a1, a2}
Swap == Permutations(TwoAdmins)
=============================================================================
