------------------------------- MODULE MCRmap -------------------------------
(* Instances of Rmap for TLC. *)
EXTENDS Rmap, TLC

CONSTANTS p1, p2

OneClient == {p1}
TwoClients == {p1, p2}
OneTwo == {1, 2}
Triples == { <<2, 1, 1>>, <<1, 0, 2>> }
NoTriples == {}
EveryMap == AllMaps
ClientSymmetry == Permutations(Clients)
=============================================================================
