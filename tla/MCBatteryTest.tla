---------------------------- MODULE MCBatteryTest ----------------------------
(* BatteryTest on small instances. *)
EXTENDS BatteryTest, TLC

CONSTANTS w1, w2, c1, c2
MCWorkers == {w1, w2}
MCOneClient == {c1}
MCTwoClients == {c1, c2}
MCClientSymmetry == Permutations(MCTwoClients)
=============================================================================
