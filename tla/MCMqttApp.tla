------------------------------ MODULE MCMqttApp ------------------------------
(* Small instance of MqttApp for TLC: two interchangeable client handles,   *)
(* the one in use and one that was overwritten.                             *)
EXTENDS MqttApp, TLC

CONSTANTS m1, m2

MCClients == {m1, m2}
MCSymmetry == Permutations(MCClients)
=============================================================================
