---------------------------- MODULE MCWifiManager ----------------------------
(* Small instance of WifiManager for TLC: one set of credentials is enough, *)
(* because no property compares two.                                        *)
EXTENDS WifiManager

CONSTANTS n1

MCNetworks == {n1}
=============================================================================
