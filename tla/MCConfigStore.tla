---------------------------- MODULE MCConfigStore ----------------------------
(* Small instance of ConfigStore for TLC.                                   *)
EXTENDS ConfigStore

CONSTANTS v0, v1, u1

MCValues == {v0, v1}
MCUnits == {u1}

\* The certificate, and a key of each store: the first of the one, the last of
\* the other.
MCSetKeys == {"address", "cert", "token"}
=============================================================================
