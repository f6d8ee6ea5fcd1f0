------------------------------- MODULE MCOtaApp ------------------------------
(* Small instance of OtaApp for TLC: two updates, so that a verdict can be   *)
(* given on the wrong one.                                                  *)
EXTENDS OtaApp

CONSTANTS a1, a2

MCActions == {a1, a2}
MCNoFaults == {}
MCLostReply == {"lostReply"}
MCAllFaults == FaultKinds
=============================================================================
