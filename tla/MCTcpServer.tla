----------------------------- MODULE MCTcpServer -----------------------------
(* Small instances of TcpServer for TLC.                                   *)
EXTENDS TcpServer

CONSTANTS s1, s2, s3

\* One descriptor more than the server ever holds.
MCSockets == {s1, s2, s3}

\* The shutdown the code has a handler for.
MCShutdown == {"DEINIT_REQ"}

\* What the firmware sends.
MCNone == {}

MCSymmetry == Permutations(MCSockets)
=============================================================================
