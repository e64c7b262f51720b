---------------------------- MODULE MCUdpClient ---------------------------
(* Model-checking instances of UdpClient; the .cfg files give the constants. *)
EXTENDS UdpClient, TLC

\* The callers differ in nothing but their names (safety runs only).
CallerSymmetry == Permutations(Callers)
=============================================================================
