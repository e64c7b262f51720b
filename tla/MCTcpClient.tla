---------------------------- MODULE MCTcpClient ---------------------------
(* Model-checking instances of TcpClient; the .cfg files give the constants. *)
EXTENDS TcpClient, TLC

\* The callers differ in nothing but their names (safety runs only).
CallerSymmetry == Permutations(Callers)
=============================================================================
