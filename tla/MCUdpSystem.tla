---------------------------- MODULE MCUdpSystem ---------------------------
(* Model-checking instances of UdpSystem; the .cfg files give the constants. *)
EXTENDS UdpSystem
=============================================================================
