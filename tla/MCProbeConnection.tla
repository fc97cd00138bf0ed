--------------------------- MODULE MCProbeConnection ---------------------------
(***************************************************************************)
(* TLC instance of ProbeConnection.  One backend stands for the external   *)
(* J-Link, whose activity is stopped by a restart, the other for the rest. *)
(***************************************************************************)
EXTENDS ProbeConnection
===============================================================================
