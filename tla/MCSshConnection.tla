---------------------------- MODULE MCSshConnection ----------------------------
(***************************************************************************)
(* TLC instance of SshConnection.                                          *)
(***************************************************************************)
EXTENDS SshConnection
===============================================================================
