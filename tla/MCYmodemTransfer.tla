---------------------------- MODULE MCYmodemTransfer ----------------------------
(***************************************************************************)
(* TLC instances of YmodemTransfer: the application with the test device   *)
(* at the other end, in both directions, and two applications.             *)
(***************************************************************************)
EXTENDS YmodemTransfer

AppAndDevice == {[sender |-> "app", receiver |-> "device"],
                 [sender |-> "device", receiver |-> "app"]}
TwoApps == {[sender |-> "app", receiver |-> "app"]}
=================================================================================
