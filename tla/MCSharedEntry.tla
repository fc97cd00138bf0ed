----------------------------- MODULE MCSharedEntry -----------------------------
(***************************************************************************)
(* TLC instance of SharedEntry, and the statement of the repository that   *)
(* TLC finds violated.                                                     *)
(***************************************************************************)
EXTENDS SharedEntry

\* docs/CONTEXT.md section 2.2: globally only one connection or listening
\* session exists; section 4.1: SSH takes the same global ownership as the
\* data connection.  The two are never connected at the same time.
OneSession == ~(isConnected /\ sshState = "connected")
===============================================================================
