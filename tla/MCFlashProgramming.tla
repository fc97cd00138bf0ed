--------------------------- MODULE MCFlashProgramming ---------------------------
(***************************************************************************)
(* TLC instance of FlashProgramming, and the statement of the repository   *)
(* that TLC finds violated.                                                *)
(***************************************************************************)
EXTENDS FlashProgramming

\* The class comment of FlashProgrammingService: the service first acquires
\* the entry and then starts a tool process.
ToolStartsInOwnedEntry ==
    [][\A t \in Tools : t \notin running /\ t \in running' => owner = "programming"]_vars
===============================================================================
