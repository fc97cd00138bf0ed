--------------------------- MODULE MCDataConnection ---------------------------
(***************************************************************************)
(* TLC instance of DataConnection, and the statement of the repository     *)
(* that TLC finds violated.  "udp" is left out of the instances: the       *)
(* service handles it exactly like "tcpClient".                            *)
(***************************************************************************)
EXTENDS DataConnection

\* data_connection_coordinator.dart: disconnect "immediately invalidates the
\* connection intent, then disconnects in queue order".  A disconnect waiting
\* in the queue leaves no session that may still deliver data.
DisconnectInvalidates ==
    Pending({"disconnect", "shutdown"})
       => ~(activeSession # NoSession /\ IsCurrent(boundGeneration))
===============================================================================
