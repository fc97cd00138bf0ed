------------------------------ MODULE SharedEntry ------------------------------
(***************************************************************************)
(* The data connection and the SSH service at the same entry.  Both call   *)
(* tryAcquire and release with the owner "data", which DataConnection and  *)
(* SshConnection each leave out of their other holders; here they share    *)
(* the variable owner and take steps in any order.                         *)
(***************************************************************************)
EXTENDS DataConnection

CONSTANTS SshCalls, SshClients, NoClient, MaxSshRequests

VARIABLES sshState, sshGeneration, sshClient, sshListening, sshSession, sshCall,
          sshRequests, sshOvertaken

ssh == <<sshState, sshGeneration, sshClient, sshListening, sshSession, sshCall,
         sshRequests, sshOvertaken>>

Ssh == INSTANCE SshConnection WITH
          Calls <- SshCalls, Clients <- SshClients,
          MaxRequests <- MaxSshRequests,
          state <- sshState, generation <- sshGeneration, client <- sshClient,
          listening <- sshListening, session <- sshSession, call <- sshCall,
          requests <- sshRequests, overtaken <- sshOvertaken

\* Everything of the data connection except the entry.
data == <<coordinator, op, pc, cur, isConnected, isConnecting,
          activeConnectionType, activeSession, boundGeneration, session,
          activity, writes, requests>>

SharedInit == Init /\ Ssh!Init

SharedNext ==
    \/ Next /\ UNCHANGED ssh
    \/ Ssh!Next /\ UNCHANGED data

SharedSpec == SharedInit /\ [][SharedNext]_<<vars, ssh>>
===============================================================================
