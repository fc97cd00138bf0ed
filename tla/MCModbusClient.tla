----------------------------- MODULE MCModbusClient -----------------------------
(***************************************************************************)
(* TLC instance of ModbusClient: one caller that reads with one retry, one *)
(* polled row of the same shape and one row that is written periodically.  *)
(***************************************************************************)
EXTENDS ModbusClient, TLC

CONSTANTS call, poll, send

MCCalls == {call}
MCKeys == {poll, send}
MCReads == {call, poll}
MCRetries == call :> 1 @@ poll :> 1 @@ send :> 1
MCShape == call :> 3 @@ poll :> 3 @@ send :> 6
===============================================================================
