------------------------- MODULE DataConnectionProofs -------------------------
(***************************************************************************)
(* Proofs about DataConnection for every set of transports and writers and *)
(* every number of requests.                                               *)
(***************************************************************************)
EXTENDS SharedEntry, TLAPS

(***************************************************************************)
(* The inductive invariant.  SingleLifecycle alone is not inductive: a     *)
(* transport may be opened only because the running operation knows that   *)
(* there is no active session, which it learned from isConnected before    *)
(* its first await.  The invariant ties the handle states to the three     *)
(* places that refer to a transport (activeSession, cur, pc).              *)
(***************************************************************************)
LifecycleInv ==
    /\ \A s \in Sessions : session[s] = "open" => s = activeSession
    /\ \A s \in Sessions : session[s] \in {"opening", "closing"} => s = cur
    /\ \A s \in Sessions : session[s] = "opening" => pc = "opening"
    /\ pc = "opening" => session[cur] = "opening"
    /\ activeSession # NoSession => session[activeSession] = "open"
    /\ cur # NoSession => session[cur] \in {"opening", "closing"}
    /\ pc \in {"opening", "closeNew", "closing"} <=> cur # NoSession
    /\ activeSession # NoSession <=> isConnected \/ pc = "confirm"
    /\ pc \in {"yield", "opening", "closeNew", "closing", "confirm", "ports"}
          => ~isConnected


Base == TypeOK /\ LifecycleInv

\* Who owns the entry at each await of an attempt: it is kept as long as it is
\* needed, and not longer.
OwnerKept ==
    isConnected \/ pc \in {"yield", "opening", "confirm"} => owner = "data"

OwnerFreed ==
    owner = "data"
       => isConnected \/ pc \in {"yield", "opening", "closeNew", "confirm"}

Inv == Base /\ OwnerKept /\ OwnerFreed

-------------------------------------------------------------------------------
(* Types *)

LEMMA EnqueueType ==
  ASSUME TypeOK, NEW kind \in Kind, NEW type \in ConnectionType,
         Enqueue(kind, type)
  PROVE  generation' \in Nat /\ queue' \in Seq(Operation)
BY DEF TypeOK, Enqueue, Operation

LEMMA FinishType ==
  ASSUME TypeOK, NEW o \in Operation, Finish(o)
  PROVE  /\ pc' = "idle" /\ op' \in Operation
         /\ cur' \in Sessions \cup {NoSession} /\ isConnecting' \in BOOLEAN
         /\ connectFuture' \in Nat /\ ioDisconnectFuture' \in BOOLEAN
BY DEF TypeOK, Finish, NoOp, Operation, Kind, ConnectionType

\* The state names that suspension points use.
PcNames == {"idle", "yield", "opening", "closeNew", "confirm", "closing",
            "health", "ports", "list"}

LEMMA CleanupType ==
  ASSUME TypeOK, NEW o \in Operation, NEW f \in [Sessions -> {"idle", "opening", "open", "closing"}],
         Cleanup(o, f)
  PROVE  /\ pc' \in PcNames /\ op' \in Operation
         /\ cur' \in Sessions \cup {NoSession} /\ isConnecting' \in BOOLEAN
         /\ connectFuture' \in Nat /\ ioDisconnectFuture' \in BOOLEAN
         /\ activeSession' \in Sessions \cup {NoSession}
         /\ boundGeneration' \in Nat /\ isConnected' \in BOOLEAN
         /\ owner' \in OwnerState /\ activityOwner' \in Activity \cup {"none"}
         /\ aggregating' \in BOOLEAN /\ aggregationSetting' \in BOOLEAN
         /\ activeConnectionType' \in ConnectionType
         /\ session' \in [Sessions -> {"idle", "opening", "open", "closing"}]
<1>1. CASE activeSession = NoSession /\ o.kind # "refresh"
  <2>1. Finish(o)
    BY <1>1 DEF Cleanup, Resume
  <2> QED
    BY <1>1, <2>1, FinishType
    DEF Cleanup, TypeOK, Released, OwnerState, PcNames
<1>2. CASE activeSession = NoSession /\ o.kind = "refresh"
  BY <1>2 DEF Cleanup, Resume, Suspend, TypeOK, Released, OwnerState, PcNames
<1>3. CASE activeSession # NoSession
  BY <1>3 DEF Cleanup, Suspend, TypeOK, Released, OwnerState, PcNames
<1> QED
  BY <1>1, <1>2, <1>3

LEMMA ConnectLockedType ==
  ASSUME TypeOK, NEW o \in Operation, ConnectLocked(o)
  PROVE  /\ pc' \in PcNames /\ op' \in Operation
         /\ cur' \in Sessions \cup {NoSession} /\ isConnecting' \in BOOLEAN
         /\ connectFuture' \in Nat /\ ioDisconnectFuture' \in BOOLEAN
         /\ owner' \in OwnerState /\ activeConnectionType' \in ConnectionType
         /\ session' \in [Sessions -> {"idle", "opening", "open", "closing"}]
<1>1. CASE Finish(o) /\ UNCHANGED <<session, owner, activeConnectionType>>
  BY <1>1, FinishType DEF TypeOK, PcNames
<1>2. CASE /\ owner' = "data" /\ activeConnectionType' = o.type
           /\ isConnecting' = TRUE
           /\ IF o.type = "serial"
              THEN Suspend(o, "yield", NoSession) /\ UNCHANGED session
              ELSE \E s \in Sessions :
                      /\ Fresh(s)
                      /\ session' = [session EXCEPT ![s] = "opening"]
                      /\ Suspend(o, "opening", s)
  BY <1>2 DEF Suspend, TypeOK, OwnerState, Owner, PcNames, Operation
<1> QED
  BY <1>1, <1>2 DEF ConnectLocked

LEMMA AggregationType ==
  ASSUME aggregating \in BOOLEAN, NEW s, NEW type, NEW a,
         NEW setting \in BOOLEAN
  PROVE  Aggregation(s, type, a, setting) \in BOOLEAN
BY Zenon DEF Aggregation

LEMMA TypeInit == Init => TypeOK
<1> SUFFICES ASSUME Init PROVE TypeOK
  OBVIOUS
<1>1. op \in Operation /\ queue \in Seq(Operation)
  BY DEF Init, NoOp, Operation, Kind, ConnectionType
<1>2. /\ activeConnectionType \in ConnectionType
      /\ owner \in OwnerState /\ activityOwner \in Activity \cup {"none"}
  BY DEF Init, ConnectionType, OwnerState
<1>3. /\ session \in [Sessions -> {"idle", "opening", "open", "closing"}]
      /\ writes \in [Writes -> Sessions \cup {NoSession}]
  BY DEF Init
<1>4. /\ generation \in Nat /\ connectFuture \in Nat
      /\ boundGeneration \in Nat /\ requests \in Nat
  BY DEF Init
<1>5. /\ isShuttingDown \in BOOLEAN /\ ioDisconnectFuture \in BOOLEAN
      /\ isConnected \in BOOLEAN /\ isConnecting \in BOOLEAN
      /\ aggregationSetting \in BOOLEAN /\ aggregating \in BOOLEAN
  BY Zenon DEF Init
<1> QED
  BY <1>1, <1>2, <1>3, <1>4, <1>5 DEF Init, TypeOK

LEMMA TypeStep == TypeOK /\ [Next]_vars => TypeOK'
<1> SUFFICES ASSUME TypeOK, [Next]_vars PROVE TypeOK'
  OBVIOUS
<1> USE DEF PcNames
<1>1. ASSUME NEW t \in Types, Connect(t) PROVE TypeOK'
  <2>1. generation' \in Nat /\ queue' \in Seq(Operation)
    BY <1>1, EnqueueType, TypesAssumption DEF Connect, Kind
  <2> QED
    BY <1>1, <2>1 DEF Connect, Request, TypeOK, activity
<1>2. CASE Disconnect
  <2>1. generation' \in Nat /\ queue' \in Seq(Operation)
    BY <1>2, EnqueueType DEF Disconnect, Kind, ConnectionType
  <2> QED
    BY <1>2, <2>1 DEF Disconnect, Request, TypeOK, activity, link
<1>3. CASE Shutdown
  <2>1. generation' \in Nat /\ queue' \in Seq(Operation)
    BY <1>3, EnqueueType DEF Shutdown, Kind, ConnectionType
  <2> QED
    BY <1>3, <2>1 DEF Shutdown, Request, TypeOK, activity, link
<1>4. CASE RefreshConnectionStatus
  <2>1. queue' \in Seq(Operation)
    BY <1>4 DEF RefreshConnectionStatus, TypeOK, Operation, Kind,
                ConnectionType
  <2> QED
    BY <1>4, <2>1
    DEF RefreshConnectionStatus, Request, TypeOK, activity, link
<1>5. ASSUME NEW kinds, Dequeue(kinds)
      PROVE  queue' \in Seq(Operation) /\ Head(queue) \in Operation
  BY <1>5 DEF Dequeue, TypeOK
<1>6. CASE StartConnect
  <2>1. queue' \in Seq(Operation) /\ Head(queue) \in Operation
    BY <1>5, <1>6 DEF StartConnect
  <2> QED
    BY <1>6, <2>1, ConnectLockedType DEF StartConnect, TypeOK, activity
<1>7. CASE StartCleanup
  <2>1. queue' \in Seq(Operation) /\ Head(queue) \in Operation
    BY <1>5, <1>7 DEF StartCleanup
  <2> QED
    BY <1>7, <2>1, CleanupType DEF StartCleanup, TypeOK
<1>8. CASE StartRefresh
  <2>1. queue' \in Seq(Operation) /\ Head(queue) \in Operation
    BY <1>5, <1>8 DEF StartRefresh
  <2> QED
    BY <1>8, <2>1 DEF StartRefresh, Suspend, TypeOK, activity, link
<1>9. CASE OpenSerial
  BY <1>9 DEF OpenSerial, Suspend, TypeOK, activity
<1>10. CASE OpenFails
  BY <1>10, CleanupType DEF OpenFails, TypeOK
<1>11. CASE OpenDiscarded
  BY <1>11 DEF OpenDiscarded, Suspend, TypeOK, activity
<1>12. CASE OpenSerialSucceeds
  <2>1. aggregating' \in BOOLEAN
    BY <1>12, AggregationType DEF OpenSerialSucceeds, TypeOK
  <2>2. owner' \in OwnerState /\ boundGeneration' \in Nat
    BY <1>12 DEF OpenSerialSucceeds, TypeOK, Released, OwnerState, Operation
  <2>3. activityOwner' \in Activity \cup {"none"}
    BY <1>12 DEF OpenSerialSucceeds, TypeOK
  <2> QED
    BY <1>12, <2>1, <2>2, <2>3 DEF OpenSerialSucceeds, Suspend, TypeOK
<1>13. CASE OpenNetworkSucceeds
  BY <1>13, FinishType DEF OpenNetworkSucceeds, TypeOK, activity, Operation
<1>14. CASE CloseNewDone
  BY <1>14, CleanupType DEF CloseNewDone, TypeOK
<1>15. CASE ConfirmSerial
  <2>1. CASE IsCurrent(op.gen)
    BY <1>15, <2>1, FinishType DEF ConfirmSerial, TypeOK, activity
  <2>2. CASE ~IsCurrent(op.gen)
    BY <1>15, <2>2, CleanupType DEF ConfirmSerial, TypeOK
  <2> QED
    BY <2>1, <2>2
<1>16. CASE CloseDone
  <2>1. CASE op.kind = "refresh"
    BY <1>16, <2>1 DEF CloseDone, Resume, Suspend, TypeOK, activity
  <2>2. CASE op.kind # "refresh"
    BY <1>16, <2>2, FinishType DEF CloseDone, Resume, TypeOK, activity
  <2> QED
    BY <2>1, <2>2
<1>17. CASE HealthOk
  BY <1>17, FinishType DEF HealthOk, TypeOK, activity
<1>18. CASE HealthBad
  BY <1>18, CleanupType DEF HealthBad, TypeOK
<1>19. CASE PortGone
  BY <1>19, FinishType DEF PortGone, TypeOK, activity
<1>20. CASE Reconnect
  <2> DEFINE o == [kind |-> "reconnect", type |-> "serial",
                   gen |-> generation + 1]
  <2>1. o \in Operation
    BY DEF TypeOK, Operation, Kind, ConnectionType
  <2>2. ConnectLocked(o)
    BY <1>20 DEF Reconnect
  <2> HIDE DEF o
  <2> QED
    BY <1>20, <2>1, <2>2, ConnectLockedType DEF Reconnect, TypeOK, activity
<1>21. ASSUME DisconnectFromIo
       PROVE  /\ generation' \in Nat /\ queue' \in Seq(Operation)
              /\ ioDisconnectFuture' \in BOOLEAN
  <2>1. CASE ioDisconnectFuture
    BY <1>21, <2>1 DEF DisconnectFromIo, TypeOK
  <2>2. CASE ~ioDisconnectFuture
    BY <1>21, <2>2, EnqueueType DEF DisconnectFromIo, Kind, ConnectionType
  <2> QED
    BY <2>1, <2>2
<1>22. CASE LinkError
  BY <1>21, <1>22 DEF LinkError, Request, TypeOK, activity, link
<1>23. ASSUME NEW w \in Writes, BeginWrite(w) PROVE TypeOK'
  BY <1>23 DEF BeginWrite, Request, TypeOK, activity, link, coordinator
<1>24. ASSUME NEW w \in Writes, WriteSucceeds(w) PROVE TypeOK'
  BY <1>24 DEF WriteSucceeds, TypeOK, activity, link, coordinator
<1>25. ASSUME NEW w \in Writes, WriteFails(w) PROVE TypeOK'
  <2>1. /\ generation' \in Nat /\ queue' \in Seq(Operation)
        /\ ioDisconnectFuture' \in BOOLEAN
    BY <1>21, <1>25 DEF WriteFails, TypeOK
  <2> QED
    BY <1>25, <2>1 DEF WriteFails, TypeOK, activity, link
<1>26. CASE Pages
  <2>1. ASSUME NEW a \in Activity, AcquireActivity(a) \/ ReleaseActivity(a)
        PROVE  TypeOK'
    <3>1. aggregating' \in BOOLEAN
      BY <2>1, AggregationType DEF AcquireActivity, ReleaseActivity, TypeOK
    <3> QED
      BY <2>1, <3>1 DEF AcquireActivity, ReleaseActivity, TypeOK, link,
                        coordinator
  <2>2. CASE SetPlotReceiveAggregationEnabled
    <3>1. aggregating' \in BOOLEAN /\ aggregationSetting' \in BOOLEAN
      BY <2>2, AggregationType DEF SetPlotReceiveAggregationEnabled, TypeOK
    <3> QED
      BY <2>2, <3>1 DEF SetPlotReceiveAggregationEnabled, TypeOK, link,
                        coordinator
  <2>3. ASSUME NEW o \in Owner, OtherAcquire(o) \/ OtherRelease(o)
        PROVE  TypeOK'
    BY <2>3 DEF OtherAcquire, OtherRelease, Released, OwnerState, TypeOK,
                activity, coordinator
  <2> QED
    BY <1>26, <2>1, <2>2, <2>3 DEF Pages
<1>27. CASE UNCHANGED vars
  BY <1>27 DEF vars, TypeOK, activity, link, coordinator
<1> QED
  BY <1>1, <1>2, <1>3, <1>4, <1>6, <1>7, <1>8, <1>9, <1>10, <1>11, <1>12,
     <1>13, <1>14, <1>15, <1>16, <1>17, <1>18, <1>19, <1>20, <1>22, <1>23,
     <1>24, <1>25, <1>26, <1>27
  DEF Next, UserRequest, OperationStep, Traffic, WriteDone

-------------------------------------------------------------------------------
(* The life cycle *)

\* What an operation leaves behind when it cleans up: every handle but that of
\* the active session must already be idle in f.
LEMMA CleanupLifecycle ==
  ASSUME TypeOK, NEW o \in Operation,
         NEW f \in [Sessions -> {"idle", "opening", "open", "closing"}],
         \A s \in Sessions : f[s] # "idle" => s = activeSession,
         Cleanup(o, f)
  PROVE  LifecycleInv'
<1>1. activeSession' = NoSession /\ isConnected' = FALSE
  BY DEF Cleanup
<1>2. CASE activeSession = NoSession
  <2>1. \A s \in Sessions : session'[s] = "idle"
    BY <1>2, NoSessionAssumption DEF Cleanup
  <2>2. pc' \in {"idle", "ports"} /\ cur' = NoSession
    BY <1>2 DEF Cleanup, Resume, Finish, Suspend
  <2> QED
    BY <1>1, <2>1, <2>2 DEF LifecycleInv
<1>3. CASE activeSession # NoSession
  <2>1. /\ cur' = activeSession /\ cur' \in Sessions /\ pc' = "closing"
        /\ session'[cur'] = "closing"
    BY <1>3 DEF Cleanup, Suspend, TypeOK
  <2>2. \A s \in Sessions : s # cur' => session'[s] = "idle"
    BY <1>3, <2>1 DEF Cleanup
  <2> QED
    BY <1>1, <1>3, <2>1, <2>2, NoSessionAssumption DEF LifecycleInv
<1> QED
  BY <1>2, <1>3

\* An attempt begins: it is refused, or every handle is idle when it opens its
\* own.
LEMMA ConnectLockedLifecycle ==
  ASSUME Base, NEW o \in Operation, pc \in {"idle", "ports"}, ConnectLocked(o),
         UNCHANGED <<isConnected, activeSession>>
  PROVE  LifecycleInv'
<1> USE NoSessionAssumption DEF Base
<1>1. CASE Finish(o) /\ UNCHANGED session
  BY <1>1 DEF Finish, LifecycleInv
<1>2. CASE ~isConnected /\ Suspend(o, "yield", NoSession) /\ UNCHANGED session
  BY <1>2 DEF Suspend, LifecycleInv
<1>3. ASSUME ~isConnected, NEW s \in Sessions, Suspend(o, "opening", s),
             session' = [session EXCEPT ![s] = "opening"]
      PROVE  LifecycleInv'
  BY <1>3 DEF Suspend, TypeOK, LifecycleInv
<1> QED
  BY <1>1, <1>2, <1>3 DEF ConnectLocked

\* Steps that touch none of the places the invariant speaks about.
LEMMA SameLifecycle ==
  ASSUME LifecycleInv, UNCHANGED <<session, activeSession, cur, pc, isConnected>>
  PROVE  LifecycleInv'
BY DEF LifecycleInv

\* The handles an operation refers to at an await, and what it leaves when it
\* gives them up.
LEMMA HandlesAt ==
  ASSUME Base
  PROVE  /\ pc \in {"idle", "confirm", "health"} =>
               \A s \in Sessions : session[s] # "idle" => s = activeSession
         /\ pc \in {"opening", "closeNew", "closing"} =>
               /\ [session EXCEPT ![cur] = "idle"]
                     \in [Sessions -> {"idle", "opening", "open", "closing"}]
               /\ cur \in Sessions /\ activeSession = NoSession
               /\ \A s \in Sessions : [session EXCEPT ![cur] = "idle"][s] = "idle"
BY NoSessionAssumption DEF Base, TypeOK, LifecycleInv

LEMMA LifecycleStep ==
  ASSUME Base, [Next]_vars
  PROVE  LifecycleInv'
<1> USE NoSessionAssumption DEF Base
<1>1. CASE UserRequest
  BY <1>1, SameLifecycle DEF UserRequest, Connect, Disconnect, Shutdown,
                             RefreshConnectionStatus, link
<1>2. ASSUME NEW kinds, Dequeue(kinds)
      PROVE  Head(queue) \in Operation /\ pc = "idle"
  BY <1>2 DEF Dequeue, TypeOK
<1>3. CASE StartConnect
  BY <1>2, <1>3, ConnectLockedLifecycle DEF StartConnect
<1>4. CASE StartCleanup
  BY <1>2, <1>4, HandlesAt, CleanupLifecycle DEF StartCleanup, TypeOK
<1>5. CASE StartRefresh
  BY <1>2, <1>5 DEF StartRefresh, Suspend, link, LifecycleInv
<1>6. CASE OpenSerial
  BY <1>6 DEF OpenSerial, Suspend, TypeOK, LifecycleInv
<1>7. CASE OpenFails \/ CloseNewDone
  BY <1>7, HandlesAt, CleanupLifecycle DEF OpenFails, CloseNewDone, TypeOK
<1>8. CASE OpenDiscarded
  BY <1>8, HandlesAt DEF OpenDiscarded, Suspend, TypeOK, LifecycleInv
<1>9. CASE OpenSerialSucceeds
  <2>1. CASE activeSession' = cur
    <3>1. /\ pc' = "confirm" /\ cur' = NoSession
          /\ session' = [session EXCEPT ![cur] = "open"]
      BY <1>9, <2>1, HandlesAt DEF OpenSerialSucceeds, Suspend
    <3> QED
      BY <1>9, <2>1, <3>1, HandlesAt DEF OpenSerialSucceeds, TypeOK, LifecycleInv
  <2>2. CASE activeSession' = NoSession
    <3>1. /\ pc' = "closeNew" /\ cur' = cur
          /\ session' = [session EXCEPT ![cur] = "closing"]
      BY <1>9, <2>2, HandlesAt DEF OpenSerialSucceeds, Suspend
    <3> QED
      BY <1>9, <2>2, <3>1, HandlesAt DEF OpenSerialSucceeds, TypeOK, LifecycleInv
  <2> QED
    BY <1>9, <2>1, <2>2 DEF OpenSerialSucceeds
<1>10. CASE OpenNetworkSucceeds
  BY <1>10, HandlesAt DEF OpenNetworkSucceeds, Finish, TypeOK, LifecycleInv
<1>11. CASE ConfirmSerial
  <2>1. CASE IsCurrent(op.gen)
    BY <1>11, <2>1 DEF ConfirmSerial, Finish, LifecycleInv
  <2>2. CASE ~IsCurrent(op.gen)
    BY <1>11, <2>2, HandlesAt, CleanupLifecycle DEF ConfirmSerial, TypeOK
  <2> QED
    BY <2>1, <2>2
<1>12. CASE CloseDone
  <2>1. pc' \in {"idle", "ports"} /\ cur' = NoSession
    BY <1>12 DEF CloseDone, Resume, Finish, Suspend
  <2> QED
    BY <1>12, <2>1, HandlesAt DEF CloseDone, TypeOK, LifecycleInv
<1>13. CASE HealthOk
  BY <1>13 DEF HealthOk, Finish, LifecycleInv
<1>14. CASE HealthBad
  BY <1>14, HandlesAt, CleanupLifecycle DEF HealthBad, TypeOK
<1>15. CASE Reconnect
  <2> DEFINE o == [kind |-> "reconnect", type |-> "serial",
                   gen |-> generation + 1]
  <2>1. o \in Operation /\ ConnectLocked(o)
    BY <1>15 DEF Reconnect, TypeOK, Operation, Kind, ConnectionType
  <2> HIDE DEF o
  <2> QED
    BY <1>15, <2>1, ConnectLockedLifecycle DEF Reconnect
<1>16. CASE PortGone
  BY <1>16 DEF PortGone, Finish, LifecycleInv
<1>17. CASE Traffic \/ Pages \/ UNCHANGED vars
  BY <1>17, SameLifecycle
  DEF Traffic, LinkError, BeginWrite, WriteDone, WriteSucceeds, WriteFails,
      Pages, AcquireActivity, ReleaseActivity, OtherAcquire, OtherRelease,
      SetPlotReceiveAggregationEnabled, link, vars
<1> QED
  BY <1>1, <1>3, <1>4, <1>5, <1>6, <1>7, <1>8, <1>9, <1>10, <1>11, <1>12,
     <1>13, <1>14, <1>15, <1>16, <1>17
  DEF Next, OperationStep

LEMMA BaseInit == Init => Base
BY TypeInit DEF Init, Base, LifecycleInv

LEMMA BaseStep == Base /\ [Next]_vars => Base'
BY TypeStep, LifecycleStep DEF Base

-------------------------------------------------------------------------------
(* The entry *)

\* A cleanup gives the entry back, whatever it waits for.
LEMMA CleanupOwner ==
  ASSUME NEW o, NEW f, Cleanup(o, f)
  PROVE  OwnerKept' /\ OwnerFreed'
<1>1. isConnected' = FALSE /\ owner' # "data"
  BY DEF Cleanup, Released
<1>2. pc' \notin {"yield", "opening", "confirm"}
  <2>1. CASE activeSession = NoSession
    BY <2>1 DEF Cleanup, Resume, Finish, Suspend
  <2>2. CASE activeSession # NoSession
    BY <2>2 DEF Cleanup, Suspend
  <2> QED
    BY <2>1, <2>2
<1> QED
  BY <1>1, <1>2 DEF OwnerKept, OwnerFreed

\* An attempt is refused, or waits with the entry in its hands.
LEMMA ConnectLockedOwner ==
  ASSUME NEW o, pc \in {"idle", "ports"}, ConnectLocked(o), UNCHANGED isConnected
  PROVE  (OwnerKept => OwnerKept') /\ (OwnerFreed => OwnerFreed')
BY DEF ConnectLocked, Finish, Suspend, OwnerKept, OwnerFreed

LEMMA SameOwner ==
  ASSUME UNCHANGED <<pc, isConnected>>, owner' = owner \/ (owner # "data" /\ owner' # "data")
  PROVE  (OwnerKept => OwnerKept') /\ (OwnerFreed => OwnerFreed')
BY DEF OwnerKept, OwnerFreed

LEMMA OwnerStep ==
  ASSUME Base, [Next]_vars
  PROVE  (OwnerKept => OwnerKept') /\ (OwnerFreed => OwnerFreed')
<1>1. CASE UserRequest \/ Traffic \/ UNCHANGED vars
  BY <1>1, SameOwner
  DEF UserRequest, Connect, Disconnect, Shutdown, RefreshConnectionStatus,
      Traffic, LinkError, BeginWrite, WriteDone, WriteSucceeds, WriteFails, link, vars
<1>2. CASE StartConnect \/ Reconnect
  BY <1>2, ConnectLockedOwner DEF StartConnect, Dequeue, Reconnect
<1>3. CASE StartCleanup \/ OpenFails \/ CloseNewDone \/ HealthBad
  BY <1>3, CleanupOwner DEF StartCleanup, OpenFails, CloseNewDone, HealthBad
<1>4. CASE StartRefresh \/ OpenSerial
  BY <1>4 DEF StartRefresh, OpenSerial, Dequeue, Suspend, link, OwnerKept, OwnerFreed
<1>5. CASE OpenDiscarded
  BY <1>5 DEF OpenDiscarded, Suspend, Base, LifecycleInv, OwnerKept, OwnerFreed
<1>6. CASE OpenSerialSucceeds
  <2>1. ~isConnected
    BY <1>6 DEF OpenSerialSucceeds, Base, LifecycleInv
  <2> QED
    BY <1>6, <2>1 DEF OpenSerialSucceeds, Suspend, Released, OwnerKept, OwnerFreed
<1>7. CASE OpenNetworkSucceeds
  BY <1>7 DEF OpenNetworkSucceeds, Finish, OwnerKept, OwnerFreed
<1>8. CASE ConfirmSerial
  BY <1>8, CleanupOwner DEF ConfirmSerial, Finish, OwnerKept, OwnerFreed
<1>9. CASE CloseDone \/ HealthOk \/ PortGone
  <2>1. /\ UNCHANGED <<isConnected, owner>> /\ pc' \in {"idle", "ports"}
        /\ pc \in {"closing", "health", "ports", "list"}
    BY <1>9 DEF CloseDone, HealthOk, PortGone, Resume, Finish, Suspend
  <2> QED
    BY <2>1 DEF OwnerKept, OwnerFreed
<1>10. CASE Pages
  <2>1. ASSUME NEW o \in Owner, OtherAcquire(o) \/ OtherRelease(o)
        PROVE  /\ owner' = owner \/ (owner # "data" /\ owner' # "data")
               /\ UNCHANGED <<pc, isConnected>>
    BY <2>1 DEF OtherAcquire, OtherRelease, Released
  <2>2. CASE UNCHANGED <<owner, pc, isConnected>>
    BY <2>2, SameOwner
  <2> QED
    BY <1>10, <2>1, <2>2, SameOwner
    DEF Pages, AcquireActivity, ReleaseActivity, SetPlotReceiveAggregationEnabled, link
<1> QED
  BY <1>1, <1>2, <1>3, <1>4, <1>5, <1>6, <1>7, <1>8, <1>9, <1>10
  DEF Next, OperationStep

LEMMA InvInit == Init => Inv
BY BaseInit DEF Init, Inv, OwnerKept, OwnerFreed

LEMMA InvStep == Inv /\ [Next]_vars => Inv'
BY BaseStep, OwnerStep DEF Inv

\* Every reachable state satisfies the invariant.
THEOREM Invariance == Spec => []Inv
BY InvInit, InvStep, PTL DEF Spec

\* Every variable keeps its type.
THEOREM TypeCorrect == Spec => []TypeOK
BY Invariance, PTL DEF Inv, Base

LEMMA BaseSingle == Base => SingleLifecycle
BY NoSessionAssumption DEF Base, TypeOK, LifecycleInv, SingleLifecycle

LEMMA KeptMeansOwned == Base /\ OwnerKept => SessionsOwned
BY NoSessionAssumption DEF Base, TypeOK, LifecycleInv, OwnerKept, SessionsOwned

\* The life cycles of two transports never cross: whatever the interleaving of
\* requests, errors and completions, at most one transport is between open and
\* the end of close.
THEOREM OneLifecycle == Spec => []SingleLifecycle
<1>1. Inv => SingleLifecycle
  BY BaseSingle DEF Inv
<1> QED
  BY <1>1, Invariance, PTL

\* The data connection owns the entry as long as one of its transports is
\* opened or used.
THEOREM EntryIsOwned == Spec => []SessionsOwned
<1>1. Inv => SessionsOwned
  BY KeptMeansOwned DEF Inv
<1> QED
  BY <1>1, Invariance, PTL

\* No attempt, whatever its outcome, keeps the entry after its operation ended.
THEOREM EntryIsReturned == Spec => []OwnerNotLeaked
<1>1. Inv => OwnerNotLeaked
  BY DEF Inv, OwnerFreed, OwnerNotLeaked
<1> QED
  BY <1>1, Invariance, PTL

-------------------------------------------------------------------------------
(* Refinement *)

\* Cleaning up moves the active handle, if any, from open to closing.
LEMMA CleanupRefines ==
  ASSUME TypeOK, LifecycleInv, NEW o, Cleanup(o, session)
  PROVE  Lifecycle!Next \/ UNCHANGED session
BY DEF TypeOK, LifecycleInv, Cleanup, Lifecycle!Next, Lifecycle!Close,
       Lifecycle!Move

\* A closed or failed new handle becomes idle; there is no active one then.
LEMMA GiveUpRefines ==
  ASSUME TypeOK, LifecycleInv, OpenFails \/ CloseNewDone
  PROVE  Lifecycle!Next
<1>1. /\ cur \in Sessions /\ session[cur] \in {"opening", "closing"}
      /\ activeSession = NoSession
  BY DEF TypeOK, LifecycleInv, OpenFails, CloseNewDone
<1>2. session' = [session EXCEPT ![cur] = "idle"]
  BY <1>1 DEF OpenFails, CloseNewDone, Cleanup
<1> QED
  BY <1>1, <1>2 DEF Lifecycle!Next, Lifecycle!OpenResult, Lifecycle!Closed,
                    Lifecycle!Move

LEMMA ConnectLockedRefines ==
  ASSUME Base, NEW o, pc \in {"idle", "ports"}, ConnectLocked(o)
  PROVE  Lifecycle!Next \/ UNCHANGED session
<1>1. ASSUME ~isConnected, NEW s \in Sessions,
             session' = [session EXCEPT ![s] = "opening"]
      PROVE  Lifecycle!Next
  <2>1. \A t \in Sessions : session[t] = "idle"
    BY <1>1, NoSessionAssumption DEF Base, TypeOK, LifecycleInv
  <2> QED
    BY <1>1, <2>1 DEF Lifecycle!Next, Lifecycle!Open, Lifecycle!Move
<1> QED
  BY <1>1 DEF ConnectLocked

\* Every step opens, settles, closes or ends one handle, or touches none.
LEMMA StepRefines == Base /\ [Next]_vars => [Lifecycle!Next]_session
<1> SUFFICES ASSUME Base, [Next]_vars
             PROVE  Lifecycle!Next \/ UNCHANGED session
  OBVIOUS
<1> USE NoSessionAssumption DEF Base
<1>1. CASE StartConnect
  BY <1>1, ConnectLockedRefines DEF StartConnect, Dequeue
<1>2. CASE StartCleanup
  BY <1>2, CleanupRefines DEF StartCleanup
<1>3. CASE OpenSerial
  <2>1. PICK s \in Sessions : session' = [session EXCEPT ![s] = "opening"]
    BY <1>3 DEF OpenSerial
  <2>2. \A t \in Sessions : session[t] = "idle"
    BY <1>3 DEF OpenSerial, TypeOK, LifecycleInv
  <2> QED
    BY <2>1, <2>2 DEF Lifecycle!Next, Lifecycle!Open, Lifecycle!Move
<1>4. CASE OpenFails
  BY <1>4, GiveUpRefines
<1>5. CASE OpenDiscarded
  <2>1. cur \in Sessions /\ session[cur] = "opening"
    BY <1>5 DEF OpenDiscarded, TypeOK, LifecycleInv
  <2> QED
    BY <1>5, <2>1 DEF OpenDiscarded, Lifecycle!Next, Lifecycle!Close,
                      Lifecycle!Move
<1>6. CASE OpenSerialSucceeds
  <2>1. cur \in Sessions /\ session[cur] = "opening"
    BY <1>6 DEF OpenSerialSucceeds, TypeOK, LifecycleInv
  <2> QED
    BY <1>6, <2>1 DEF OpenSerialSucceeds, Lifecycle!Next, Lifecycle!Close,
                      Lifecycle!OpenResult, Lifecycle!Move
<1>7. CASE OpenNetworkSucceeds
  <2>1. cur \in Sessions /\ session[cur] = "opening"
    BY <1>7 DEF OpenNetworkSucceeds, TypeOK, LifecycleInv
  <2> QED
    BY <1>7, <2>1 DEF OpenNetworkSucceeds, Lifecycle!Next,
                      Lifecycle!OpenResult, Lifecycle!Move
<1>8. CASE CloseNewDone
  BY <1>8, GiveUpRefines
<1>9. CASE ConfirmSerial
  BY <1>9, CleanupRefines DEF ConfirmSerial
<1>10. CASE CloseDone
  <2>1. cur \in Sessions /\ session[cur] = "closing"
    BY <1>10 DEF CloseDone, TypeOK, LifecycleInv
  <2> QED
    BY <1>10, <2>1 DEF CloseDone, Lifecycle!Next, Lifecycle!Closed,
                       Lifecycle!Move
<1>11. CASE HealthBad
  BY <1>11, CleanupRefines DEF HealthBad
<1>12. CASE Reconnect
  BY <1>12, ConnectLockedRefines DEF Reconnect
<1>13. CASE \/ UserRequest \/ StartRefresh \/ HealthOk \/ PortGone \/ Traffic
            \/ Pages \/ UNCHANGED vars
  BY <1>13 DEF UserRequest, Connect, Disconnect, Shutdown,
     RefreshConnectionStatus, StartRefresh, HealthOk, PortGone, Traffic,
     LinkError, BeginWrite, WriteDone, WriteSucceeds, WriteFails, Pages,
     AcquireActivity, ReleaseActivity, SetPlotReceiveAggregationEnabled,
     OtherAcquire, OtherRelease, link, vars
<1> QED
  BY <1>1, <1>2, <1>3, <1>4, <1>5, <1>6, <1>7, <1>8, <1>9, <1>10, <1>11,
     <1>12, <1>13
  DEF Next, OperationStep

\* The safety part of LifecycleRefinement: the transports of the service
\* behave as one exclusive handle.
THEOREM LifecycleSafety == Spec => Lifecycle!Init /\ [][Lifecycle!Next]_session
<1>1. Init => Lifecycle!Init
  BY DEF Init, Lifecycle!Init
<1> QED
  BY <1>1, StepRefines, Invariance, PTL DEF Spec, Inv

-------------------------------------------------------------------------------
(* Generations and the queue.  That a connected session belongs to a         *)
(* generation that was given out, and that no older connect succeeds in      *)
(* front of a waiting disconnect, needs the order of the generations in the  *)
(* queue: an intent takes its generation and its place in one step.          *)

\* The operations that replace the user's intent; a refresh does not.
IntentKind == {"connect", "disconnect", "ioDisconnect", "shutdown"}

\* No waiting operation is from the future, and the intents wait in the order
\* of their generations.
QueueOrdered ==
    /\ \A i \in DOMAIN queue :
          /\ queue[i].gen <= generation
          /\ queue[i].kind \in IntentKind => queue[i].gen >= 1
    /\ \A i, j \in DOMAIN queue :
          i < j /\ queue[i].kind \in IntentKind /\ queue[j].kind \in IntentKind
             => queue[i].gen < queue[j].gen

\* A connect that runs is older than every intent still waiting.
RunningIsOldest ==
    op.kind = "connect" =>
       \A i \in DOMAIN queue :
          queue[i].kind \in IntentKind => op.gen < queue[i].gen

\* The running attempt and the bound session have generations given out.
GivenOut ==
    /\ op.gen <= generation
    /\ pc \in {"yield", "opening", "confirm"} => op.gen >= 1
    /\ activeSession # NoSession => boundGeneration \in 1 .. generation

GenerationInv == QueueOrdered /\ RunningIsOldest /\ GivenOut

LEMMA QueueEntries ==
  ASSUME TypeOK
  PROVE  \A i \in DOMAIN queue : queue[i] \in Operation /\ queue[i].gen \in Nat
<1>1. queue \in Seq(Operation)
  BY DEF TypeOK
<1>2. \A i \in 1 .. Len(queue) : queue[i] \in Operation
  BY <1>1
<1>3. DOMAIN queue = 1 .. Len(queue)
  BY <1>1
<1> QED
  BY <1>2, <1>3 DEF Operation

LEMMA EnqueueGenerations ==
  ASSUME TypeOK, GenerationInv, NEW kind \in IntentKind,
         NEW type \in ConnectionType, Enqueue(kind, type),
         UNCHANGED <<op, pc, activeSession, boundGeneration>>
  PROVE  GenerationInv'
<1> DEFINE o == [kind |-> kind, type |-> type, gen |-> generation + 1]
<1>1. /\ generation \in Nat /\ queue \in Seq(Operation) /\ op \in Operation
      /\ generation' = generation + 1 /\ boundGeneration \in Nat
  BY DEF TypeOK, Enqueue
<1>2. o \in Operation /\ o.gen = generation + 1
  BY <1>1 DEF Operation, Kind, IntentKind
<1>3. queue' = Append(queue, o)
  BY DEF Enqueue
<1> HIDE DEF o
<1>4. /\ DOMAIN queue' = 1 .. Len(queue) + 1 /\ DOMAIN queue = 1 .. Len(queue)
      /\ Len(queue) \in Nat
      /\ \A i \in DOMAIN queue : queue'[i] = queue[i]
      /\ queue'[Len(queue) + 1] = o
  BY <1>1, <1>2, <1>3
<1>5. \A i \in DOMAIN queue : queue[i] \in Operation /\ queue[i].gen \in Nat
  BY <1>1, QueueEntries
<1>6. \A i \in DOMAIN queue' :
         i \in DOMAIN queue \/ (i = Len(queue) + 1 /\ queue'[i] = o)
  <2>1. \A n \in Nat : \A i \in 1 .. n + 1 : i \in 1 .. n \/ i = n + 1
    OBVIOUS
  <2> QED
    BY <1>4, <2>1
<1>7. op.gen \in Nat
  BY <1>1 DEF Operation
<1>8. QueueOrdered'
  <2>1. \A i \in DOMAIN queue' :
           /\ queue'[i].gen <= generation'
           /\ queue'[i].kind \in IntentKind => queue'[i].gen >= 1
    BY <1>1, <1>2, <1>4, <1>5, <1>6 DEF GenerationInv, QueueOrdered
  <2>2. ASSUME NEW i \in DOMAIN queue', NEW j \in DOMAIN queue', i < j,
               queue'[i].kind \in IntentKind, queue'[j].kind \in IntentKind
        PROVE  queue'[i].gen < queue'[j].gen
    <3>1. i \in DOMAIN queue
      BY <1>4, <2>2
    <3>2. CASE j \in DOMAIN queue
      BY <1>4, <2>2, <3>1, <3>2 DEF GenerationInv, QueueOrdered
    <3>3. CASE j = Len(queue) + 1
      BY <1>1, <1>2, <1>4, <1>5, <2>2, <3>1, <3>3
      DEF GenerationInv, QueueOrdered
    <3> QED
      BY <1>6, <3>2, <3>3
  <2> QED
    BY <2>1, <2>2 DEF QueueOrdered
<1>9. RunningIsOldest'
  BY <1>1, <1>2, <1>4, <1>6, <1>7 DEF GenerationInv, RunningIsOldest, GivenOut
<1>10. GivenOut'
  BY <1>1, <1>7 DEF GenerationInv, GivenOut
<1> QED
  BY <1>8, <1>9, <1>10 DEF GenerationInv

LEMMA RefreshGenerations ==
  ASSUME TypeOK, GenerationInv, RefreshConnectionStatus
  PROVE  GenerationInv'
<1> DEFINE o == [kind |-> "refresh", type |-> "serial", gen |-> generation]
<1>1. generation \in Nat /\ queue \in Seq(Operation)
  BY DEF TypeOK
<1>2. o \in Operation /\ o.gen = generation /\ o.kind \notin IntentKind
  BY <1>1 DEF Operation, Kind, ConnectionType, IntentKind
<1>3. /\ queue' = Append(queue, o)
      /\ UNCHANGED <<generation, op, pc, activeSession, boundGeneration>>
  BY DEF RefreshConnectionStatus, link
<1> HIDE DEF o
<1>4. \A i \in DOMAIN queue' :
         \/ i \in DOMAIN queue /\ queue'[i] = queue[i]
         \/ queue'[i] = o
  BY <1>1, <1>2, <1>3
<1> QED
  BY <1>1, <1>2, <1>3, <1>4
  DEF GenerationInv, QueueOrdered, RunningIsOldest, GivenOut

\* Taking the first operation leaves the order, and makes a connect the oldest.
LEMMA DequeueGenerations ==
  ASSUME TypeOK, QueueOrdered, NEW kinds, Dequeue(kinds), generation' = generation
  PROVE  /\ QueueOrdered'
         /\ Head(queue) \in Operation /\ Head(queue).gen <= generation
         /\ Head(queue).kind \in kinds
         /\ Head(queue).kind \in IntentKind =>
               /\ Head(queue).gen >= 1
               /\ \A i \in DOMAIN queue' :
                     queue'[i].kind \in IntentKind
                        => Head(queue).gen < queue'[i].gen
<1>1. queue \in Seq(Operation) /\ queue # <<>> /\ queue' = Tail(queue)
  BY DEF TypeOK, Dequeue
<1>2. /\ Head(queue) = queue[1] /\ 1 \in DOMAIN queue
      /\ DOMAIN queue = 1 .. Len(queue) /\ Len(queue) \in Nat
      /\ \A i \in DOMAIN queue' :
            i + 1 \in DOMAIN queue /\ queue'[i] = queue[i + 1] /\ i \in Nat
            /\ 1 <= i
  BY <1>1
<1> QED
  BY <1>1, <1>2 DEF QueueOrdered, Dequeue

\* The queue as it was, a generation that did not go back.
LEMMA QueueKept ==
  ASSUME TypeOK, QueueOrdered, queue' = queue,
         generation' \in Nat, generation <= generation'
  PROVE  QueueOrdered'
<1>1. generation \in Nat /\ queue \in Seq(Operation)
  BY DEF TypeOK
<1>2. \A i \in DOMAIN queue : queue[i].gen \in Nat
  BY QueueEntries
<1>3. \A i \in DOMAIN queue : queue[i].gen <= generation'
  BY <1>1, <1>2 DEF QueueOrdered
<1> QED
  BY <1>3 DEF QueueOrdered

\* A cleanup either ends the operation or waits for the transport's close.
LEMMA CleanupEnds ==
  ASSUME NEW o, NEW f, Cleanup(o, f)
  PROVE  /\ op' = o \/ op' = NoOp
         /\ pc' \notin {"yield", "opening", "confirm"}
         /\ activeSession' = NoSession
<1>1. CASE activeSession = NoSession /\ o.kind # "refresh"
  BY <1>1 DEF Cleanup, Resume, Finish
<1>2. CASE activeSession = NoSession /\ o.kind = "refresh"
  BY <1>2 DEF Cleanup, Resume, Suspend
<1>3. CASE activeSession # NoSession
  BY <1>3 DEF Cleanup, Suspend
<1> QED
  BY <1>1, <1>2, <1>3

LEMMA ConnectLockedEnds ==
  ASSUME NEW o, ConnectLocked(o)
  PROVE  op' = o \/ (op' = NoOp /\ pc' = "idle")
BY DEF ConnectLocked, Finish, Suspend

\* What an attempt that begins may do to the generations in use.
LEMMA RunGenerations ==
  ASSUME TypeOK, generation' \in Nat, QueueOrdered', NEW o \in Operation,
         op' = o \/ op' = NoOp,
         o.gen <= generation',
         o.kind = "connect" =>
            \A i \in DOMAIN queue' :
               queue'[i].kind \in IntentKind => o.gen < queue'[i].gen,
         pc' \in {"yield", "opening", "confirm"} => op' = o /\ o.gen >= 1,
         activeSession' # NoSession => boundGeneration' \in 1 .. generation'
  PROVE  GenerationInv'
<1>1. CASE op' = o
  BY <1>1 DEF GenerationInv, RunningIsOldest, GivenOut
<1>2. CASE op' = NoOp
  <2>1. op'.kind = "none" /\ op'.gen = 0
    BY <1>2 DEF NoOp
  <2>2. 0 <= generation'
    OBVIOUS
  <2>3. pc' \in {"yield", "opening", "confirm"} => op'.gen >= 1
    BY <1>2
  <2> QED
    BY <2>1, <2>2, <2>3 DEF GenerationInv, RunningIsOldest, GivenOut
<1> QED
  BY <1>1, <1>2

\* A step of the running operation that leaves queue and generation alone.
LEMMA SameGenerations ==
  ASSUME Base, GenerationInv, UNCHANGED <<queue, generation>>,
         op' = op \/ op' = NoOp,
         pc' \in {"yield", "opening", "confirm"}
            => op' = op /\ pc \in {"yield", "opening", "confirm"},
         activeSession' # NoSession => boundGeneration' \in 1 .. generation
  PROVE  GenerationInv'
<1>1. generation \in Nat /\ op \in Operation
  BY DEF Base, TypeOK
<1>2. QueueOrdered'
  BY DEF GenerationInv, QueueOrdered
<1> QED
  BY <1>1, <1>2, RunGenerations
  DEF Base, GenerationInv, RunningIsOldest, GivenOut

\* An I/O error that joins the pending cleanup changes nothing.
LEMMA IoGenerations ==
  ASSUME Base, GenerationInv, DisconnectFromIo,
         UNCHANGED <<op, pc, activeSession, boundGeneration>>
  PROVE  GenerationInv'
<1>1. CASE ioDisconnectFuture
  BY <1>1 DEF DisconnectFromIo, GenerationInv, QueueOrdered, RunningIsOldest,
              GivenOut
<1>2. CASE ~ioDisconnectFuture
  BY <1>2, EnqueueGenerations
  DEF DisconnectFromIo, Base, IntentKind, ConnectionType
<1> QED
  BY <1>1, <1>2

LEMMA GenerationInit == Init => GenerationInv
BY DEF Init, NoOp, GenerationInv, QueueOrdered, RunningIsOldest, GivenOut

LEMMA GenerationStep ==
  ASSUME Base, Base', GenerationInv, [Next]_vars
  PROVE  GenerationInv'
<1>0. /\ generation \in Nat /\ generation' \in Nat /\ op \in Operation
      /\ op.gen \in Nat /\ boundGeneration \in Nat /\ TypeOK
  BY DEF Base, TypeOK, Operation
<1>1. ASSUME NEW t \in Types, Connect(t) PROVE GenerationInv'
  BY <1>0, <1>1, EnqueueGenerations, TypesAssumption DEF Connect, IntentKind
<1>2. CASE Disconnect \/ Shutdown
  BY <1>0, <1>2, EnqueueGenerations
  DEF Disconnect, Shutdown, IntentKind, ConnectionType, link
<1>3. CASE RefreshConnectionStatus
  BY <1>0, <1>3, RefreshGenerations
<1>4. CASE StartConnect
  <2> DEFINE o == Head(queue)
  <2>1. Dequeue({"connect"}) /\ ConnectLocked(o) /\ pc = "idle"
        /\ UNCHANGED <<generation, activeSession, boundGeneration>>
    BY <1>4 DEF StartConnect, Dequeue
  <2>2. /\ QueueOrdered' /\ o \in Operation /\ o.gen <= generation
        /\ o.kind = "connect" /\ o.gen >= 1
        /\ \A i \in DOMAIN queue' :
              queue'[i].kind \in IntentKind => o.gen < queue'[i].gen
    BY <1>0, <2>1, DequeueGenerations DEF GenerationInv, IntentKind
  <2> HIDE DEF o
  <2>3. op' = o \/ (op' = NoOp /\ pc' = "idle")
    BY <2>1, ConnectLockedEnds
  <2> QED
    BY <1>0, <2>1, <2>2, <2>3, RunGenerations DEF GenerationInv, GivenOut
<1>5. CASE StartCleanup
  <2> DEFINE o == Head(queue)
  <2>1. Dequeue({"disconnect", "ioDisconnect", "shutdown"})
        /\ Cleanup(o, session) /\ UNCHANGED generation
    BY <1>5 DEF StartCleanup
  <2>2. /\ QueueOrdered' /\ o \in Operation /\ o.gen <= generation
        /\ o.kind # "connect"
    BY <1>0, <2>1, DequeueGenerations DEF GenerationInv
  <2> HIDE DEF o
  <2> QED
    BY <1>0, <2>1, <2>2, CleanupEnds, RunGenerations
<1>6. CASE StartRefresh
  <2> DEFINE o == Head(queue)
  <2>1. Dequeue({"refresh"})
        /\ UNCHANGED <<generation, activeSession, boundGeneration>>
        /\ op' = o /\ pc' \in {"health", "list"}
    BY <1>6 DEF StartRefresh, Suspend, link
  <2>2. /\ QueueOrdered' /\ o \in Operation /\ o.gen <= generation
        /\ o.kind # "connect"
    BY <1>0, <2>1, DequeueGenerations DEF GenerationInv
  <2> HIDE DEF o
  <2> QED
    BY <1>0, <2>1, <2>2, RunGenerations DEF GenerationInv, GivenOut
<1>7. CASE OpenSerial \/ OpenDiscarded
  BY <1>0, <1>7, SameGenerations
  DEF OpenSerial, OpenDiscarded, Suspend, GenerationInv, GivenOut
<1>8. CASE OpenFails \/ CloseNewDone
  <2>1. PICK f : Cleanup(op, f)
    BY <1>8 DEF OpenFails, CloseNewDone
  <2> QED
    BY <1>0, <1>8, <2>1, CleanupEnds, SameGenerations
    DEF OpenFails, CloseNewDone
<1>9. CASE OpenSerialSucceeds
  <2>1. /\ op' = op /\ pc = "opening" /\ UNCHANGED <<queue, generation>>
        /\ activeSession' # NoSession
              => boundGeneration' = op.gen /\ op.gen = generation
    BY <1>9 DEF OpenSerialSucceeds, Suspend, IsCurrent
  <2>2. op.gen >= 1
    BY <2>1 DEF GenerationInv, GivenOut
  <2> QED
    BY <1>0, <2>1, <2>2, SameGenerations
<1>10. CASE OpenNetworkSucceeds
  <2>1. /\ op' = NoOp /\ pc' = "idle" /\ UNCHANGED <<queue, generation>>
        /\ boundGeneration' = op.gen /\ op.gen = generation
        /\ pc = "opening"
    BY <1>10 DEF OpenNetworkSucceeds, Finish, IsCurrent
  <2>2. op.gen >= 1
    BY <2>1 DEF GenerationInv, GivenOut
  <2> QED
    BY <1>0, <2>1, <2>2, SameGenerations
<1>11. CASE ConfirmSerial
  <2>1. CASE IsCurrent(op.gen)
    BY <1>0, <1>11, <2>1, SameGenerations
    DEF ConfirmSerial, Finish, GenerationInv, GivenOut
  <2>2. CASE ~IsCurrent(op.gen)
    BY <1>0, <1>11, <2>2, CleanupEnds, SameGenerations DEF ConfirmSerial
  <2> QED
    BY <2>1, <2>2
<1>12. CASE CloseDone \/ HealthOk \/ PortGone
  BY <1>0, <1>12, SameGenerations
  DEF CloseDone, HealthOk, PortGone, Resume, Finish, Suspend, GenerationInv,
      GivenOut
<1>13. CASE HealthBad
  <2>1. /\ pc = "health" /\ generation' = generation + 1 /\ queue' = queue
        /\ Cleanup(op, session)
    BY <1>13 DEF HealthBad
  <2>2. QueueOrdered'
    BY <1>0, <2>1, QueueKept DEF GenerationInv
  <2>3. op.gen <= generation'
    BY <1>0, <2>1 DEF GenerationInv, GivenOut
  <2> QED
    BY <1>0, <2>1, <2>2, <2>3, CleanupEnds, RunGenerations
    DEF GenerationInv, RunningIsOldest
<1>14. CASE Reconnect
  <2> DEFINE o == [kind |-> "reconnect", type |-> "serial",
                   gen |-> generation + 1]
  <2>1. /\ pc = "ports" /\ generation' = generation + 1
        /\ UNCHANGED <<queue, activeSession, boundGeneration>>
        /\ ConnectLocked(o)
    BY <1>14 DEF Reconnect
  <2>2. o \in Operation /\ o.gen = generation + 1 /\ o.kind # "connect"
    BY <1>0 DEF Operation, Kind, ConnectionType
  <2> HIDE DEF o
  <2>3. QueueOrdered'
    BY <1>0, <2>1, QueueKept DEF GenerationInv
  <2>4. op' = o \/ (op' = NoOp /\ pc' = "idle")
    BY <2>1, ConnectLockedEnds
  <2>5. activeSession' # NoSession => boundGeneration' \in 1 .. generation'
    BY <1>0, <2>1 DEF GenerationInv, GivenOut
  <2> QED
    BY <1>0, <2>1, <2>2, <2>3, <2>4, <2>5, RunGenerations
<1>15. CASE LinkError
  BY <1>15, IoGenerations DEF LinkError, link
<1>16. ASSUME NEW w \in Writes, WriteFails(w) PROVE GenerationInv'
  <2>1. CASE DisconnectFromIo
    BY <1>16, <2>1, IoGenerations DEF WriteFails, link
  <2>2. CASE UNCHANGED <<generation, queue>>
    BY <1>0, <1>16, <2>2, SameGenerations
    DEF WriteFails, link, GenerationInv, GivenOut
  <2> QED
    BY <1>16, <2>1, <2>2 DEF WriteFails
<1>17. CASE \/ \E w \in Writes : BeginWrite(w) \/ WriteSucceeds(w)
            \/ Pages \/ UNCHANGED vars
  <2>1. UNCHANGED <<queue, generation, op, pc, activeSession, boundGeneration>>
    BY <1>17 DEF BeginWrite, WriteSucceeds, Pages, AcquireActivity,
       ReleaseActivity, SetPlotReceiveAggregationEnabled, OtherAcquire,
       OtherRelease, coordinator, link, vars
  <2> QED
    BY <1>0, <2>1, SameGenerations DEF GenerationInv, GivenOut
<1> QED
  BY <1>1, <1>2, <1>3, <1>4, <1>5, <1>6, <1>7, <1>8, <1>9, <1>10, <1>11,
     <1>12, <1>13, <1>14, <1>15, <1>16, <1>17
  DEF Next, UserRequest, OperationStep, Traffic, WriteDone

LEMMA GenerationsHold == Spec => [](Inv /\ GenerationInv)
<1>1. Inv /\ GenerationInv /\ [Next]_vars => (Inv /\ GenerationInv)'
  BY InvStep, GenerationStep DEF Inv
<1> QED
  BY <1>1, InvInit, GenerationInit, PTL DEF Spec

\* A connected service has an open session bound to a generation that was
\* given out, and owns the entry.
THEOREM ConnectedIsBound == Spec => []ConnectedSession
<1>1. Inv /\ GenerationInv => ConnectedSession
  BY DEF Inv, Base, LifecycleInv, OwnerKept, GenerationInv, GivenOut,
         ConnectedSession
<1> QED
  BY <1>1, GenerationsHold, PTL

\* Success is reported only under the newest generation, so nothing that takes
\* one is waiting.
LEMMA SuccessIsNewest ==
  ASSUME Base, GenerationInv, Next, ~isConnected, isConnected',
         op.kind = "connect"
  PROVE  ~Pending({"disconnect", "ioDisconnect", "shutdown"})
<1>1. IsCurrent(op.gen)
  <2>1. ASSUME NEW o, NEW f, Cleanup(o, f) PROVE isConnected' = FALSE
    BY <2>1 DEF Cleanup
  <2>2. CASE OperationStep
    BY <2>1, <2>2 DEF OperationStep, StartConnect, StartCleanup, StartRefresh,
       OpenSerial, OpenFails, OpenDiscarded, OpenSerialSucceeds,
       OpenNetworkSucceeds, CloseNewDone, ConfirmSerial, CloseDone, HealthOk,
       HealthBad, PortGone, Reconnect, link
  <2>3. CASE UserRequest \/ Traffic \/ Pages
    BY <2>3 DEF UserRequest, Connect, Disconnect, Shutdown,
       RefreshConnectionStatus, Traffic, LinkError, BeginWrite, WriteDone,
       WriteSucceeds, WriteFails, Pages, AcquireActivity, ReleaseActivity,
       SetPlotReceiveAggregationEnabled, OtherAcquire, OtherRelease, link
  <2> QED
    BY <2>2, <2>3 DEF Next
<1>2. generation \in Nat /\ \A i \in DOMAIN queue : queue[i].gen \in Nat
  BY QueueEntries DEF Base, TypeOK
<1>3. \A i \in DOMAIN queue :
         queue[i].gen <= generation
         /\ (queue[i].kind \in IntentKind => generation < queue[i].gen)
  BY <1>1 DEF IsCurrent, GenerationInv, QueueOrdered, RunningIsOldest
<1> QED
  BY <1>2, <1>3 DEF Pending, IntentKind

\* A connect never succeeds in front of a disconnect, a link error's cleanup
\* or an exit that is already waiting.
THEOREM NewestIntentWins == Spec => NoConnectAgainstPendingDisconnect
<1> DEFINE A == ~isConnected /\ isConnected' /\ op.kind = "connect"
                => ~Pending({"disconnect", "ioDisconnect", "shutdown"})
<1>1. Inv /\ GenerationInv /\ [Next]_vars => [A]_vars
  BY SuccessIsNewest DEF Inv
<1>2. Spec => [][A]_vars
  BY <1>1, GenerationsHold, PTL DEF Spec
<1> QED
  BY <1>2 DEF NoConnectAgainstPendingDisconnect

-------------------------------------------------------------------------------
(* The pages.  AggregationFollowsPlot reads the type of the connection, which  *)
(* an attempt sets before there is a transport: between the two awaits the     *)
(* type shown must be that of the attempt.                                     *)

PageInv ==
    /\ ActivityNeedsConnection
    /\ AggregationFollowsPlot
    /\ pc \in {"yield", "opening"} => activeConnectionType = op.type
    /\ pc = "yield" => op.type = "serial"

LEMMA CleanupPages ==
  ASSUME TypeOK, PageInv, NEW o, NEW f, Cleanup(o, f)
  PROVE  PageInv'
<1>1. pc' \notin {"yield", "opening"}
  BY CleanupEnds
<1>2. /\ activeSession' = NoSession /\ activityOwner' = "none"
      /\ aggregating' = IF activeSession # NoSession
                           /\ activeConnectionType = "serial" THEN FALSE
                        ELSE aggregating
  BY DEF Cleanup
<1>3. ~aggregating'
  BY <1>2 DEF PageInv, AggregationFollowsPlot, isNetworkConnection
<1> QED
  BY <1>1, <1>2, <1>3
  DEF PageInv, ActivityNeedsConnection, AggregationFollowsPlot

LEMMA ConnectLockedPages ==
  ASSUME Base, PageInv, NEW o, pc \in {"idle", "ports"}, ConnectLocked(o),
         UNCHANGED <<isConnected, activeSession, activity>>
  PROVE  PageInv'
<1>1. CASE Finish(o) /\ UNCHANGED activeConnectionType
  BY <1>1 DEF Finish, PageInv, ActivityNeedsConnection,
              AggregationFollowsPlot, isNetworkConnection, activity
<1>2. CASE /\ ~isConnected /\ activeConnectionType' = o.type /\ op' = o
           /\ pc' = "yield" => o.type = "serial"
  <2>1. activeSession = NoSession
    BY <1>2 DEF Base, LifecycleInv
  <2> QED
    BY <1>2, <2>1 DEF PageInv, ActivityNeedsConnection,
                      AggregationFollowsPlot, activity
<1> QED
  BY <1>1, <1>2 DEF ConnectLocked, Suspend

\* A step that leaves connection and pages alone and opens nothing new.
LEMMA SamePages ==
  ASSUME PageInv, UNCHANGED <<isConnected, activeConnectionType, activeSession,
                              activity>>,
         pc' \in {"yield", "opening"}
            => op' = op /\ pc \in {"yield", "opening"}
               /\ (pc' = "yield" => pc = "yield")
  PROVE  PageInv'
BY DEF PageInv, ActivityNeedsConnection, AggregationFollowsPlot,
       isNetworkConnection, activity

LEMMA PageInit == Init => PageInv
BY DEF Init, PageInv, ActivityNeedsConnection, AggregationFollowsPlot

LEMMA PageStep ==
  ASSUME Base, PageInv, [Next]_vars
  PROVE  PageInv'
<1>0. TypeOK
  BY DEF Base
<1>1. CASE UserRequest \/ Traffic \/ UNCHANGED vars
  BY <1>1, SamePages DEF UserRequest, Connect, Disconnect, Shutdown,
     RefreshConnectionStatus, Traffic, LinkError, BeginWrite, WriteDone,
     WriteSucceeds, WriteFails, link, vars
<1>2. CASE StartConnect
  BY <1>2, ConnectLockedPages DEF StartConnect, Dequeue
<1>3. CASE StartCleanup
  BY <1>0, <1>3, CleanupPages DEF StartCleanup
<1>4. CASE \/ StartRefresh \/ OpenSerial \/ OpenDiscarded \/ CloseDone
           \/ HealthOk \/ PortGone
  <2>1. UNCHANGED <<isConnected, activeConnectionType, activeSession, activity>>
    BY <1>4 DEF StartRefresh, OpenSerial, OpenDiscarded, CloseDone, HealthOk,
                PortGone, link
  <2>2. CASE OpenSerial
    BY <2>1, <2>2, SamePages DEF OpenSerial, Suspend
  <2>3. CASE ~OpenSerial
    <3>1. pc' \notin {"yield", "opening"}
      BY <1>4, <2>3 DEF StartRefresh, OpenDiscarded, CloseDone, HealthOk,
                        PortGone, Resume, Finish, Suspend
    <3> QED
      BY <2>1, <3>1, SamePages
  <2> QED
    BY <2>2, <2>3
<1>5. CASE OpenFails \/ CloseNewDone \/ HealthBad
  BY <1>0, <1>5, CleanupPages DEF OpenFails, CloseNewDone, HealthBad
<1>6. CASE OpenSerialSucceeds
  <2>1. /\ activeConnectionType = "serial" /\ cur # NoSession
        /\ ~isConnected /\ pc' \notin {"yield", "opening"}
        /\ UNCHANGED <<isConnected, activeConnectionType, aggregationSetting>>
    BY <1>6, NoSessionAssumption
    DEF OpenSerialSucceeds, Suspend, PageInv, Base, LifecycleInv
  <2>2. CASE /\ activeSession' = cur /\ UNCHANGED activityOwner
             /\ aggregating' = Aggregation(cur, "serial", activityOwner,
                                           aggregationSetting)
    BY <2>1, <2>2 DEF Aggregation, PageInv, ActivityNeedsConnection,
                      AggregationFollowsPlot, isNetworkConnection
  <2>3. CASE /\ activeSession' = NoSession /\ activityOwner' = "none"
             /\ aggregating' = FALSE
    BY <2>1, <2>3 DEF PageInv, ActivityNeedsConnection,
                      AggregationFollowsPlot, isNetworkConnection
  <2> QED
    BY <1>6, <2>2, <2>3 DEF OpenSerialSucceeds
<1>7. CASE OpenNetworkSucceeds
  <2>1. /\ activeConnectionType # "serial" /\ isConnected' = TRUE
        /\ UNCHANGED <<activeConnectionType, activity>>
        /\ pc' = "idle"
    BY <1>7 DEF OpenNetworkSucceeds, Finish, PageInv
  <2> QED
    BY <2>1 DEF PageInv, ActivityNeedsConnection, AggregationFollowsPlot,
                isNetworkConnection, activity
<1>8. CASE ConfirmSerial
  <2>1. CASE IsCurrent(op.gen)
    <3>1. /\ isConnected' = TRUE /\ pc' = "idle"
          /\ UNCHANGED <<activeConnectionType, activeSession, activity>>
      BY <1>8, <2>1 DEF ConfirmSerial, Finish
    <3> QED
      BY <3>1 DEF PageInv, ActivityNeedsConnection, AggregationFollowsPlot,
                  isNetworkConnection, activity
  <2>2. CASE ~IsCurrent(op.gen)
    BY <1>0, <1>8, <2>2, CleanupPages DEF ConfirmSerial
  <2> QED
    BY <2>1, <2>2
<1>9. CASE Reconnect
  BY <1>9, ConnectLockedPages DEF Reconnect
<1>10. CASE Pages
  <2>0. /\ UNCHANGED <<isConnected, activeConnectionType, activeSession,
                       op, pc>>
        /\ aggregating \in BOOLEAN
    BY <1>0, <1>10 DEF Pages, AcquireActivity, ReleaseActivity, TypeOK,
       SetPlotReceiveAggregationEnabled, OtherAcquire, OtherRelease, link
  <2>1. ASSUME NEW a \in Activity, AcquireActivity(a)
        PROVE  PageInv'
    <3>1. AggregationFollowsPlot'
      BY <2>0, <2>1 DEF AcquireActivity, Aggregation, PageInv,
                        AggregationFollowsPlot, isNetworkConnection
    <3>2. ActivityNeedsConnection'
      BY <2>0, <2>1 DEF AcquireActivity, ActivityNeedsConnection
    <3> QED
      BY <2>0, <3>1, <3>2 DEF PageInv
  <2>2. ASSUME NEW a \in Activity, ReleaseActivity(a)
        PROVE  PageInv'
    <3>1. AggregationFollowsPlot'
      BY <2>0, <2>2 DEF ReleaseActivity, Aggregation, PageInv,
                        AggregationFollowsPlot, isNetworkConnection
    <3>2. ActivityNeedsConnection'
      BY <2>2 DEF ReleaseActivity, ActivityNeedsConnection
    <3> QED
      BY <2>0, <3>1, <3>2 DEF PageInv
  <2>3. CASE SetPlotReceiveAggregationEnabled
    <3>1. AggregationFollowsPlot'
      BY <2>0, <2>3 DEF SetPlotReceiveAggregationEnabled, Aggregation,
                        PageInv, AggregationFollowsPlot, isNetworkConnection
    <3>2. ActivityNeedsConnection'
      BY <2>0, <2>3 DEF SetPlotReceiveAggregationEnabled, PageInv,
                        ActivityNeedsConnection
    <3> QED
      BY <2>0, <3>1, <3>2 DEF PageInv
  <2>4. CASE \E o \in Owner : OtherAcquire(o) \/ OtherRelease(o)
    BY <2>0, <2>4, SamePages DEF OtherAcquire, OtherRelease
  <2> QED
    BY <1>10, <2>1, <2>2, <2>3, <2>4 DEF Pages
<1> QED
  BY <1>1, <1>2, <1>3, <1>4, <1>5, <1>6, <1>7, <1>8, <1>9, <1>10
  DEF Next, OperationStep

\* A page receives only over a live connection, and the serial reader
\* aggregates exactly while a plot runs on it with the option on.
THEOREM PagesFollow == Spec => []PageFollowsConnection
<1>1. Inv /\ PageInv /\ [Next]_vars => (Inv /\ PageInv)'
  BY InvStep, PageStep DEF Inv
<1>2. Inv /\ PageInv => PageFollowsConnection
  BY DEF PageInv, PageFollowsConnection
<1> QED
  BY <1>1, <1>2, InvInit, PageInit, PTL DEF Spec

-------------------------------------------------------------------------------
(***************************************************************************)
(* The data connection beside the SSH service, which uses the entry under  *)
(* the same owner.  Nothing the data connection promises about its         *)
(* transports, its intents and its pages rests on the entry, so all of it  *)
(* survives (Base, GenerationInv and PageInv do not mention owner but for  *)
(* its type).  What is lost is the entry itself, and only in one way: the  *)
(* SSH service gives back what the data connection holds.                  *)
(***************************************************************************)

\* Whatever the SSH service does to the entry, a value of its type is left.
LEMMA SshOwner ==
  ASSUME owner \in OwnerState, Ssh!Next
  PROVE  owner' \in OwnerState
<1>1. /\ Ssh!Owner = Owner /\ {owner, "none", "data"} \cup Owner \subseteq OwnerState
      /\ \A o : Ssh!Released(owner, o) \in {owner, "none"}
  BY DEF Ssh!Owner, Owner, OwnerState, Ssh!Released
<1>2. ASSUME NEW c, NEW f, NEW o, Ssh!Begin(c, f, o)
      PROVE  owner' = "data"
  BY <1>2 DEF Ssh!Begin
<1>3. CASE Ssh!ReportDisconnected \/ UNCHANGED owner
  BY <1>1, <1>3 DEF Ssh!ReportDisconnected
<1>4. CASE Ssh!UserRequest
  BY <1>1, <1>2, <1>3, <1>4
  DEF Ssh!UserRequest, Ssh!Cancel, Ssh!Connect, Ssh!Disconnect, Ssh!Reconnect,
      Ssh!RemoteClosed, Ssh!DisconnectClient
<1>5. ASSUME NEW c, Ssh!Continue(c)
      PROVE  owner' \in OwnerState
  BY <1>1, <1>2, <1>3, <1>5
  DEF Ssh!Continue, Ssh!ConnectorSucceeds, Ssh!ShellSucceeds, Ssh!StaleDone,
      Ssh!ShellFails, Ssh!Failed, Ssh!CloseDone, Ssh!DiscardClient
<1>6. ASSUME NEW o \in Owner, Ssh!OtherAcquire(o) \/ Ssh!OtherRelease(o)
      PROVE  owner' \in OwnerState
  BY <1>1, <1>6 DEF Ssh!OtherAcquire, Ssh!OtherRelease
<1> QED
  BY <1>1, <1>4, <1>5, <1>6 DEF Ssh!Next

SharedInv == Base /\ GenerationInv /\ PageInv

\* A step of the SSH service is for the data connection one of the entry only.
LEMMA SshStep ==
  ASSUME SharedInv, Ssh!Next, UNCHANGED data
  PROVE  SharedInv' /\ UNCHANGED <<session, isConnected, op, queue, pc>>
<1>1. /\ UNCHANGED <<coordinator, op, pc, cur, activity, writes, requests>>
      /\ UNCHANGED <<isConnected, isConnecting, activeConnectionType,
                     activeSession, boundGeneration, session>>
  BY DEF data
<1>2. Base'
  <2>1. LifecycleInv'
    BY <1>1, SameLifecycle DEF SharedInv, Base
  <2>2. TypeOK'
    BY <1>1, SshOwner DEF SharedInv, Base, TypeOK, coordinator, activity
  <2> QED
    BY <2>1, <2>2 DEF Base
<1>3. GenerationInv'
  BY <1>1 DEF SharedInv, GenerationInv, QueueOrdered, RunningIsOldest, GivenOut,
              coordinator
<1>4. PageInv'
  BY <1>1, SamePages DEF SharedInv
<1> QED
  BY <1>1, <1>2, <1>3, <1>4 DEF SharedInv, coordinator

LEMMA SharedStep == SharedInv /\ [SharedNext]_<<vars, ssh>> => SharedInv'
<1> SUFFICES ASSUME SharedInv, [SharedNext]_<<vars, ssh>> PROVE SharedInv'
  OBVIOUS
<1>1. CASE [Next]_vars
  BY <1>1, BaseStep, GenerationStep, PageStep DEF SharedInv
<1>2. CASE Ssh!Next /\ UNCHANGED data
  BY <1>2, SshStep
<1> QED
  BY <1>1, <1>2 DEF SharedNext

LEMMA SharedInvariance == SharedSpec => []SharedInv
<1>1. SharedInit => SharedInv
  BY BaseInit, GenerationInit, PageInit DEF SharedInit, SharedInv
<1> QED
  BY <1>1, SharedStep, PTL DEF SharedSpec

\* Beside an SSH service that acquires and releases the same entry at any time,
\* the data connection still opens one transport at a time and closes it before
\* the next, lets no connect succeed in front of a waiting disconnect, and keeps
\* its pages to a live connection: none of this relies on the entry.
THEOREM SharedEntryKeeps ==
    SharedSpec => /\ [](SingleLifecycle /\ PageFollowsConnection)
                  /\ NoConnectAgainstPendingDisconnect
                  /\ Lifecycle!Init /\ [][Lifecycle!Next]_session
<1> DEFINE A == ~isConnected /\ isConnected' /\ op.kind = "connect"
                => ~Pending({"disconnect", "ioDisconnect", "shutdown"})
<1>1. SharedInv => SingleLifecycle /\ PageFollowsConnection
  BY BaseSingle DEF SharedInv, PageInv, PageFollowsConnection
<1>2. SharedInv /\ [SharedNext]_<<vars, ssh>> => [A]_vars /\ [Lifecycle!Next]_session
  <2> SUFFICES ASSUME SharedInv, [SharedNext]_<<vars, ssh>>
               PROVE  [A]_vars /\ [Lifecycle!Next]_session
    OBVIOUS
  <2>1. CASE [Next]_vars
    BY <2>1, SuccessIsNewest, StepRefines DEF SharedInv
  <2>2. CASE Ssh!Next /\ UNCHANGED data
    BY <2>2, SshStep
  <2> QED
    BY <2>1, <2>2 DEF SharedNext
<1>3. SharedInit => Lifecycle!Init
  BY DEF SharedInit, Init, Lifecycle!Init
<1>4. SharedSpec => [][A]_vars /\ [][Lifecycle!Next]_session
  BY <1>2, SharedInvariance, PTL DEF SharedSpec
<1> QED
  BY <1>1, <1>3, <1>4, SharedInvariance, PTL
  DEF SharedSpec, NoConnectAgainstPendingDisconnect

\* The SSH service gives back the entry that the data connection holds.
SshFrees == owner = "data" /\ owner' # "data" /\ UNCHANGED data

\* As long as the SSH service never does that, a transport that is opened or
\* used owns the entry: sharing the owner "data" costs the data connection its
\* entry in this way and in no other (tryAcquire and release of
\* ConnectionOwnerService, which take the owner's name for its identity).
THEOREM EntryLostToSshOnly ==
    SharedSpec /\ [][~SshFrees]_<<vars, ssh>> => []SessionsOwned
<1>1. SharedInit => OwnerKept
  BY DEF SharedInit, Init, OwnerKept
<1>2. SharedInv /\ OwnerKept /\ [SharedNext]_<<vars, ssh>> /\ [~SshFrees]_<<vars, ssh>>
         => OwnerKept'
  <2> SUFFICES ASSUME SharedInv, OwnerKept, [SharedNext]_<<vars, ssh>>,
                      [~SshFrees]_<<vars, ssh>>
               PROVE  OwnerKept'
    OBVIOUS
  <2>1. CASE [Next]_vars
    BY <2>1, OwnerStep DEF SharedInv
  <2>2. CASE Ssh!Next /\ UNCHANGED data /\ ~SshFrees
    <3>1. owner = "data" => owner' = "data"
      BY <2>2 DEF SshFrees
    <3>2. UNCHANGED <<isConnected, pc>>
      BY <2>2, SshStep
    <3> QED
      BY <3>1, <3>2 DEF OwnerKept
  <2> QED
    BY <2>1, <2>2 DEF SharedNext
<1>3. SharedInv /\ OwnerKept => SessionsOwned
  BY KeptMeansOwned DEF SharedInv
<1> QED
  BY <1>1, <1>2, <1>3, SharedInvariance, PTL DEF SharedSpec

-------------------------------------------------------------------------------
(* The SSH service beside the data connection: the steps of the data        *)
(* connection are for it steps of the entry only (EntryTouched).            *)

SshProofs ==
    INSTANCE SshConnectionProofs WITH
          Calls <- SshCalls, Clients <- SshClients,
          MaxRequests <- MaxSshRequests,
          state <- sshState, generation <- sshGeneration, client <- sshClient,
          listening <- sshListening, session <- sshSession, call <- sshCall,
          requests <- sshRequests, overtaken <- sshOvertaken

\* The two instances of SshConnection, SharedEntry's and that of its proofs,
\* are the same.
LEMMA SameInit == Ssh!Init => SshProofs!Init
BY DEF Ssh!Init, SshProofs!Init, Ssh!Idle, SshProofs!Idle

LEMMA SameNext == Ssh!Next => SshProofs!Next
<1> USE DEF Ssh!Idle, Ssh!Request, Ssh!Current, Ssh!Goto, Ssh!Invalidate,
         Ssh!Begin, Ssh!ReportDisconnected, Ssh!RecordOvertaken, Ssh!Connect,
         Ssh!DisconnectClient, Ssh!Disconnect, Ssh!Cancel, Ssh!Reconnect,
         Ssh!RemoteClosed, Ssh!CloseDone, Ssh!DiscardClient,
         Ssh!ConnectorSucceeds, Ssh!ShellSucceeds, Ssh!StaleDone,
         Ssh!ShellFails, Ssh!Failed, Ssh!OtherAcquire, Ssh!OtherRelease,
         Ssh!Continue, Ssh!UserRequest, Ssh!Next, Ssh!CanAcquire,
         Ssh!Released, Ssh!Owner
<1> USE DEF SshProofs!Idle, SshProofs!Request, SshProofs!Current,
         SshProofs!Goto, SshProofs!Invalidate, SshProofs!Begin,
         SshProofs!ReportDisconnected, SshProofs!RecordOvertaken,
         SshProofs!Connect, SshProofs!DisconnectClient, SshProofs!Disconnect,
         SshProofs!Cancel, SshProofs!Reconnect, SshProofs!RemoteClosed,
         SshProofs!CloseDone, SshProofs!DiscardClient,
         SshProofs!ConnectorSucceeds, SshProofs!ShellSucceeds,
         SshProofs!StaleDone, SshProofs!ShellFails, SshProofs!Failed,
         SshProofs!OtherAcquire, SshProofs!OtherRelease, SshProofs!Continue,
         SshProofs!UserRequest, SshProofs!Next, SshProofs!CanAcquire,
         SshProofs!Released, SshProofs!Owner
<1> QED
  OBVIOUS

LEMMA SameClients ==
    /\ SshProofs!ClientNotLeaked => Ssh!ClientNotLeaked
    /\ Ssh!ClientsAssumption => SshProofs!ClientsAssumption
BY DEF SshProofs!ClientNotLeaked, Ssh!ClientNotLeaked,
       Ssh!ClientsAssumption, SshProofs!ClientsAssumption,
       Ssh!IsFiniteSet, SshProofs!IsFiniteSet, IsFiniteSet,
       Ssh!Cardinality, SshProofs!Cardinality, Cardinality

LEMMA DataTouchesEntry ==
  SharedInv' /\ [SharedNext]_<<vars, ssh>>
      => [SshProofs!Next \/ SshProofs!EntryTouched]_(SshProofs!vars)
<1> SUFFICES ASSUME SharedInv', [SharedNext]_<<vars, ssh>>
             PROVE  SshProofs!Next \/ SshProofs!EntryTouched
  OBVIOUS
<1>1. owner' \in SshProofs!OwnerState
  BY DEF SharedInv, Base, TypeOK, OwnerState, SshProofs!OwnerState, Owner,
         SshProofs!Owner
<1>2. CASE Ssh!Next
  BY <1>2, SameNext
<1>3. CASE UNCHANGED ssh
  BY <1>1, <1>3 DEF ssh, SshProofs!EntryTouched
<1> QED
  BY <1>2, <1>3 DEF SharedNext

\* Beside a data connection that takes and gives back the entry under the same
\* owner value, the SSH service still keeps its state and its client together
\* and leaves no link of a cancelled attempt open, until a late call ends what
\* a later one began: its generation is enough.  The hypothesis is that of
\* SshConnection, on the sets of calls and clients.
THEOREM SharedSshKeeps ==
  ASSUME Ssh!ClientsAssumption
  PROVE  SharedSpec => [](SshProofs!ServiceConsistent /\ Ssh!ClientNotLeaked)
<1>1. SshProofs!ClientsAssumption
  BY SameClients
<1>2. SshProofs!Init /\ [][SshProofs!Next \/ SshProofs!EntryTouched]_(SshProofs!vars)
         => [](SshProofs!ServiceConsistent /\ SshProofs!ClientNotLeaked)
  BY <1>1, SshProofs!SshNeedsNoEntry
<1>3. SharedInit => SshProofs!Init
  BY SameInit DEF SharedInit
<1>4. SshProofs!ClientNotLeaked => Ssh!ClientNotLeaked
  BY SameClients
<1> QED
  BY <1>2, <1>3, <1>4, DataTouchesEntry, SharedInvariance, PTL DEF SharedSpec
===============================================================================
