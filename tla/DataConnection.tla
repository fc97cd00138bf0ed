---------------------------- MODULE DataConnection ----------------------------
(***************************************************************************)
(* The life cycle of the application's data connection:                    *)
(* DataConnectionCoordinator (the queue of asynchronous operations, the    *)
(* generation and the single-flight futures) together with the operations  *)
(* that DataConnectionService puts on that queue.                          *)
(*                                                                         *)
(* Dart runs one event at a time, so a handler is atomic up to its next    *)
(* await.  Every action below is the code between two awaits; pc says at   *)
(* which await the running operation is suspended.  User requests, write   *)
(* results and link errors arrive while it is suspended.                   *)
(***************************************************************************)
EXTENDS Naturals, Sequences, FiniteSets, ConnectionOwner

CONSTANTS
    Sessions,     \* transport objects (identities are reused once forgotten)
    Writes,       \* writers that may be inside _writeBytes at the same time
    Types,        \* the kinds of connection the user may ask for
    NoSession,    \* the null transport
    MaxRequests   \* bound on user requests, writes and link errors

ConnectionType == {"serial", "tcpClient", "tcpServer", "udp"}
Activity == {"rawData", "shell", "plot", "modbus"}

ASSUME TypesAssumption == Types \subseteq ConnectionType
ASSUME NoSessionAssumption == NoSession \notin Sessions
ASSUME MaxRequestsAssumption == MaxRequests \in Nat
\* A new transport object can always be allocated.
ASSUME SessionsAssumption ==
    /\ IsFiniteSet(Sessions) /\ IsFiniteSet(Writes)
    /\ Cardinality(Sessions) > Cardinality(Writes)

VARIABLES
    generation,       \* _generation
    isShuttingDown,   \* _isShuttingDown
    connectFuture,    \* _connectFutureGeneration, 0 when _connectFuture is null
    ioDisconnectFuture, \* _ioDisconnectFuture # null
    queue,            \* operations waiting on _tail
    op,               \* the operation being run
    pc,               \* the await at which it is suspended
    cur,              \* the transport it is opening or closing
    isConnected, isConnecting, activeConnectionType,
    activeSession,    \* _activeSession
    boundGeneration,  \* the generation captured by the subscriptions, 0: none
    session,          \* what each transport's handle is doing
    owner,            \* ConnectionOwnerService._owner
    activityOwner,    \* _activityOwner
    aggregationSetting, \* AppSettings.plotReceiveAggregationEnabled
    aggregating,      \* the aggregation flag last given to a serial reader
    writes,           \* the transport each writer captured
    requests          \* requests made so far (bounds the model)

coordinator == <<generation, isShuttingDown, connectFuture,
                 ioDisconnectFuture, queue>>
link == <<isConnected, isConnecting, activeConnectionType, activeSession,
          boundGeneration, session, owner>>
activity == <<activityOwner, aggregationSetting, aggregating>>
vars == <<coordinator, op, pc, cur, link, activity, writes, requests>>

Kind == {"connect", "disconnect", "ioDisconnect", "shutdown", "refresh",
         "reconnect", "none"}
Operation == [kind : Kind, type : ConnectionType, gen : Nat]
NoOp == [kind |-> "none", type |-> "serial", gen |-> 0]

TypeOK ==
    /\ generation \in Nat /\ connectFuture \in Nat /\ boundGeneration \in Nat
    /\ isShuttingDown \in BOOLEAN /\ ioDisconnectFuture \in BOOLEAN
    /\ queue \in Seq(Operation) /\ op \in Operation
    /\ pc \in {"idle", "yield", "opening", "closeNew", "confirm", "closing",
               "health", "ports", "list"}
    /\ cur \in Sessions \cup {NoSession}
    /\ isConnected \in BOOLEAN /\ isConnecting \in BOOLEAN
    /\ activeConnectionType \in ConnectionType
    /\ activeSession \in Sessions \cup {NoSession}
    /\ session \in [Sessions -> {"idle", "opening", "open", "closing"}]
    /\ owner \in OwnerState
    /\ activityOwner \in Activity \cup {"none"}
    /\ aggregationSetting \in BOOLEAN /\ aggregating \in BOOLEAN
    /\ writes \in [Writes -> Sessions \cup {NoSession}]
    /\ requests \in Nat

Init ==
    /\ generation = 0 /\ connectFuture = 0 /\ boundGeneration = 0
    /\ isShuttingDown = FALSE /\ ioDisconnectFuture = FALSE
    /\ queue = <<>> /\ op = NoOp /\ pc = "idle" /\ cur = NoSession
    /\ isConnected = FALSE /\ isConnecting = FALSE
    /\ activeConnectionType = "serial" /\ activeSession = NoSession
    /\ session = [s \in Sessions |-> "idle"]
    /\ owner = "none" /\ activityOwner = "none"
    /\ aggregationSetting \in BOOLEAN /\ aggregating = FALSE
    /\ writes = [w \in Writes |-> NoSession]
    /\ requests = 0

-------------------------------------------------------------------------------
(* Helpers.  An operator whose comment starts with "Faulty:" is a deliberately *)
(* wrong variant of the one after it; no specification uses it.  It documents  *)
(* the mistake that a property named in PROJECT.json is there to catch.        *)

\* Faulty: only exit makes an intent stale, a later intent does not.
StaleOnlyOnExit(g) == ~isShuttingDown

\* isCurrent
IsCurrent(g) == ~isShuttingDown /\ g = generation

isNetworkConnection == activeConnectionType # "serial"

\* A transport object nothing refers to any more stands for a new one.
Fresh(s) == session[s] = "idle" /\ \A w \in Writes : writes[w] # s

Request == requests < MaxRequests /\ requests' = requests + 1

\* Faulty: the flag is pushed to network transports as well.
AggregationOnAnyLink(s, type, a, setting) ==
    IF s # NoSession THEN a = "plot" /\ setting ELSE aggregating

\* Only the Windows serial transport takes the plot aggregation flag.
Aggregation(s, type, a, setting) ==
    IF s # NoSession /\ type = "serial" THEN a = "plot" /\ setting
    ELSE aggregating

\* A new generation, and an operation of that generation at the queue's end.
Enqueue(kind, type) ==
    /\ generation' = generation + 1
    /\ queue' = Append(queue, [kind |-> kind, type |-> type,
                               gen |-> generation + 1])

\* Faulty: the connect attempt has no finally block.
FinishWithoutFinally(o) ==
    /\ pc' = "idle" /\ op' = NoOp /\ cur' = NoSession
    /\ isConnecting' = isConnecting
    /\ connectFuture' = IF o.kind = "connect" /\ connectFuture = o.gen THEN 0
                        ELSE connectFuture
    /\ ioDisconnectFuture' = IF o.kind = "ioDisconnect" THEN FALSE
                             ELSE ioDisconnectFuture

\* The operation's future completes: the futures that stand for it are
\* cleared and a connect attempt runs its finally block.
Finish(o) ==
    /\ pc' = "idle" /\ op' = NoOp /\ cur' = NoSession
    /\ isConnecting' = IF o.kind \in {"connect", "reconnect"} THEN FALSE
                       ELSE isConnecting
    /\ connectFuture' = IF o.kind = "connect" /\ connectFuture = o.gen THEN 0
                        ELSE connectFuture
    /\ ioDisconnectFuture' = IF o.kind = "ioDisconnect" THEN FALSE
                             ELSE ioDisconnectFuture

Suspend(o, at, s) ==
    /\ pc' = at /\ op' = o /\ cur' = s
    /\ UNCHANGED <<connectFuture, ioDisconnectFuture>>

\* What follows _cleanupPortLocked: a refresh goes on to look at the ports,
\* every other operation ends.
Resume(o) ==
    IF o.kind = "refresh"
    THEN Suspend(o, "ports", NoSession) /\ UNCHANGED isConnecting
    ELSE Finish(o)

\* Faulty: without an active session there is nothing to clean up.
CleanupOnlyActive(o, f) ==
    IF activeSession = NoSession
    THEN /\ session' = f /\ Resume(o)
         /\ UNCHANGED <<activeSession, boundGeneration, isConnected, owner,
                        activityOwner, aggregating, activeConnectionType,
                        aggregationSetting>>
    ELSE /\ activeSession' = NoSession /\ boundGeneration' = 0
         /\ isConnected' = FALSE
         /\ owner' = Released(owner, "data")
         /\ activityOwner' = "none" /\ aggregating' = FALSE
         /\ session' = [f EXCEPT ![activeSession] = "closing"]
         /\ Suspend(o, "closing", activeSession)
         /\ UNCHANGED <<isConnecting, activeConnectionType,
                        aggregationSetting>>

\* Faulty: the pages keep their activity.
CleanupKeepsActivity(o, f) ==
    /\ activeSession' = NoSession /\ boundGeneration' = 0
    /\ isConnected' = FALSE
    /\ owner' = Released(owner, "data")
    /\ aggregating' = FALSE
    /\ UNCHANGED <<activityOwner, activeConnectionType, aggregationSetting>>
    /\ IF activeSession = NoSession
       THEN session' = f /\ Resume(o)
       ELSE /\ session' = [f EXCEPT ![activeSession] = "closing"]
            /\ Suspend(o, "closing", activeSession)
            /\ UNCHANGED isConnecting

\* _cleanupPortLocked up to its first await, from handle states f.  The entry
\* and every activity are given back before the transport is closed.
Cleanup(o, f) ==
    /\ activeSession' = NoSession /\ boundGeneration' = 0
    /\ isConnected' = FALSE
    /\ owner' = Released(owner, "data")
    /\ activityOwner' = "none"
    /\ aggregating' = IF activeSession # NoSession
                         /\ activeConnectionType = "serial" THEN FALSE
                      ELSE aggregating
    /\ UNCHANGED <<activeConnectionType, aggregationSetting>>
    /\ IF activeSession = NoSession
       THEN session' = f /\ Resume(o)
       ELSE /\ session' = [f EXCEPT ![activeSession] = "closing"]
            /\ Suspend(o, "closing", activeSession)
            /\ UNCHANGED isConnecting

\* Faulty: a connect that runs while connected opens a second transport.
ConnectLockedAgain(o) ==
    /\ CanAcquire(owner, "data")
    /\ owner' = "data" /\ activeConnectionType' = o.type
    /\ isConnecting' = TRUE
    /\ \E s \in Sessions :
          /\ Fresh(s)
          /\ session' = [session EXCEPT ![s] = "opening"]
          /\ Suspend(o, "opening", s)

\* _connectLocked and _connectNetworkLocked up to their first await.
ConnectLocked(o) ==
    \/ /\ \/ o.kind = "connect" /\ o.type = "serial"   \* config.port is null
          \/ isConnected
          \/ ~CanAcquire(owner, "data")
       /\ Finish(o)
       /\ UNCHANGED <<session, owner, activeConnectionType>>
    \/ /\ ~isConnected /\ CanAcquire(owner, "data")
       /\ owner' = "data"
       /\ activeConnectionType' = o.type
       /\ isConnecting' = TRUE
       /\ IF o.type = "serial"
          THEN Suspend(o, "yield", NoSession) /\ UNCHANGED session
          ELSE \E s \in Sessions :
                  /\ Fresh(s)
                  /\ session' = [session EXCEPT ![s] = "opening"]
                  /\ Suspend(o, "opening", s)

\* disconnectFromIo: simultaneous I/O errors share one queued cleanup.
DisconnectFromIo ==
    IF ioDisconnectFuture
    THEN UNCHANGED <<generation, queue, ioDisconnectFuture>>
    ELSE Enqueue("ioDisconnect", "serial") /\ ioDisconnectFuture' = TRUE

-------------------------------------------------------------------------------
(* Requests: calls that only put an operation on the queue *)

\* connect and connectNetwork; a call while the current intent is still a
\* pending connect gets that connect's future and changes nothing.
Connect(t) ==
    /\ Request
    /\ ~isShuttingDown
    /\ connectFuture = 0 \/ connectFuture # generation
    /\ isConnecting' = TRUE
    /\ Enqueue("connect", t)
    /\ connectFuture' = generation + 1
    /\ UNCHANGED <<isShuttingDown, ioDisconnectFuture, op, pc, cur,
                   isConnected, activeConnectionType, activeSession,
                   boundGeneration, session, owner, activity, writes>>

Disconnect ==
    /\ Request
    /\ Enqueue("disconnect", "serial")
    /\ UNCHANGED <<isShuttingDown, connectFuture, ioDisconnectFuture, op, pc,
                   cur, link, activity, writes>>

Shutdown ==
    /\ Request
    /\ ~isShuttingDown
    /\ isShuttingDown' = TRUE
    /\ Enqueue("shutdown", "serial")
    /\ UNCHANGED <<connectFuture, ioDisconnectFuture, op, pc, cur, link,
                   activity, writes>>

\* refreshConnectionStatus looks at the connection type now, not when the
\* operation is run.
RefreshConnectionStatus ==
    /\ Request
    /\ ~isNetworkConnection
    /\ queue' = Append(queue, [kind |-> "refresh", type |-> "serial",
                               gen |-> generation])
    /\ UNCHANGED <<generation, isShuttingDown, connectFuture,
                   ioDisconnectFuture, op, pc, cur, link, activity, writes>>

-------------------------------------------------------------------------------
(* The queue: one operation at a time, in the order of the requests *)

\* Faulty: an operation starts without waiting for the one before it.
DequeueAtOnce(kinds) ==
    /\ queue # <<>> /\ Head(queue).kind \in kinds
    /\ queue' = Tail(queue)

Dequeue(kinds) ==
    /\ pc = "idle" /\ queue # <<>> /\ Head(queue).kind \in kinds
    /\ queue' = Tail(queue)

StartConnect ==
    /\ Dequeue({"connect"})
    /\ ConnectLocked(Head(queue))
    /\ UNCHANGED <<generation, isShuttingDown, isConnected, activeSession,
                   boundGeneration, activity, writes, requests>>

StartCleanup ==
    /\ Dequeue({"disconnect", "ioDisconnect", "shutdown"})
    /\ Cleanup(Head(queue), session)
    /\ UNCHANGED <<generation, isShuttingDown, writes, requests>>

\* Without a connection only the ports are listed; otherwise the transport is
\* asked for its health (one that says it is closed fails the check at once).
StartRefresh ==
    /\ Dequeue({"refresh"})
    /\ Suspend(Head(queue), IF isConnected THEN "health" ELSE "list", NoSession)
    /\ UNCHANGED <<generation, isShuttingDown, link, activity, writes,
                   requests>>

\* After the frame that shows "connecting": transport.open is called without
\* another look at the generation.
OpenSerial ==
    /\ pc = "yield"
    /\ \E s \in Sessions :
          /\ Fresh(s)
          /\ session' = [session EXCEPT ![s] = "opening"]
          /\ Suspend(op, "opening", s)
    /\ UNCHANGED <<generation, isShuttingDown, queue, isConnected,
                   isConnecting, activeConnectionType, activeSession,
                   boundGeneration, owner, activity, writes, requests>>

\* transport.open throws: there is no handle to close.
OpenFails ==
    /\ pc = "opening"
    /\ Cleanup(op, [session EXCEPT ![cur] = "idle"])
    /\ UNCHANGED <<generation, isShuttingDown, queue, writes, requests>>

\* The new transport is closed before the attempt is given up: the intent is
\* stale, or a serial open is refused or cannot be configured.
OpenDiscarded ==
    /\ pc = "opening"
    /\ ~IsCurrent(op.gen) \/ op.type = "serial"
    /\ session' = [session EXCEPT ![cur] = "closing"]
    /\ Suspend(op, "closeNew", cur)
    /\ UNCHANGED <<generation, isShuttingDown, queue, isConnected,
                   isConnecting, activeConnectionType, activeSession,
                   boundGeneration, owner, activity, writes, requests>>

\* A serial transport that opened becomes the active session; the read thread
\* then starts, or fails to start and the session is closed again.
OpenSerialSucceeds ==
    /\ pc = "opening" /\ op.type = "serial" /\ IsCurrent(op.gen)
    /\ \/ /\ activeSession' = cur /\ boundGeneration' = op.gen
          /\ session' = [session EXCEPT ![cur] = "open"]
          /\ aggregating' = Aggregation(cur, "serial", activityOwner,
                                        aggregationSetting)
          /\ Suspend(op, "confirm", NoSession)
          /\ UNCHANGED <<owner, activityOwner>>
       \/ /\ activeSession' = NoSession /\ boundGeneration' = 0
          /\ session' = [session EXCEPT ![cur] = "closing"]
          /\ owner' = Released(owner, "data")
          /\ activityOwner' = "none" /\ aggregating' = FALSE
          /\ Suspend(op, "closeNew", cur)
    /\ UNCHANGED <<generation, isShuttingDown, queue, isConnecting,
                   isConnected, activeConnectionType, aggregationSetting,
                   writes, requests>>

OpenNetworkSucceeds ==
    /\ pc = "opening" /\ op.type # "serial" /\ IsCurrent(op.gen)
    /\ activeSession' = cur /\ boundGeneration' = op.gen
    /\ session' = [session EXCEPT ![cur] = "open"]
    /\ isConnected' = TRUE
    /\ Finish(op)
    /\ UNCHANGED <<generation, isShuttingDown, queue, activeConnectionType,
                   owner, activity, writes, requests>>

\* Closing the new transport is done; the exception reaches the caller, which
\* runs the cleanup (again, when the read thread did not start).
CloseNewDone ==
    /\ pc = "closeNew"
    /\ Cleanup(op, [session EXCEPT ![cur] = "idle"])
    /\ UNCHANGED <<generation, isShuttingDown, queue, writes, requests>>

\* _connectLocked continues after _openPort and checks the generation again.
ConfirmSerial ==
    /\ pc = "confirm"
    /\ IF IsCurrent(op.gen)
       THEN /\ isConnected' = TRUE
            /\ Finish(op)
            /\ UNCHANGED <<activeConnectionType, activeSession,
                           boundGeneration, session, owner, activity>>
       ELSE Cleanup(op, session)
    /\ UNCHANGED <<generation, isShuttingDown, queue, writes, requests>>

\* session.close returns.  A serial transport first lets its write queue
\* complete every pending write.
CloseDone ==
    /\ pc = "closing"
    /\ activeConnectionType = "serial" => \A w \in Writes : writes[w] # cur
    /\ session' = [session EXCEPT ![cur] = "idle"]
    /\ Resume(op)
    /\ UNCHANGED <<generation, isShuttingDown, queue, isConnected,
                   activeConnectionType, activeSession, boundGeneration,
                   owner, activity, writes, requests>>

\* The native health check knows only the serial handle, so it cannot find a
\* network connection healthy.
HealthOk ==
    /\ pc = "health"
    /\ ~isNetworkConnection
    /\ Finish(op)
    /\ UNCHANGED <<generation, isShuttingDown, queue, isConnected,
                   activeConnectionType, activeSession, boundGeneration,
                   session, owner, activity, writes, requests>>

HealthBad ==
    /\ pc = "health"
    /\ generation' = generation + 1
    /\ Cleanup(op, session)
    /\ UNCHANGED <<isShuttingDown, queue, writes, requests>>

\* refreshPorts returned: it failed or timed out, or the port is gone.
PortGone ==
    /\ pc \in {"ports", "list"}
    /\ Finish(op)
    /\ UNCHANGED <<generation, isShuttingDown, queue, isConnected,
                   activeConnectionType, activeSession, boundGeneration,
                   session, owner, activity, writes, requests>>

\* The port is still there: one reconnect, under a generation of its own.
Reconnect ==
    /\ pc = "ports"
    /\ generation' = generation + 1
    /\ ConnectLocked([kind |-> "reconnect", type |-> "serial",
                      gen |-> generation + 1])
    /\ UNCHANGED <<isShuttingDown, queue, isConnected, activeSession,
                   boundGeneration, activity, writes, requests>>

-------------------------------------------------------------------------------
(* Traffic on the active session *)

\* A network session reports an error to the subscription of its generation.
LinkError ==
    /\ Request
    /\ activeSession # NoSession /\ IsCurrent(boundGeneration)
    /\ isNetworkConnection
    /\ DisconnectFromIo
    /\ UNCHANGED <<isShuttingDown, connectFuture, op, pc, cur, link, activity,
                   writes>>

\* _writeBytes captures the session and awaits its write.
BeginWrite(w) ==
    /\ Request
    /\ isConnected /\ activeSession # NoSession /\ writes[w] = NoSession
    /\ writes' = [writes EXCEPT ![w] = activeSession]
    /\ UNCHANGED <<coordinator, op, pc, cur, link, activity>>

WriteSucceeds(w) ==
    /\ writes[w] # NoSession
    /\ writes' = [writes EXCEPT ![w] = NoSession]
    /\ UNCHANGED <<coordinator, op, pc, cur, link, activity, requests>>

\* A write that throws or is short disconnects whatever is connected now,
\* except that a TCP server without a client only reports the error.
WriteFails(w) ==
    /\ writes[w] # NoSession
    /\ writes' = [writes EXCEPT ![w] = NoSession]
    /\ IF activeConnectionType = "tcpServer"
       THEN UNCHANGED <<generation, queue, ioDisconnectFuture>>
       ELSE DisconnectFromIo
    /\ UNCHANGED <<isShuttingDown, connectFuture, op, pc, cur, link, activity,
                   requests>>

-------------------------------------------------------------------------------
(* Activities of the pages, and the other holders of the entry: the probe and *)
(* the Flash programmer.  The SSH service acquires and releases the entry as  *)
(* "data" too; what that adds is in SharedEntry, not here.                    *)

\* tryAcquireActivity, startRawReceiving, startShellReceiving.
AcquireActivity(a) ==
    /\ a \in {"rawData", "shell"} => isConnected
    /\ activityOwner = "none"
    /\ activityOwner' = a
    /\ aggregating' = Aggregation(activeSession, activeConnectionType, a,
                                  aggregationSetting)
    /\ UNCHANGED <<coordinator, op, pc, cur, link, aggregationSetting, writes,
                   requests>>

\* releaseActivity, stopRawReceiving, stopShellReceiving.
ReleaseActivity(a) ==
    /\ activityOwner = a
    /\ activityOwner' = "none"
    /\ aggregating' = IF a = "plot"
                      THEN Aggregation(activeSession, activeConnectionType,
                                       "none", aggregationSetting)
                      ELSE aggregating
    /\ UNCHANGED <<coordinator, op, pc, cur, link, aggregationSetting, writes,
                   requests>>

SetPlotReceiveAggregationEnabled ==
    /\ aggregationSetting' = ~aggregationSetting
    /\ aggregating' = Aggregation(activeSession, activeConnectionType,
                                  activityOwner, ~aggregationSetting)
    /\ UNCHANGED <<coordinator, op, pc, cur, link, activityOwner, writes,
                   requests>>

OtherAcquire(o) ==
    /\ o # "data" /\ owner = "none"
    /\ owner' = o
    /\ UNCHANGED <<coordinator, op, pc, cur, isConnected, isConnecting,
                   activeConnectionType, activeSession, boundGeneration,
                   session, activity, writes, requests>>

\* release may be called by a service that does not hold the entry.
OtherRelease(o) ==
    /\ o # "data"
    /\ owner' = Released(owner, o)
    /\ UNCHANGED <<coordinator, op, pc, cur, isConnected, isConnecting,
                   activeConnectionType, activeSession, boundGeneration,
                   session, activity, writes, requests>>

-------------------------------------------------------------------------------
UserRequest ==
    \/ \E t \in Types : Connect(t)
    \/ Disconnect \/ Shutdown \/ RefreshConnectionStatus

OperationStep ==
    \/ StartConnect \/ StartCleanup \/ StartRefresh
    \/ OpenSerial \/ OpenFails \/ OpenDiscarded
    \/ OpenSerialSucceeds \/ OpenNetworkSucceeds
    \/ CloseNewDone \/ ConfirmSerial \/ CloseDone
    \/ HealthOk \/ HealthBad \/ PortGone \/ Reconnect

WriteDone == \E w \in Writes : WriteSucceeds(w) \/ WriteFails(w)

Traffic == LinkError \/ (\E w \in Writes : BeginWrite(w)) \/ WriteDone

Pages ==
    \/ \E a \in Activity : AcquireActivity(a) \/ ReleaseActivity(a)
    \/ SetPlotReceiveAggregationEnabled
    \/ \E o \in Owner : OtherAcquire(o) \/ OtherRelease(o)

Next == UserRequest \/ OperationStep \/ Traffic \/ Pages

\* The Dart event loop runs every pending continuation; the native open,
\* close, health check and enumeration return; every write is answered.
Fairness == WF_vars(OperationStep) /\ WF_vars(WriteDone)

Spec == Init /\ [][Next]_vars /\ Fairness

-------------------------------------------------------------------------------
(* Properties *)

\* Two transports are never between open and the end of close at the same
\* time: the life cycles of native ports do not cross (CONTEXT.md section 4).
SingleLifecycle ==
    \A s, t \in Sessions : session[s] # "idle" /\ session[t] # "idle" => s = t

\* A connected service has an open, bound session and owns the entry, through
\* every order of disconnects, errors, refreshes and stale connects.
ConnectedSession ==
    isConnected => /\ activeSession # NoSession
                   /\ session[activeSession] = "open"
                   /\ boundGeneration \in 1 .. generation
                   /\ owner = "data"

\* A transport is opened and used only while the data connection owns the
\* entry, so a probe cannot be acquired under an open port.
SessionsOwned ==
    \A s \in Sessions : session[s] \in {"opening", "open"} => owner = "data"

\* No failed, stale or cancelled attempt keeps the entry: once no operation
\* runs, only a connected service owns it.
OwnerNotLeaked == owner = "data" => isConnected \/ pc # "idle"

\* A page receives raw or shell data only on a live connection: losing the
\* connection by any path ends the activity.
ActivityNeedsConnection ==
    activityOwner \in {"rawData", "shell"} => isConnected

\* The serial reader aggregates receive chunks exactly while a plot runs on it
\* with the option on, whichever of page, setting and connection changed last.
AggregationFollowsPlot ==
    aggregating <=> /\ activeSession # NoSession /\ ~isNetworkConnection
                    /\ activityOwner = "plot" /\ aggregationSetting

\* The page and the reader follow the connection (releaseActivity,
\* _cleanupPortLocked, _syncPlotReceiveAggregation).
PageFollowsConnection == ActivityNeedsConnection /\ AggregationFollowsPlot

Pending(kinds) == \E i \in DOMAIN queue : queue[i].kind \in kinds

\* A user's connect attempt that a later disconnect, link error or exit is
\* waiting behind never reports success.
NoConnectAgainstPendingDisconnect ==
    [][~isConnected /\ isConnected' /\ op.kind = "connect"
       => ~Pending({"disconnect", "ioDisconnect", "shutdown"})]_vars

\* Every attempt, whatever its outcome, ends and clears the "connecting" flag.
ConnectSettles == isConnecting ~> ~isConnecting

\* Exit converges: no transport stays open or is opened again and the entry
\* is given back, whatever was queued or in flight when exit was requested.
Disconnected ==
    /\ ~isConnected /\ owner # "data"
    /\ \A s \in Sessions : session[s] = "idle"
ShutdownConverges == isShuttingDown ~> []Disconnected

\* The transports behave as one exclusive handle that is always settled.
Lifecycle == INSTANCE ExclusiveSession WITH Handles <- Sessions, state <- session
LifecycleRefinement == Lifecycle!Spec
===============================================================================
