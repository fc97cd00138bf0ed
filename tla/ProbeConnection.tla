---------------------------- MODULE ProbeConnection ----------------------------
(***************************************************************************)
(* The connection of a debug probe: ProbeConnectionService and the         *)
(* external process of the backend it drives.                              *)
(*                                                                         *)
(* Unlike the data connection this service has no queue.  connect,         *)
(* disconnect, stopActivity, the start of an activity and the handler of   *)
(* an unexpected disconnect may all be suspended at an await at the same   *)
(* time; each is a "call" here, and an action is what one call does        *)
(* between two awaits.                                                     *)
(***************************************************************************)
EXTENDS Naturals, FiniteSets, ConnectionOwner

CONSTANTS
    Calls,        \* calls that may be in progress at the same time
    Backends,     \* the backends, one object each for the life of the service
    JLink,        \* those whose id is externalJlink
    NoBackend,    \* null
    MaxRequests   \* bound on the requests of the user and the exits of processes

ASSUME BackendsAssumption ==
    /\ JLink \subseteq Backends /\ NoBackend \notin Backends
    /\ IsFiniteSet(Calls) /\ MaxRequests \in Nat

VARIABLES
    state,        \* _state, without "discovering"
    connectionGeneration, activeBackend, activityOwner,
    handlingUnexpectedDisconnect,
    connectionMonitor, \* _connectionMonitor # null
    owner,        \* ConnectionOwnerService._owner
    process,      \* the backends whose _process is running
    connected,    \* the backends whose _connected is set
    orphans,      \* running processes that no backend refers to any more
    call,         \* the calls in progress
    requests,     \* requests made so far (bounds the model)
    overtaken     \* history: a call was overtaken by one it cannot tell apart

service == <<state, connectionGeneration, activeBackend, activityOwner,
             handlingUnexpectedDisconnect, connectionMonitor, owner>>
backend == <<process, connected, orphans>>
vars == <<service, backend, call, requests, overtaken>>

ProbeActivity == {"rttViewer", "probePlot"}

\* pc is the await at which a call is suspended; gen and backend are the
\* values it captured.
Call == [pc : {"idle", "resolve", "restart", "prepare", "starting", "lost",
               "failed", "discard", "unbind", "stop", "configure", "begin"},
         kind : {"connect", "disconnect", "stop", "start", "unexpected"},
         gen : Nat, backend : Backends \cup {NoBackend}]

Idle == [pc |-> "idle", kind |-> "connect", gen |-> 0, backend |-> NoBackend]

TypeOK ==
    /\ state \in {"disconnected", "connecting", "connected", "reconnecting"}
    /\ connectionGeneration \in Nat
    /\ activeBackend \in Backends \cup {NoBackend}
    /\ activityOwner \in ProbeActivity \cup {"none"}
    /\ handlingUnexpectedDisconnect \in BOOLEAN
    /\ connectionMonitor \in BOOLEAN
    /\ owner \in OwnerState
    /\ process \subseteq Backends /\ connected \subseteq Backends
    /\ orphans \in Nat
    /\ call \in [Calls -> Call]
    /\ requests \in Nat /\ overtaken \in BOOLEAN

Init ==
    /\ state = "disconnected" /\ connectionGeneration = 0
    /\ activeBackend = NoBackend /\ activityOwner = "none"
    /\ handlingUnexpectedDisconnect = FALSE /\ connectionMonitor = FALSE
    /\ owner = "none"
    /\ process = {} /\ connected = {} /\ orphans = 0
    /\ call = [c \in Calls |-> Idle]
    /\ requests = 0 /\ overtaken = FALSE

-------------------------------------------------------------------------------
(* Helpers; "Faulty:" marks a wrong variant that no specification uses *)

Request == requests < MaxRequests /\ requests' = requests + 1

isConnected == state = "connected"
isConnecting == state \in {"connecting", "reconnecting"}

\* A call that must still finish what it does to the service.
InProgress(c) == call[c].pc # "idle"

\* The restart of a J-Link is in progress.
Restarting == \E c \in Calls : call[c].kind = "stop" /\ call[c].backend \in JLink

\* The calls other than c that wait for a process of b now wait in vain.
LoseProcess(b, f) ==
    [c \in Calls |-> IF f[c].pc = "starting" /\ f[c].backend = b
                     THEN [f[c] EXCEPT !.pc = "lost"] ELSE f[c]]

\* backend.disconnect up to its first await: _connected is cleared, _process
\* is forgotten and killed.  For NoBackend nothing happens.
StopBackend(b, f) ==
    /\ process' = process \ {b} /\ connected' = connected \ {b}
    /\ call' = LoseProcess(b, f)
    /\ UNCHANGED orphans

\* Faulty: the entry stays acquired when a session ends.
ReleaseForgotten == state' = "disconnected" /\ UNCHANGED owner

\* Faulty: the state stays what it was when the session ended.
StateForgotten == owner' = Released(owner, "probe") /\ UNCHANGED state

\* What every caller of _unbindBackend does after it, whatever happened while
\* it was suspended.
ReportDisconnected ==
    owner' = Released(owner, "probe") /\ state' = "disconnected"

\* _unbindBackend(disconnect: true) by call c of kind k, whichever backend is
\* active now; without one it awaits nothing and its caller goes on.
Unbind(c, k) ==
    /\ connectionMonitor' = FALSE
    /\ activeBackend' = NoBackend /\ activityOwner' = "none"
    /\ IF activeBackend = NoBackend
       THEN /\ ReportDisconnected
            /\ call' = [call EXCEPT ![c] = Idle]
            /\ UNCHANGED backend
       ELSE /\ StopBackend(activeBackend, [call EXCEPT ![c] =
                   [pc |-> "unbind", kind |-> k, gen |-> 0,
                    backend |-> activeBackend]])
            /\ UNCHANGED <<state, owner>>

\* Faulty: a new connection is not watched.
MonitorForgotten == UNCHANGED connectionMonitor

StartConnectionMonitor == connectionMonitor' = TRUE

\* Every attempt captured before this is stale.
Invalidate == connectionGeneration' = connectionGeneration + 1

\* A call that fails on its way to "connected" unbinds before it rethrows.
Abort(c) ==
    /\ Unbind(c, call[c].kind)
    /\ UNCHANGED <<connectionGeneration, handlingUnexpectedDisconnect,
                   requests, overtaken>>

-------------------------------------------------------------------------------
(* Requests of the user *)

\* connect: not while connected or connecting; the entry must be free.
Connect(c) ==
    /\ Request /\ ~InProgress(c)
    /\ ~isConnected /\ ~isConnecting
    /\ CanAcquire(owner, "probe")
    /\ owner' = "probe"
    /\ handlingUnexpectedDisconnect' = FALSE
    /\ state' = "connecting"
    /\ Invalidate
    /\ call' = [call EXCEPT ![c] = [pc |-> "resolve", kind |-> "connect",
                                    gen |-> connectionGeneration + 1,
                                    backend |-> NoBackend]]
    /\ overtaken' = (overtaken \/ \E d \in Calls : InProgress(d))
    /\ UNCHANGED <<activeBackend, activityOwner, connectionMonitor, backend>>

\* disconnect first stops a running activity, except that of a J-Link.
Disconnect(c) ==
    /\ Request /\ ~InProgress(c)
    /\ Invalidate
    /\ IF activityOwner = "none" \/ activeBackend \in JLink \cup {NoBackend}
       THEN Unbind(c, "disconnect")
       ELSE /\ call' = [call EXCEPT ![c] = [pc |-> "stop", kind |-> "disconnect",
                                            gen |-> 0, backend |-> activeBackend]]
            /\ UNCHANGED <<connectionMonitor, activeBackend, activityOwner,
                           state, owner, backend>>
    /\ overtaken' = (overtaken \/ Restarting)
    /\ UNCHANGED handlingUnexpectedDisconnect

\* stopActivity: a J-Link has no stop command, so its process is killed and
\* started again; other backends are asked to stop.
StopActivity(c) ==
    /\ Request /\ ~InProgress(c)
    /\ activityOwner # "none"
    /\ LET begun(at) == [call EXCEPT ![c] =
               [pc |-> at, kind |-> "stop", gen |-> 0, backend |-> activeBackend]]
       IN  \/ /\ activeBackend = NoBackend
              /\ activityOwner' = "none"
              /\ UNCHANGED <<connectionMonitor, state, backend, call>>
           \/ /\ activeBackend \in JLink
              /\ connectionMonitor' = FALSE /\ state' = "reconnecting"
              /\ StopBackend(activeBackend, begun("restart"))
              /\ UNCHANGED activityOwner
           \/ /\ activeBackend \in Backends \ JLink
              /\ call' = begun("stop")
              /\ UNCHANGED <<connectionMonitor, state, activityOwner, backend>>
    /\ overtaken' = (overtaken \/ Restarting)
    /\ UNCHANGED <<connectionGeneration, activeBackend, owner,
                   handlingUnexpectedDisconnect>>

\* startRttViewer awaits the control block configuration before it claims the
\* activity; startProbePlot claims it at once.
StartActivity(c, a) ==
    /\ Request /\ ~InProgress(c)
    /\ isConnected /\ activityOwner = "none"
    /\ a = "probePlot" => activeBackend \in Backends \ JLink
    /\ activityOwner' = IF a = "probePlot" THEN a ELSE "none"
    /\ call' = [call EXCEPT ![c] =
                   [pc |-> IF a = "probePlot" THEN "begin" ELSE "configure",
                    kind |-> "start", gen |-> 0, backend |-> activeBackend]]
    /\ UNCHANGED <<state, connectionGeneration, activeBackend, backend, owner,
                   handlingUnexpectedDisconnect, connectionMonitor, overtaken>>

-------------------------------------------------------------------------------
(* connect, and the restart of a J-Link, after each await *)

\* Faulty: a newer generation does not cancel a connect.
NeverStale(c) == FALSE

Stale(c) == call[c].kind = "connect" /\ call[c].gen # connectionGeneration

\* The backend is chosen and becomes the active one; its streams are bound and
\* backend.connect begins, which first disconnects the backend.  A stale
\* attempt, or one that finds no backend, gives up.
ResolveBackend(c) ==
    /\ call[c].pc = "resolve"
    /\ \/ Abort(c)
       \/ /\ ~Stale(c)
          /\ \E b \in Backends :
                /\ activeBackend' = b
                /\ StopBackend(b, [call EXCEPT ![c].pc = "prepare",
                                               ![c].backend = b])
          /\ activityOwner' = "none"
          /\ UNCHANGED <<state, connectionGeneration, connectionMonitor, owner,
                         handlingUnexpectedDisconnect, requests, overtaken>>

\* The J-Link's process is gone; its backend.connect disconnects once more.
RestartJLink(c) ==
    /\ call[c].pc = "restart"
    /\ StopBackend(call[c].backend, [call EXCEPT ![c].pc = "prepare"])
    /\ UNCHANGED <<service, requests, overtaken>>

\* Executable and port are found and the process is started; _process is
\* overwritten without a look at what it held.
StartProcess(c) ==
    LET b == call[c].backend
    IN  /\ call[c].pc = "prepare"
        /\ \/ Abort(c)
           \/ /\ process' = process \cup {b}
              /\ orphans' = IF b \in process THEN orphans + 1 ELSE orphans
              /\ call' = [LoseProcess(b, call) EXCEPT ![c].pc = "starting"]
              /\ UNCHANGED <<connected, service, requests, overtaken>>

\* The process stayed up long enough.  A connect that is stale, or whose
\* backend is not the active one any more, disconnects it again; the restart
\* of a J-Link looks at neither.
Started(c) ==
    LET b == call[c].backend
    IN  /\ call[c].pc = "starting"
        /\ IF Stale(c) \/ (call[c].kind = "connect" /\ activeBackend # b)
           THEN /\ StopBackend(b, [call EXCEPT ![c].pc = "discard"])
                /\ UNCHANGED <<state, connectionMonitor, activityOwner>>
           ELSE /\ state' = "connected" /\ StartConnectionMonitor
                /\ connected' = connected \cup {b}
                /\ call' = [call EXCEPT ![c] = Idle]
                /\ activityOwner' = IF call[c].kind = "stop" THEN "none"
                                    ELSE activityOwner
                /\ UNCHANGED <<process, orphans>>
        /\ UNCHANGED <<connectionGeneration, activeBackend,
                       handlingUnexpectedDisconnect, owner, requests, overtaken>>

\* The process exited, was killed or replaced, or did not get ready in time:
\* backend.connect disconnects the backend, whoever's process it has now.
StartFails(c) ==
    /\ call[c].pc \in {"starting", "lost"}
    /\ StopBackend(call[c].backend, [call EXCEPT ![c].pc = "failed"])
    /\ UNCHANGED <<service, requests, overtaken>>

\* The exception reaches the catch clause of connect or stopActivity.
GiveUp(c) ==
    /\ call[c].pc \in {"failed", "discard"}
    /\ Abort(c)

\* _unbindBackend returned: every caller gives the entry back and reports
\* "disconnected", whatever happened in the meantime.
UnbindDone(c) ==
    /\ call[c].pc = "unbind"
    /\ ReportDisconnected
    /\ handlingUnexpectedDisconnect' =
          IF call[c].kind = "unexpected" THEN FALSE
          ELSE handlingUnexpectedDisconnect
    /\ call' = [call EXCEPT ![c] = Idle]
    /\ UNCHANGED <<connectionGeneration, activeBackend, activityOwner,
                   connectionMonitor, backend, requests, overtaken>>

-------------------------------------------------------------------------------
(* Activities after their awaits *)

\* The backend stopped its activity; disconnect goes on to unbind.
StopDone(c) ==
    /\ call[c].pc = "stop"
    /\ IF call[c].kind = "disconnect"
       THEN Unbind(c, "disconnect")
       ELSE /\ activityOwner' = "none"
            /\ call' = [call EXCEPT ![c] = Idle]
            /\ UNCHANGED <<connectionMonitor, activeBackend, state, owner,
                           backend>>
    /\ UNCHANGED <<connectionGeneration, handlingUnexpectedDisconnect,
                   requests, overtaken>>

\* The backend failed to stop (pyOCD then terminates its worker): the
\* exception leaves stopActivity, and disconnect, before they change anything.
StopFails(c) ==
    /\ call[c].pc = "stop"
    /\ \/ StopBackend(call[c].backend, [call EXCEPT ![c] = Idle])
       \/ /\ call' = [call EXCEPT ![c] = Idle]
          /\ UNCHANGED backend
    /\ UNCHANGED <<service, requests, overtaken>>

\* The control block is configured, or configuring it throws; startRttViewer
\* claims the activity without another look at the connection.
ConfigureDone(c) ==
    /\ call[c].pc = "configure"
    /\ \/ /\ activityOwner' = "rttViewer"
          /\ call' = [call EXCEPT ![c].pc = "begin"]
       \/ /\ call' = [call EXCEPT ![c] = Idle]
          /\ UNCHANGED activityOwner
    /\ UNCHANGED <<state, connectionGeneration, activeBackend, owner, backend,
                   handlingUnexpectedDisconnect, connectionMonitor, requests,
                   overtaken>>

\* The backend started the activity, or failed to and the claim is dropped; a
\* backend that is not connected always fails.
BeginDone(c) ==
    /\ call[c].pc = "begin"
    /\ \/ /\ call[c].backend \in connected \cup {NoBackend}
          /\ UNCHANGED activityOwner
       \/ activityOwner' = "none"
    /\ call' = [call EXCEPT ![c] = Idle]
    /\ UNCHANGED <<state, connectionGeneration, activeBackend, owner, backend,
                   handlingUnexpectedDisconnect, connectionMonitor, requests,
                   overtaken>>

-------------------------------------------------------------------------------
(* The process may exit at any time, and is watched *)

\* The exit handler of a process that is still the backend's own.
ProcessExits(b) ==
    /\ Request
    /\ b \in process
    /\ StopBackend(b, call)
    /\ UNCHANGED <<service, overtaken>>

\* _handleUnexpectedDisconnect: the active backend is not connected any more.
UnexpectedDisconnect(c) ==
    /\ ~InProgress(c)
    /\ activeBackend # NoBackend /\ activeBackend \notin connected
    /\ state # "disconnected" /\ ~handlingUnexpectedDisconnect
    /\ handlingUnexpectedDisconnect' = TRUE
    /\ Unbind(c, "unexpected")
    /\ UNCHANGED <<connectionGeneration, requests, overtaken>>

OtherAcquire(o) ==
    /\ o # "probe" /\ owner = "none"
    /\ owner' = o
    /\ UNCHANGED <<state, connectionGeneration, activeBackend, activityOwner,
                   handlingUnexpectedDisconnect, connectionMonitor, backend,
                   call, requests, overtaken>>

OtherRelease(o) ==
    /\ o # "probe"
    /\ owner' = Released(owner, o)
    /\ UNCHANGED <<state, connectionGeneration, activeBackend, activityOwner,
                   handlingUnexpectedDisconnect, connectionMonitor, backend,
                   call, requests, overtaken>>

-------------------------------------------------------------------------------
UserRequest(c) ==
    \/ Connect(c) \/ Disconnect(c) \/ StopActivity(c)
    \/ \E a \in ProbeActivity : StartActivity(c, a)

Continue(c) ==
    \/ ResolveBackend(c) \/ RestartJLink(c) \/ StartProcess(c)
    \/ Started(c) \/ StartFails(c) \/ GiveUp(c) \/ UnbindDone(c)
    \/ StopDone(c) \/ StopFails(c) \/ ConfigureDone(c) \/ BeginDone(c)

\* The 500 ms monitor looks at the backend.
Watch == connectionMonitor /\ \E c \in Calls : UnexpectedDisconnect(c)

\* A diagnostic line makes a connected service look at once.
Diagnose == isConnected /\ \E c \in Calls : UnexpectedDisconnect(c)

Next ==
    \/ \E c \in Calls : UserRequest(c) \/ Continue(c)
    \/ Watch \/ Diagnose
    \/ \E b \in Backends : ProcessExits(b)
    \/ \E o \in Owner : OtherAcquire(o) \/ OtherRelease(o)

\* Every await of the service has a time limit and is resumed by the event
\* loop; the monitor's timer keeps ticking.
Fairness == (\A c \in Calls : WF_vars(Continue(c))) /\ WF_vars(Watch)

Spec == Init /\ [][Next]_vars /\ Fairness

-------------------------------------------------------------------------------
(* Properties *)

\* No path through cancellation, failure or unexpected loss keeps the entry
\* once the service says it is disconnected.
EntryNotLeaked == state = "disconnected" => owner # "probe"

Quiescent == \A c \in Calls : ~InProgress(c)

\* As long as no call was overtaken (no connect before earlier calls have
\* unwound, no disconnect during the restart of a J-Link), a service with
\* nothing in progress is consistent: connected, owner of the entry, watched
\* and with a backend all at once or not at all, and without stray processes.
ConsistentUnlessOvertaken ==
    Quiescent /\ ~overtaken =>
        /\ state \in {"connected", "disconnected"}
        /\ isConnected <=> activeBackend # NoBackend
        /\ isConnected <=> owner = "probe"
        /\ isConnected <=> connectionMonitor
        /\ process \subseteq {activeBackend} /\ orphans = 0

\* Every connect attempt and every restart ends.
ConnectSettles == isConnecting ~> ~isConnecting

\* A session whose backend is lost does not stay "connected", even when the
\* loss coincides with other calls.
LossIsNoticed ==
    \A b \in Backends :
        (isConnected /\ activeBackend = b /\ b \notin connected)
            ~> (~isConnected \/ activeBackend # b \/ b \in connected)
===============================================================================
