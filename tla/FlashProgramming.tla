---------------------------- MODULE FlashProgramming ----------------------------
(***************************************************************************)
(* The Flash programmer: FlashProgrammingService and the external tool     *)
(* (J-Link Commander or OpenOCD) each of its connections starts.           *)
(*                                                                         *)
(* A "call" is one run of connect, of an operation (erase, program, read), *)
(* of disconnect, forceTerminate or shutdown; an action is what one call   *)
(* does between two awaits.  Every connect builds a backend object of its  *)
(* own: a "tool" here.                                                     *)
(***************************************************************************)
EXTENDS Naturals, FiniteSets, ConnectionOwner

CONSTANTS
    Calls,        \* calls that may be in progress at the same time
    Tools,        \* backend objects, one for each connect
    NoTool,       \* null
    MaxRequests   \* bound on the requests of the user

ASSUME ToolsAssumption == NoTool \notin Tools /\ MaxRequests \in Nat

VARIABLES
    state,        \* _state; erasing, programming and reading are "operating"
    operationGeneration,
    backend,      \* _backend
    owner,        \* ConnectionOwnerService._owner
    handle,       \* what each backend object holds of its tool
    running,      \* the tools whose process runs
    call,         \* the calls in progress
    requests,     \* requests made so far (bounds the model)
    overtaken     \* history: a call was overtaken by one it cannot tell apart

service == <<state, operationGeneration, backend, owner>>
tools == <<handle, running>>
vars == <<service, tools, call, requests, overtaken>>

\* "process": OpenOCD holds its process but has no Tcl client yet; "open":
\* commands can be sent; "broken": OpenOCD closed the client after a timeout.
Handle == {"none", "process", "open", "broken"}

FlashOperationState ==
    {"disconnected", "connecting", "connected", "operating", "disconnecting",
     "unknown"}

\* pc is the await at which a call is suspended; gen and tool are the values
\* it captured.
Call == [pc : {"idle", "check", "prepare", "spawned", "probing", "discard",
               "cleanup", "operate", "disconnect", "shutdown", "fallback",
               "force"},
         gen : Nat, tool : Tools \cup {NoTool}]

Idle == [pc |-> "idle", gen |-> 0, tool |-> NoTool]

TypeOK ==
    /\ state \in FlashOperationState
    /\ operationGeneration \in Nat
    /\ backend \in Tools \cup {NoTool}
    /\ owner \in OwnerState
    /\ handle \in [Tools -> Handle] /\ running \subseteq Tools
    /\ call \in [Calls -> Call]
    /\ requests \in Nat /\ overtaken \in BOOLEAN

Init ==
    /\ state = "disconnected" /\ operationGeneration = 0
    /\ backend = NoTool /\ owner = "none"
    /\ handle = [t \in Tools |-> "none"] /\ running = {}
    /\ call = [c \in Calls |-> Idle]
    /\ requests = 0 /\ overtaken = FALSE

-------------------------------------------------------------------------------
(* Helpers; "Faulty:" marks a wrong variant that no specification uses *)

Request == requests < MaxRequests /\ requests' = requests + 1

InProgress(c) == call[c].pc # "idle"

\* Faulty: an operation is not counted as busy.
BusyUnlessOperating == state \in {"connecting", "disconnecting"}

isBusy == state \in {"connecting", "operating", "disconnecting"}

\* isConnected of a backend object.
Connected(t) == t \in running /\ handle[t] \in {"open", "broken"}

\* Objects nothing refers to and no process is left of.
Fresh == {t \in Tools : t \notin running /\ t # backend
                            /\ \A c \in Calls : call[c].tool # t}

\* Every call that captured its generation before this is stale.
Supersede == operationGeneration' = operationGeneration + 1

Stale(c) == call[c].gen # operationGeneration

Suspend(c, at, t) ==
    call' = [call EXCEPT ![c] = [pc |-> at, gen |-> operationGeneration', tool |-> t]]

Return(c) == call' = [call EXCEPT ![c] = Idle]

\* Faulty: the tool is only forgotten, not killed.
Forget(t) ==
    /\ handle' = [u \in Tools |-> IF u = t THEN "none" ELSE handle[u]]
    /\ UNCHANGED running

\* backend.forceTerminate up to its first await: what the object does not hold
\* it cannot kill.  Nothing happens for NoTool.
Kill(t) ==
    /\ handle' = [u \in Tools |-> IF u = t THEN "none" ELSE handle[u]]
    /\ running' = {u \in running : u # t \/ handle[u] = "none"}

\* Faulty: the backend is dropped and the entry kept.
DropOnly == backend' = NoTool /\ UNCHANGED owner

\* _dropBackend, and the end of connect's catch clause: whichever backend is
\* active now.
DropBackend == backend' = NoTool /\ owner' = Released(owner, "programming")

-------------------------------------------------------------------------------
(* Requests of the user *)

\* connect
Connect(c) ==
    /\ Request /\ ~InProgress(c)
    /\ backend = NoTool /\ state # "connecting"
    /\ CanAcquire(owner, "programming")
    /\ owner' = "programming"
    /\ state' = "connecting"
    /\ Supersede
    /\ Suspend(c, "check", NoTool)
    /\ overtaken' = (overtaken \/ \E d \in Calls : InProgress(d))
    /\ UNCHANGED <<backend, tools>>

\* _runOperation: erase, program or read.
RunOperation(c) ==
    /\ Request /\ ~InProgress(c)
    /\ backend # NoTool /\ Connected(backend)
    /\ ~isBusy
    /\ state' = "operating"
    /\ Supersede
    /\ Suspend(c, "operate", backend)
    /\ UNCHANGED <<backend, owner, tools, overtaken>>

\* disconnect, which shutdown calls (at) unless the service is busy.  The
\* object drops its client or session at once and the tool is asked to exit;
\* OpenOCD still holds the process then.
DisconnectAs(c, at) ==
    /\ Request /\ ~InProgress(c)
    /\ ~isBusy
    /\ Supersede
    /\ IF backend = NoTool
       THEN UNCHANGED <<state, handle, call>>
       ELSE /\ state' = "disconnecting"
            /\ \E h \in {"none"} \cup (IF handle[backend] = "none" THEN {}
                                      ELSE {"process"}) :
                  handle' = [handle EXCEPT ![backend] = h]
            /\ Suspend(c, at, backend)
    /\ UNCHANGED <<backend, owner, running, overtaken>>

Disconnect(c) == DisconnectAs(c, "disconnect")

Shutdown(c) == DisconnectAs(c, "shutdown")

\* Faulty: shutdown leaves it at the failed disconnect.
EmergencySkipped(c) ==
    /\ state' = "unknown" /\ Supersede
    /\ Return(c)
    /\ UNCHANGED <<backend, owner, tools>>

\* forceTerminate; without a backend, or one that holds nothing, it awaits
\* nothing before it drops.
Emergency(c) ==
    /\ state' = "unknown"
    /\ Supersede
    /\ IF backend = NoTool \/ handle[backend] = "none"
       THEN /\ DropBackend /\ UNCHANGED tools
            /\ Return(c)
       ELSE /\ Kill(backend)
            /\ Suspend(c, "force", backend)
            /\ UNCHANGED <<backend, owner>>

ForceTerminate(c) ==
    /\ Request /\ ~InProgress(c)
    /\ Emergency(c)
    /\ overtaken' = (overtaken \/ \E d \in Calls : call[d].pc = "check")

-------------------------------------------------------------------------------
(* connect after each await *)

\* A usable tool is found and becomes the backend.  Nobody looks whether the
\* attempt is still wanted.
ToolFound(c) ==
    /\ call[c].pc = "check"
    /\ Fresh # {}
    /\ LET t == CHOOSE t \in Fresh : TRUE
       IN  /\ backend' = t
           /\ handle' = [handle EXCEPT ![t] = "none"]
           /\ call' = [call EXCEPT ![c].pc = "prepare", ![c].tool = t]
    /\ UNCHANGED <<state, operationGeneration, owner, running, requests,
                   overtaken>>

\* The process is started; OpenOCD keeps it at once, J-Link only after the
\* first prompt.
Spawn(c) ==
    LET t == call[c].tool
    IN  /\ call[c].pc = "prepare"
        /\ running' = running \cup {t}
        /\ \E h \in {"none", "process"} : handle' = [handle EXCEPT ![t] = h]
        /\ call' = [call EXCEPT ![c].pc = "spawned"]
        /\ UNCHANGED <<service, requests, overtaken>>

\* The tool answers for the first time, and is asked about the target.
Attach(c) ==
    LET t == call[c].tool
    IN  /\ call[c].pc = "spawned"
        /\ t \in running
        /\ handle' = [handle EXCEPT ![t] = "open"]
        /\ call' = [call EXCEPT ![c].pc = "probing"]
        /\ UNCHANGED <<service, running, requests, overtaken>>

\* backend.connect returned; a stale attempt terminates its tool and leaves
\* everything else as it is.
ConnectReturns(c) ==
    LET t == call[c].tool
    IN  /\ call[c].pc = "probing"
        /\ t \in running /\ handle[t] = "open"
        /\ IF Stale(c)
           THEN /\ Kill(t)
                /\ call' = [call EXCEPT ![c].pc = "discard"]
                /\ UNCHANGED state
           ELSE /\ state' = "connected"
                /\ Return(c)
                /\ UNCHANGED tools
        /\ UNCHANGED <<operationGeneration, backend, owner, requests, overtaken>>

Discarded(c) ==
    /\ call[c].pc = "discard"
    /\ Return(c)
    /\ UNCHANGED <<service, tools, requests, overtaken>>

\* Faulty: a failed connect does not leave "connecting".
CatchWithoutState(c) ==
    /\ DropBackend
    /\ Return(c)
    /\ UNCHANGED state

\* The end of connect's catch clause.
CatchClause(c) ==
    /\ state' = IF Stale(c) THEN state ELSE "disconnected"
    /\ DropBackend
    /\ Return(c)

\* connect fails before it has a process.
NoProcess(c) ==
    /\ call[c].pc \in {"check", "prepare"}
    /\ CatchClause(c)
    /\ UNCHANGED <<operationGeneration, tools, requests, overtaken>>

\* The tool did not answer: whoever started its process kills it and waits.
NoAnswer(c) ==
    /\ call[c].pc = "spawned"
    /\ running' = running \ {call[c].tool}
    /\ handle' = [handle EXCEPT ![call[c].tool] = "none"]
    /\ call' = [call EXCEPT ![c].pc = "cleanup"]
    /\ UNCHANGED <<service, requests, overtaken>>

\* The tool cannot confirm the target: the catch clause (J-Link), or before it
\* the backend (OpenOCD), terminates the tool.
NoTarget(c) ==
    /\ call[c].pc = "probing"
    /\ \/ state' = IF Stale(c) THEN state ELSE "disconnected"
       \/ UNCHANGED state
    /\ Kill(call[c].tool)
    /\ call' = [call EXCEPT ![c].pc = "cleanup"]
    /\ UNCHANGED <<operationGeneration, backend, owner, requests, overtaken>>

CleanedUp(c) ==
    /\ call[c].pc = "cleanup"
    /\ CatchClause(c)
    /\ UNCHANGED <<operationGeneration, tools, requests, overtaken>>

-------------------------------------------------------------------------------
(* The other calls after their awaits *)

OperationSucceeds(c) ==
    /\ call[c].pc = "operate"
    /\ call[c].tool \in running /\ handle[call[c].tool] = "open"
    /\ state' = IF Stale(c) THEN state ELSE "connected"
    /\ Return(c)
    /\ UNCHANGED <<operationGeneration, backend, owner, tools, requests,
                   overtaken>>

\* A command failed, or timed out: J-Link then kills the process, OpenOCD only
\* closes its client.  A stale call returns as if it had succeeded.
OperationFails(c) ==
    LET t == call[c].tool
        survives == t \in running' /\ handle'[t] \in {"open", "broken"}
    IN  /\ call[c].pc = "operate"
        /\ \/ UNCHANGED tools
           \/ /\ running' = running \ {t} /\ UNCHANGED handle
           \/ /\ handle[t] = "open"
              /\ handle' = [handle EXCEPT ![t] = "broken"]
              /\ UNCHANGED running
        /\ \/ /\ Stale(c)
              /\ UNCHANGED <<state, backend, owner>>
           \/ /\ ~Stale(c) /\ survives
              /\ state' = "connected"
              /\ UNCHANGED <<backend, owner>>
           \/ /\ ~Stale(c) /\ ~survives
              /\ state' = "unknown"
              /\ DropBackend
        /\ Return(c)
        /\ UNCHANGED <<operationGeneration, requests, overtaken>>

\* OpenOCD's client is closed; its process is let go and awaited.
LetGo(c) ==
    LET t == call[c].tool
    IN  /\ call[c].pc \in {"disconnect", "shutdown"}
        /\ handle[t] = "process"
        /\ handle' = [handle EXCEPT ![t] = "none"]
        /\ UNCHANGED <<service, running, call, requests, overtaken>>

\* The tool exited by itself or was killed after three seconds.
DisconnectDone(c) ==
    /\ call[c].pc \in {"disconnect", "shutdown"}
    /\ handle[call[c].tool] # "process"
    /\ running' = running \ {call[c].tool}
    /\ DropBackend
    /\ state' = "disconnected"
    /\ Return(c)
    /\ UNCHANGED <<operationGeneration, handle, requests, overtaken>>

\* A pipe of the ended tool, or the socket of OpenOCD's client, failed to
\* close: the backend stays.
DisconnectFails(c) ==
    LET t == call[c].tool
    IN  /\ call[c].pc \in {"disconnect", "shutdown"}
        /\ running' = IF handle[t] = "process" THEN running ELSE running \ {t}
        /\ UNCHANGED handle
        /\ state' = "unknown"
        /\ IF call[c].pc = "shutdown"
           THEN call' = [call EXCEPT ![c].pc = "fallback"]
           ELSE Return(c)
        /\ UNCHANGED <<operationGeneration, backend, owner, requests, overtaken>>

\* shutdown catches the exception of disconnect.
FallBack(c) ==
    /\ call[c].pc = "fallback"
    /\ Emergency(c)
    /\ UNCHANGED <<requests, overtaken>>

ForceDone(c) ==
    /\ call[c].pc = "force"
    /\ DropBackend
    /\ Return(c)
    /\ UNCHANGED <<state, operationGeneration, tools, requests, overtaken>>

-------------------------------------------------------------------------------
\* The process of a tool may end at any time; nobody watches it between
\* operations.
ToolExits(t) ==
    /\ t \in running
    /\ running' = running \ {t}
    /\ UNCHANGED <<service, handle, call, requests, overtaken>>

OtherAcquire(o) ==
    /\ o # "programming" /\ owner = "none"
    /\ owner' = o
    /\ UNCHANGED <<state, operationGeneration, backend, tools, call, requests,
                   overtaken>>

OtherRelease(o) ==
    /\ o # "programming"
    /\ owner' = Released(owner, o)
    /\ UNCHANGED <<state, operationGeneration, backend, tools, call, requests,
                   overtaken>>

UserRequest(c) ==
    \/ Connect(c) \/ RunOperation(c) \/ Disconnect(c) \/ Shutdown(c)
    \/ ForceTerminate(c)

Continue(c) ==
    \/ ToolFound(c) \/ Spawn(c) \/ Attach(c) \/ ConnectReturns(c)
    \/ Discarded(c) \/ NoProcess(c) \/ NoAnswer(c) \/ NoTarget(c) \/ CleanedUp(c)
    \/ OperationSucceeds(c) \/ OperationFails(c)
    \/ LetGo(c) \/ DisconnectDone(c) \/ DisconnectFails(c) \/ FallBack(c)
    \/ ForceDone(c)

Next ==
    \/ \E c \in Calls : UserRequest(c) \/ Continue(c)
    \/ \E t \in Tools : ToolExits(t)
    \/ \E o \in Owner : OtherAcquire(o) \/ OtherRelease(o)

\* Every wait for a tool has a time limit, after which the call goes on.
Fairness == \A c \in Calls : WF_vars(Continue(c))

Spec == Init /\ [][Next]_vars /\ Fairness

-------------------------------------------------------------------------------
(* Properties *)

\* The programmer holds the entry only for a backend it can still drop, or for
\* an attempt that will get one: no failure, timeout or forced termination
\* leaks it.
EntryHasHolder ==
    owner = "programming" =>
        backend # NoTool \/ \E c \in Calls : call[c].pc = "check"

\* Nothing but a forced termination takes the tool from a running operation,
\* which would leave the Flash half written: as long as no call was overtaken,
\* an operation whose tool was not let go is the only one, its tool is the
\* backend, the entry is owned, and the service says that it is operating.
OperationUndisturbed ==
    \A c \in Calls :
        LET t == call[c].tool
        IN  call[c].pc = "operate" /\ handle[t] # "none" /\ ~overtaken =>
                /\ state = "operating" /\ owner = "programming" /\ backend = t
                /\ \A d \in Calls \ {c} : call[d].tool # t

Quiescent == \A c \in Calls : ~InProgress(c)

\* As long as no call was overtaken (no connect before earlier calls have
\* unwound, no forced termination while connect looks for a tool), a service
\* with nothing in progress is consistent: it owns the entry exactly while it
\* has a backend, no process outlives its backend, and it is "connected" only
\* with one.
ConsistentUnlessOvertaken ==
    Quiescent /\ ~overtaken =>
        /\ owner = "programming" <=> backend # NoTool
        /\ running \subseteq {backend}
        /\ state \in {"connected", "disconnected", "unknown"}
        /\ state = "connected" => backend # NoTool
        /\ state = "disconnected" => backend = NoTool

\* The service is never busy for good; it refuses to be closed while it is.
BusySettles == isBusy ~> ~isBusy

\* A shutdown that has begun ends without a session, whatever the tool does.
ShutdownEndsSession ==
    \A c \in Calls :
        call[c].pc = "shutdown" ~> (backend = NoTool \/ overtaken)
===============================================================================
