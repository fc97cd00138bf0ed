------------------------------ MODULE PyocdWorker ------------------------------
(***************************************************************************)
(* The external pyOCD worker: WorkerServer, which executes the commands it *)
(* reads from standard input one after the other, PyOcdMonitor with its    *)
(* connection to a probe, and the thread that polls the target.            *)
(*                                                                         *)
(* The main thread and the polling threads share the stop event, the       *)
(* handle of the probe and standard output.  FrameWriter writes a frame    *)
(* under its lock, so a frame is one step.  Threads is plural because a    *)
(* thread whose join timed out goes on beside the one started after it.    *)
(***************************************************************************)
EXTENDS ProbeDiscovery

CONSTANTS
    Threads,      \* polling threads (identities are reused)
    NoThread,     \* None
    Accesses,     \* accesses to target memory, <<address, size>>
    Forbidden,    \* FORBIDDEN_MONITOR_MEMORY_RANGES, <<start, end>>
    NoAccess,     \* a configuration or a variable that is not valid
    Requests,     \* requests the host makes
    MaxRequests   \* bound on the requests

Request ==
    [command : {"query", "listUsbDevices", "listRttChannels", "stopActivity",
                "disconnect", "shutdown", "forbidden", "otherFrame"}]
    \cup [command : {"listProbes"}, version : {"automatic", "v1", "v2", "other"}]
    \cup [command : {"connect"}, monitor : BOOLEAN,
          version : {"automatic", "v1", "v2", "other"}, id : STRING,
          pair : Nat \cup {NoPair}, target : BOOLEAN]
    \cup [command : {"configureRtt", "startHss", "down"}, at : Accesses \cup {NoAccess}]
    \cup [command : {"startRtt"}, channel : BOOLEAN]

ASSUME WorkerAssumption ==
    /\ NoThread \notin Threads /\ NoAccess \notin Accesses
    /\ Accesses \subseteq Nat \X Nat /\ Accesses # {}
    /\ Forbidden \subseteq Nat \X Nat
    /\ Requests \subseteq Request /\ MaxRequests \in Nat
    \* every second start at most leaves a thread behind, so one is always free
    /\ IsFiniteSet(Threads) /\ MaxRequests < 2 * Cardinality(Threads) + 2

VARIABLES
    pc,         \* where the main thread is
    request,    \* the request it executes
    stop,       \* _activity_stop
    thread,     \* _activity_thread
    joining,    \* the thread that stop_activity joins
    activity,   \* what each polling thread is doing
    handles,    \* every probe object this process made: which device, whether open
    session,    \* _probe and _target: an index of handles, 0 for None
    local,      \* the local variable probe of connect and disconnect
    config,     \* _rtt_config
    rtt,        \* _rtt
    bound,      \* the pair to which the pyOCD backends are restricted
    scan,       \* the discovery that the current request made
    requests,   \* requests read so far (bounds the model)
    abandoned,  \* history: running threads whose join timed out
    trespassed  \* history: a forbidden byte was accessed

threadVars == <<stop, thread, joining, activity, abandoned>>
probeVars == <<handles, session, local, config, rtt, bound>>
vars == <<pc, request, threadVars, probeVars, scan, requests, trespassed>>

\* The loop of start_rtt has captured a control block, found in session under the
\* configuration at; the loop of start_hss reads the variable at.
Activity == [pc : {"none", "test", "read"}, kind : {"none", "rtt", "hss"},
             session : Nat, at : Accesses \cup {NoAccess}]
NotRunning == [pc |-> "none", kind |-> "none", session |-> 0, at |-> NoAccess]

\* The device opened, what was asked for, and the restriction of the backends then.
Handle == [device : Devices, open : BOOLEAN, asked : STRING,
           pair : Nat \cup {NoPair}, earlier : Nat \cup {NoPair}]

\* The control block found in session, under the configuration at.
NoRtt == [session |-> 0, at |-> NoAccess]

NoRequest == [command |-> "query"]

NoScan == [kind |-> "none"]

TypeOK ==
    /\ pc \in {"start", "read", "join", "release", "close", "find", "open",
               "attach", "found", "exited"}
    /\ request \in Request
    /\ stop \in BOOLEAN
    /\ thread \in Threads \cup {NoThread} /\ joining \in Threads \cup {NoThread}
    /\ activity \in [Threads -> Activity]
    /\ handles \in Seq(Handle)
    /\ session \in Nat /\ local \in Nat
    /\ config \in Accesses
    /\ rtt \in [session : Nat, at : Accesses \cup {NoAccess}]
    /\ bound \in Nat \cup {NoPair} /\ requests \in Nat
    /\ abandoned \subseteq Threads /\ trespassed \in BOOLEAN

\* main accepts no other version of pyOCD than 0.45.
Init ==
    /\ pc = "start" /\ request = NoRequest
    /\ stop = FALSE /\ thread = NoThread /\ joining = NoThread
    /\ activity = [t \in Threads |-> NotRunning]
    /\ handles = <<>> /\ session = 0 /\ local = 0
    /\ config \in Accesses /\ rtt = NoRtt
    /\ bound = NoPair /\ scan = NoScan
    /\ requests = 0 /\ abandoned = {} /\ trespassed = FALSE

-------------------------------------------------------------------------------
(* Helpers; "Faulty:" marks a wrong variant that no specification uses *)

\* Faulty: only the first byte is tested.
RefusedStart(a) == \E r \in Forbidden : r[1] <= a[1] /\ a[1] < r[2]

\* _check_access refuses an access that overlaps a forbidden range.
Refused(a) == \E r \in Forbidden : a[1] < r[2] /\ a[1] + a[2] > r[1]

\* The bytes of an access, and those no monitor may touch.
Bytes(a) == a[1] .. a[1] + a[2] - 1
Protected == UNION {r[1] .. r[2] - 1 : r \in Forbidden}

Access(S) ==
    /\ \A a \in S : ~Refused(a)
    /\ trespassed' = (trespassed \/ \E a \in S : Bytes(a) \cap Protected # {})

\* A command has been executed, with or without error, and answered.
Answer == pc' = "read" /\ request' = NoRequest

Go(where) == pc' = where /\ UNCHANGED request

Running(t) == activity[t].pc # "none"

\* Faulty: the running thread is forgotten.
SetStopOnly == stop' = TRUE /\ joining' = NoThread /\ thread' = NoThread

\* stop_activity up to the join.
SetStop == stop' = TRUE /\ joining' = thread /\ thread' = NoThread

BeginStop(r) ==
    /\ pc' = "join" /\ request' = r
    /\ SetStop /\ UNCHANGED <<activity, abandoned>>

-------------------------------------------------------------------------------
(* The requests: what is done before the first wait *)

Start ==
    /\ pc = "start"
    /\ Go("read") \/ Go("exited")
    /\ UNCHANGED <<threadVars, probeVars, scan, requests, trespassed>>

Read(r) ==
    /\ pc = "read" /\ requests < MaxRequests
    /\ requests' = requests + 1

\* hello and listTargets touch nothing; another type of frame is an error.
Query(r) ==
    /\ r.command \in {"query", "otherFrame"} /\ Read(r)
    /\ Answer /\ UNCHANGED <<threadVars, probeVars, scan, trespassed>>

\* The inspections have time limits and touch nothing of the session.
ListProbes(r) ==
    /\ r.command = "listProbes" /\ Read(r)
    /\ IF r.version = "other" THEN Answer /\ UNCHANGED scan
       ELSE /\ pc' = "found" /\ request' = r
            /\ scan' \in ProbeScans(r.version, NoPair)
    /\ UNCHANGED <<threadVars, probeVars, trespassed>>

ListUsbDevices(r) ==
    /\ r.command = "listUsbDevices" /\ Read(r)
    /\ pc' = "found" /\ request' = r
    /\ scan' \in {WindowsScan} \cup {InspectedScan(failed) : failed \in SUBSET Pairs}
    /\ UNCHANGED <<threadVars, probeVars, trespassed>>

\* A command that is forbidden or unknown also stops the activity.
Stop(r) ==
    /\ r.command \in {"stopActivity", "disconnect", "shutdown", "forbidden"} /\ Read(r)
    /\ BeginStop(r) /\ UNCHANGED <<probeVars, scan, trespassed>>

\* connect refuses another profile before it ends the old session.
Connect(r) ==
    /\ r.command = "connect" /\ Read(r)
    /\ IF r.monitor THEN BeginStop(r) ELSE Answer /\ UNCHANGED threadVars
    /\ UNCHANGED <<probeVars, scan, trespassed>>

\* Faulty: the control block of the configuration before is kept.
NewConfigOnly(at) == config' = at /\ UNCHANGED rtt

NewConfig(at) == config' = at /\ rtt' = NoRtt

\* An activity that is running goes on with the control block it has.
ConfigureRtt(r) ==
    /\ r.command = "configureRtt" /\ Read(r) /\ Answer
    /\ IF r.at = NoAccess THEN UNCHANGED <<config, rtt>>
       ELSE NewConfig(r.at)
    /\ UNCHANGED <<threadVars, handles, session, local, bound, scan, trespassed>>

\* _ensure_rtt fails: not connected, or no control block in the allowed memory.
RttMissing(r) ==
    /\ r.command \in {"listRttChannels", "startRtt", "down"} /\ Read(r)
    /\ session = 0 \/ rtt = NoRtt
    /\ Answer /\ UNCHANGED <<threadVars, probeVars, scan, trespassed>>

\* _ensure_rtt has the control block, or finds it; the target is also accessed at S.
Located(S) ==
    /\ session # 0
    /\ IF rtt = NoRtt
       THEN Access(S \cup {config}) /\ rtt' = [session |-> session, at |-> config]
       ELSE Access(S) /\ UNCHANGED rtt

ListRttChannels(r) ==
    /\ r.command = "listRttChannels" /\ Read(r) /\ Located({})
    /\ Answer /\ UNCHANGED <<threadVars, handles, session, local, config, bound, scan>>

\* start_rtt locates the control block before it stops the old activity.
StartRtt(r) ==
    /\ r.command = "startRtt" /\ Read(r) /\ Located({})
    /\ IF r.channel THEN BeginStop(r) ELSE Answer /\ UNCHANGED threadVars
    /\ UNCHANGED <<handles, session, local, config, bound, scan>>

StartHss(r) ==
    /\ r.command = "startHss" /\ Read(r)
    /\ IF session # 0 /\ r.at # NoAccess THEN BeginStop(r) ELSE Answer /\ UNCHANGED threadVars
    /\ UNCHANGED <<probeVars, scan, trespassed>>

\* write_down0 writes where the control block says its down buffer is; without one,
\* or if the write is refused, the answer is an error.
WriteDown(r) ==
    /\ r.command = "down" /\ Read(r) /\ Answer
    /\ \/ Located({})
       \/ r.at # NoAccess /\ Located({r.at})
    /\ UNCHANGED <<threadVars, handles, session, local, config, bound, scan>>

\* The process ends, and with it its threads and handles.
Exit ==
    /\ pc' = "exited" /\ request' = NoRequest
    /\ activity' = [t \in Threads |-> NotRunning] /\ abandoned' = {}
    /\ handles' = [n \in DOMAIN handles |-> [handles[n] EXCEPT !.open = FALSE]]

\* The end of the input, or a frame that is not valid.
InputEnds ==
    /\ pc = "read" /\ Exit
    /\ UNCHANGED <<stop, thread, joining, session, local, config, rtt, bound, scan,
                   requests, trespassed>>

Receive ==
    \/ InputEnds
    \/ \E r \in Requests :
          \/ Query(r) \/ ListProbes(r) \/ ListUsbDevices(r) \/ Stop(r) \/ Connect(r)
          \/ ConfigureRtt(r) \/ RttMissing(r) \/ ListRttChannels(r) \/ StartRtt(r) \/ StartHss(r)
          \/ WriteDown(r)

-------------------------------------------------------------------------------
(* The end of stop_activity *)

Disconnecting == request.command \in {"connect", "disconnect", "shutdown"}

\* The activity that start_rtt or start_hss begins in a new thread.
Spawned ==
    IF request.command = "startHss"
    THEN [pc |-> "test", kind |-> "hss", session |-> session, at |-> request.at]
    ELSE [pc |-> "test", kind |-> "rtt", session |-> rtt.session, at |-> rtt.at]

Stopped == joining \notin {t \in Threads : Running(t)}

\* The thread has ended, or there was none: the event is cleared.
JoinDone ==
    /\ pc = "join" /\ Stopped
    /\ stop' = FALSE /\ joining' = NoThread
    /\ IF request.command \in {"startRtt", "startHss"}
       THEN \E t \in Threads : /\ ~Running(t)
                               /\ thread' = t
                               /\ activity' = [activity EXCEPT ![t] = Spawned]
       ELSE UNCHANGED <<thread, activity>>
    /\ IF Disconnecting THEN Go("release") ELSE Answer
    /\ UNCHANGED <<abandoned, probeVars, scan, requests, trespassed>>

\* Faulty: the join has no time limit.
JoinForever == FALSE /\ UNCHANGED vars

\* After two seconds the event stays set and an error is raised, which disconnect
\* ignores.
JoinTimesOut ==
    /\ pc = "join" /\ ~Stopped
    /\ joining' = NoThread /\ abandoned' = abandoned \cup {joining}
    /\ IF Disconnecting THEN Go("release") ELSE Answer
    /\ UNCHANGED <<stop, thread, activity, probeVars, scan, requests, trespassed>>

-------------------------------------------------------------------------------
(* disconnect and connect *)

\* What comes after disconnect; f is handles then.
AfterDisconnect(f) ==
    \/ request.command = "shutdown" /\ Exit
    \/ /\ request.command # "shutdown" /\ handles' = f
       /\ IF request.command = "connect" THEN Go("find") ELSE Answer
       /\ UNCHANGED <<activity, abandoned>>

\* Faulty: the control block outlives the session.
ForgetSession == session' = 0 /\ UNCHANGED rtt

\* The session is forgotten before its transport is closed.
DropSession == session' = 0 /\ rtt' = NoRtt

Release ==
    /\ pc = "release"
    /\ DropSession /\ local' = session
    /\ IF session = 0 THEN AfterDisconnect(handles)
       ELSE Go("close") /\ UNCHANGED <<activity, abandoned, handles>>
    /\ UNCHANGED <<stop, thread, joining, config, bound, scan, requests, trespassed>>

Closed == [handles EXCEPT ![local].open = FALSE]

\* The transport is closed even if probe.disconnect raises; the command then ends
\* with an error, and shutdown does not end the process.
Close ==
    /\ pc = "close" /\ local' = 0
    /\ \/ Answer /\ handles' = Closed /\ UNCHANGED <<activity, abandoned>>
       \/ AfterDisconnect(Closed)
    /\ UNCHANGED <<stop, thread, joining, session, config, rtt, bound, scan, requests,
                   trespassed>>

FindDescriptors ==
    /\ pc = "find"
    /\ IF request.version = "other" THEN Answer /\ UNCHANGED scan
       ELSE Go("found") /\ scan' \in ProbeScans(request.version, request.pair)
    /\ UNCHANGED <<threadVars, probeVars, requests, trespassed>>

ReplyList ==
    /\ pc = "found" /\ request.command # "connect"
    /\ Answer /\ scan' = NoScan
    /\ UNCHANGED <<threadVars, probeVars, requests, trespassed>>

\* The probe object that connect makes for device d.
Made(d) == [device |-> d, open |-> FALSE, asked |-> request.id, pair |-> request.pair,
            earlier |-> bound]

\* connect takes the first probe enumerated; without one, or without a target, it fails.
ChooseProbe ==
    /\ pc = "found" /\ request.command = "connect" /\ scan' = NoScan
    /\ LET chosen == Chosen(scan.found, request.id)
       IN  \/ chosen = {} /\ Answer /\ UNCHANGED <<handles, local, bound>>
           \/ \E d \in chosen :
                 LET devices == EnumerateTargeted(d, bound)
                 IN  /\ bound' = Restricted(bound, d.pair)
                     /\ IF devices # {} /\ request.target
                        THEN /\ handles' = Append(handles, Made(Min(devices)))
                             /\ local' = Len(handles) + 1
                             /\ Go("open")
                        ELSE Answer /\ UNCHANGED <<handles, local>>
    /\ UNCHANGED <<threadVars, session, config, rtt, requests, trespassed>>

Open ==
    /\ pc = "open"
    /\ \/ /\ Go("attach") /\ UNCHANGED local
          /\ handles' = [handles EXCEPT ![local].open = TRUE]
       \/ Answer /\ local' = 0 /\ UNCHANGED handles
    /\ UNCHANGED <<threadVars, session, config, rtt, bound, scan, requests, trespassed>>

\* Debug port and memory access port are there: the session is set.
Attach ==
    /\ pc = "attach" /\ Answer
    /\ session' = local /\ local' = 0
    /\ UNCHANGED <<threadVars, handles, config, rtt, bound, scan, requests, trespassed>>

\* Faulty: the transport is closed only if probe.disconnect succeeds.
AttachFailsOpen ==
    /\ pc = "attach" /\ Answer
    /\ local' = 0 /\ handles' \in {handles, Closed}
    /\ UNCHANGED <<threadVars, session, config, rtt, bound, scan, requests, trespassed>>

\* Anything in between raises: the transport is closed in a finally clause.
AttachFails ==
    /\ pc = "attach" /\ Answer
    /\ local' = 0 /\ handles' = Closed
    /\ UNCHANGED <<threadVars, session, config, rtt, bound, scan, requests, trespassed>>

-------------------------------------------------------------------------------
(* The polling threads *)

Ended(t) ==
    /\ activity' = [activity EXCEPT ![t] = NotRunning]
    /\ abandoned' = abandoned \ {t}

TestStop(t) ==
    /\ activity[t].pc = "test"
    /\ IF stop THEN Ended(t)
       ELSE activity' = [activity EXCEPT ![t].pc = "read"] /\ UNCHANGED abandoned
    /\ UNCHANGED <<pc, request, stop, thread, joining, probeVars, scan, requests,
                   trespassed>>

\* A read succeeds and what it returns is sent.  HSS reads the address of its
\* variable, RTT wherever the control block in the target's memory points to.
ReadTarget(t) ==
    /\ activity[t].pc = "read" /\ handles[activity[t].session].open
    /\ \E a \in IF activity[t].kind = "rtt" THEN Accesses ELSE {activity[t].at} : Access({a})
    /\ activity' = [activity EXCEPT ![t].pc = "test"]
    /\ UNCHANGED <<pc, request, stop, thread, joining, abandoned, probeVars, scan, requests>>

\* A read that fails or is refused ends the thread with a fatal diagnostic.
ReadFails(t) ==
    /\ activity[t].pc = "read" /\ Ended(t)
    /\ UNCHANGED <<pc, request, stop, thread, joining, probeVars, scan, requests,
                   trespassed>>

-------------------------------------------------------------------------------
Continue ==
    \/ Start \/ JoinDone \/ JoinTimesOut
    \/ Release \/ Close
    \/ FindDescriptors \/ ReplyList
    \/ ChooseProbe \/ Open \/ Attach \/ AttachFails

Polling == \E t \in Threads : TestStop(t) \/ ReadTarget(t) \/ ReadFails(t)

Next == Receive \/ Continue \/ Polling

\* The main thread goes on: its joins and child processes have time limits, and
\* the library calls that open a probe return.  A read of the target may hang.
Fairness == WF_vars(Continue)

Spec == Init /\ [][Next]_vars /\ Fairness

-------------------------------------------------------------------------------
(* Properties *)

\* Every running thread is the current activity, or the one being joined, or one
\* whose join has timed out: an activity that is started never runs beside one
\* that has not been waited for (start_rtt, start_hss, stop_activity).
OneActivity == \A t \in Threads : Running(t) => t \in {thread, joining} \cup abandoned

\* A transport is open only while a session or the connect or disconnect in
\* progress refers to it; the control block kept for the next requests is one of
\* the session and the configuration (connect, disconnect, configure_rtt); and a
\* polling thread reads from the session, unless its join has timed out.
ResourcesFollowSession ==
    /\ \A n \in DOMAIN handles : handles[n].open => n \in {session, local}
    /\ session # 0 => session \in DOMAIN handles /\ (handles[session].open \/ pc = "exited")
    /\ rtt # NoRtt => rtt = [session |-> session, at |-> config]
    /\ \A t \in Threads \ abandoned : Running(t) => activity[t].session = session

\* No byte of the core's control registers and comparators is ever accessed,
\* wherever requests and the control block in the target's memory point to.
StaysOut == ~trespassed

\* Whatever inspections fail, a probe that was seen is listed once and with its
\* preferred interface, and no device loses a name that was read.
DiscoverySound ==
    /\ scan.kind = "probes" => ListedOnce(scan.seen, scan.found)
    /\ scan.kind = "table" => NamedIfPossible(scan.names, scan.read, GenericNames)
    /\ scan.kind = "inspected" => NamedIfPossible(scan.names, scan.read, {UsbDevice})

\* The probe opened is the one whose serial number was asked for, also when the
\* backends are still restricted to the pair of an earlier connect; and it is of the
\* pair that was asked for, unless they are restricted to another one.
AskedProbe ==
    \A n \in DOMAIN handles :
        LET h == handles[n]
        IN  /\ h.asked # NoSerial => Bus[h.device].serial = h.asked
            /\ h.pair # NoPair /\ h.earlier \in {NoPair, h.pair}
                  => Bus[h.device].pair = h.pair

\* Every request is answered, even while a thread hangs in a read of the target.
EveryRequestAnswered == pc # "read" ~> pc \in {"read", "exited"}
===============================================================================
