# Formal models of VScope Serial

VScope Serial is a Flutter/Dart desktop program for Windows: a serial and
network terminal, a plotter, a Modbus master, a debug-probe (RTT/HSS) viewer and
a Flash programmer that share one *connection entry*. It runs a Python worker
(pyOCD) as a second process, and the repository holds Python scripts that simulate
devices to test it against. This directory holds TLA+ models of the parts whose
correctness depends on the order of events, the TLC configurations that check them
on small instances, and TLAPS proofs for all instances. The source is in `src/`; every model is translated from the code, and
`PROJECT.json` gives, for every definition, the lines it stands for.

    tlc -workers 2 -config MCDataConnection.cfg MCDataConnection
    tlapm DataConnectionProofs.tla

## 1. The system

### 1.1 Components

| Component | State it keeps | Operations | Model |
|---|---|---|---|
| Connection entry (`ConnectionOwnerService`) | the owner: none, data, probe or programming | `tryAcquire`, `release` | `ConnectionOwner` |
| Data connection (`DataConnectionCoordinator`, `DataConnectionService`) | operation queue, generation, single-flight futures, active session and its subscriptions, activity of the pages, aggregation flag | connect (serial, network), disconnect, I/O error, refresh with reconnect, write, exit, activities | `DataConnection`, `ExclusiveSession` |
| SSH connection (`SshConnectionService`) | state, generation, client | connect, disconnect, reconnect, remote close | `SshConnection`, `SharedEntry` |
| Probe connection (`ProbeConnectionService`, RTT backends) | state, generation, active backend, activity, monitor, tool process | connect, disconnect, start and stop of activities, loss of the tool | `ProbeConnection` |
| Flash programming (`FlashProgrammingService`, J-Link and OpenOCD backends) | state, generation, backend, tool process | connect, operation, disconnect, forced termination, shutdown | `FlashProgramming` |
| Modbus master (`ModbusClientService`, `modbus_codec`) | session epoch, queue, marks of periodic rows, worker, pending request, transaction id | start, stop, execute, polling, retry, mode change, link loss | `ModbusClient` |
| YMODEM (`ymodem_service`, the transfers of `shell_device.py`) | block number, retry counters, file | send, receive, cancel | `YmodemTransfer` |
| pyOCD worker (`pyocd_worker.py`) | probe handle, session, RTT configuration and control block, polling thread, stop event | the requests of its protocol, polling, discovery of probes | `PyocdWorker`, `ProbeDiscovery` |
| Modbus slave simulator (`modbus_device.py`) | coils and registers, receive buffer, client, command list | process a request, poll a transport, console commands, increments | `ModbusSlave` |
| Streaming test devices (`zobow_device.py`, `justfloat_device.py`, `text_sender.py`) | channels, generator, encoding, input buffer | console commands, configuration frames, streaming | `StreamDevice` |
| Settings (`SettingsRepository`, `atomic_file`) | pending save, write chain, the file with its backup, part and invalid file | debounced save, commit, load, repair, flush | `SettingsStore` |
| Native serial I/O (`NativeSerialWriteQueue`, catalogue) | queue of writes, request of the native thread | write, timeout, close | only its outcomes |
| Parsers, plot history, page view models, importers, value codecs | buffers and numbers | sequential data handling | not modelled |
| UI, updater, logging, build and release scripts | widgets, files | rendering, I/O | not modelled |

### 1.2 How they interact

* **The entry.** The data connection, the SSH service, the probe and the Flash
  programmer call `tryAcquire(x)` before they touch hardware and `release(x)` afterwards.
  `tryAcquire` also succeeds for the owner itself; `release` by anyone else is a
  no-op. The probe uses the value *probe*, the programmer *programming*, and both
  the data connection and SSH use *data*.
* **Calls.** Dart runs one event at a time, so a handler is atomic up to its next
  `await`. Hazards come from what runs between two awaits of the same handler:
  another call of the same service, the exit of a process, an error of a link.
* **Generations.** Each service counts up a generation when the user's intent
  changes; a suspended call compares the value it captured when it goes on. Most
  hazards are a comparison that is missing, or that comes too early.
* **Queue or no queue.** Only the data connection serialises its operations. The
  other services let calls interleave.
* **Pages.** One page at a time owns the receive activity (raw data, shell, plot,
  Modbus); the loss of the connection must end it.
* **Processes.** Probe and Flash backends drive external tools that may answer
  late, fail, or exit by themselves.
* **Modbus** sends through a link (the data connection) that may be lost, and
  matches answers of a slave that may be late, doubled or missing.
* **The pyOCD worker** executes one request at a time from its standard input, while
  a thread it started polls the target through the same probe handle. It stops that
  thread with an event and a join that gives up after two seconds. To find probes it
  starts child processes, each of which may fail.
* **The test devices** are scripts with a main loop and a console thread; the Modbus
  slave has a third one that increments the registers. The threads share lists and
  the register store under locks.

### 1.3 What makes each part correct

* Entry: nobody keeps it without using it, nobody uses a device without it.
* Data connection: the native life cycles never cross; a connected service has
  an open session bound to the current generation and owns the entry; no path
  leaks the entry or a page's activity; attempts and exit converge.
* SSH, probe, Flash: state, client/backend, process and entry agree when no call
  is in progress; cancelled attempts leave nothing running; a busy state ends;
  a lost device is noticed.
* Modbus: one request in flight; a write is never repeated; a late answer is not
  taken for a newer request; every caller gets a result and every row is polled.
* YMODEM: a file reported complete is the file that was sent; a transfer ends.
* pyOCD worker: one thread polls the target unless an older one hangs; handles and
  control blocks do not outlive their session; protected addresses are not accessed;
  the probe opened is the one asked for; every request is answered.
* Modbus slave: a request sees or changes its registers as a whole; an answer
  goes to the master that asked.
* Streaming devices: nothing received before the last reset is streamed, and text is
  generated in the encoding that is shown.
* Settings: what a save or a flush said is stored is found again after crashes and
  failing file operations, or the start of the program reports an error.

The hazards are listed one by one, with their lines and the properties aimed at
them, in `PROJECT.json` ("hazards").

## 2. The models

Conventions: one action per stretch of code between two awaits; `call[c].pc` (or
`pc`) names the await; primed variables follow the assignments; the bound
`MaxRequests` limits what the user and the environment start, never what the
code does next. An operator whose comment starts with "Faulty:" is a wrong
variant of the definition after it: no specification uses it; `PROJECT.json`
("mutants") names, for each property, the faulty variant that violates it.

**ConnectionOwner** has the values and the two operations of the register. The
register itself is the variable `owner` of each module that shares it.

**DataConnection** models the coordinator and the service. `queue` is the
operations chained on `_tail`; `op`, `pc`, `cur` are the one being run, the await
it is suspended at and the transport in its hands. `Connect`, `Disconnect`,
`Shutdown`, `RefreshConnectionStatus` only enqueue; `StartConnect`, `OpenSerial`,
`OpenFails`, `OpenDiscarded`, `OpenSerialSucceeds`, `ConfirmSerial`,
`OpenNetworkSucceeds`, `CloseNewDone` are the stretches of `_connectLocked`,
`_openPort` and `_connectNetworkLocked`; `StartCleanup` and `CloseDone` those of
`_cleanupPortLocked`; `StartRefresh`, `HealthOk`, `HealthBad`, `PortGone`,
`Reconnect` those of `_refreshConnectionStatusLocked`. `BeginWrite`,
`WriteSucceeds`, `WriteFails` are `_writeBytes`, which captures the session.
A transport that nothing refers to any more may be reused as a new one.

**ExclusiveSession** is the abstract promise: one handle at a time is opening,
open or closing, and opening and closing end. DataConnection refines it with
`Handles <- Sessions, state <- session`.

**SshConnection** has the calls of the service that may be in progress at once and
the client objects they open. `Cancel` is a disconnect while the service has no
client. `Failed` is the catch clause of `connect`. `SharedEntry` composes it with
DataConnection on one `owner`.

**ProbeConnection** has the calls in progress, the backends (`process`,
`connected`, and `orphans`: processes that no backend refers to any more), the
monitor and the unexpected-disconnect handler. A J-Link ends an activity by a
restart of its tool under the state "reconnecting".

**FlashProgramming** has the calls, the tools (`handle`: what the backend object
holds, `running`: whether the process lives), and the generation that a forced
termination steps. Erase, program and read are one operation.

**ModbusClient** has the queue in its two parts (manual jobs before periodic
ones), the marks of queued rows, the rows whose time has come, the workers (the
old one may still be unwinding when a session restarts), the pending request and
the wire with the requests the slave may still answer. Transaction ids are
modulo `TidSpace`, which stands for 2^16.

**YmodemTransfer** is one transfer of one file. `ends` says which program is at
which end: the application retries, the test device gives up at the first
surprise, so each direction has an `App...` and a `Device...` action. `await` names
the byte or packet a side waits for, `Advance` and `Accept` are what follows when
it comes, `Again`, `NextRequest` and `Refuse` the retries. The line is two
queues; `Fault` loses, damages or adds a message. A time limit of eight or ten seconds
expires only on a quiet line. Block numbers are modulo `BlockMod`, which stands for 256.

**ProbeDiscovery** has the operators with which the worker finds probes and names
USB devices: the inspections in child processes, any of which may fail, the merging
by serial number with the preference for v2, the choice, and the second enumeration
under a filter that stays in force once it is set (`bound`). **PyocdWorker** has the
state: `pc` is where the main thread waits, `handles` every probe object made so
far, `session` and `local` who refers to them. `Receive` has one action per request;
`JoinDone` and `JoinTimesOut` are the two ends of `stop_activity`; `TestStop`,
`ReadTarget`, `ReadFails` are the loop of a polling thread, of which several exist
when a join has timed out; `activity` holds what the loop captured when it was
started, the control block of RTT (`kind` "rtt") or the variable of HSS. A handle keeps
what was asked for and the restriction of the back ends when it was made. The history variables are `abandoned` (threads given up)
and `trespassed` (a protected byte was accessed).

**ModbusSlave** has the store with its lock and one `access` per thread, which goes
through its cells one by one (`Acquire`, `TouchCell`, `Release`), so that an
increment could come in between. A frame arrives in two pieces; `NextRtu`,
`NextAscii`, `NextTcp` delimit it in the three modes and `ProcessFrame` drops,
refuses or executes it. `Loop`, `Command`, `CommandsDone`, `PollSerial`, `PollTcp`
are the main loop. **StreamDevice** has the three scripts that stream data; the line is
counted in units, each of which knows its place in a configuration frame. `at` marks
a unit with the reset after which it arrived. `MCTestDevices` checks both modules
in one run; its variable `tool` says which script a behaviour is about.

**SettingsStore** has the files (`disk`: the number of the save a file holds, absent or
damaged), the program from `Boot` to `Leave` or `Crash`, and the commit in progress.
`Recover`, `ReadFile` and `Restore` are `load` with `recoverMissingTarget` and
`restoreBackup`; `Save`, `EnqueueSave`, `BeginWrite` the debounced save and the chain;
`Write` the file operations of `writeBytes` and `commitPart`, one step each, and
`WriteFails` the failure of any of them with the roll-back. `Flush`, `FlushAgain` and
`FlushDone` are `flush` at the end of the program. The history variable `promised` is
the newest save of which somebody was told that it is stored: the future of `save`
completed, or `flush` returned and no later report of an error contradicts it. It goes
back to what the backup holds when the file is damaged from outside, and to zero when
`load` reports an error. `MCStoredFiles` checks this module and YmodemTransfer in
one run; its variable `about` says which of them a behaviour is about.

### The variable `overtaken`

The probe, the Flash programmer and SSH compare generations at some awaits and not
at others. A call that resumes late can then end what a newer call has begun.
The history variable `overtaken` becomes TRUE at exactly such a step, and
`ConsistentUnlessOvertaken` (and `ClientNotLeaked`) are claimed until then. Runs
that expect a violation show such a step where a document of the repository
promises the opposite. Properties without that clause, such as `EntryNotLeaked`,
`EntryHasHolder`, `ConnectSettles` and `BusySettles`, hold even then.

## 3. The runs

Runs that pass:

| Run | Bounds | What it shows |
|---|---|---|
| `data_connection` | 2 transports, 1 writer, 4 requests, serial, TCP client, TCP server | The life cycles of transports never cross, a connected service has a current session and the entry, nothing is leaked, the activity of the pages and the aggregation flag follow the connection, an attempt with a disconnect waiting behind it does not report success, every attempt settles, exit converges; refinement of ExclusiveSession |
| `ssh_connection` | 3 calls at once, 4 clients, 5 requests | State, client and entry agree, cancelled attempts close their client, "connecting" and "disconnecting" end |
| `probe_connection` | 3 calls at once, a J-Link and another backend, 5 requests | The entry comes back, the service at rest is consistent, attempts and restarts end, a lost backend is noticed |
| `flash_programming` | 3 calls at once, 4 tools, 4 requests | The entry always has a holder, a running operation is not disturbed except by force, no busy state lasts, shutdown ends the session |
| `modbus_client` | 1 caller (1 retry), 2 rows, 2 workers, 6 requests, 2 late answers, 3 transaction ids | One request in flight, each job queued or in progress once, no strange answer over TCP, no repeated write, every call returns, every row is polled |
| `pyocd_worker` | 4 requests, 2 polling threads, 3 devices at 2 VID/PID pairs, 1 forbidden range | One activity beside those whose join timed out, handles, the kept control block and polling threads follow the session, forbidden memory is not accessed, discovery lists every probe seen once, the probe asked for (by serial number or pair) is opened, every request is answered although reads may hang |
| `stored_files` | transfer: 4 blocks, block numbers modulo 3, 3 retries, 3 faults, application and test device in both directions; settings: 3 saves, 3 failures, 2 crashes | A completed file is intact, both sides end; settings said to be stored survive failures, damage and crashes |
| `test_devices` | slave: 3 transports, 2 masters, 2 frames, 2 registers, 1 increment, 1 command; streams: 4 modes, 2 configurations, 1 unit of noise, 2 commands | Reads and writes of registers are atomic, answers go to the master that asked, nothing received before a reset is streamed |

Runs that find a violation of what a document or comment says (details under
"findings" in `PROJECT.json`):

| Run | Statement | What the code does |
|---|---|---|
| `reconnect_after_disconnect` | disconnect invalidates at once (coordinator comment) | a refresh that is under way reconnects under a newer generation while the disconnect waits |
| `two_sessions` | only one session exists (2.2), SSH takes the same ownership (4.1) | SSH acquires as "data" and so succeeds beside a connected port |
| `ymodem_short_file` | lost input never leaves a damaged file that looks like a success (comment in `ymodem_service.dart`) | between two applications a late ACK lets the sender skip a block, and the receiver does not compare the length (3 blocks, 2 faults) |
| `tool_without_entry` | the entry is taken before the tool is started (class comment) | a connect cancelled during the search for a tool starts it all the same |

### Why the bounds are enough

The hazards need two or three actors and a handful of requests: an attempt, what
cancels it, a newer attempt, and one event of the environment. Four to six
requests with three calls in progress reach every such order; five requests for
Flash and six for the probe were also explored for the safety properties without
an error. Two transports suffice for the data connection because the property
`SingleLifecycle` (proved in general) says that one of them is idle at any time,
and a writer may still refer to the other; three connection types cover the three
ways the code tells them apart ("udp" is handled like "tcpClient"). Two Modbus
workers suffice because `OneInFlight` (proved in general) says that one is idle.
Three transaction ids with two late answers keep the property that an id does not
come back while its answer can still arrive, which 2^16 ids give the program.
In `pyocd_worker` two threads suffice: to leave one behind takes two requests,
a start and a stop, so a third start has a thread (the assumption on `MaxRequests`); four requests are a connect, a start, a
stop whose join times out, and one more of any kind. Four blocks and numbers
modulo 3 let the block number come round as 256 blocks do. Two masters with one
frame each, or one with two, are what an answer to the wrong master or half a
frame left in the buffer needs. For the settings, three saves are
one generation in the backup, one in the file and one on its way; two failures
are the second rename and its roll-back, the third one may hit the commit that follows; and the second
crash may hit the repair after the first. Four saves, four failures and three
crashes were also explored without an error.

`CHECK_DEADLOCK FALSE` is set where the system may stop: for Modbus (with no row and
no call its worker polls an empty queue, which is stuttering), for the pyOCD worker
(it may exit), for YMODEM and the settings (a transfer ends, a program may fail to start), and for the test devices (a script
that was closed does nothing).

### Fairness

* DataConnection: `WF(OperationStep)` and `WF(WriteDone)`. The event loop runs
  every continuation; the native open, close, health check and enumeration
  return (enumeration has a time limit in the code); every write is answered.
* SshConnection: `WF` of each call's continuation. Socket, handshake and
  authentication have time limits; the answer to the shell request is assumed.
* ProbeConnection: `WF` of each call's continuation and of `Watch`, the 500 ms
  timer. FlashProgramming: `WF` of each call; every wait for a tool has a limit.
* ModbusClient: `WF` of each worker's step (20 ms loop and request time-outs; the
  link's `send` is assumed to return) and of the end of each interval.
* YmodemTransfer: `WF` of reading at both ends, while a transfer lasts and after it:
  every wait has a time limit (`wait_for_byte`, `_readByteWithTimeout`) and what
  arrives outside a transfer is dropped at once.
* PyocdWorker: `WF(Continue)`, the main thread. Joins and child processes have time
  limits and pyOCD's open is assumed to return. Nothing is assumed of the
  polling threads, whose reads may hang.
* ModbusSlave, StreamDevice and SettingsStore state no liveness and assume no fairness.
* No fairness is assumed of users, of other holders of the entry, or of answers.

## 4. The proofs

Each theorem holds for every value of the constants that satisfies the named
assumptions of its module.

* **DataConnectionProofs.** `TypeCorrect`, `OneLifecycle`, `EntryIsOwned`,
  `EntryIsReturned`, `LifecycleSafety`. The inductive invariant ties `pc` to what
  the operation holds: `LifecycleInv` says which transport may be other than idle
  at each await (without it a second transport could be opened while `cur` is
  forgotten), `OwnerKept` at which awaits the entry must be held, `OwnerFreed` at
  which it must not. The
  safety part of the refinement follows action by action; its fairness part is
  checked by TLC. `EntryIsOwned` speaks of the data connection beside the probe
  and the programmer; an SSH service at the same entry can free it
  (`two_sessions`). `ConnectedIsBound` and `NewestIntentWins` need the queue
  besides: an intent takes its generation and its place in one step, so the
  intents wait in the order of their generations (`QueueOrdered`) and the connect
  that runs is older than all of them (`RunningIsOldest`). One that passes its
  last comparison has the newest generation, so nothing newer waits. For
  `PagesFollow` the type shown between the two awaits of an attempt must be that
  of the attempt (`PageInv`).
* **DataConnectionProofs, the shared entry.** `SharedEntryKeeps`,
  `EntryLostToSshOnly` and `SharedSshKeeps` are about SharedEntry, whose steps are
  those of the data connection and of an SSH service on one `owner`. All parts of
  the invariant but `OwnerKept` and `OwnerFreed` say nothing of the entry
  (`SharedInv`), so for the data connection a step of the service changes nothing
  they speak of: one transport at a time, the order of intents and the pages do
  not rely on the entry. `SessionsOwned` does, and fails here;
  `EntryLostToSshOnly` says how. In a behaviour in which no step of the service frees
  an entry that is held as "data" (`SshFrees`), it holds. That is a condition on the
  behaviour, which the code does not ensure; where the connections are used one after
  the other it is met. `SharedSshKeeps` is the other side, by instantiating
  `SshNeedsNoEntry`. Both services can still be connected at once (`two_sessions`).
* **SshConnectionProofs.** `SshTypeCorrect`, `SshEntryNotLeaked`, `SshConsistent`,
  `SshClientNotLeaked`, `SshNeedsNoEntry`. `CallsInv`: calls in progress have different clients and
  generations, none newer than the service's, and each client is in the state its
  call waits for. `AttemptInv`, until something is overtaken: only the call of
  the current generation can still change the service, and `state` tells which
  kind of call that is. The properties say nothing of other calls and are
  therefore not inductive by themselves. Neither part mentions the entry
  (`EntryHeld` does), so they survive any change of it by others (`EntryTouched`).
* **ProbeConnectionProofs.** `ProbeTypeCorrect`, `ProbeEntryNotLeaked`,
  `ProbeConsistent`. Types need `GoodCalls`: a call about to start a process
  captured an existing backend. `ConsistentUnlessOvertaken` speaks of a service
  at rest; `NotOvertaken` says what holds on the way there. All calls in
  progress are about one backend (`OneBackend`). A connect that is not stale is
  alone (`Resolving`, `Attempt`), and beside the restart of a J-Link there are
  only calls that change nothing before they compare (`Restart`). Every process
  has a session or an attempt that will end it (`Processes`), every state a call
  that will leave it (`Settling`).
* **FlashProgrammingProofs.** `FlashTypeCorrect`, `EntryAlwaysHasHolder`, with the
  corresponding `GoodCalls`; `OperationNeverDisturbed`, `ServiceConsistent` from
  `Undisturbed`. A connect starts with no call in progress, so that all calls are
  about the tool it found (`OneTool`). `Looking` and `Attempt` say what it may
  rely on at each await, `Operating` and `Session` that an operation, or a
  session that could begin one, is alone unless its tool was killed, `Processes`
  and `Busy` who ends each process and leaves each state.
* **ModbusClientProofs.** `ModbusTypeCorrect`, `AlwaysOneInFlight`,
  `AlwaysSendsForSession`. `FlagIsRight` relates `workerRunning` to the one worker
  that is not idle. `NeverStrangeAnswer` counts, because ids are used again: a
  request that may still be answered got its id at most as many ids ago as there are
  younger requests on the wire (`WireInv`), which are fewer than `TidSpace`.
  `AlwaysEachJobOnce` compares the marks, the queue and the calls with what is
  in work (`MarksInv`, `CallsInv`); a mark may be taken back at the end of
  a job because no second job of that row waits. The order in which due
  rows are queued is a permutation of a finite set (`Keys` is finite).
* **PyocdWorkerProofs.** `WorkerTypeCorrect`, `OneActivityHolds`,
  `ResourcesFollowSessionHolds`, `StaysOutHolds`, `AskedProbeHolds`,
  `DiscoverySoundHolds`, `OneProbeChosen`. `Threading` adds that a stop begins only while no other is in
  progress and that a thread starts only when none is current; `Resources` says at
  which waits the local variable of connect or disconnect holds a handle, and that
  there is no session then. That a thread reads from the session (`ThreadsReadSession`)
  needs both: the session changes only after a stop, when the thread has ended or its join
  timed out, and a start takes the block of the session. `StaysOut` follows from `AccessStaysOut`: an access that the
  overlap test accepts has no byte in a forbidden range, for any ranges. A handle
  is of the probe asked for when it is made (`TargetedDevice`) and only opened and
  closed later, so `AskedHandle` is the type of handles. That it is also of the pair asked
  for follows the pair through the inspections, the merge and the choice
  (`RequestsOfPair`, `SeenOfPair`, `ScanOfPair`, `ChosenPair`). What discovery returns is
  the result of a merge of any number of descriptors; the induction over them is
  made without an induction theorem: a set of numbers that holds 0 and with n also
  n + 1 holds all up to N, since else the least one missing would contradict
  it (`AllNumbers`, `UpTo`). The merge is a recursive function (`Kept`), of which
  every value is described by what was kept of the first n descriptors
  (`Discovered`); `ScanInv` says the same of the names. Nothing is assumed of the
  bus, the names or the inspections that fail.
* **TestDevicesProofs.** `AccessIsAtomicHolds`, `AnswerToAskerHolds` about
  ModbusSlave, `StreamsLastSelectionHolds` about StreamDevice, and
  `TestDevicesHold`, all three for the behaviours of `test_devices`, and the types of
  both, `SlaveTypeCorrect` and `StreamTypeCorrect`. `Locked`: a
  thread inside an access holds the lock, and its cells are all different;
  that they exist is because `ExceptionOf` has refused an area beyond the table
  (`RequestBegins`). `InSync`: what it has read or written so far is what the
  store holds. `MainLoop`: the main thread begins no access inside another.
  `Pieces`: what is on the line belongs to requests that were sent. For the
  answers, `Senders`: the buffer holds pieces of the master an answer would
  reach; `Once`: the head of a frame is in one place, and in none once its
  frame has been processed; `InTurn`: in TCP heads and tails alternate, since the
  buffer is emptied between two clients, so what is delimited is a whole
  frame. For the streams, `Fresh`: whatever is on the line or in the buffer arrived
  after the last reset; `Forgotten`: between the reset at the console and the
  discarding of the input no configuration is in force.
* **StoredFilesProofs.** `SettingsSurviveHolds`, `DeliveredIntactHolds`, and
  `FilesStayWhole`, both for the behaviours of `stored_files`; `SettingsTypeCorrect`
  and `TransferTypeCorrect`, the types of both. The first rests on
  `Order` (saves in flight are written in the order of their numbers and are newer
  than what is promised), `Commit` and `Repair` (which file holds what at each step
  of a commit, of its roll-back and of a repair), `Files` (what a start would
  find is not older than the promise) and `Settled` (what `flush` waits for is
  in flight, stored, or refused). The second rests on `Progress`: either the sender still
  waits for one acknowledgement of what was taken (`Behind`), or none is on the
  line and it has sent, or is about to send, what is needed (`Level`); `Line` says
  which packets may be on their way. It assumes `DeviceAtOneEnd`: one end of
  every transfer is the strict test device. Between two applications `Behind` and
  `Level` can both be false and the property fails (`ymodem_short_file`).

Only model-checked: all liveness (`~>` under fairness, which also needs ENABLED) and
the fairness part of the refinement, which are out of the prover's reach. Every type
invariant is proved, and no run repeats it.

## 5. Abstractions and what is not modelled

* Configuration values, payloads, texts, logging and notifications are left out.
  A port is there or not; an answer fits or not.
* DataConnection: no `dispose`, receive, log or send-text path; a TCP server that
  loses its client reports nothing; the one-time reconnect is always enabled.
* SshConnection: the write chain (`_writeTail`), starting and stopping the shell of
  a connected session, host-key trust and `dispose` are left out. Other events may
  come before `close` of a client completes, which is what the adapter's interface
  allows; dartssh2's takes only microtasks. A `close` that throws is left out.
* ProbeConnection: no discovery, shutdown, RTT data, memory writes.
* FlashProgramming: no tool commands, output, progress, verification.
* ModbusClient: `stop` is atomic (its awaits are microtasks); requests can be
  encoded; "rtu" stands for ASCII; the slave answers one of the last `MaxLate`
  requests; the wire survives a reconnect, which allows more than a socket does.
* YmodemTransfer: a packet is one message, of which only damage is told; one file per
  batch. Not modelled: an overload of the input queue, a broken connection (`abort`),
  the `.part` file, a cancellation while bytes are being written. Messages are not
  delayed past a time limit, which is longer than any of them takes.
* PyocdWorker: a frame on standard output is one step; no frame format, values or
  timing; the choice of a target is a yes or no; library calls that open a
  probe return or raise. A thread of RTT goes on with the control block it captured
  when `configure_rtt` drops the kept one, as in the code; no property forbids that. Of several equal
  probes of one pair a request without serial number names none; `AskedProbe` says nothing
  of which is opened, nor of the pair once the back ends are restricted to another. The library's own behaviour is what its use in the code shows.
* ModbusSlave: a frame is two pieces with the facts that decide its fate (check sum,
  length, byte count); no operation log; an illegal MBAP length is not among the
  inputs; the lists of commands are appended to and drained in one step under their
  lock. On a serial line pieces that do not belong together are no frame (the check sum is taken
  to tell), so that no property speaks of requests that did not arrive whole there. StreamDevice: no values, no timing of the streamed data; noise is of two kinds, the
  bytes that JustFloat ignores in front of a line and the others.
* The other commands of `shell_device.py` only print.
* SettingsStore: rename and delete are atomic and durable when they return, and a flushed
  write is durable, which the code takes for granted; a file that is being
  written is damaged until then. Damage from outside comes while the program is down.
  Reads do not fail but for the content. Left out: `setPath` in a running program,
  the fields and their validation and migration, a second process, the profiles and logs that use
  the same committer, and a close of the window during which the settings
  are written while other services are shut down.
* Native serial I/O: the C++ threads are seen through what open, close, write and
  health check return; DataConnection takes every such outcome.
* Build and release scripts run once, on one machine, one step after the other.
* Exit (`main.dart`): the order of the services' shutdowns is sequential; each
  model has its own.
* Parsers, view models, history, codecs, importers, UI, updater and scripts are
  sequential data handling or I/O that unit tests reach.

## 6. Plan

Finished, in this order: ConnectionOwner, DataConnection with ExclusiveSession,
ProbeConnection, FlashProgramming, ModbusClient, SshConnection with SharedEntry,
ProbeDiscovery with PyocdWorker, YmodemTransfer, ModbusSlave, StreamDevice,
SettingsStore. Every
component that has interleavings, faults or retries of its own has a module.

Every type invariant, every safety invariant and every action property of a passing run is
the subject of a theorem. Open: two hazards without a property (the late write
of an old session, the release of the entry before `close` is awaited), the
parts the models leave out (section 5), and a record of which service gave
back whose entry, which would turn the condition of `EntryLostToSshOnly` into a state
property.
