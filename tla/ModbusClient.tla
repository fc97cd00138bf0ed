------------------------------ MODULE ModbusClient ------------------------------
(***************************************************************************)
(* ModbusClientService: the queue of manual and periodic requests of a     *)
(* Modbus master, the worker that takes them to the data link one by one,  *)
(* retries, time limits, and the slave that answers late or not at all.    *)
(***************************************************************************)
EXTENDS Naturals, FiniteSets, SequencesExt

CONSTANTS
    Calls,          \* callers of execute, one request at a time each
    Keys,           \* periodic keys: a row with "poll" or "send"
    Reads,          \* those Calls and Keys that read
    Retries,        \* readRetries of each of them
    Shape,          \* unit, function and quantity (and echo) of each of them
    Workers,        \* runs of _worker
    NoWorker, NoJob,
    MaxLate,        \* bound on the requests a slave has not answered yet
    TidSpace,       \* number of transaction ids, 65536 in the code
    MaxRequests     \* bound on the requests of the user and losses of the link

Jobs == Calls \cup Keys

ASSUME ModbusAssumption ==
    /\ Calls \cap Keys = {} /\ Reads \subseteq Jobs /\ IsFiniteSet(Keys)
    /\ Retries \in [Jobs -> 0..3] /\ Shape \in [Jobs -> Nat]
    /\ NoWorker \notin Workers /\ NoJob \notin Jobs
    /\ MaxLate \in Nat \ {0} /\ TidSpace \in Nat /\ TidSpace > MaxLate
    /\ MaxRequests \in Nat

VARIABLES
    mode,           \* _mode; "rtu" stands for ASCII as well
    connected,      \* _link.isConnected
    sessionActive, requestEpoch, transactionId,
    enabled,        \* keys whose page and row are switched on
    manual,         \* manual jobs of _queue, by sequence
    periodic,       \* keys of the periodic jobs of _queue, by due time
    queuedPeriodic, \* _queuedPeriodic
    due,            \* keys whose _nextDue has come, by that time
    later,          \* keys whose _nextDue is in the future
    workerRunning, worker,
    pending,        \* the worker whose request is _pending
    wire,           \* requests the slave may still answer, oldest first
    calling,        \* calls of execute that have not returned
    requests        \* requests made so far (bounds the model)

session == <<mode, connected, sessionActive, requestEpoch>>
schedule == <<enabled, manual, periodic, queuedPeriodic, due, later>>
vars == <<session, transactionId, schedule, workerRunning, worker, pending,
          wire, calling, requests>>

\* pc: "loop" between two jobs, "sending" in _link.send, "waiting" for the
\* answer.  result: what completed the request, "other" being the answer to
\* another request.
Worker == [pc : {"idle", "loop", "sending", "waiting"}, job : Jobs \cup {NoJob},
           epoch : Nat, attempt : 0..4, tid : Nat, mode : {"rtu", "tcp"},
           result : {"none", "ok", "other", "error"}]

Resting(at) == [pc |-> at, job |-> NoJob, epoch |-> 0, attempt |-> 0, tid |-> 0,
                mode |-> "rtu", result |-> "none"]

TypeOK ==
    /\ mode \in {"rtu", "tcp"} /\ connected \in BOOLEAN
    /\ sessionActive \in BOOLEAN /\ requestEpoch \in Nat
    /\ transactionId \in 0..TidSpace - 1
    /\ enabled \subseteq Keys /\ queuedPeriodic \subseteq Keys /\ later \subseteq Keys
    /\ manual \in Seq(Calls) /\ periodic \in Seq(Keys) /\ due \in Seq(Keys)
    /\ workerRunning \in BOOLEAN /\ worker \in [Workers -> Worker]
    /\ pending \in Workers \cup {NoWorker}
    /\ wire \in Seq([tid : Nat, shape : Nat, own : BOOLEAN])
    /\ calling \subseteq Calls /\ requests \in Nat

Init ==
    /\ mode \in {"rtu", "tcp"} /\ connected = TRUE
    /\ sessionActive = FALSE /\ requestEpoch = 0 /\ transactionId = 0
    /\ enabled = {} /\ queuedPeriodic = {} /\ later = {}
    /\ manual = <<>> /\ periodic = <<>> /\ due = <<>>
    /\ workerRunning = FALSE /\ worker = [w \in Workers |-> Resting("idle")]
    /\ pending = NoWorker /\ wire = <<>> /\ calling = {} /\ requests = 0

-------------------------------------------------------------------------------
(* Helpers; "Faulty:" marks a wrong variant that no specification uses *)

Request == requests < MaxRequests /\ requests' = requests + 1

\* keys without what is gone: the positions that are left, in order.
Without(keys, gone) ==
    LET left == SetToSeqs({n \in DOMAIN keys : keys[n] \notin gone})
        InOrder(at) == \A m, n \in DOMAIN at : m < n => at[m] < at[n]
    IN  {[n \in DOMAIN at |-> keys[at[n]]] : at \in {p \in left : InOrder(p)}}

Start(w) == worker' = [worker EXCEPT ![w] = Resting("loop")]

\* Faulty: a worker is started whether or not one is running.
StartAnother ==
    /\ workerRunning' = TRUE
    /\ IF \E w \in Workers : worker[w].pc = "idle"
       THEN Start(CHOOSE w \in Workers : worker[w].pc = "idle")
       ELSE UNCHANGED worker

\* _ensureWorker, in an active session.
EnsureWorker ==
    /\ workerRunning' = TRUE
    /\ IF workerRunning THEN UNCHANGED worker
       ELSE Start(CHOOSE w \in Workers : worker[w].pc = "idle")

\* Faulty: a request is sent again whatever happened to its session.
RetryInAnySession(w) ==
    worker[w].job \in Reads /\ worker[w].attempt <= Retries[worker[w].job]

\* Only reads are repeated, and only in the session they were made in.
MayRetry(w) ==
    /\ worker[w].result = "error"
    /\ worker[w].job \in Reads /\ worker[w].attempt <= Retries[worker[w].job]
    /\ sessionActive /\ connected /\ worker[w].epoch = requestEpoch

\* Faulty: the transaction id is not compared.
FitsByShape(request, answer) == answer.shape = Shape[request.job]

\* decodeResponse: a frame without transaction id fits every request of the
\* same unit, function and size.
Fits(request, answer) ==
    /\ answer.shape = Shape[request.job]
    /\ request.mode = "tcp" => answer.tid = request.tid

\* _nextTransactionId
NextTransactionId == (transactionId + 1) % TidSpace

\* A slave answers one of the last MaxLate requests, or none.
OnWire(frame) ==
    LET frames == Append([i \in DOMAIN wire |-> [wire[i] EXCEPT !.own = FALSE]], frame)
    IN  IF Len(frames) > MaxLate THEN Tail(frames) ELSE frames

\* _executeOnce up to its first await; a new transaction id in TCP.
Attempt(w, job, epoch, n) ==
    /\ transactionId' = IF mode = "tcp" THEN NextTransactionId ELSE transactionId
    /\ worker' = [worker EXCEPT ![w] =
           [pc |-> "sending", job |-> job, epoch |-> epoch, attempt |-> n,
            tid |-> transactionId', mode |-> mode, result |-> "none"]]
    /\ pending' = w
    /\ wire' = OnWire([tid |-> transactionId', shape |-> Shape[job], own |-> TRUE])

\* completeError on the pending request unless it is already completed.
Completed(result) ==
    [w \in Workers |-> IF w = pending /\ worker[w].result = "none"
                       THEN [worker[w] EXCEPT !.result = result] ELSE worker[w]]

\* Faulty: the keys of the discarded jobs stay marked as queued.
HaltKeepingKeys ==
    /\ sessionActive' = FALSE /\ requestEpoch' = requestEpoch + 1
    /\ worker' = Completed("error") /\ pending' = NoWorker
    /\ calling' = calling \ ToSet(manual)
    /\ enabled' = {} /\ manual' = <<>> /\ periodic' = <<>>
    /\ due' = <<>> /\ later' = {}
    /\ UNCHANGED queuedPeriodic

\* Faulty: the callers of the discarded jobs are not told.
HaltSilently ==
    /\ sessionActive' = FALSE /\ requestEpoch' = requestEpoch + 1
    /\ worker' = Completed("error") /\ pending' = NoWorker
    /\ enabled' = {} /\ manual' = <<>> /\ periodic' = <<>>
    /\ queuedPeriodic' = {} /\ due' = <<>> /\ later' = {}
    /\ UNCHANGED calling

\* Faulty: the queue is not emptied, only its callers are told.
HaltKeepingQueue ==
    /\ sessionActive' = FALSE /\ requestEpoch' = requestEpoch + 1
    /\ worker' = Completed("error") /\ pending' = NoWorker
    /\ calling' = calling \ ToSet(manual)
    /\ enabled' = {} /\ queuedPeriodic' = {} /\ due' = <<>> /\ later' = {}
    /\ UNCHANGED <<manual, periodic>>

\* stop: every page is disabled, the pending request and all queued ones fail,
\* and the worker is left to find out by itself.
Halt ==
    /\ sessionActive' = FALSE /\ requestEpoch' = requestEpoch + 1
    /\ worker' = Completed("error") /\ pending' = NoWorker
    /\ calling' = calling \ ToSet(manual)
    /\ enabled' = {} /\ manual' = <<>> /\ periodic' = <<>>
    /\ queuedPeriodic' = {} /\ due' = <<>> /\ later' = {}

\* Faulty: the queued job of a disabled page stays in the queue.
CancelMarksOnly(k) ==
    queuedPeriodic' = queuedPeriodic \ {k} /\ UNCHANGED periodic

\* _cancelPagePeriodic, but for _nextDue.
CancelPeriodic(k) ==
    queuedPeriodic' = queuedPeriodic \ {k} /\ periodic' \in Without(periodic, {k})

-------------------------------------------------------------------------------
(* Requests of the user, and the link *)

\* startSession: the rows that are switched on are due at once.
StartSession ==
    /\ Request
    /\ ~sessionActive /\ connected
    /\ sessionActive' = TRUE
    /\ due' \in {old \o new : old \in Without(due, enabled), new \in SetToSeqs(enabled)}
    /\ later' = later \ enabled
    /\ EnsureWorker
    /\ UNCHANGED <<mode, connected, requestEpoch, transactionId, enabled, manual,
                   periodic, queuedPeriodic, pending, wire, calling>>

StopSession ==
    /\ Request
    /\ sessionActive
    /\ Halt
    /\ UNCHANGED <<mode, connected, transactionId, workerRunning, wire>>

\* setMode stops the session first.
SetMode ==
    /\ Request
    /\ Halt
    /\ mode' \in {"rtu", "tcp"} \ {mode}
    /\ UNCHANGED <<connected, transactionId, workerRunning, wire>>

\* execute: a manual request is queued once.
Execute(c) ==
    /\ Request
    /\ sessionActive /\ c \notin calling
    /\ calling' = calling \cup {c}
    /\ manual' = Append(manual, c)
    /\ EnsureWorker
    /\ UNCHANGED <<session, transactionId, enabled, periodic, queuedPeriodic,
                   due, later, pending, wire>>

\* A page or row is switched on.
Enable(k) ==
    /\ Request
    /\ k \notin enabled
    /\ enabled' = enabled \cup {k}
    /\ IF sessionActive THEN EnsureWorker ELSE UNCHANGED <<workerRunning, worker>>
    /\ UNCHANGED <<session, transactionId, manual, periodic, queuedPeriodic,
                   due, later, pending, wire, calling>>

\* A page is switched off, or a page or row removed, which cancels its jobs, or a
\* row is switched off, which does not.
Disable(k) ==
    /\ Request
    /\ k \in enabled
    /\ enabled' = enabled \ {k}
    /\ \/ CancelPeriodic(k) /\ due' \in Without(due, {k}) /\ later' = later \ {k}
       \/ UNCHANGED <<periodic, queuedPeriodic, due, later>>
    /\ IF sessionActive THEN EnsureWorker ELSE UNCHANGED <<workerRunning, worker>>
    /\ UNCHANGED <<session, transactionId, manual, pending, wire, calling>>

\* The connection is lost, which stops the session, or made again.
LinkChanges ==
    /\ Request
    /\ connected' = ~connected
    /\ IF connected /\ sessionActive
       THEN Halt
       ELSE UNCHANGED <<sessionActive, requestEpoch, worker, pending, calling,
                        schedule>>
    /\ UNCHANGED <<mode, transactionId, workerRunning, wire>>

-------------------------------------------------------------------------------
(* The worker *)

\* Keys that were never due are due now; what is due and not queued joins the
\* queue, which is kept in the order of the due times.
Due == {k \in enabled : k \notin queuedPeriodic /\ k \notin later}

Queued(order) ==
    LET jobs == periodic \o SetToSeq(Due)
        Earlier(j, k) ==
            \E m, n \in DOMAIN order : m < n /\ order[m] = j /\ order[n] = k
        Sorted(p) ==
            \A m, n \in DOMAIN p : m < n => ~Earlier(jobs[p[n]], jobs[p[m]])
    IN  {[n \in DOMAIN p |-> jobs[p[n]]] :
             p \in {q \in SetToSeqs(DOMAIN jobs) : Sorted(q)}}

\* The interval of key k begins, unless its row was removed.
NextInterval(k, order) ==
    /\ due' \in Without(order, {k})
    /\ \/ later' = later \cup {k}
       \/ k \notin enabled /\ UNCHANGED later

\* Manual requests go first.  A row that was switched off while its job was
\* queued is passed over.
TakeJob(w) ==
    /\ worker[w].pc = "loop" /\ sessionActive
    /\ \E new \in SetToSeqs(Due \ ToSet(due)) : \E jobs \in Queued(due \o new) :
          LET order == due \o new
              key == Head(jobs)
          IN  \/ /\ manual # <<>>
                 /\ Attempt(w, Head(manual), requestEpoch, 1)
                 /\ manual' = Tail(manual) /\ periodic' = jobs
                 /\ queuedPeriodic' = queuedPeriodic \cup Due
                 /\ due' = order
                 /\ UNCHANGED later
              \/ /\ manual = <<>> /\ jobs # <<>> /\ key \in enabled
                 /\ Attempt(w, key, requestEpoch, 1)
                 /\ periodic' = Tail(jobs)
                 /\ queuedPeriodic' = queuedPeriodic \cup Due
                 /\ due' = order
                 /\ UNCHANGED <<manual, later>>
              \/ /\ manual = <<>> /\ jobs # <<>> /\ key \notin enabled
                 /\ periodic' = Tail(jobs)
                 /\ queuedPeriodic' = (queuedPeriodic \cup Due) \ {key}
                 /\ NextInterval(key, order)
                 /\ UNCHANGED <<manual, transactionId, worker, pending, wire>>
    /\ UNCHANGED <<session, enabled, workerRunning, calling, requests>>

\* _link.send returns.
Sent(w) ==
    /\ worker[w].pc = "sending"
    /\ worker' = [worker EXCEPT ![w].pc = "waiting"]
    /\ UNCHANGED <<session, transactionId, schedule, workerRunning, pending,
                   wire, calling, requests>>

\* _link.send throws, or the answer does not arrive in time.
Fails(w) ==
    /\ \/ worker[w].pc = "sending"
       \/ worker[w].pc = "waiting" /\ worker[w].result = "none"
    /\ worker' = [worker EXCEPT ![w].pc = "waiting", ![w].result = "error"]
    /\ UNCHANGED <<session, transactionId, schedule, workerRunning, pending,
                   wire, calling, requests>>

\* The future of the request is completed: the request is repeated or its job
\* is done.  A periodic key is due again after its interval.
AttemptEnds(w) ==
    LET job == worker[w].job
    IN  /\ worker[w].pc = "waiting" /\ worker[w].result # "none"
        /\ \/ /\ MayRetry(w)
              /\ Attempt(w, job, worker[w].epoch, worker[w].attempt + 1)
              /\ UNCHANGED <<queuedPeriodic, due, later, calling>>
           \/ /\ ~MayRetry(w)
              /\ Start(w)
              /\ pending' = IF pending = w THEN NoWorker ELSE pending
              /\ queuedPeriodic' = queuedPeriodic \ {job}
              /\ IF job \in Keys THEN NextInterval(job, due) ELSE UNCHANGED <<due, later>>
              /\ calling' = calling \ {job}
              /\ UNCHANGED <<transactionId, wire>>
        /\ UNCHANGED <<session, enabled, manual, periodic, workerRunning, requests>>

\* The worker finds the session stopped.
WorkerExits(w) ==
    /\ worker[w].pc = "loop" /\ ~sessionActive
    /\ worker' = [worker EXCEPT ![w] = Resting("idle")]
    /\ workerRunning' = FALSE
    /\ UNCHANGED <<session, transactionId, schedule, pending, wire, calling,
                   requests>>

\* The interval of a row is over.
IntervalEnds(k) ==
    /\ k \in later
    /\ later' = later \ {k} /\ due' = Append(due, k)
    /\ UNCHANGED <<session, transactionId, enabled, manual, periodic,
                   queuedPeriodic, workerRunning, worker, pending, wire, calling,
                   requests>>

-------------------------------------------------------------------------------
(* The slave *)

\* Its next answer arrives and completes the pending request, rightly or not; a
\* garbled one, or one that does not fit, makes it fail.  Or it never comes.
Answer ==
    /\ wire # <<>>
    /\ wire' = Tail(wire)
    /\ \/ /\ pending # NoWorker
          /\ worker' = Completed(IF ~Fits(worker[pending], Head(wire)) THEN "error"
                                 ELSE IF Head(wire).own THEN "ok" ELSE "other")
       \/ worker' = Completed("error")
       \/ UNCHANGED worker
    /\ UNCHANGED <<session, transactionId, schedule, workerRunning, pending,
                   calling, requests>>

-------------------------------------------------------------------------------
User ==
    \/ StartSession \/ StopSession \/ SetMode \/ LinkChanges
    \/ \E c \in Calls : Execute(c)
    \/ \E k \in Keys : Enable(k) \/ Disable(k)

Work(w) ==
    TakeJob(w) \/ Sent(w) \/ Fails(w) \/ AttemptEnds(w) \/ WorkerExits(w)

Next ==
    \/ User \/ Answer
    \/ \E w \in Workers : Work(w)
    \/ \E k \in Keys : IntervalEnds(k)

\* The worker looks every 20 ms and every wait has a time limit (but for
\* _link.send, which is taken to return); intervals end.
Fairness ==
    /\ \A w \in Workers : WF_vars(Work(w))
    /\ \A k \in Keys : WF_vars(IntervalEnds(k))

Spec == Init /\ [][Next]_vars /\ Fairness

-------------------------------------------------------------------------------
(* Properties *)

\* docs/CONTEXT.md section 5.2: one request in flight on a connection.  No
\* order of stop, start and switching starts a second worker while the old one
\* still waits for its request.
OneInFlight ==
    \A v, w \in Workers : worker[v].pc # "idle" /\ worker[w].pc # "idle" => v = w

\* The marks agree with the queue: no key is queued twice, and none is marked
\* without a job that will clear the mark, or its row would never be polled
\* again.
QueueConsistent ==
    /\ IsInjective(periodic) /\ ToSet(periodic) \subseteq queuedPeriodic
    /\ queuedPeriodic \subseteq
           ToSet(periodic) \cup {worker[w].job : w \in Workers}
    /\ IsInjective(due) /\ ToSet(due) \cap later = {}

\* A call of execute is in one place: in the queue once or in work by one
\* worker, until it returns.  What was queued for a stopped session is not
\* done in the next one, and no call is lost.
CallInOnePlace ==
    LET Working(c) == \E w \in Workers : worker[w].job = c
    IN  /\ IsInjective(manual)
        /\ \A c \in Calls :
              /\ c \in calling <=> c \in ToSet(manual) \/ Working(c)
              /\ ~(c \in ToSet(manual) /\ Working(c))

\* No row and no call is queued or served twice, and none is forgotten
\* (_takeNextJob, _runPeriodic, execute, stop).
EachJobOnce == QueueConsistent /\ CallInOnePlace

\* With transaction ids no late answer is taken for that of a newer request,
\* across retries, sessions and changes of mode.
NoStrangeAnswer ==
    \A w \in Workers : worker[w].result = "other" => worker[w].mode = "rtu"

\* docs/CONTEXT.md section 5.2: a write is never sent again, and nothing is sent
\* for a session that was stopped, even when the next one has begun.
SendsOnlyForSession ==
    [][\A w \in Workers :
          worker[w].pc # "sending" /\ worker'[w].pc = "sending" =>
              /\ sessionActive /\ worker'[w].epoch = requestEpoch
              /\ worker'[w].attempt > 1 =>
                     worker'[w].job \in Reads /\ worker'[w].job = worker[w].job]_vars

\* Every call of execute returns, whatever is stopped, lost or switched.
CallReturns == \A c \in Calls : c \in calling ~> c \notin calling

\* A row that is switched on in an active session is polled again and again.
RowIsServed ==
    \A k \in Keys :
        sessionActive /\ k \in enabled ~>
            \/ ~sessionActive \/ k \notin enabled
            \/ \E w \in Workers : worker[w].job = k
===============================================================================
