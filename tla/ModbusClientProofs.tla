--------------------------- MODULE ModbusClientProofs ---------------------------
(***************************************************************************)
(* Proofs about ModbusClient for any number of callers, rows and workers,  *)
(* and any bound on the requests.                                          *)
(***************************************************************************)
EXTENDS ModbusClient, FiniteSetTheorems, TLAPS

(***************************************************************************)
(* The part of TypeOK every proof rests on.  The types of the queues of    *)
(* periodic keys and of the wire belong to the invariants about them,      *)
(* MarksInv, DueInv and WireInv below.                                     *)
(***************************************************************************)
WorkerTypeOK ==
    /\ worker \in [Workers -> Worker]
    /\ mode \in {"rtu", "tcp"} /\ requestEpoch \in Nat
    /\ transactionId \in 0..TidSpace - 1
    /\ enabled \subseteq Keys /\ manual \in Seq(Calls)

LEMMA RestingType == Resting("idle") \in Worker /\ Resting("loop") \in Worker
BY DEF Resting, Worker

LEMMA CompletedType ==
  ASSUME worker \in [Workers -> Worker], NEW result \in {"ok", "other", "error"}
  PROVE  Completed(result) \in [Workers -> Worker]
BY DEF Completed, Worker

LEMMA EnsureWorkerType ==
  ASSUME worker \in [Workers -> Worker], EnsureWorker
  PROVE  worker' \in [Workers -> Worker]
<1>1. worker' = worker \/ \E v : worker' = [worker EXCEPT ![v] = Resting("loop")]
  BY DEF EnsureWorker, Start
<1> QED
  BY <1>1, RestingType

LEMMA AttemptType ==
  ASSUME WorkerTypeOK, NEW w \in Workers, NEW job \in Jobs, NEW epoch \in Nat,
         NEW n \in 1..4, Attempt(w, job, epoch, n)
  PROVE  worker' \in [Workers -> Worker] /\ transactionId' \in 0..TidSpace - 1
<1>1. transactionId' \in 0..TidSpace - 1
  BY ModbusAssumption DEF Attempt, NextTransactionId, WorkerTypeOK
<1>2. transactionId' \in Nat
  BY <1>1, ModbusAssumption
<1> DEFINE next == [pc |-> "sending", job |-> job, epoch |-> epoch, attempt |-> n,
                    tid |-> transactionId', mode |-> mode, result |-> "none"]
<1>3. next \in Worker
  BY <1>2 DEF Worker, WorkerTypeOK
<1>4. worker' = [worker EXCEPT ![w] = next]
  BY DEF Attempt
<1> HIDE DEF next
<1> QED
  BY <1>1, <1>3, <1>4 DEF WorkerTypeOK

LEMMA HaltType ==
  ASSUME WorkerTypeOK, Halt
  PROVE  /\ worker' \in [Workers -> Worker] /\ requestEpoch' \in Nat
         /\ enabled' \subseteq Keys /\ manual' \in Seq(Calls)
<1>1. worker' \in [Workers -> Worker]
  BY CompletedType DEF Halt, WorkerTypeOK
<1> QED
  BY <1>1 DEF Halt, WorkerTypeOK

LEMMA UserType ==
  ASSUME WorkerTypeOK, User
  PROVE  WorkerTypeOK'
<1>1. CASE StartSession
  <2>1. worker' \in [Workers -> Worker]
    BY <1>1, EnsureWorkerType DEF StartSession, WorkerTypeOK
  <2> QED
    BY <1>1, <2>1 DEF StartSession, WorkerTypeOK
<1>2. CASE StopSession
  BY <1>2, HaltType DEF StopSession, WorkerTypeOK
<1>3. CASE SetMode
  BY <1>3, HaltType DEF SetMode, WorkerTypeOK
<1>4. CASE LinkChanges
  <2>1. CASE Halt
    BY <1>4, <2>1, HaltType DEF LinkChanges, WorkerTypeOK
  <2>2. CASE UNCHANGED <<sessionActive, requestEpoch, worker, pending, calling, schedule>>
    BY <1>4, <2>2 DEF LinkChanges, WorkerTypeOK, schedule
  <2> QED
    BY <1>4, <2>1, <2>2 DEF LinkChanges
<1>5. ASSUME NEW c \in Calls, Execute(c)
      PROVE  WorkerTypeOK'
  <2>1. worker' \in [Workers -> Worker]
    BY <1>5, EnsureWorkerType DEF Execute, WorkerTypeOK
  <2>2. manual' \in Seq(Calls)
    BY <1>5 DEF Execute, WorkerTypeOK
  <2> QED
    BY <1>5, <2>1, <2>2 DEF Execute, WorkerTypeOK, session
<1>6. ASSUME NEW k \in Keys, Enable(k) \/ Disable(k)
      PROVE  WorkerTypeOK'
  <2>1. worker' \in [Workers -> Worker]
    BY <1>6, EnsureWorkerType DEF Enable, Disable, WorkerTypeOK
  <2>2. enabled' \subseteq Keys
    BY <1>6 DEF Enable, Disable, WorkerTypeOK
  <2> QED
    BY <1>6, <2>1, <2>2 DEF Enable, Disable, WorkerTypeOK, session
<1> QED
  BY <1>1, <1>2, <1>3, <1>4, <1>5, <1>6 DEF User

LEMMA TakeJobType ==
  ASSUME WorkerTypeOK, NEW w \in Workers, TakeJob(w)
  PROVE  WorkerTypeOK'
<1>1. manual' \in Seq(Calls)
  <2>1. manual' = manual \/ (manual # <<>> /\ manual' = Tail(manual))
    BY DEF TakeJob
  <2> QED
    BY <2>1 DEF WorkerTypeOK
<1>2. CASE UNCHANGED <<transactionId, worker>>
  BY <1>1, <1>2 DEF TakeJob, WorkerTypeOK, session
<1>3. ASSUME NEW job \in Jobs, Attempt(w, job, requestEpoch, 1)
      PROVE  WorkerTypeOK'
  <2>1. worker' \in [Workers -> Worker] /\ transactionId' \in 0..TidSpace - 1
    BY <1>3, AttemptType DEF WorkerTypeOK
  <2> QED
    BY <1>1, <2>1 DEF TakeJob, WorkerTypeOK, session
<1>4. manual # <<>> => Head(manual) \in Jobs
  BY DEF WorkerTypeOK, Jobs
<1>5. UNCHANGED <<transactionId, worker>> \/ \E job \in Jobs : Attempt(w, job, requestEpoch, 1)
  <2>1. enabled \subseteq Jobs
    BY DEF WorkerTypeOK, Jobs
  <2>2. \/ UNCHANGED <<transactionId, worker>>
        \/ manual # <<>> /\ Attempt(w, Head(manual), requestEpoch, 1)
        \/ \E key \in enabled : Attempt(w, key, requestEpoch, 1)
    BY DEF TakeJob
  <2> QED
    BY <1>4, <2>1, <2>2
<1> QED
  BY <1>2, <1>3, <1>5

LEMMA AttemptEndsType ==
  ASSUME WorkerTypeOK, NEW w \in Workers, AttemptEnds(w)
  PROVE  WorkerTypeOK'
<1>1. CASE MayRetry(w) /\ Attempt(w, worker[w].job, worker[w].epoch, worker[w].attempt + 1)
  <2>1. worker[w] \in Worker
    BY DEF WorkerTypeOK
  <2>2. worker[w].job \in Jobs /\ Retries[worker[w].job] \in 0..3
    BY <1>1, ModbusAssumption DEF MayRetry
  <2>3. worker[w].epoch \in Nat /\ worker[w].attempt + 1 \in 1..4
    BY <1>1, <2>1, <2>2 DEF MayRetry, Worker
  <2>4. worker' \in [Workers -> Worker] /\ transactionId' \in 0..TidSpace - 1
    BY <1>1, <2>2, <2>3, AttemptType
  <2> QED
    BY <2>4 DEF AttemptEnds, WorkerTypeOK, session
<1>2. CASE Start(w) /\ UNCHANGED transactionId
  <2>1. worker' \in [Workers -> Worker]
    BY <1>2, RestingType DEF Start, WorkerTypeOK
  <2> QED
    BY <1>2, <2>1 DEF AttemptEnds, WorkerTypeOK, session
<1> QED
  BY <1>1, <1>2 DEF AttemptEnds

LEMMA WorkTypeOthers ==
  ASSUME WorkerTypeOK, NEW w \in Workers, Sent(w) \/ Fails(w) \/ WorkerExits(w)
  PROVE  WorkerTypeOK'
<1>1. worker' \in [Workers -> Worker]
  <2>1. CASE Sent(w)
    BY <2>1 DEF Sent, WorkerTypeOK, Worker
  <2>2. CASE Fails(w)
    <3> DEFINE given == [worker EXCEPT ![w].pc = "waiting"]
    <3>1. given \in [Workers -> Worker]
      BY DEF WorkerTypeOK, Worker
    <3>2. worker' = [given EXCEPT ![w].result = "error"]
      BY <2>2 DEF Fails, WorkerTypeOK
    <3> HIDE DEF given
    <3> QED
      BY <3>1, <3>2 DEF Worker
  <2>3. CASE WorkerExits(w)
    BY <2>3, RestingType DEF WorkerExits, WorkerTypeOK
  <2> QED
    BY <2>1, <2>2, <2>3
<1> QED
  BY <1>1 DEF Sent, Fails, WorkerExits, WorkerTypeOK, session, schedule

LEMMA WorkerTypeKept == WorkerTypeOK /\ [Next]_vars => WorkerTypeOK'
<1> SUFFICES ASSUME WorkerTypeOK, [Next]_vars
             PROVE  WorkerTypeOK'
  OBVIOUS
<1>1. CASE User
  BY <1>1, UserType
<1>2. CASE Answer
  <2>1. \/ worker' = worker
        \/ \E result \in {"ok", "other", "error"} : worker' = Completed(result)
    BY <1>2 DEF Answer
  <2>2. worker' \in [Workers -> Worker]
    BY <2>1, CompletedType DEF WorkerTypeOK
  <2> QED
    BY <1>2, <2>2 DEF Answer, WorkerTypeOK, session, schedule
<1>3. ASSUME NEW w \in Workers, Work(w)
      PROVE  WorkerTypeOK'
  BY <1>3, TakeJobType, AttemptEndsType, WorkTypeOthers DEF Work
<1>4. CASE \E k \in Keys : IntervalEnds(k)
  BY <1>4 DEF IntervalEnds, WorkerTypeOK, session
<1>5. CASE UNCHANGED vars
  BY <1>5 DEF vars, WorkerTypeOK, session, schedule
<1> QED
  BY <1>1, <1>2, <1>3, <1>4, <1>5 DEF Next

\* The workers, the transaction ids and the manual queue keep their types.
THEOREM WorkersTypeCorrect == Spec => []WorkerTypeOK
<1>1. Init => WorkerTypeOK
  BY ModbusAssumption, RestingType DEF Init, WorkerTypeOK
<1> QED
  BY <1>1, WorkerTypeKept, PTL DEF Spec

-------------------------------------------------------------------------------
(***************************************************************************)
(* OneInFlight is not inductive: what keeps a second worker from starting  *)
(* is the flag, which is set exactly as long as a worker is left, even in  *)
(* a session that was stopped.                                             *)
(***************************************************************************)
FlagIsRight == ~workerRunning => \A w \in Workers : worker[w].pc = "idle"

WorkerInv ==
    /\ worker = [w \in Workers |-> worker[w]]
    /\ FlagIsRight
    /\ OneInFlight

\* A worker that is not idle may change its state, and the flag stays.
LEMMA WorkerGoesOn ==
  ASSUME WorkerInv, NEW w \in Workers, worker[w].pc # "idle", NEW r,
         worker' = [worker EXCEPT ![w] = r], workerRunning' = workerRunning
  PROVE  WorkerInv'
<1>1. worker' = [v \in Workers |-> worker'[v]]
  BY DEF WorkerInv
<1>2. \A v \in Workers : v # w => worker'[v] = worker[v] /\ worker[v].pc = "idle"
  BY DEF WorkerInv, OneInFlight
<1>3. FlagIsRight'
  BY DEF WorkerInv, FlagIsRight
<1> QED
  BY <1>1, <1>2, <1>3 DEF WorkerInv, OneInFlight

\* Only an idle flag lets a worker start, when every worker is idle.
LEMMA EnsureWorkerKeeps ==
  ASSUME WorkerInv, EnsureWorker
  PROVE  WorkerInv'
<1>1. CASE workerRunning
  BY <1>1 DEF EnsureWorker, WorkerInv, FlagIsRight, OneInFlight
<1>2. CASE ~workerRunning
  <2> DEFINE first == CHOOSE w \in Workers : worker[w].pc = "idle"
  <2>1. worker' = [worker EXCEPT ![first] = Resting("loop")] /\ workerRunning'
    BY <1>2 DEF EnsureWorker, Start
  <2>2. \A v \in Workers : v # first => worker'[v].pc = "idle"
    BY <1>2, <2>1 DEF WorkerInv, FlagIsRight
  <2> HIDE DEF first
  <2>3. worker' = [w \in Workers |-> worker'[w]]
    BY <2>1 DEF WorkerInv
  <2> QED
    BY <2>1, <2>2, <2>3 DEF WorkerInv, FlagIsRight, OneInFlight
<1> QED
  BY <1>1, <1>2

\* Completing the pending request moves no worker.
LEMMA CompletedKeeps ==
  ASSUME WorkerInv, NEW result, worker' = Completed(result),
         workerRunning' = workerRunning
  PROVE  WorkerInv'
<1>1. \A w \in Workers : worker'[w].pc = worker[w].pc
  BY DEF Completed
<1>2. worker' = [w \in Workers |-> worker'[w]]
  BY DEF Completed
<1> QED
  BY <1>1, <1>2 DEF WorkerInv, FlagIsRight, OneInFlight

LEMMA UnchangedKeeps ==
  ASSUME WorkerInv, UNCHANGED <<worker, workerRunning>>
  PROVE  WorkerInv'
BY DEF WorkerInv, FlagIsRight, OneInFlight

LEMMA HaltKeeps ==
  ASSUME WorkerInv, Halt, workerRunning' = workerRunning
  PROVE  WorkerInv'
BY CompletedKeeps DEF Halt

LEMMA TakeJobKeeps ==
  ASSUME WorkerInv, NEW w \in Workers, TakeJob(w)
  PROVE  WorkerInv'
<1>1. worker[w].pc # "idle" /\ workerRunning' = workerRunning
  BY DEF TakeJob
<1>2. (\E job, epoch, n : Attempt(w, job, epoch, n)) \/ worker' = worker
  BY DEF TakeJob
<1>3. (\E r : worker' = [worker EXCEPT ![w] = r]) \/ worker' = worker
  BY <1>2 DEF Attempt
<1> QED
  BY <1>1, <1>3, WorkerGoesOn, UnchangedKeeps

LEMMA AttemptEndsKeeps ==
  ASSUME WorkerInv, NEW w \in Workers, AttemptEnds(w)
  PROVE  WorkerInv'
<1>1. worker[w].pc # "idle" /\ workerRunning' = workerRunning
  BY DEF AttemptEnds
<1>2. (\E job, epoch, n : Attempt(w, job, epoch, n)) \/ Start(w)
  BY DEF AttemptEnds
<1>3. \E r : worker' = [worker EXCEPT ![w] = r]
  BY <1>2 DEF Attempt, Start
<1> QED
  BY <1>1, <1>3, WorkerGoesOn

LEMMA SendingKeeps ==
  ASSUME WorkerInv, NEW w \in Workers, Sent(w) \/ Fails(w)
  PROVE  WorkerInv'
<1>1. worker[w].pc # "idle" /\ workerRunning' = workerRunning
  BY DEF Sent, Fails
<1>2. \A v \in Workers : v # w => worker'[v] = worker[v]
  BY DEF Sent, Fails, WorkerInv
<1>3. worker' = [v \in Workers |-> worker'[v]]
  BY DEF Sent, Fails, WorkerInv
<1>4. worker' = [worker EXCEPT ![w] = worker'[w]]
  BY <1>2, <1>3 DEF WorkerInv
<1> QED
  BY <1>1, <1>4, WorkerGoesOn

\* The worker that leaves was the only one: the flag may be taken back.
LEMMA WorkerExitsKeeps ==
  ASSUME WorkerInv, NEW w \in Workers, WorkerExits(w)
  PROVE  WorkerInv'
<1>1. worker' = [worker EXCEPT ![w] = Resting("idle")]
  BY DEF WorkerExits
<1>2. \A v \in Workers : v # w => worker[v].pc = "idle"
  BY DEF WorkerExits, WorkerInv, OneInFlight
<1>3. \A v \in Workers : worker'[v].pc = "idle"
  BY <1>1, <1>2 DEF WorkerInv, Resting
<1>4. worker' = [v \in Workers |-> worker'[v]]
  BY <1>1 DEF WorkerInv
<1> QED
  BY <1>3, <1>4 DEF WorkerInv, FlagIsRight, OneInFlight

LEMMA AnswerKeeps ==
  ASSUME WorkerInv, Answer
  PROVE  WorkerInv'
<1>1. workerRunning' = workerRunning
  BY DEF Answer
<1>2. (\E result : worker' = Completed(result)) \/ worker' = worker
  BY DEF Answer
<1> QED
  BY <1>1, <1>2, CompletedKeeps, UnchangedKeeps

LEMMA UserKeeps ==
  ASSUME WorkerInv, User
  PROVE  WorkerInv'
<1>1. CASE StartSession
  BY <1>1, EnsureWorkerKeeps DEF StartSession
<1>2. CASE StopSession \/ SetMode
  BY <1>2, HaltKeeps DEF StopSession, SetMode
<1>3. CASE LinkChanges
  BY <1>3, HaltKeeps, UnchangedKeeps DEF LinkChanges
<1>4. ASSUME NEW c \in Calls, Execute(c)
      PROVE  WorkerInv'
  BY <1>4, EnsureWorkerKeeps DEF Execute
<1>5. ASSUME NEW k \in Keys, Enable(k)
      PROVE  WorkerInv'
  BY <1>5, EnsureWorkerKeeps, UnchangedKeeps DEF Enable
<1>6. ASSUME NEW k \in Keys, Disable(k)
      PROVE  WorkerInv'
  BY <1>6, EnsureWorkerKeeps, UnchangedKeeps DEF Disable
<1> QED
  BY <1>1, <1>2, <1>3, <1>4, <1>5, <1>6 DEF User

LEMMA WorkerInvKept == WorkerInv /\ [Next]_vars => WorkerInv'
<1> SUFFICES ASSUME WorkerInv, [Next]_vars
             PROVE  WorkerInv'
  OBVIOUS
<1>1. CASE User
  BY <1>1, UserKeeps
<1>2. CASE Answer
  BY <1>2, AnswerKeeps
<1>3. ASSUME NEW w \in Workers, Work(w)
      PROVE  WorkerInv'
  BY <1>3, TakeJobKeeps, SendingKeeps, AttemptEndsKeeps, WorkerExitsKeeps DEF Work
<1>4. ASSUME NEW k \in Keys, IntervalEnds(k)
      PROVE  WorkerInv'
  BY <1>4, UnchangedKeeps DEF IntervalEnds
<1>5. CASE UNCHANGED vars
  BY <1>5, UnchangedKeeps DEF vars
<1> QED
  BY <1>1, <1>2, <1>3, <1>4, <1>5 DEF Next

LEMMA WorkerInvInit == Init => WorkerInv
<1> SUFFICES ASSUME Init
             PROVE  WorkerInv
  OBVIOUS
<1>1. \A w \in Workers : worker[w].pc = "idle"
  BY DEF Init, Resting
<1>2. worker = [w \in Workers |-> worker[w]]
  BY DEF Init
<1> QED
  BY <1>1, <1>2 DEF WorkerInv, FlagIsRight, OneInFlight

LEMMA WorkerInvHolds == Spec => []WorkerInv
BY WorkerInvInit, WorkerInvKept, PTL DEF Spec

\* There is one request in flight at most: no interleaving of stop, start and
\* the requests of the user gives the session a second worker (docs/CONTEXT.md
\* section 5.2).
THEOREM AlwaysOneInFlight == Spec => []OneInFlight
<1>1. WorkerInv => OneInFlight
  BY DEF WorkerInv
<1> QED
  BY <1>1, WorkerInvHolds, PTL

-------------------------------------------------------------------------------
(***************************************************************************)
(* What is sent.                                                           *)
(***************************************************************************)
SendingIsRight(w) ==
    worker[w].pc # "sending" /\ worker'[w].pc = "sending" =>
        /\ sessionActive /\ worker'[w].epoch = requestEpoch
        /\ worker'[w].attempt > 1 =>
               worker'[w].job \in Reads /\ worker'[w].job = worker[w].job

\* A worker that does not begin to send.
LEMMA NoNewSending ==
  ASSUME NEW w \in Workers,
         worker'[w].pc = "sending" => worker[w].pc = "sending"
  PROVE  SendingIsRight(w)
BY DEF SendingIsRight

\* What a step of the user or of the link does to the workers and the wire.
LEMMA UserLeaves ==
  ASSUME User
  PROVE  /\ UNCHANGED <<wire, transactionId>>
         /\ \/ Halt
            \/ (EnsureWorker \/ UNCHANGED worker) /\ UNCHANGED pending
<1>1. CASE StartSession
  BY <1>1 DEF StartSession
<1>2. CASE StopSession \/ SetMode
  BY <1>2 DEF StopSession, SetMode
<1>3. CASE LinkChanges
  BY <1>3 DEF LinkChanges
<1>4. CASE \E c \in Calls : Execute(c)
  BY <1>4 DEF Execute
<1>5. CASE \E k \in Keys : Enable(k)
  BY <1>5 DEF Enable
<1>6. CASE \E k \in Keys : Disable(k)
  BY <1>6 DEF Disable
<1> QED
  BY <1>1, <1>2, <1>3, <1>4, <1>5, <1>6 DEF User

LEMMA NoSendingByUser ==
  ASSUME WorkerInv, NEW w \in Workers,
         EnsureWorker \/ UNCHANGED worker \/ \E result : worker' = Completed(result)
  PROVE  SendingIsRight(w)
<1>1. CASE EnsureWorker
  <2>1. worker' = worker \/ \E v : worker' = [worker EXCEPT ![v] = Resting("loop")]
    BY <1>1 DEF EnsureWorker, Start
  <2>2. worker'[w] = worker[w] \/ worker'[w] = Resting("loop")
    BY <2>1 DEF WorkerInv
  <2> QED
    BY <2>2, NoNewSending DEF Resting
<1>2. CASE UNCHANGED worker
  BY <1>2, NoNewSending
<1>3. CASE \E result : worker' = Completed(result)
  <2>1. worker'[w].pc = worker[w].pc
    BY <1>3 DEF Completed
  <2> QED
    BY <2>1, NoNewSending
<1> QED
  BY <1>1, <1>2, <1>3

LEMMA AttemptSends ==
  ASSUME WorkerInv, NEW v \in Workers, NEW w \in Workers, NEW job, NEW epoch, NEW n,
         Attempt(v, job, epoch, n)
  PROVE  IF v = w THEN worker'[w].job = job /\ worker'[w].epoch = epoch
                       /\ worker'[w].attempt = n
         ELSE worker'[w] = worker[w]
BY DEF Attempt, WorkerInv

LEMMA TakeJobSends ==
  ASSUME WorkerInv, NEW v \in Workers, NEW w \in Workers, TakeJob(v)
  PROVE  SendingIsRight(w)
<1>1. CASE \E job : Attempt(v, job, requestEpoch, 1)
  <2>1. sessionActive
    BY DEF TakeJob
  <2> QED
    BY <1>1, <2>1, AttemptSends DEF SendingIsRight
<1>2. CASE worker' = worker
  BY <1>2, NoNewSending
<1> QED
  BY <1>1, <1>2 DEF TakeJob

LEMMA AttemptEndsSends ==
  ASSUME WorkerInv, NEW v \in Workers, NEW w \in Workers, AttemptEnds(v)
  PROVE  SendingIsRight(w)
<1>1. CASE MayRetry(v) /\ Attempt(v, worker[v].job, worker[v].epoch, worker[v].attempt + 1)
  BY <1>1, AttemptSends DEF SendingIsRight, MayRetry
<1>2. CASE Start(v)
  BY <1>2, NoNewSending DEF Start, Resting, WorkerInv
<1> QED
  BY <1>1, <1>2 DEF AttemptEnds

LEMMA OthersSend ==
  ASSUME WorkerInv, WorkerTypeOK, NEW v \in Workers, NEW w \in Workers,
         Sent(v) \/ Fails(v) \/ WorkerExits(v)
  PROVE  SendingIsRight(w)
<1>1. CASE v # w
  <2>1. worker'[w] = worker[w]
    BY <1>1 DEF Sent, Fails, WorkerExits, WorkerInv
  <2> QED
    BY <2>1, NoNewSending
<1>2. CASE v = w
  <2>1. Sent(w) \/ Fails(w) \/ WorkerExits(w)
    BY <1>2
  <2>2. CASE Sent(w)
    BY <2>2 DEF Sent, SendingIsRight
  <2>3. CASE Fails(w)
    <3>1. worker'[w].pc = "waiting"
      BY <2>3 DEF Fails, WorkerTypeOK, Worker
    <3> QED
      BY <3>1 DEF SendingIsRight
  <2>4. CASE WorkerExits(w)
    <3>1. worker'[w] = Resting("idle")
      BY <2>4 DEF WorkerExits, WorkerInv
    <3> QED
      BY <3>1 DEF SendingIsRight, Resting
  <2> QED
    BY <2>1, <2>2, <2>3, <2>4
<1> QED
  BY <1>1, <1>2

\* Nothing is sent for a session that was stopped, not even when the next one
\* has begun, and only reads are sent again (docs/CONTEXT.md section 5.2).
THEOREM AlwaysSendsForSession == Spec => SendsOnlyForSession
<1>1. ASSUME WorkerInv, WorkerTypeOK, [Next]_vars, NEW w \in Workers
      PROVE  SendingIsRight(w)
  <2>1. CASE User
    BY <1>1, <2>1, UserLeaves, NoSendingByUser DEF Halt
  <2>2. CASE Answer
    BY <1>1, <2>2, NoSendingByUser DEF Answer
  <2>3. ASSUME NEW v \in Workers, Work(v)
        PROVE  SendingIsRight(w)
    BY <1>1, <2>3, TakeJobSends, AttemptEndsSends, OthersSend DEF Work
  <2>4. CASE (\E k \in Keys : IntervalEnds(k)) \/ UNCHANGED vars
    BY <1>1, <2>4, NoSendingByUser DEF IntervalEnds, vars
  <2> QED
    BY <1>1, <2>1, <2>2, <2>3, <2>4 DEF Next
<1>2. WorkerInv /\ WorkerTypeOK /\ [Next]_vars => [\A w \in Workers : SendingIsRight(w)]_vars
  BY <1>1
<1> QED
  BY <1>2, WorkerInvHolds, WorkersTypeCorrect, PTL DEF Spec, SendsOnlyForSession, SendingIsRight

-------------------------------------------------------------------------------
(***************************************************************************)
(* NoStrangeAnswer.  Transaction ids are used again after TidSpace          *)
(* requests, so the argument counts: a request that may still be answered   *)
(* got its id at most as many new ids ago as there are younger requests,    *)
(* which are fewer than TidSpace.                                           *)
(***************************************************************************)
Frame == [tid : 0..TidSpace - 1, shape : Nat, own : BOOLEAN]

WireInv ==
    /\ wire \in Seq(Frame)
    /\ Len(wire) <= MaxLate
    /\ \A i \in DOMAIN wire :
          \E d \in 0..Len(wire) - i : (wire[i].tid + d) % TidSpace = transactionId

\* The pending TCP request has the newest id, and no other request has it.
PendingInv ==
    pending \in Workers /\ worker[pending].mode = "tcp" =>
        /\ worker[pending].tid = transactionId
        /\ \A i \in DOMAIN wire : wire[i].tid = transactionId => wire[i].own

AnswerInv == WireInv /\ PendingInv /\ NoStrangeAnswer

\* Counting on by less than the number of ids never leads back.
LEMMA IdsAhead ==
  ASSUME NEW t \in 0..TidSpace - 1, NEW d \in Nat, NEW u \in 0..TidSpace - 1,
         (t + d) % TidSpace = u, d + 1 < TidSpace
  PROVE  /\ (t + (d + 1)) % TidSpace = (u + 1) % TidSpace
         /\ t # (u + 1) % TidSpace
<1>1. TidSpace \in Nat /\ TidSpace > 0
  BY ModbusAssumption
<1>2. \A n \in Nat : n < TidSpace => n % TidSpace = n
  BY <1>1
<1>3. \A n \in Nat : n >= TidSpace /\ n < 2 * TidSpace => n % TidSpace = n - TidSpace
  BY <1>1
<1>4. /\ t \in Nat /\ u \in Nat /\ t + d \in Nat /\ t + (d + 1) \in Nat /\ u + 1 \in Nat
      /\ t + d < 2 * TidSpace /\ t + (d + 1) < 2 * TidSpace
      /\ u < TidSpace /\ t < TidSpace
  BY <1>1
<1>5. \/ t + d < TidSpace /\ u = t + d
      \/ t + d >= TidSpace /\ u = t + d - TidSpace
  BY <1>1, <1>2, <1>3, <1>4
<1>6. CASE u + 1 < TidSpace
  <2>1. (u + 1) % TidSpace = u + 1
    BY <1>2, <1>4, <1>6
  <2>2. (t + (d + 1)) % TidSpace = u + 1
    BY <1>1, <1>2, <1>3, <1>4, <1>5, <1>6
  <2> QED
    BY <1>1, <1>4, <1>5, <2>1, <2>2
<1>7. CASE u + 1 = TidSpace
  <2>1. (u + 1) % TidSpace = 0
    BY <1>1, <1>7
  <2>2. t + (d + 1) = TidSpace
    BY <1>1, <1>4, <1>5, <1>7
  <2>3. (t + (d + 1)) % TidSpace = 0
    BY <1>7, <2>1, <2>2
  <2>4. t # 0
    BY <1>1, <2>2
  <2> QED
    BY <2>1, <2>3, <2>4
<1> QED
  BY <1>1, <1>4, <1>6, <1>7

LEMMA OnWireFrames ==
  ASSUME WireInv, NEW frame \in Frame, wire' = OnWire(frame)
  PROVE  /\ wire' \in Seq(Frame) /\ Len(wire') <= MaxLate
         /\ \A i \in DOMAIN wire' :
               \/ i = Len(wire') /\ wire'[i] = frame
               \/ \E j \in DOMAIN wire :
                     /\ wire'[i].tid = wire[j].tid /\ ~wire'[i].own
                     /\ Len(wire) - j + 1 = Len(wire') - i
                     /\ Len(wire) - j + 1 < MaxLate
<1>1. MaxLate \in Nat /\ MaxLate > 0
  BY ModbusAssumption
<1>2. wire \in Seq(Frame) /\ Len(wire) \in Nat /\ Len(wire) <= MaxLate
      /\ DOMAIN wire = 1..Len(wire)
  BY DEF WireInv
<1> DEFINE old == [i \in DOMAIN wire |-> [wire[i] EXCEPT !.own = FALSE]]
<1>3. /\ old \in Seq(Frame) /\ Len(old) = Len(wire)
      /\ \A i \in DOMAIN wire : old[i].tid = wire[i].tid /\ old[i].own = FALSE
  <2>1. \A i \in 1..Len(wire) : wire[i] \in Frame
    BY <1>2
  <2>2. \A i \in 1..Len(wire) : [wire[i] EXCEPT !.own = FALSE] \in Frame
    BY <2>1 DEF Frame
  <2>3. \A i \in DOMAIN wire : old[i].tid = wire[i].tid /\ old[i].own = FALSE
    BY <1>2, <2>1 DEF Frame
  <2> QED
    BY <1>2, <2>2, <2>3
<1>4. \A i \in DOMAIN wire : old[i].tid = wire[i].tid /\ ~old[i].own
  BY <1>3
<1> DEFINE frames == Append(old, frame)
<1>5. wire' = IF Len(frames) > MaxLate THEN Tail(frames) ELSE frames
  BY DEF OnWire
<1> HIDE DEF old
<1>6. /\ frames \in Seq(Frame) /\ Len(frames) = Len(wire) + 1
      /\ DOMAIN frames = 1..Len(wire) + 1
      /\ frames[Len(wire) + 1] = frame
      /\ \A j \in 1..Len(wire) : frames[j] = old[j]
  BY <1>2, <1>3
<1> HIDE DEF frames
<1>7. CASE Len(wire) + 1 > MaxLate
  <2>1. wire' = Tail(frames)
    BY <1>5, <1>6, <1>7
  <2>2. /\ wire' \in Seq(Frame) /\ Len(wire') = Len(wire)
        /\ DOMAIN wire' = 1..Len(wire)
        /\ \A i \in 1..Len(wire) : wire'[i] = frames[i + 1]
    BY <1>2, <1>6, <2>1
  <2>3. ASSUME NEW i \in 1..Len(wire), i # Len(wire)
        PROVE  /\ i + 1 \in DOMAIN wire /\ wire'[i] = old[i + 1]
               /\ Len(wire) - (i + 1) + 1 = Len(wire) - i
               /\ Len(wire) - (i + 1) + 1 < MaxLate
    <3>1. /\ i + 1 \in 1..Len(wire)
          /\ Len(wire) - (i + 1) + 1 = Len(wire) - i
          /\ Len(wire) - i < MaxLate
      <4>1. \A n, m \in Nat : n <= m => \A l \in 1..n :
               l # n => l + 1 \in 1..n /\ n - (l + 1) + 1 = n - l /\ n - l < m
        OBVIOUS
      <4> QED
        BY <1>1, <1>2, <2>3, <4>1
    <3>2. frames[i + 1] = old[i + 1]
      BY <1>6, <3>1
    <3> QED
      BY <1>2, <2>2, <3>1, <3>2
  <2>4. ASSUME NEW i \in 1..Len(wire), i = Len(wire)
        PROVE  wire'[i] = frame
    <3>1. wire'[i] = frames[Len(wire) + 1]
      BY <2>2, <2>4
    <3> QED
      BY <1>6, <3>1
  <2>5. ASSUME NEW i \in DOMAIN wire'
        PROVE  \/ i = Len(wire') /\ wire'[i] = frame
               \/ \E j \in DOMAIN wire :
                     /\ wire'[i].tid = wire[j].tid /\ ~wire'[i].own
                     /\ Len(wire) - j + 1 = Len(wire') - i
                     /\ Len(wire) - j + 1 < MaxLate
    <3>1. i \in 1..Len(wire)
      BY <2>2, <2>5
    <3>2. CASE i = Len(wire)
      BY <2>2, <2>4, <3>1, <3>2
    <3>3. CASE i # Len(wire)
      <4>1. /\ i + 1 \in DOMAIN wire /\ wire'[i] = old[i + 1]
            /\ Len(wire) - (i + 1) + 1 = Len(wire') - i
            /\ Len(wire) - (i + 1) + 1 < MaxLate
        BY <2>2, <2>3, <3>1, <3>3
      <4>2. wire'[i].tid = wire[i + 1].tid /\ ~wire'[i].own
        BY <1>4, <4>1
      <4> QED
        BY <4>1, <4>2
    <3> QED
      BY <3>2, <3>3
  <2> QED
    BY <1>2, <2>2, <2>5
<1>8. CASE Len(wire) + 1 <= MaxLate
  <2>1. wire' = frames
    BY <1>1, <1>2, <1>5, <1>6, <1>8
  <2>2. ASSUME NEW i \in 1..Len(wire) + 1, i # Len(wire) + 1
        PROVE  /\ i \in DOMAIN wire /\ wire'[i] = old[i]
               /\ Len(wire) - i + 1 = Len(wire) + 1 - i
               /\ Len(wire) - i + 1 < MaxLate
    BY <1>1, <1>2, <1>6, <1>8, <2>1, <2>2
  <2> QED
    BY <1>2, <1>4, <1>6, <1>8, <2>1, <2>2
<1> QED
  BY <1>1, <1>2, <1>7, <1>8

\* A new request: what is on the wire becomes one id older in TCP.
LEMMA AttemptAnswers ==
  ASSUME AnswerInv, WorkerTypeOK, NEW w \in Workers, NEW job \in Jobs,
         NEW epoch \in Nat, NEW n \in 1..4, Attempt(w, job, epoch, n)
  PROVE  AnswerInv'
<1>1. TidSpace \in Nat /\ MaxLate \in Nat /\ MaxLate > 0 /\ TidSpace > MaxLate
      /\ Shape[job] \in Nat
  BY ModbusAssumption
<1>2. transactionId \in 0..TidSpace - 1 /\ transactionId' \in 0..TidSpace - 1
      /\ mode \in {"rtu", "tcp"}
  BY AttemptType DEF WorkerTypeOK
<1> DEFINE frame == [tid |-> transactionId', shape |-> Shape[job], own |-> TRUE]
<1>3. frame \in Frame /\ frame.tid = transactionId' /\ frame.own = TRUE
  BY <1>1, <1>2 DEF Frame
<1>4. wire' = OnWire(frame) /\ pending' = w
  BY DEF Attempt
<1>5. /\ worker'[w].tid = transactionId' /\ worker'[w].mode = mode
      /\ worker'[w].result = "none"
      /\ \A v \in Workers : v # w => worker'[v] = worker[v]
  BY DEF Attempt, WorkerTypeOK
<1> HIDE DEF frame
<1>6. /\ wire' \in Seq(Frame) /\ Len(wire') <= MaxLate
      /\ \A i \in DOMAIN wire' :
            \/ i = Len(wire') /\ wire'[i] = frame
            \/ \E j \in DOMAIN wire :
                  /\ wire'[i].tid = wire[j].tid /\ ~wire'[i].own
                  /\ Len(wire) - j + 1 = Len(wire') - i
                  /\ Len(wire) - j + 1 < MaxLate
  BY <1>3, <1>4, OnWireFrames DEF AnswerInv
<1>7. wire \in Seq(Frame) /\ DOMAIN wire = 1..Len(wire) /\ Len(wire) \in Nat
      /\ \A j \in DOMAIN wire : wire[j].tid \in 0..TidSpace - 1
  <2>1. wire \in Seq(Frame)
    BY DEF AnswerInv, WireInv
  <2>2. \A j \in 1..Len(wire) : wire[j] \in Frame
    BY <2>1
  <2>3. \A j \in 1..Len(wire) : wire[j].tid \in 0..TidSpace - 1
    BY <2>2 DEF Frame
  <2>4. DOMAIN wire = 1..Len(wire) /\ Len(wire) \in Nat
    BY <2>1
  <2> QED
    BY <2>1, <2>3, <2>4
<1>8. ASSUME NEW j \in DOMAIN wire, Len(wire) - j + 1 < MaxLate
      PROVE  /\ \E d \in 0..Len(wire) - j + 1 :
                   (wire[j].tid + d) % TidSpace = transactionId'
             /\ mode = "tcp" => wire[j].tid # transactionId'
  <2>1. PICK d \in 0..Len(wire) - j :
               (wire[j].tid + d) % TidSpace = transactionId
    BY DEF AnswerInv, WireInv
  <2>2. d \in Nat /\ d + 1 \in 0..Len(wire) - j + 1 /\ d + 1 < TidSpace
        /\ d \in 0..Len(wire) - j + 1
    BY <1>1, <1>7, <1>8, <2>1
  <2>3. CASE mode = "tcp"
    <3>1. transactionId' = (transactionId + 1) % TidSpace
      BY <2>3 DEF Attempt, NextTransactionId
    <3>2. /\ (wire[j].tid + (d + 1)) % TidSpace = transactionId'
          /\ wire[j].tid # transactionId'
      <4> DEFINE t == wire[j].tid
      <4>1. t \in 0..TidSpace - 1 /\ (t + d) % TidSpace = transactionId
        BY <1>7, <2>1
      <4> HIDE DEF t
      <4>2. /\ (t + (d + 1)) % TidSpace = (transactionId + 1) % TidSpace
            /\ t # (transactionId + 1) % TidSpace
        BY <1>2, <2>2, <4>1, IdsAhead
      <4> QED
        BY <3>1, <4>2 DEF t
    <3> QED
      BY <2>2, <3>2
  <2>4. CASE mode # "tcp"
    <3>1. transactionId' = transactionId
      BY <2>4 DEF Attempt
    <3> QED
      BY <2>1, <2>2, <2>4, <3>1
  <2> QED
    BY <2>3, <2>4
<1>9. WireInv'
  <2>1. ASSUME NEW i \in DOMAIN wire'
        PROVE  \E d \in 0..Len(wire') - i : (wire'[i].tid + d) % TidSpace = transactionId'
    <3>1. CASE i = Len(wire') /\ wire'[i] = frame
      <4>1. 0 \in 0..Len(wire') - i
        BY <1>6, <3>1
      <4>2. (wire'[i].tid + 0) % TidSpace = transactionId'
        BY <1>1, <1>2, <1>3, <3>1
      <4> QED
        BY <4>1, <4>2
    <3>2. ASSUME NEW j \in DOMAIN wire, wire'[i].tid = wire[j].tid,
                 Len(wire) - j + 1 = Len(wire') - i, Len(wire) - j + 1 < MaxLate
          PROVE  \E d \in 0..Len(wire') - i :
                    (wire'[i].tid + d) % TidSpace = transactionId'
      BY <1>8, <3>2
    <3> QED
      BY <1>6, <3>1, <3>2
  <2> QED
    BY <1>6, <2>1 DEF WireInv
<1>10. PendingInv'
  <2>1. ASSUME mode = "tcp", NEW i \in DOMAIN wire', wire'[i].tid = transactionId'
        PROVE  wire'[i].own
    BY <1>3, <1>6, <1>8, <2>1
  <2> QED
    BY <1>4, <1>5, <2>1 DEF PendingInv
<1>11. NoStrangeAnswer'
  BY <1>5 DEF AnswerInv, NoStrangeAnswer
<1> QED
  BY <1>9, <1>10, <1>11 DEF AnswerInv

\* The wire as it was, and workers that are as before or have no result.
LEMMA SameAnswers ==
  ASSUME AnswerInv, UNCHANGED <<wire, transactionId>>,
         pending' = pending \/ pending' = NoWorker,
         \A v \in Workers :
            /\ worker'[v].result \in {worker[v].result, "none", "error"}
            /\ \/ worker'[v].mode = worker[v].mode /\ worker'[v].tid = worker[v].tid
               \/ worker'[v].mode = "rtu"
  PROVE  AnswerInv'
<1>1. WireInv'
  BY DEF AnswerInv, WireInv
<1>2. PendingInv'
  BY ModbusAssumption DEF AnswerInv, PendingInv
<1>3. NoStrangeAnswer'
  BY DEF AnswerInv, NoStrangeAnswer
<1> QED
  BY <1>1, <1>2, <1>3 DEF AnswerInv

LEMMA EnsureWorkerAnswers ==
  ASSUME AnswerInv, WorkerTypeOK, UNCHANGED <<wire, transactionId, pending>>,
         EnsureWorker \/ UNCHANGED worker
  PROVE  AnswerInv'
<1>1. worker' = worker \/ \E v : worker' = [worker EXCEPT ![v] = Resting("loop")]
  BY DEF EnsureWorker, Start
<1>2. \A v \in Workers : worker'[v] = worker[v] \/ worker'[v] = Resting("loop")
  BY <1>1 DEF WorkerTypeOK
<1> QED
  BY <1>2, SameAnswers DEF Resting

LEMMA CompletedResults ==
  ASSUME WorkerTypeOK, NEW result, worker' = Completed(result), NEW v \in Workers
  PROVE  /\ worker'[v].mode = worker[v].mode /\ worker'[v].tid = worker[v].tid
         /\ \/ worker'[v].result = worker[v].result
            \/ v = pending /\ worker'[v].result = result
<1>1. worker[v] \in Worker
  BY DEF WorkerTypeOK
<1>2. \/ worker'[v] = worker[v]
      \/ v = pending /\ worker'[v] = [worker[v] EXCEPT !.result = result]
  BY DEF Completed
<1> QED
  BY <1>1, <1>2 DEF Worker

LEMMA HaltAnswers ==
  ASSUME AnswerInv, WorkerTypeOK, Halt, UNCHANGED <<wire, transactionId>>
  PROVE  AnswerInv'
<1>1. worker' = Completed("error") /\ pending' = NoWorker
  BY DEF Halt
<1>2. \A v \in Workers :
         /\ worker'[v].result \in {worker[v].result, "error"}
         /\ worker'[v].mode = worker[v].mode /\ worker'[v].tid = worker[v].tid
  BY <1>1, CompletedResults
<1> QED
  BY <1>1, <1>2, SameAnswers

\* The answer that arrives is taken off the wire and given to the pending
\* request: with an id it fits only that request.
LEMMA AnswerAnswers ==
  ASSUME AnswerInv, WorkerTypeOK, Answer
  PROVE  AnswerInv'
<1>1. wire \in Seq(Frame) /\ wire # <<>> /\ wire' = Tail(wire)
      /\ UNCHANGED <<transactionId, pending>>
  BY DEF AnswerInv, WireInv, Answer
<1>2. /\ Len(wire) \in Nat /\ Len(wire') = Len(wire) - 1
      /\ DOMAIN wire' = 1..Len(wire') /\ DOMAIN wire = 1..Len(wire)
      /\ Head(wire) = wire[1] /\ 1 \in DOMAIN wire
      /\ \A i \in DOMAIN wire' : i + 1 \in DOMAIN wire /\ wire'[i] = wire[i + 1]
                                 /\ Len(wire) - (i + 1) = Len(wire') - i
      /\ wire' \in Seq(Frame)
  BY <1>1
<1>3. WireInv'
  <2>1. Len(wire') <= MaxLate
    BY <1>2, ModbusAssumption DEF AnswerInv, WireInv
  <2>2. ASSUME NEW i \in DOMAIN wire'
        PROVE  \E d \in 0..Len(wire') - i : (wire'[i].tid + d) % TidSpace = transactionId'
    <3>1. \E d \in 0..Len(wire) - (i + 1) :
             (wire[i + 1].tid + d) % TidSpace = transactionId
      BY <1>2 DEF AnswerInv, WireInv
    <3> QED
      BY <1>1, <1>2, <3>1
  <2> QED
    BY <1>2, <2>1, <2>2 DEF WireInv
<1>4. ASSUME NEW result, worker' = Completed(result), NEW v \in Workers
      PROVE  /\ worker'[v].mode = worker[v].mode /\ worker'[v].tid = worker[v].tid
             /\ \/ worker'[v].result = worker[v].result
                \/ v = pending /\ worker'[v].result = result
  BY <1>4, CompletedResults
<1>5. \A v \in Workers :
         worker'[v].mode = worker[v].mode /\ worker'[v].tid = worker[v].tid
  BY <1>4 DEF Answer
<1>6. PendingInv'
  BY <1>1, <1>2, <1>5 DEF AnswerInv, PendingInv
<1>7. NoStrangeAnswer'
  <2>1. ASSUME NEW v \in Workers, worker'[v].result = "other",
               worker[v].result # "other"
        PROVE  worker[v].mode # "tcp"
    <3>1. /\ v = pending /\ Fits(worker[pending], Head(wire))
          /\ ~Head(wire).own
      BY <1>4, <2>1 DEF Answer
    <3>2. ~wire[1].own /\ (worker[v].mode = "tcp" => wire[1].tid = worker[v].tid)
      BY <1>2, <3>1 DEF Fits
    <3> QED
      BY <1>2, <3>1, <3>2 DEF AnswerInv, PendingInv
  <2>2. \A v \in Workers : worker[v].mode \in {"rtu", "tcp"}
    BY DEF WorkerTypeOK, Worker
  <2> QED
    BY <1>5, <2>1, <2>2 DEF AnswerInv, NoStrangeAnswer
<1> QED
  BY <1>3, <1>6, <1>7 DEF AnswerInv

LEMMA TakeJobAnswers ==
  ASSUME AnswerInv, WorkerTypeOK, NEW w \in Workers, TakeJob(w)
  PROVE  AnswerInv'
<1>1. manual # <<>> => Head(manual) \in Jobs
  BY DEF WorkerTypeOK, Jobs
<1>2. enabled \subseteq Jobs /\ requestEpoch \in Nat
  BY DEF WorkerTypeOK, Jobs
<1>3. \/ UNCHANGED <<transactionId, worker, pending, wire>>
      \/ manual # <<>> /\ Attempt(w, Head(manual), requestEpoch, 1)
      \/ \E key \in enabled : Attempt(w, key, requestEpoch, 1)
  BY DEF TakeJob
<1>4. CASE UNCHANGED <<transactionId, worker, pending, wire>>
  BY <1>4, SameAnswers
<1>5. CASE \E job \in Jobs : Attempt(w, job, requestEpoch, 1)
  BY <1>2, <1>5, AttemptAnswers
<1> QED
  BY <1>1, <1>2, <1>3, <1>4, <1>5

LEMMA AttemptEndsAnswers ==
  ASSUME AnswerInv, WorkerTypeOK, NEW w \in Workers, AttemptEnds(w)
  PROVE  AnswerInv'
<1>1. CASE MayRetry(w) /\ Attempt(w, worker[w].job, worker[w].epoch, worker[w].attempt + 1)
  <2>1. worker[w] \in Worker
    BY DEF WorkerTypeOK
  <2>2. worker[w].job \in Jobs /\ Retries[worker[w].job] \in 0..3
    BY <1>1, ModbusAssumption DEF MayRetry
  <2>3. worker[w].epoch \in Nat /\ worker[w].attempt + 1 \in 1..4
    BY <1>1, <2>1, <2>2 DEF MayRetry, Worker
  <2> QED
    BY <1>1, <2>2, <2>3, AttemptAnswers
<1>2. CASE /\ Start(w) /\ UNCHANGED <<transactionId, wire>>
           /\ pending' = IF pending = w THEN NoWorker ELSE pending
  <2>1. \A v \in Workers : worker'[v] = worker[v] \/ worker'[v] = Resting("loop")
    BY <1>2 DEF Start, WorkerTypeOK
  <2> QED
    BY <1>2, <2>1, SameAnswers DEF Resting
<1> QED
  BY <1>1, <1>2 DEF AttemptEnds

LEMMA OtherWorkAnswers ==
  ASSUME AnswerInv, WorkerTypeOK, NEW w \in Workers, Sent(w) \/ Fails(w) \/ WorkerExits(w)
  PROVE  AnswerInv'
<1>1. UNCHANGED <<wire, transactionId, pending>>
  BY DEF Sent, Fails, WorkerExits
<1>2. worker \in [Workers -> Worker]
  BY DEF WorkerTypeOK
<1>3. CASE Sent(w)
  <2>1. \A v \in Workers : /\ worker'[v].result = worker[v].result
                           /\ worker'[v].mode = worker[v].mode
                           /\ worker'[v].tid = worker[v].tid
    BY <1>2, <1>3 DEF Sent, Worker
  <2> QED
    BY <1>1, <2>1, SameAnswers
<1>4. CASE Fails(w)
  <2> DEFINE given == [worker EXCEPT ![w].pc = "waiting"]
  <2>1. given \in [Workers -> Worker]
        /\ \A v \in Workers : given[v].mode = worker[v].mode
              /\ given[v].tid = worker[v].tid /\ given[v].result = worker[v].result
    BY <1>2 DEF Worker
  <2>2. worker' = [given EXCEPT ![w].result = "error"]
    BY <1>4 DEF Fails, WorkerTypeOK
  <2> HIDE DEF given
  <2>3. \A v \in Workers : /\ worker'[v].result \in {worker[v].result, "error"}
                           /\ worker'[v].mode = worker[v].mode
                           /\ worker'[v].tid = worker[v].tid
    BY <2>1, <2>2 DEF Worker
  <2> QED
    BY <1>1, <2>3, SameAnswers
<1>5. CASE WorkerExits(w)
  <2>1. \A v \in Workers : worker'[v] = worker[v] \/ worker'[v] = Resting("idle")
    BY <1>2, <1>5 DEF WorkerExits
  <2> QED
    BY <1>1, <2>1, SameAnswers DEF Resting
<1> QED
  BY <1>3, <1>4, <1>5

LEMMA AnswerInvKept ==
  ASSUME AnswerInv, WorkerTypeOK, [Next]_vars
  PROVE  AnswerInv'
<1>1. CASE User
  BY <1>1, UserLeaves, HaltAnswers, EnsureWorkerAnswers
<1>2. CASE Answer
  BY <1>2, AnswerAnswers
<1>3. ASSUME NEW w \in Workers, Work(w)
      PROVE  AnswerInv'
  BY <1>3, TakeJobAnswers, AttemptEndsAnswers, OtherWorkAnswers DEF Work
<1>4. CASE (\E k \in Keys : IntervalEnds(k)) \/ UNCHANGED vars
  BY <1>4, EnsureWorkerAnswers DEF IntervalEnds, vars
<1> QED
  BY <1>1, <1>2, <1>3, <1>4 DEF Next

LEMMA AnswerInvInit == Init => AnswerInv
<1> SUFFICES ASSUME Init
             PROVE  AnswerInv
  OBVIOUS
<1>1. WireInv
  BY ModbusAssumption DEF Init, WireInv
<1>2. PendingInv
  BY ModbusAssumption DEF Init, PendingInv
<1>3. NoStrangeAnswer
  BY DEF Init, NoStrangeAnswer, Resting
<1> QED
  BY <1>1, <1>2, <1>3 DEF AnswerInv

\* With transaction ids the answer to an older request is never taken for that
\* of the request in flight, across retries, sessions and changes of mode, as
\* long as fewer requests than there are ids can still be answered.
THEOREM NeverStrangeAnswer == Spec => []NoStrangeAnswer
<1>1. AnswerInv /\ WorkerTypeOK /\ [Next]_vars => AnswerInv'
  BY AnswerInvKept
<1>2. AnswerInv => NoStrangeAnswer
  BY DEF AnswerInv
<1> QED
  BY <1>1, <1>2, AnswerInvInit, WorkersTypeCorrect, PTL DEF Spec

-------------------------------------------------------------------------------
(* What the operators on the queues return *)

LEMMA Listed ==
  ASSUME NEW S, NEW s \in Seq(S)
  PROVE  /\ DOMAIN s = 1..Len(s) /\ Len(s) \in Nat
         /\ \A i \in DOMAIN s : s[i] \in S /\ s[i] \in ToSet(s)
         /\ \A x \in ToSet(s) : x \in S /\ \E i \in DOMAIN s : s[i] = x
<1>1. DOMAIN s = 1..Len(s) /\ Len(s) \in Nat
  OBVIOUS
<1>2. \A i \in 1..Len(s) : s[i] \in S
  OBVIOUS
<1> QED
  BY <1>1, <1>2 DEF ToSet

\* An arrangement of a finite set has each of its elements once.
LEMMA Arranged ==
  ASSUME NEW S, IsFiniteSet(S), NEW p \in SetToSeqs(S)
  PROVE  p \in Seq(S) /\ IsInjective(p) /\ ToSet(p) = S
<1> DEFINE n == Cardinality(S)
<1>1. n \in Nat
  BY FS_CardinalityType
<1>2. p \in [1..n -> S] /\ \A i, j \in 1..n : i # j => p[i] # p[j]
  BY DEF SetToSeqs
<1> HIDE DEF n
<1>3. p \in Seq(S)
  BY <1>1, <1>2
<1>4. IsInjective(p)
  BY <1>2 DEF IsInjective
<1>5. p \in Injection(1..n, S)
  BY <1>2, <1>4 DEF Injection
<1>6. Cardinality(1..n) = n
  BY <1>1, FS_Interval
<1>7. p \in Surjection(1..n, S)
  BY <1>5, <1>6, FS_Injection DEF n
<1>8. ToSet(p) = S
  BY <1>2, <1>7 DEF Surjection, ToSet
<1> QED
  BY <1>3, <1>4, <1>8

LEMMA ArrangedOnce ==
  ASSUME NEW S, IsFiniteSet(S)
  PROVE  SetToSeq(S) \in SetToSeqs(S)
<1> DEFINE n == Cardinality(S)
<1>1. PICK f : f \in Bijection(1..n, S)
  BY FS_CardinalityType DEF ExistsBijection
<1>2. f \in [1..n -> S] /\ IsInjective(f)
  BY <1>1 DEF Bijection, Injection
<1>3. SetToSeq(S) \in [1..n -> S] /\ IsInjective(SetToSeq(S))
  BY <1>2 DEF SetToSeq
<1>4. DOMAIN SetToSeq(S) = 1..n
  BY <1>3
<1> QED
  BY <1>3, <1>4 DEF SetToSeqs, IsInjective

\* Picking positions, each once, out of a sequence.
LEMMA Picked ==
  ASSUME NEW S, NEW s \in Seq(S), NEW P \in SUBSET (DOMAIN s), NEW p \in SetToSeqs(P),
         NEW t, t = [n \in DOMAIN p |-> s[p[n]]]
  PROVE  /\ t \in Seq(S) /\ ToSet(t) = {s[i] : i \in P}
         /\ IsInjective(s) => IsInjective(t)
<1>1. DOMAIN s = 1..Len(s) /\ Len(s) \in Nat /\ \A i \in DOMAIN s : s[i] \in S
  BY Listed
<1>2. IsFiniteSet(P)
  <2>1. IsFiniteSet(1..Len(s))
    BY <1>1, FS_Interval
  <2> QED
    BY <1>1, <2>1, FS_Subset
<1>3. p \in Seq(P) /\ IsInjective(p) /\ ToSet(p) = P
  BY <1>2, Arranged
<1>4. DOMAIN p = 1..Len(p) /\ Len(p) \in Nat /\ \A n \in DOMAIN p : p[n] \in P
  BY <1>3, Listed
<1>5. t \in [1..Len(p) -> S]
  BY <1>1, <1>4
<1>6. t \in Seq(S)
  BY <1>4, <1>5
<1>7. ToSet(t) = {s[i] : i \in P}
  <2>1. ToSet(t) \subseteq {s[i] : i \in P}
    BY <1>4 DEF ToSet
  <2>2. ASSUME NEW i \in P PROVE s[i] \in ToSet(t)
    <3>1. PICK n \in DOMAIN p : p[n] = i
      BY <1>3 DEF ToSet
    <3>2. n \in DOMAIN t /\ t[n] = s[i]
      BY <3>1
    <3> QED
      BY <3>2 DEF ToSet
  <2> QED
    BY <2>1, <2>2
<1>8. IsInjective(s) => IsInjective(t)
  BY <1>3, <1>4 DEF IsInjective
<1> QED
  BY <1>6, <1>7, <1>8

LEMMA WithoutLeaves ==
  ASSUME NEW S, NEW s \in Seq(S), NEW gone, NEW t \in Without(s, gone)
  PROVE  /\ t \in Seq(S) /\ ToSet(t) = ToSet(s) \ gone
         /\ IsInjective(s) => IsInjective(t)
<1> DEFINE P == {n \in DOMAIN s : s[n] \notin gone}
<1>1. PICK p \in SetToSeqs(P) : t = [n \in DOMAIN p |-> s[p[n]]]
  BY DEF Without
<1>2. {s[i] : i \in P} = ToSet(s) \ gone
  BY DEF ToSet
<1>3. P \subseteq DOMAIN s
  OBVIOUS
<1> HIDE DEF P
<1> QED
  BY <1>1, <1>2, <1>3, Picked

LEMMA Joined ==
  ASSUME NEW S, NEW s \in Seq(S), NEW t \in Seq(S)
  PROVE  /\ s \o t \in Seq(S) /\ ToSet(s \o t) = ToSet(s) \cup ToSet(t)
         /\ IsInjective(s) /\ IsInjective(t) /\ ToSet(s) \cap ToSet(t) = {}
               => IsInjective(s \o t)
<1> DEFINE u == s \o t
<1>1. /\ u \in Seq(S) /\ Len(s) \in Nat /\ Len(t) \in Nat
      /\ DOMAIN u = 1..Len(s) + Len(t)
      /\ DOMAIN s = 1..Len(s) /\ DOMAIN t = 1..Len(t)
      /\ \A i \in DOMAIN u :
            u[i] = IF i <= Len(s) THEN s[i] ELSE t[i - Len(s)]
  OBVIOUS
<1> HIDE DEF u
<1>2. \A m, n \in Nat : \A i \in 1..m + n :
         IF i <= m THEN i \in 1..m ELSE i - m \in 1..n
  OBVIOUS
<1>3. \A m, n \in Nat : /\ \A i \in 1..m : i \in 1..m + n /\ i <= m
                        /\ \A i \in 1..n : i + m \in 1..m + n /\ ~(i + m <= m)
                                           /\ i + m - m = i
  OBVIOUS
<1>4. \A i \in DOMAIN u :
         \/ i \in DOMAIN s /\ u[i] = s[i]
         \/ i - Len(s) \in DOMAIN t /\ u[i] = t[i - Len(s)]
  BY <1>1, <1>2
<1>5. /\ \A i \in DOMAIN s : i \in DOMAIN u /\ u[i] = s[i]
      /\ \A i \in DOMAIN t : i + Len(s) \in DOMAIN u /\ u[i + Len(s)] = t[i]
  BY <1>1, <1>3
<1>6. ToSet(u) = ToSet(s) \cup ToSet(t)
  BY <1>4, <1>5 DEF ToSet
<1>7. ASSUME IsInjective(s), IsInjective(t), ToSet(s) \cap ToSet(t) = {},
             NEW i \in DOMAIN u, NEW j \in DOMAIN u, u[i] = u[j]
      PROVE  i = j
  <2>1. CASE i \in DOMAIN s /\ u[i] = s[i] /\ j \in DOMAIN s /\ u[j] = s[j]
    BY <1>7, <2>1 DEF IsInjective
  <2>2. CASE /\ i - Len(s) \in DOMAIN t /\ u[i] = t[i - Len(s)]
             /\ j - Len(s) \in DOMAIN t /\ u[j] = t[j - Len(s)]
    <3>1. i - Len(s) = j - Len(s)
      BY <1>7, <2>2 DEF IsInjective
    <3> QED
      BY <1>1, <3>1
  <2>3. ASSUME NEW k \in DOMAIN s, NEW l \in DOMAIN t PROVE s[k] # t[l]
    BY <1>7 DEF ToSet
  <2> QED
    BY <1>4, <1>7, <2>1, <2>2, <2>3
<1>8. IsInjective(s) /\ IsInjective(t) /\ ToSet(s) \cap ToSet(t) = {} => IsInjective(u)
  BY <1>7 DEF IsInjective
<1> QED
  BY <1>1, <1>6, <1>8 DEF u

LEMMA Appended ==
  ASSUME NEW S, NEW s \in Seq(S), NEW x \in S
  PROVE  /\ Append(s, x) \in Seq(S) /\ ToSet(Append(s, x)) = ToSet(s) \cup {x}
         /\ IsInjective(s) /\ x \notin ToSet(s) => IsInjective(Append(s, x))
<1> DEFINE one == <<x>>
<1>1. one \in Seq(S) /\ ToSet(one) = {x} /\ IsInjective(one)
  BY DEF ToSet, IsInjective
<1>2. Append(s, x) = s \o one
  OBVIOUS
<1> HIDE DEF one
<1>3. /\ s \o one \in Seq(S) /\ ToSet(s \o one) = ToSet(s) \cup ToSet(one)
      /\ IsInjective(s) /\ IsInjective(one) /\ ToSet(s) \cap ToSet(one) = {}
            => IsInjective(s \o one)
  BY <1>1, Joined
<1> QED
  BY <1>1, <1>2, <1>3

LEMMA Taken ==
  ASSUME NEW S, NEW s \in Seq(S), s # <<>>, IsInjective(s)
  PROVE  /\ Head(s) \in ToSet(s) /\ Head(s) \in S
         /\ Tail(s) \in Seq(S) /\ IsInjective(Tail(s))
         /\ ToSet(Tail(s)) = ToSet(s) \ {Head(s)}
<1> DEFINE t == Tail(s)
<1>1. /\ Len(s) \in Nat /\ Len(s) >= 1 /\ DOMAIN s = 1..Len(s) /\ Head(s) = s[1]
      /\ t \in Seq(S) /\ DOMAIN t = 1..Len(s) - 1
      /\ \A i \in DOMAIN t : t[i] = s[i + 1]
      /\ Head(s) \in S
  OBVIOUS
<1> HIDE DEF t
<1>2. \A n \in Nat : n >= 1 =>
         /\ 1 \in 1..n
         /\ \A i \in 1..n - 1 : i + 1 \in 1..n /\ i + 1 # 1
         /\ \A i \in 1..n : i # 1 => i - 1 \in 1..n - 1 /\ (i - 1) + 1 = i
  OBVIOUS
<1>3. /\ 1 \in DOMAIN s
      /\ \A i \in DOMAIN t : i + 1 \in DOMAIN s /\ i + 1 # 1
      /\ \A i \in DOMAIN s : i # 1 => i - 1 \in DOMAIN t /\ s[i] = t[i - 1]
  BY <1>1, <1>2
<1>4. ToSet(t) = ToSet(s) \ {Head(s)}
  <2>1. ASSUME NEW i \in DOMAIN t PROVE t[i] \in ToSet(s) \ {Head(s)}
    BY <1>1, <1>3 DEF ToSet, IsInjective
  <2>2. ASSUME NEW i \in DOMAIN s, s[i] # Head(s) PROVE s[i] \in ToSet(t)
    BY <1>1, <1>3, <2>2 DEF ToSet
  <2> QED
    BY <2>1, <2>2 DEF ToSet
<1>5. IsInjective(t)
  <2>1. ASSUME NEW i \in DOMAIN t, NEW j \in DOMAIN t, t[i] = t[j] PROVE i = j
    <3>1. i + 1 = j + 1
      BY <1>1, <1>3, <2>1 DEF IsInjective
    <3> QED
      BY <1>1, <3>1
  <2> QED
    BY <2>1 DEF IsInjective
<1> QED
  BY <1>1, <1>3, <1>4, <1>5 DEF t, ToSet

LEMMA DueIsFinite ==
  ASSUME enabled \subseteq Keys
  PROVE  Due \subseteq Keys /\ IsFiniteSet(Due) /\ \A D \in SUBSET Due : IsFiniteSet(D)
<1>1. Due \subseteq Keys
  BY DEF Due
<1> QED
  BY <1>1, FS_Subset, ModbusAssumption

\* Sorting the queue loses no job and doubles none.
LEMMA QueuedLists ==
  ASSUME enabled \subseteq Keys, periodic \in Seq(Keys), IsInjective(periodic),
         ToSet(periodic) \cap Due = {}, NEW order, NEW jobs \in Queued(order)
  PROVE  jobs \in Seq(Keys) /\ IsInjective(jobs) /\ ToSet(jobs) = ToSet(periodic) \cup Due
<1> DEFINE all == periodic \o SetToSeq(Due)
<1>1. Due \subseteq Keys /\ IsFiniteSet(Due)
  BY DueIsFinite
<1>2. SetToSeq(Due) \in Seq(Due) /\ IsInjective(SetToSeq(Due)) /\ ToSet(SetToSeq(Due)) = Due
  BY <1>1, ArrangedOnce, Arranged
<1>3. SetToSeq(Due) \in Seq(Keys)
  BY <1>1, <1>2
<1>4. all \in Seq(Keys) /\ IsInjective(all) /\ ToSet(all) = ToSet(periodic) \cup Due
  BY <1>2, <1>3, Joined
<1>5. PICK p \in SetToSeqs(DOMAIN all) : jobs = [n \in DOMAIN p |-> all[p[n]]]
  BY DEF Queued
<1> HIDE DEF all
<1>6. {all[i] : i \in DOMAIN all} = ToSet(all)
  BY DEF ToSet
<1> QED
  BY <1>4, <1>5, <1>6, Picked

-------------------------------------------------------------------------------
(***************************************************************************)
(* EachJobOnce.  The marks, the queue and the calls are compared with what  *)
(* is in work.  That a mark may be taken back when a job ends needs that no *)
(* second job of that key waits, and this that the worker is the only one.  *)
(***************************************************************************)
InWork == {worker[w].job : w \in Workers} \cap Jobs

RestingInv == \A w \in Workers : worker[w].pc \in {"idle", "loop"} => worker[w].job = NoJob

MarksInv ==
    /\ periodic \in Seq(Keys) /\ IsInjective(periodic)
    /\ queuedPeriodic \subseteq Keys
    /\ ToSet(periodic) \subseteq queuedPeriodic
    /\ queuedPeriodic \subseteq ToSet(periodic) \cup InWork
    /\ ToSet(periodic) \cap InWork = {}

DueInv == due \in Seq(Keys) /\ IsInjective(due) /\ ToSet(due) \cap later = {}

CallsInv ==
    /\ IsInjective(manual) /\ ToSet(manual) \cap InWork = {}
    /\ calling = ToSet(manual) \cup (InWork \cap Calls)

JobInv == RestingInv /\ MarksInv /\ DueInv /\ CallsInv

\* The invariant says of every job what the property says.
LEMMA JobInvImplies ==
  ASSUME JobInv, WorkerTypeOK
  PROVE  EachJobOnce
<1>1. \A j \in Jobs : j \in InWork <=> \E w \in Workers : worker[w].job = j
  BY DEF InWork
<1>2. ToSet(manual) \subseteq Calls
  BY Listed DEF WorkerTypeOK
<1>3. Calls \subseteq Jobs /\ Keys \subseteq Jobs
  BY DEF Jobs
<1>4. QueueConsistent
  BY <1>1, <1>3 DEF JobInv, MarksInv, DueInv, QueueConsistent
<1>5. CallInOnePlace
  BY <1>1, <1>2, <1>3 DEF JobInv, CallsInv, CallInOnePlace
<1> QED
  BY <1>4, <1>5 DEF EachJobOnce

\* Steps of the workers that change nobody's job.
LEMMA SameWork ==
  ASSUME RestingInv, WorkerTypeOK,
         \A w \in Workers : /\ worker'[w].job = worker[w].job
                            /\ worker'[w].pc \in {"idle", "loop"}
                                  => worker[w].pc \in {"idle", "loop"}
  PROVE  RestingInv' /\ InWork' = InWork
BY DEF RestingInv, InWork

LEMMA EnsureWorkerWork ==
  ASSUME RestingInv, WorkerInv, WorkerTypeOK, EnsureWorker \/ UNCHANGED worker
  PROVE  RestingInv' /\ InWork' = InWork
<1>1. CASE UNCHANGED worker
  BY <1>1, SameWork
<1>2. CASE EnsureWorker /\ ~workerRunning
  <2>1. \A w \in Workers : worker[w].pc = "idle" /\ worker[w].job = NoJob
    BY <1>2 DEF WorkerInv, FlagIsRight, RestingInv
  <2>2. PICK v : worker' = [worker EXCEPT ![v] = Resting("loop")]
    BY <1>2 DEF EnsureWorker, Start
  <2>3. \A w \in Workers : worker'[w] = worker[w] \/ worker'[w] = Resting("loop")
    BY <2>2 DEF WorkerTypeOK
  <2>4. \A w \in Workers : worker'[w].job = NoJob
    BY <2>1, <2>3 DEF Resting
  <2> QED
    BY <2>1, <2>4, SameWork
<1>3. CASE EnsureWorker /\ workerRunning
  BY <1>3, SameWork DEF EnsureWorker
<1> QED
  BY <1>1, <1>2, <1>3

LEMMA CompletedWork ==
  ASSUME RestingInv, WorkerTypeOK, NEW result, worker' = Completed(result)
  PROVE  RestingInv' /\ InWork' = InWork
<1>1. ASSUME NEW v \in Workers
      PROVE  worker'[v].job = worker[v].job /\ worker'[v].pc = worker[v].pc
  <2>1. worker[v] \in Worker
    BY DEF WorkerTypeOK
  <2>2. \/ worker'[v] = worker[v]
        \/ worker'[v] = [worker[v] EXCEPT !.result = result]
    BY DEF Completed
  <2> QED
    BY <2>1, <2>2 DEF Worker
<1> QED
  BY <1>1, SameWork

\* The worker that takes a job was the only one, and had none.
LEMMA AttemptWork ==
  ASSUME RestingInv, WorkerInv, WorkerTypeOK, NEW w \in Workers, worker[w].pc # "idle",
         NEW job \in Jobs, NEW epoch, NEW n, Attempt(w, job, epoch, n)
  PROVE  RestingInv' /\ InWork' = {job}
<1>1. \A v \in Workers : v # w => worker[v].pc = "idle" /\ worker[v].job = NoJob
  BY DEF WorkerInv, OneInFlight, RestingInv
<1>2. /\ worker'[w].job = job /\ worker'[w].pc = "sending"
      /\ \A v \in Workers : v # w => worker'[v] = worker[v]
  BY DEF Attempt, WorkerTypeOK
<1>3. InWork' = {job}
  BY <1>1, <1>2, ModbusAssumption DEF InWork
<1> QED
  BY <1>1, <1>2, <1>3 DEF RestingInv

\* Only one job can be in work.
LEMMA OnlyWork ==
  ASSUME RestingInv, WorkerInv, NEW w \in Workers, worker[w].pc # "idle"
  PROVE  InWork = {worker[w].job} \cap Jobs
<1>1. \A v \in Workers : v # w => worker[v].job = NoJob
  BY DEF WorkerInv, OneInFlight, RestingInv
<1> QED
  BY <1>1, ModbusAssumption DEF InWork

LEMMA StartWork ==
  ASSUME RestingInv, WorkerInv, WorkerTypeOK, NEW w \in Workers, worker[w].pc # "idle",
         NEW at \in {"idle", "loop"}, worker' = [worker EXCEPT ![w] = Resting(at)]
  PROVE  RestingInv' /\ InWork' = {}
<1>1. \A v \in Workers : v # w => worker[v].pc = "idle" /\ worker[v].job = NoJob
  BY DEF WorkerInv, OneInFlight, RestingInv
<1>2. \A v \in Workers : worker'[v] = IF v = w THEN Resting(at) ELSE worker[v]
  BY DEF WorkerTypeOK
<1>3. \A v \in Workers : worker'[v].job = NoJob
  BY <1>1, <1>2 DEF Resting
<1> QED
  BY <1>3, ModbusAssumption DEF RestingInv, InWork

\* stop: what is left in work is what the workers still hold.
LEMMA HaltJobs ==
  ASSUME JobInv, WorkerTypeOK, Halt
  PROVE  JobInv'
<1>1. RestingInv' /\ InWork' = InWork
  BY CompletedWork DEF JobInv, Halt
<1>2. /\ manual' = <<>> /\ periodic' = <<>> /\ due' = <<>> /\ later' = {}
      /\ queuedPeriodic' = {} /\ calling' = calling \ ToSet(manual)
  BY DEF Halt
<1>3. ToSet(<<>>) = {} /\ IsInjective(<<>>) /\ <<>> \in Seq(Keys)
  BY DEF ToSet, IsInjective
<1>4. calling' = InWork \cap Calls
  BY <1>2 DEF JobInv, CallsInv
<1> QED
  BY <1>1, <1>2, <1>3, <1>4 DEF JobInv, MarksInv, DueInv, CallsInv

\* Steps that only move due times.
LEMMA SameJobs ==
  ASSUME JobInv, RestingInv', InWork' = InWork, DueInv',
         UNCHANGED <<manual, periodic, queuedPeriodic, calling>>
  PROVE  JobInv'
BY DEF JobInv, MarksInv, CallsInv

LEMMA UserJobs ==
  ASSUME JobInv, WorkerInv, WorkerTypeOK, User
  PROVE  JobInv'
<1>0. enabled \subseteq Keys /\ IsFiniteSet(enabled) /\ manual \in Seq(Calls)
  BY FS_Subset, ModbusAssumption DEF WorkerTypeOK
<1>1. CASE StartSession
  <2>1. RestingInv' /\ InWork' = InWork
    BY <1>1, EnsureWorkerWork DEF StartSession, JobInv
  <2>2. PICK old \in Without(due, enabled), new \in SetToSeqs(enabled) : due' = old \o new
    BY <1>1 DEF StartSession
  <2>3. old \in Seq(Keys) /\ IsInjective(old) /\ ToSet(old) = ToSet(due) \ enabled
    BY WithoutLeaves DEF JobInv, DueInv
  <2>4. new \in Seq(enabled) /\ IsInjective(new) /\ ToSet(new) = enabled
    BY <1>0, Arranged
  <2>5. new \in Seq(Keys)
    BY <1>0, <2>4
  <2>6. due' \in Seq(Keys) /\ IsInjective(due') /\ ToSet(due') = ToSet(due) \cup enabled
    BY <2>2, <2>3, <2>4, <2>5, Joined
  <2>7. DueInv'
    BY <1>1, <2>6 DEF StartSession, JobInv, DueInv
  <2> QED
    BY <1>1, <2>1, <2>7, SameJobs DEF StartSession
<1>2. CASE StopSession \/ SetMode
  BY <1>2, HaltJobs DEF StopSession, SetMode
<1>3. CASE LinkChanges
  <2>1. CASE Halt
    BY <2>1, HaltJobs
  <2>2. CASE UNCHANGED <<worker, calling, schedule>>
    <3>1. RestingInv' /\ InWork' = InWork
      BY <2>2, EnsureWorkerWork DEF JobInv
    <3> QED
      BY <2>2, <3>1, SameJobs DEF schedule, JobInv, DueInv
  <2> QED
    BY <1>3, <2>1, <2>2 DEF LinkChanges
<1>4. ASSUME NEW c \in Calls, Execute(c)
      PROVE  JobInv'
  <2>1. RestingInv' /\ InWork' = InWork
    BY <1>4, EnsureWorkerWork DEF Execute, JobInv
  <2>2. /\ c \notin calling /\ calling' = calling \cup {c} /\ manual' = Append(manual, c)
        /\ UNCHANGED <<periodic, queuedPeriodic, due, later>>
    BY <1>4 DEF Execute
  <2>3. c \notin ToSet(manual) /\ c \notin InWork
    BY <2>2 DEF JobInv, CallsInv
  <2>4. ToSet(manual') = ToSet(manual) \cup {c} /\ IsInjective(manual')
    BY <1>0, <2>2, <2>3, Appended DEF JobInv, CallsInv
  <2> QED
    BY <2>1, <2>2, <2>3, <2>4 DEF JobInv, MarksInv, DueInv, CallsInv
<1>5. ASSUME NEW k \in Keys, Enable(k)
      PROVE  JobInv'
  <2>1. RestingInv' /\ InWork' = InWork
    BY <1>5, EnsureWorkerWork DEF Enable, JobInv
  <2> QED
    BY <1>5, <2>1, SameJobs DEF Enable, JobInv, DueInv
<1>6. ASSUME NEW k \in Keys, Disable(k)
      PROVE  JobInv'
  <2>1. RestingInv' /\ InWork' = InWork
    BY <1>6, EnsureWorkerWork DEF Disable, JobInv
  <2>2. CASE UNCHANGED <<periodic, queuedPeriodic, due, later>>
    BY <1>6, <2>1, <2>2, SameJobs DEF Disable, JobInv, DueInv
  <2>3. CASE CancelPeriodic(k) /\ due' \in Without(due, {k}) /\ later' = later \ {k}
    <3>1. /\ due' \in Seq(Keys) /\ IsInjective(due') /\ ToSet(due') = ToSet(due) \ {k}
          /\ ToSet(due) \cap later = {}
      BY <2>3, WithoutLeaves DEF JobInv, DueInv
    <3>2. /\ periodic' \in Seq(Keys) /\ IsInjective(periodic')
          /\ ToSet(periodic') = ToSet(periodic) \ {k}
          /\ queuedPeriodic' = queuedPeriodic \ {k}
      BY <2>3, WithoutLeaves DEF JobInv, MarksInv, CancelPeriodic
    <3>3. MarksInv'
      BY <2>1, <3>2 DEF JobInv, MarksInv
    <3>4. DueInv'
      BY <2>3, <3>1 DEF DueInv
    <3>5. UNCHANGED <<manual, calling>>
      BY <1>6 DEF Disable
    <3> QED
      BY <2>1, <3>3, <3>4, <3>5 DEF JobInv, CallsInv
  <2> QED
    BY <1>6, <2>2, <2>3 DEF Disable
<1> QED
  BY <1>1, <1>2, <1>3, <1>4, <1>5, <1>6 DEF User

LEMMA TakeJobJobs ==
  ASSUME JobInv, WorkerInv, WorkerTypeOK, NEW w \in Workers, TakeJob(w)
  PROVE  JobInv'
<1>1. /\ enabled \subseteq Keys /\ manual \in Seq(Calls) /\ worker[w].pc = "loop"
      /\ worker[w].job = NoJob /\ UNCHANGED <<enabled, calling>>
  BY DEF WorkerTypeOK, JobInv, RestingInv, TakeJob
<1>2. InWork = {}
  BY <1>1, OnlyWork, ModbusAssumption DEF JobInv
<1>3. /\ Due \subseteq Keys /\ IsFiniteSet(Due \ ToSet(due))
      /\ Due \cap later = {} /\ Due \cap queuedPeriodic = {}
  BY <1>1, DueIsFinite DEF Due
<1>4. PICK new \in SetToSeqs(Due \ ToSet(due)) : \E jobs \in Queued(due \o new) :
         LET order == due \o new
             key == Head(jobs)
         IN  \/ /\ manual # <<>>
                /\ Attempt(w, Head(manual), requestEpoch, 1)
                /\ manual' = Tail(manual) /\ periodic' = jobs
                /\ queuedPeriodic' = queuedPeriodic \cup Due
                /\ due' = order /\ UNCHANGED later
             \/ /\ manual = <<>> /\ jobs # <<>> /\ key \in enabled
                /\ Attempt(w, key, requestEpoch, 1)
                /\ periodic' = Tail(jobs)
                /\ queuedPeriodic' = queuedPeriodic \cup Due
                /\ due' = order /\ UNCHANGED <<manual, later>>
             \/ /\ manual = <<>> /\ jobs # <<>> /\ key \notin enabled
                /\ periodic' = Tail(jobs)
                /\ queuedPeriodic' = (queuedPeriodic \cup Due) \ {key}
                /\ NextInterval(key, order)
                /\ UNCHANGED <<manual, worker>>
  BY DEF TakeJob
<1> DEFINE order == due \o new
<1>sorted. PICK jobs \in Queued(order) :
         \/ /\ manual # <<>>
            /\ Attempt(w, Head(manual), requestEpoch, 1)
            /\ manual' = Tail(manual) /\ periodic' = jobs
            /\ queuedPeriodic' = queuedPeriodic \cup Due
            /\ due' = order /\ UNCHANGED later
         \/ /\ manual = <<>> /\ jobs # <<>> /\ Head(jobs) \in enabled
            /\ Attempt(w, Head(jobs), requestEpoch, 1)
            /\ periodic' = Tail(jobs)
            /\ queuedPeriodic' = queuedPeriodic \cup Due
            /\ due' = order /\ UNCHANGED <<manual, later>>
         \/ /\ manual = <<>> /\ jobs # <<>> /\ Head(jobs) \notin enabled
            /\ periodic' = Tail(jobs)
            /\ queuedPeriodic' = (queuedPeriodic \cup Due) \ {Head(jobs)}
            /\ NextInterval(Head(jobs), order)
            /\ UNCHANGED <<manual, worker>>
  BY <1>4
<1>5. /\ order \in Seq(Keys) /\ IsInjective(order)
      /\ ToSet(order) = ToSet(due) \cup Due
  <2>1. /\ new \in Seq(Due \ ToSet(due)) /\ IsInjective(new)
        /\ ToSet(new) = Due \ ToSet(due)
    BY <1>3, Arranged
  <2>2. new \in Seq(Keys)
    BY <1>3, <2>1
  <2> QED
    BY <2>1, <2>2, Joined DEF JobInv, DueInv
<1>6. /\ jobs \in Seq(Keys) /\ IsInjective(jobs)
      /\ ToSet(jobs) = ToSet(periodic) \cup Due
  BY <1>1, <1>3, <1>sorted, QueuedLists DEF JobInv, MarksInv
<1>7. queuedPeriodic = ToSet(periodic)
  BY <1>2 DEF JobInv, MarksInv
<1>8. ToSet(order) \cap later = {}
  BY <1>3, <1>5 DEF JobInv, DueInv
<1>9. ToSet(jobs) \subseteq Keys
  BY <1>6, Listed
<1>10. Calls \cap Keys = {} /\ Calls \subseteq Jobs /\ Keys \subseteq Jobs
  BY ModbusAssumption DEF Jobs
<1>11. ToSet(manual) \subseteq Calls
  BY <1>1, Listed
<1>12. calling = ToSet(manual)
  BY <1>2 DEF JobInv, CallsInv
<1> HIDE DEF order
<1>13. CASE /\ manual # <<>> /\ Attempt(w, Head(manual), requestEpoch, 1)
            /\ manual' = Tail(manual) /\ periodic' = jobs
            /\ queuedPeriodic' = queuedPeriodic \cup Due
            /\ due' = order /\ UNCHANGED later
  <2> DEFINE c == Head(manual)
  <2>1. /\ c \in ToSet(manual) /\ c \in Calls
        /\ IsInjective(Tail(manual)) /\ ToSet(Tail(manual)) = ToSet(manual) \ {c}
    BY <1>1, <1>13, Taken DEF JobInv, CallsInv
  <2> HIDE DEF c
  <2>2. c \in Jobs
    BY <1>10, <2>1
  <2>3. RestingInv' /\ InWork' = {c}
    BY <1>1, <1>13, <2>2, AttemptWork DEF c, JobInv
  <2>4. MarksInv'
    BY <1>3, <1>6, <1>7, <1>9, <1>10, <1>13, <2>1, <2>3 DEF MarksInv
  <2>5. DueInv'
    BY <1>5, <1>8, <1>13 DEF DueInv
  <2>6. CallsInv'
    BY <1>1, <1>12, <1>13, <2>1, <2>3 DEF CallsInv
  <2> QED
    BY <2>3, <2>4, <2>5, <2>6 DEF JobInv
<1>14. ASSUME manual = <<>>, jobs # <<>>, periodic' = Tail(jobs), manual' = manual
       PROVE  /\ Head(jobs) \in ToSet(jobs) /\ Head(jobs) \in Keys
              /\ periodic' \in Seq(Keys) /\ IsInjective(periodic')
              /\ ToSet(periodic') = ToSet(jobs) \ {Head(jobs)}
  BY <1>6, <1>14, Taken
<1>15. CASE /\ manual = <<>> /\ jobs # <<>> /\ Head(jobs) \in enabled
            /\ Attempt(w, Head(jobs), requestEpoch, 1)
            /\ periodic' = Tail(jobs)
            /\ queuedPeriodic' = queuedPeriodic \cup Due
            /\ due' = order /\ UNCHANGED <<manual, later>>
  <2> DEFINE k == Head(jobs)
  <2>1. /\ k \in ToSet(jobs) /\ k \in Keys /\ k \in Jobs
        /\ periodic' \in Seq(Keys) /\ IsInjective(periodic')
        /\ ToSet(periodic') = ToSet(jobs) \ {k}
    BY <1>10, <1>14, <1>15
  <2> HIDE DEF k
  <2>2. RestingInv' /\ InWork' = {k}
    BY <1>1, <1>15, <2>1, AttemptWork DEF k, JobInv
  <2>3. MarksInv'
    BY <1>3, <1>6, <1>7, <1>9, <1>15, <2>1, <2>2 DEF MarksInv
  <2>4. DueInv'
    BY <1>5, <1>8, <1>15 DEF DueInv
  <2>5. CallsInv'
    BY <1>1, <1>10, <1>11, <1>12, <1>15, <2>1, <2>2 DEF JobInv, CallsInv
  <2> QED
    BY <2>2, <2>3, <2>4, <2>5 DEF JobInv
<1>16. CASE /\ manual = <<>> /\ jobs # <<>> /\ Head(jobs) \notin enabled
            /\ periodic' = Tail(jobs)
            /\ queuedPeriodic' = (queuedPeriodic \cup Due) \ {Head(jobs)}
            /\ NextInterval(Head(jobs), order)
            /\ UNCHANGED <<manual, worker>>
  <2> DEFINE k == Head(jobs)
  <2>1. /\ k \in ToSet(jobs) /\ k \in Keys
        /\ periodic' \in Seq(Keys) /\ IsInjective(periodic')
        /\ ToSet(periodic') = ToSet(jobs) \ {k}
        /\ queuedPeriodic' = (queuedPeriodic \cup Due) \ {k}
        /\ NextInterval(k, order)
    BY <1>14, <1>16
  <2> HIDE DEF k
  <2>2. RestingInv' /\ InWork' = {}
    BY <1>2, <1>16, SameWork DEF JobInv
  <2>3. MarksInv'
    BY <1>3, <1>6, <1>7, <1>9, <2>1, <2>2 DEF MarksInv
  <2>4. DueInv'
    <3>1. /\ due' \in Seq(Keys) /\ IsInjective(due') /\ ToSet(due') = ToSet(order) \ {k}
      BY <1>5, <2>1, WithoutLeaves DEF NextInterval
    <3>2. later' = later \cup {k} \/ later' = later
      BY <2>1 DEF NextInterval
    <3> QED
      BY <1>8, <3>1, <3>2 DEF DueInv
  <2>5. CallsInv'
    BY <1>1, <1>2, <1>16, <2>2 DEF JobInv, CallsInv
  <2> QED
    BY <2>2, <2>3, <2>4, <2>5 DEF JobInv
<1> QED
  BY <1>sorted, <1>13, <1>15, <1>16

LEMMA AttemptEndsJobs ==
  ASSUME JobInv, WorkerInv, WorkerTypeOK, NEW w \in Workers, AttemptEnds(w)
  PROVE  JobInv'
<1> DEFINE job == worker[w].job
<1>1. worker[w].pc = "waiting" /\ UNCHANGED <<manual, periodic, enabled>>
  BY DEF AttemptEnds
<1>2. InWork = {job} \cap Jobs
  BY <1>1, OnlyWork DEF JobInv
<1>3. job \in Jobs \/ job = NoJob
  BY DEF WorkerTypeOK, Worker
<1> HIDE DEF job
<1>4. CASE /\ MayRetry(w) /\ UNCHANGED <<queuedPeriodic, due, later, calling>>
           /\ Attempt(w, job, worker[w].epoch, worker[w].attempt + 1)
  <2>1. job \in Jobs
    BY <1>4, ModbusAssumption DEF MayRetry, job
  <2>2. RestingInv' /\ InWork' = InWork
    BY <1>1, <1>2, <1>4, <2>1, AttemptWork DEF JobInv
  <2> QED
    BY <1>1, <1>4, <2>2, SameJobs DEF JobInv, DueInv
<1>5. CASE /\ Start(w) /\ queuedPeriodic' = queuedPeriodic \ {job}
           /\ IF job \in Keys THEN NextInterval(job, due) ELSE UNCHANGED <<due, later>>
           /\ calling' = calling \ {job}
  <2>1. RestingInv' /\ InWork' = {}
    BY <1>1, <1>5, StartWork DEF Start, JobInv
  <2>2. Calls \subseteq Jobs /\ Keys \subseteq Jobs
    BY DEF Jobs
  <2>3. MarksInv'
    BY <1>1, <1>2, <1>5, <2>1, <2>2 DEF JobInv, MarksInv
  <2>4. DueInv'
    <3>1. CASE job \in Keys
      <4>1. due' \in Without(due, {job}) /\ (later' = later \cup {job} \/ later' = later)
        BY <1>5, <3>1 DEF NextInterval
      <4>2. due' \in Seq(Keys) /\ IsInjective(due') /\ ToSet(due') = ToSet(due) \ {job}
        BY <4>1, WithoutLeaves DEF JobInv, DueInv
      <4> QED
        BY <4>1, <4>2 DEF JobInv, DueInv
    <3>2. CASE job \notin Keys
      BY <1>5, <3>2 DEF JobInv, DueInv
    <3> QED
      BY <3>1, <3>2
  <2>5. CallsInv'
    <3>1. ToSet(manual) \subseteq Jobs
      BY <2>2, Listed DEF WorkerTypeOK
    <3>2. job \notin ToSet(manual)
      BY <1>2, <1>3, <3>1, ModbusAssumption DEF JobInv, CallsInv
    <3>3. calling' = ToSet(manual)
      BY <1>2, <1>5, <3>2 DEF JobInv, CallsInv
    <3> QED
      BY <1>1, <2>1, <3>3 DEF JobInv, CallsInv
  <2> QED
    BY <2>1, <2>3, <2>4, <2>5 DEF JobInv
<1> QED
  BY <1>4, <1>5 DEF AttemptEnds, job

LEMMA OtherWorkJobs ==
  ASSUME JobInv, WorkerInv, WorkerTypeOK, NEW w \in Workers,
         Sent(w) \/ Fails(w) \/ WorkerExits(w)
  PROVE  JobInv'
<1>0. worker \in [Workers -> Worker]
  BY DEF WorkerTypeOK
<1>1. UNCHANGED <<calling, schedule>>
  BY DEF Sent, Fails, WorkerExits
<1>2. RestingInv' /\ InWork' = InWork
  <2>1. CASE Sent(w)
    <3>1. \A v \in Workers : worker'[v].job = worker[v].job
             /\ (worker'[v].pc \in {"idle", "loop"} => worker[v].pc \in {"idle", "loop"})
      BY <1>0, <2>1 DEF Sent, Worker
    <3> QED
      BY <3>1, SameWork DEF JobInv
  <2>2. CASE Fails(w)
    <3> DEFINE given == [worker EXCEPT ![w].pc = "waiting"]
    <3>1. given \in [Workers -> Worker]
          /\ \A v \in Workers : given[v].job = worker[v].job
                /\ given[v].pc = IF v = w THEN "waiting" ELSE worker[v].pc
      BY <1>0 DEF Worker
    <3>2. worker' = [given EXCEPT ![w].result = "error"]
      BY <2>2 DEF Fails, WorkerTypeOK
    <3> HIDE DEF given
    <3>3. \A v \in Workers : worker'[v].job = worker[v].job
             /\ (worker'[v].pc \in {"idle", "loop"} => worker[v].pc \in {"idle", "loop"})
      BY <3>1, <3>2 DEF Worker
    <3> QED
      BY <3>3, SameWork DEF JobInv
  <2>3. CASE WorkerExits(w)
    <3>1. worker[w].pc = "loop" /\ worker[w].job = NoJob
          /\ worker' = [worker EXCEPT ![w] = Resting("idle")]
      BY <2>3 DEF WorkerExits, JobInv, RestingInv
    <3>2. RestingInv' /\ InWork' = {}
      BY <3>1, StartWork DEF JobInv
    <3>3. InWork = {}
      BY <3>1, OnlyWork, ModbusAssumption DEF JobInv
    <3> QED
      BY <3>2, <3>3
  <2> QED
    BY <2>1, <2>2, <2>3
<1> QED
  BY <1>1, <1>2, SameJobs DEF schedule, JobInv, DueInv

LEMMA JobInvKept ==
  ASSUME JobInv, WorkerInv, WorkerTypeOK, [Next]_vars
  PROVE  JobInv'
<1>1. CASE User
  BY <1>1, UserJobs
<1>2. CASE Answer
  <2>1. (\E result : worker' = Completed(result)) \/ worker' = worker
    BY <1>2 DEF Answer
  <2>2. RestingInv' /\ InWork' = InWork
    BY <2>1, CompletedWork, EnsureWorkerWork DEF JobInv
  <2> QED
    BY <1>2, <2>2, SameJobs DEF Answer, schedule, JobInv, DueInv
<1>3. ASSUME NEW w \in Workers, Work(w)
      PROVE  JobInv'
  BY <1>3, TakeJobJobs, AttemptEndsJobs, OtherWorkJobs DEF Work
<1>4. ASSUME NEW k \in Keys, IntervalEnds(k)
      PROVE  JobInv'
  <2>1. RestingInv' /\ InWork' = InWork
    BY <1>4, EnsureWorkerWork DEF IntervalEnds, JobInv
  <2>2. k \notin ToSet(due)
    BY <1>4 DEF IntervalEnds, JobInv, DueInv
  <2>3. due' \in Seq(Keys) /\ IsInjective(due') /\ ToSet(due') = ToSet(due) \cup {k}
    BY <1>4, <2>2, Appended DEF IntervalEnds, JobInv, DueInv
  <2>4. DueInv'
    BY <1>4, <2>3 DEF IntervalEnds, JobInv, DueInv
  <2> QED
    BY <1>4, <2>1, <2>4, SameJobs DEF IntervalEnds
<1>5. CASE UNCHANGED vars
  <2>1. RestingInv' /\ InWork' = InWork
    BY <1>5, EnsureWorkerWork DEF vars, JobInv
  <2> QED
    BY <1>5, <2>1, SameJobs DEF vars, schedule, JobInv, DueInv
<1> QED
  BY <1>1, <1>2, <1>3, <1>4, <1>5 DEF Next

LEMMA JobInvInit == Init => JobInv
<1> SUFFICES ASSUME Init
             PROVE  JobInv
  OBVIOUS
<1>1. ToSet(<<>>) = {} /\ IsInjective(<<>>) /\ <<>> \in Seq(Keys)
  BY DEF ToSet, IsInjective
<1>2. \A w \in Workers : worker[w].job = NoJob
  BY DEF Init, Resting
<1>3. InWork = {}
  BY <1>2, ModbusAssumption DEF InWork
<1> QED
  BY <1>1, <1>2, <1>3 DEF Init, JobInv, RestingInv, MarksInv, DueInv, CallsInv

\* No row and no call is queued or served twice and none is forgotten, whatever
\* is stopped, started, switched or lost while a request is in flight.
THEOREM AlwaysEachJobOnce == Spec => []EachJobOnce
<1>1. JobInv /\ WorkerInv /\ WorkerTypeOK /\ [Next]_vars => JobInv'
  BY JobInvKept
<1>2. JobInv /\ WorkerTypeOK => EachJobOnce
  BY JobInvImplies
<1> QED
  BY <1>1, <1>2, JobInvInit, WorkerInvHolds, WorkersTypeCorrect, PTL DEF Spec

-------------------------------------------------------------------------------
(* Every variable *)

\* What TypeOK says besides WorkerTypeOK, AnswerInv and JobInv.
Flags == connected \in BOOLEAN /\ sessionActive \in BOOLEAN /\ workerRunning \in BOOLEAN
Others == later \subseteq Keys /\ pending \in Workers \cup {NoWorker} /\ requests \in Nat
PlainTypes == Flags /\ Others

LEMMA UserFlags ==
  ASSUME Flags, User
  PROVE  Flags'
<1>1. CASE StartSession
  BY <1>1, Zenon DEF StartSession, EnsureWorker, Flags
<1>2. CASE StopSession
  BY <1>2, Zenon DEF StopSession, Halt, Flags
<1>3. CASE SetMode
  BY <1>3, Zenon DEF SetMode, Halt, Flags
<1>4. CASE LinkChanges
  BY <1>4, Zenon DEF LinkChanges, Halt, Flags
<1>5. ASSUME NEW c \in Calls, Execute(c) PROVE Flags'
  BY <1>5, Zenon DEF Execute, EnsureWorker, session, Flags
<1>6. ASSUME NEW k \in Keys, Enable(k) \/ Disable(k) PROVE Flags'
  BY <1>6, Zenon DEF Enable, Disable, EnsureWorker, session, Flags
<1> QED
  BY <1>1, <1>2, <1>3, <1>4, <1>5, <1>6 DEF User

LEMMA UserOthers ==
  ASSUME Others, User
  PROVE  Others'
<1>1. CASE StartSession
  BY <1>1 DEF StartSession, Request, Others
<1>2. CASE StopSession \/ SetMode
  BY <1>2 DEF StopSession, SetMode, Request, Halt, Others
<1>3. CASE LinkChanges
  BY <1>3 DEF LinkChanges, Request, Halt, schedule, Others
<1>4. ASSUME NEW c \in Calls, Execute(c) PROVE Others'
  BY <1>4 DEF Execute, Request, Others
<1>5. ASSUME NEW k \in Keys, Enable(k) \/ Disable(k) PROVE Others'
  BY <1>5 DEF Enable, Disable, Request, Others
<1> QED
  BY <1>1, <1>2, <1>3, <1>4, <1>5 DEF User

LEMMA WorkPlain ==
  ASSUME PlainTypes, JobInv, WorkerTypeOK, NEW w \in Workers, Work(w)
  PROVE  PlainTypes'
<1>1. ASSUME NEW k, NEW order, NextInterval(k, order), k \in Keys PROVE later' \subseteq Keys
  BY <1>1 DEF NextInterval, PlainTypes, Others
<1>2. CASE TakeJob(w)
  <2>1. /\ UNCHANGED <<connected, sessionActive, workerRunning, requests>>
        /\ pending' \in Workers \cup {NoWorker}
    BY <1>2 DEF TakeJob, session, Attempt, PlainTypes, Others
  <2>2. later' \subseteq Keys
    <3> DEFINE Later(jobs, order) ==
                 \/ UNCHANGED later
                 \/ jobs # <<>> /\ NextInterval(Head(jobs), order)
    <3>0. \E new \in SetToSeqs(Due \ ToSet(due)) : \E jobs \in Queued(due \o new) :
             Later(jobs, due \o new)
      BY <1>2 DEF TakeJob
    <3>1. PICK order : \E jobs \in Queued(order) : Later(jobs, order)
      BY <3>0
    <3>2. PICK jobs \in Queued(order) : Later(jobs, order)
      BY <3>1
    <3>3. jobs \in Seq(Keys)
      <4>1. ToSet(periodic) \cap Due = {}
        BY DEF JobInv, MarksInv, Due
      <4> QED  BY <4>1, QueuedLists DEF WorkerTypeOK, JobInv, MarksInv
    <3>4. jobs # <<>> => Head(jobs) \in Keys
      BY <3>3
    <3> QED  BY <1>1, <3>2, <3>4 DEF PlainTypes, Others
  <2> QED  BY <2>1, <2>2 DEF PlainTypes, Flags, Others
<1>3. CASE AttemptEnds(w)
  <2>1. later' \subseteq Keys
    BY <1>1, <1>3 DEF AttemptEnds, PlainTypes, Others
  <2> QED  BY <1>3, <2>1 DEF AttemptEnds, Attempt, session, PlainTypes, Flags, Others
<1>4. CASE Sent(w) \/ Fails(w) \/ WorkerExits(w)
  BY <1>4 DEF Sent, Fails, WorkerExits, session, schedule, PlainTypes, Flags, Others
<1> QED
  BY <1>2, <1>3, <1>4 DEF Work

\* Every variable keeps its type, also the queues that are sorted and filtered.
THEOREM ModbusTypeCorrect == Spec => []TypeOK
<1>1. Init => PlainTypes
  <2>1. Init => Flags
    BY Zenon DEF Init, Flags
  <2>2. Init => Others
    BY DEF Init, Others
  <2> QED  BY <2>1, <2>2 DEF PlainTypes, Flags, Others
<1>2. PlainTypes /\ JobInv /\ WorkerTypeOK /\ [Next]_vars => PlainTypes'
  <2> SUFFICES ASSUME PlainTypes, JobInv, WorkerTypeOK, [Next]_vars
               PROVE  PlainTypes'
    OBVIOUS
  <2>1. CASE User
    BY <2>1, UserFlags, UserOthers DEF PlainTypes
  <2>2. CASE \E w \in Workers : Work(w)
    BY <2>2, WorkPlain
  <2>3. CASE Answer
    BY <2>3 DEF Answer, session, schedule, PlainTypes, Flags, Others
  <2>4. CASE \E k \in Keys : IntervalEnds(k)
    BY <2>4 DEF IntervalEnds, session, PlainTypes, Flags, Others
  <2>5. CASE UNCHANGED vars
    BY <2>5 DEF vars, session, schedule, PlainTypes, Flags, Others
  <2> QED
    BY <2>1, <2>2, <2>3, <2>4, <2>5 DEF Next
<1>3. PlainTypes /\ JobInv /\ AnswerInv /\ WorkerTypeOK => TypeOK
  <2> SUFFICES ASSUME PlainTypes, JobInv, AnswerInv, WorkerTypeOK
               PROVE  TypeOK
    OBVIOUS
  <2>1. calling \subseteq Calls
    BY Listed DEF CallsInv, JobInv, WorkerTypeOK
  <2>2. wire \in Seq([tid : Nat, shape : Nat, own : BOOLEAN])
    <3> DEFINE AnyFrame == [tid : Nat, shape : Nat, own : BOOLEAN]
    <3>1. wire \in Seq(Frame)
      BY DEF AnswerInv, WireInv
    <3>2. Frame \subseteq AnyFrame
      BY ModbusAssumption DEF Frame
    <3> HIDE DEF AnyFrame
    <3>3. wire \in Seq(AnyFrame)
      BY <3>1, <3>2
    <3> QED  BY <3>3 DEF AnyFrame
  <2> QED
    BY <2>1, <2>2 DEF TypeOK, PlainTypes, Flags, Others, WorkerTypeOK, JobInv, MarksInv, DueInv
<1> QED
  BY <1>1, <1>2, <1>3, JobInvKept, JobInvInit, AnswerInvKept, AnswerInvInit, WorkerInvHolds,
     WorkersTypeCorrect, PTL DEF Spec
===============================================================================
