------------------------- MODULE ProbeConnectionProofs -------------------------
(***************************************************************************)
(* Proofs about ProbeConnection for any number of concurrent calls,        *)
(* backends and requests.                                                  *)
(***************************************************************************)
EXTENDS ProbeConnection, TLAPS

(***************************************************************************)
(* TypeOK is not inductive: a call could start the process of the null     *)
(* backend.  A call that is about to start one, or waits for it, captured  *)
(* a backend that exists.                                                  *)
(***************************************************************************)
Starting == {"restart", "prepare", "starting"}

GoodCalls(f) == \A c \in Calls : f[c].pc \in Starting => f[c].backend \in Backends

Inv == TypeOK /\ GoodCalls(call)

\* What a step does to the calls keeps their type.
LEMMA LoseProcessType ==
  ASSUME NEW b, NEW f \in [Calls -> Call]
  PROVE  LoseProcess(b, f) \in [Calls -> Call]
BY DEF LoseProcess, Call

LEMMA StopBackendType ==
  ASSUME TypeOK, NEW b, NEW f \in [Calls -> Call], StopBackend(b, f)
  PROVE  /\ process' \subseteq Backends /\ connected' \subseteq Backends
         /\ orphans' \in Nat /\ call' \in [Calls -> Call]
BY LoseProcessType DEF StopBackend, TypeOK

LEMMA IdleType == Idle \in Call
BY DEF Idle, Call

LEMMA UnbindType ==
  ASSUME TypeOK, NEW c \in Calls,
         NEW k \in {"connect", "disconnect", "stop", "start", "unexpected"},
         Unbind(c, k)
  PROVE  /\ process' \subseteq Backends /\ connected' \subseteq Backends
         /\ orphans' \in Nat /\ call' \in [Calls -> Call]
         /\ connectionMonitor' \in BOOLEAN
         /\ activeBackend' \in Backends \cup {NoBackend}
         /\ activityOwner' \in ProbeActivity \cup {"none"}
         /\ owner' \in OwnerState
         /\ state' \in {"disconnected", "connecting", "connected", "reconnecting"}
<1>1. CASE activeBackend = NoBackend
  <2>1. owner' \in OwnerState /\ state' = "disconnected"
    BY <1>1 DEF Unbind, ReportDisconnected, Released, OwnerState, TypeOK
  <2> QED
    BY <1>1, <2>1, IdleType DEF Unbind, TypeOK, backend
<1>2. CASE activeBackend # NoBackend
  <2> DEFINE r == [pc |-> "unbind", kind |-> k, gen |-> 0,
                   backend |-> activeBackend]
  <2>1. r \in Call
    BY DEF Call, TypeOK
  <2>2. [call EXCEPT ![c] = r] \in [Calls -> Call]
    BY <2>1 DEF TypeOK
  <2>3. StopBackend(activeBackend, [call EXCEPT ![c] = r])
    BY <1>2 DEF Unbind
  <2> HIDE DEF r
  <2> QED
    BY <1>2, <2>2, <2>3, StopBackendType DEF Unbind, TypeOK
<1> QED
  BY <1>1, <1>2

LEMMA AbortType ==
  ASSUME TypeOK, NEW c \in Calls, Abort(c)
  PROVE  TypeOK'
<1>1. call[c].kind \in {"connect", "disconnect", "stop", "start", "unexpected"}
  BY DEF TypeOK, Call
<1> QED
  BY <1>1, UnbindType DEF Abort, TypeOK

LEMMA TypeStep == Inv /\ [Next]_vars => TypeOK'
<1> SUFFICES ASSUME TypeOK, GoodCalls(call), [Next]_vars PROVE TypeOK'
  BY DEF Inv
<1>1. ASSUME NEW c \in Calls, UserRequest(c) PROVE TypeOK'
  <2>1. CASE Connect(c)
    <3>1. overtaken' \in BOOLEAN
      BY <2>1, Zenon DEF Connect
    <3>2. call' \in [Calls -> Call]
      BY <2>1 DEF Connect, TypeOK, Call
    <3>3. /\ owner' = "probe" /\ state' = "connecting"
          /\ handlingUnexpectedDisconnect' = FALSE
          /\ connectionGeneration' = connectionGeneration + 1
          /\ requests' = requests + 1
          /\ UNCHANGED <<activeBackend, activityOwner, connectionMonitor,
                         process, connected, orphans>>
      BY <2>1 DEF Connect, Request, Invalidate, backend
    <3>4. /\ owner' \in OwnerState /\ requests' \in Nat
          /\ connectionGeneration' \in Nat /\ orphans' \in Nat
          /\ process' \subseteq Backends /\ connected' \subseteq Backends
          /\ activeBackend' \in Backends \cup {NoBackend}
          /\ activityOwner' \in ProbeActivity \cup {"none"}
          /\ connectionMonitor' \in BOOLEAN
      BY <3>3 DEF TypeOK, OwnerState, Owner
    <3> QED
      BY <3>1, <3>2, <3>3, <3>4, Zenon DEF TypeOK
  <2>2. CASE Disconnect(c)
    <3> DEFINE r == [pc |-> "stop", kind |-> "disconnect", gen |-> 0,
                     backend |-> activeBackend]
    <3>1. overtaken' \in BOOLEAN
      BY <2>2, Zenon DEF Disconnect
    <3>2. CASE Unbind(c, "disconnect")
      BY <2>2, <3>1, <3>2, UnbindType DEF Disconnect, Request, Invalidate, TypeOK
    <3>3. CASE /\ call' = [call EXCEPT ![c] = r]
               /\ UNCHANGED <<connectionMonitor, activeBackend, activityOwner,
                              state, owner, backend>>
      <4>1. call' \in [Calls -> Call]
        BY <3>3 DEF TypeOK, Call
      <4> QED
        BY <2>2, <3>1, <3>3, <4>1 DEF Disconnect, Request, Invalidate, backend, TypeOK
    <3> QED
      BY <2>2, <3>2, <3>3 DEF Disconnect
  <2>3. CASE StopActivity(c)
    <3>1. \A at \in {"restart", "stop"} :
             [call EXCEPT ![c] = [pc |-> at, kind |-> "stop", gen |-> 0,
                                  backend |-> activeBackend]] \in [Calls -> Call]
      BY DEF TypeOK, Call
    <3>2. overtaken' \in BOOLEAN
      BY <2>3, Zenon DEF StopActivity
    <3> DEFINE f(at) == [call EXCEPT ![c] = [pc |-> at, kind |-> "stop",
                                   gen |-> 0, backend |-> activeBackend]]
    <3>3. CASE activeBackend = NoBackend
      BY <2>3, <3>2, <3>3, BackendsAssumption
         DEF StopActivity, Request, backend, TypeOK
    <3>4. CASE activeBackend \in JLink
      <4>1. StopBackend(activeBackend, f("restart"))
        BY <2>3, <3>4, BackendsAssumption DEF StopActivity
      <4>2. f("restart") \in [Calls -> Call]
        BY <3>1
      <4>3. /\ connectionMonitor' = FALSE /\ state' = "reconnecting"
            /\ requests' = requests + 1
            /\ UNCHANGED <<activityOwner, connectionGeneration, activeBackend,
                           owner, handlingUnexpectedDisconnect>>
        BY <2>3, <3>4, BackendsAssumption DEF StopActivity, Request
      <4> HIDE DEF f
      <4>4. /\ process' \subseteq Backends /\ connected' \subseteq Backends
            /\ orphans' \in Nat /\ call' \in [Calls -> Call]
        BY <4>1, <4>2, StopBackendType
      <4>5. requests' \in Nat
        BY <4>3 DEF TypeOK
      <4> QED
        BY <3>2, <4>3, <4>4, <4>5, Zenon DEF TypeOK
    <3>5. CASE activeBackend \in Backends \ JLink
      BY <2>3, <3>1, <3>2, <3>5, BackendsAssumption
         DEF StopActivity, Request, backend, TypeOK
    <3> QED
      BY <3>3, <3>4, <3>5 DEF TypeOK
  <2>4. ASSUME NEW a \in ProbeActivity, StartActivity(c, a) PROVE TypeOK'
    BY <2>4 DEF StartActivity, Request, backend, TypeOK, Call, ProbeActivity
  <2> QED
    BY <1>1, <2>1, <2>2, <2>3, <2>4 DEF UserRequest
<1>2. ASSUME NEW c \in Calls, Continue(c) PROVE TypeOK'
  <2> USE IdleType
  <2>1. CASE ResolveBackend(c)
    <3>1. CASE Abort(c)
      BY <3>1, AbortType
    <3>2. ASSUME NEW b \in Backends,
                 activeBackend' = b, activityOwner' = "none",
                 StopBackend(b, [call EXCEPT ![c].pc = "prepare",
                                             ![c].backend = b]),
                 UNCHANGED <<state, connectionGeneration, connectionMonitor,
                             owner, handlingUnexpectedDisconnect, requests,
                             overtaken>>
          PROVE  TypeOK'
      <4>1. [call EXCEPT ![c].pc = "prepare", ![c].backend = b] \in [Calls -> Call]
        BY DEF TypeOK, Call
      <4> QED
        BY <3>2, <4>1, StopBackendType DEF TypeOK
    <3> QED
      BY <2>1, <3>1, <3>2 DEF ResolveBackend
  <2>2. CASE RestartJLink(c) \/ StartFails(c)
    <3>1. \A at \in {"prepare", "failed"} : [call EXCEPT ![c].pc = at] \in [Calls -> Call]
      BY DEF TypeOK, Call
    <3> QED
      BY <2>2, <3>1, StopBackendType DEF RestartJLink, StartFails, service, TypeOK
  <2>3. CASE StartProcess(c)
    <3>1. CASE Abort(c)
      BY <3>1, AbortType
    <3>2. CASE ~Abort(c)
      <4>1. LoseProcess(call[c].backend, call) \in [Calls -> Call]
        BY LoseProcessType DEF TypeOK
      <4>2. call[c].backend \in Backends
        BY <2>3 DEF StartProcess, GoodCalls, Starting
      <4>3. [LoseProcess(call[c].backend, call) EXCEPT ![c].pc = "starting"]
               \in [Calls -> Call]
        BY <4>1 DEF Call
      <4> QED
        BY <2>3, <3>2, <4>2, <4>3 DEF StartProcess, service, TypeOK
    <3> QED
      BY <3>1, <3>2
  <2>4. CASE Started(c)
    <3>1. call[c].backend \in Backends
      BY <2>4 DEF Started, GoodCalls, Starting
    <3>2. CASE StopBackend(call[c].backend, [call EXCEPT ![c].pc = "discard"])
      <4>1. [call EXCEPT ![c].pc = "discard"] \in [Calls -> Call]
        BY DEF TypeOK, Call
      <4>2. state' \in {"connected", state} /\ connectionMonitor' \in BOOLEAN
            /\ activityOwner' \in ProbeActivity \cup {"none"}
        BY <2>4 DEF Started, StartConnectionMonitor, TypeOK
      <4> QED
        BY <2>4, <3>2, <4>1, <4>2, StopBackendType DEF Started, TypeOK
    <3>3. CASE ~StopBackend(call[c].backend, [call EXCEPT ![c].pc = "discard"])
      BY <2>4, <3>1, <3>3 DEF Started, StartConnectionMonitor, TypeOK
    <3> QED
      BY <3>2, <3>3
  <2>5. CASE GiveUp(c)
    BY <2>5, AbortType DEF GiveUp
  <2>6. CASE UnbindDone(c)
    BY <2>6 DEF UnbindDone, ReportDisconnected, Released, OwnerState, backend, TypeOK
  <2>7. CASE StopDone(c)
    <3>1. CASE Unbind(c, "disconnect")
      BY <2>7, <3>1, UnbindType DEF StopDone, TypeOK
    <3>2. CASE ~Unbind(c, "disconnect")
      BY <2>7, <3>2 DEF StopDone, backend, TypeOK
    <3> QED
      BY <3>1, <3>2
  <2>8. CASE StopFails(c)
    <3>1. [call EXCEPT ![c] = Idle] \in [Calls -> Call]
      BY DEF TypeOK
    <3> QED
      BY <2>8, <3>1, StopBackendType DEF StopFails, service, backend, TypeOK
  <2>9. CASE ConfigureDone(c) \/ BeginDone(c)
    BY <2>9 DEF ConfigureDone, BeginDone, backend, TypeOK, Call, ProbeActivity
  <2> QED
    BY <1>2, <2>1, <2>2, <2>3, <2>4, <2>5, <2>6, <2>7, <2>8, <2>9 DEF Continue
<1>3. ASSUME NEW c \in Calls, UnexpectedDisconnect(c) PROVE TypeOK'
  BY <1>3, UnbindType DEF UnexpectedDisconnect, TypeOK
<1>4. ASSUME NEW b \in Backends, ProcessExits(b) PROVE TypeOK'
  BY <1>4, StopBackendType DEF ProcessExits, Request, service, TypeOK
<1>5. ASSUME NEW o \in Owner, OtherAcquire(o) \/ OtherRelease(o) PROVE TypeOK'
  BY <1>5 DEF OtherAcquire, OtherRelease, Released, OwnerState, backend, TypeOK
<1>6. CASE UNCHANGED vars
  BY <1>6 DEF vars, service, backend, TypeOK
<1> QED
  BY <1>1, <1>2, <1>3, <1>4, <1>5, <1>6 DEF Next, Watch, Diagnose

LEMMA LoseProcessGood ==
  ASSUME NEW b, NEW f \in [Calls -> Call], GoodCalls(f)
  PROVE  GoodCalls(LoseProcess(b, f))
BY DEF GoodCalls, LoseProcess, Starting, Call

LEMMA UnbindGood ==
  ASSUME TypeOK, GoodCalls(call), NEW c \in Calls,
         NEW k \in {"connect", "disconnect", "stop", "start", "unexpected"},
         Unbind(c, k)
  PROVE  GoodCalls(call')
<1>1. CASE activeBackend = NoBackend
  BY <1>1 DEF Unbind, Idle, GoodCalls, Starting, TypeOK
<1>2. CASE activeBackend # NoBackend
  <2> DEFINE f == [call EXCEPT ![c] = [pc |-> "unbind", kind |-> k, gen |-> 0,
                                       backend |-> activeBackend]]
  <2>1. f \in [Calls -> Call]
    BY DEF TypeOK, Call
  <2>2. GoodCalls(f)
    BY DEF GoodCalls, Starting, TypeOK
  <2>3. call' = LoseProcess(activeBackend, f)
    BY <1>2 DEF Unbind, StopBackend
  <2> QED
    BY <2>1, <2>2, <2>3, LoseProcessGood
<1> QED
  BY <1>1, <1>2

LEMMA AbortGood ==
  ASSUME TypeOK, GoodCalls(call), NEW c \in Calls, Abort(c)
  PROVE  GoodCalls(call')
BY UnbindGood DEF Abort, TypeOK, Call

LEMMA GoodStep == Inv /\ [Next]_vars => GoodCalls(call')
<1> SUFFICES ASSUME TypeOK, GoodCalls(call), [Next]_vars PROVE GoodCalls(call')
  BY DEF Inv
<1> USE DEF Starting
<1>1. ASSUME NEW c \in Calls, UserRequest(c) PROVE GoodCalls(call')
  <2>1. CASE Connect(c)
    BY <2>1 DEF Connect, GoodCalls, TypeOK
  <2>2. CASE Disconnect(c)
    <3>1. CASE Unbind(c, "disconnect")
      BY <3>1, UnbindGood
    <3>2. CASE ~Unbind(c, "disconnect")
      BY <2>2, <3>2 DEF Disconnect, GoodCalls, TypeOK
    <3> QED
      BY <3>1, <3>2
  <2>3. CASE StopActivity(c)
    <3>1. CASE activeBackend \in JLink
      <4> DEFINE f == [call EXCEPT ![c] = [pc |-> "restart", kind |-> "stop",
                                     gen |-> 0, backend |-> activeBackend]]
      <4>1. f \in [Calls -> Call]
        BY DEF TypeOK, Call
      <4>2. GoodCalls(f)
        BY <3>1, BackendsAssumption DEF GoodCalls, TypeOK
      <4>3. call' = LoseProcess(activeBackend, f)
        BY <2>3, <3>1, BackendsAssumption DEF StopActivity, StopBackend
      <4> QED
        BY <4>1, <4>2, <4>3, LoseProcessGood
    <3>2. CASE activeBackend \notin JLink
      BY <2>3, <3>2, BackendsAssumption DEF StopActivity, GoodCalls, TypeOK
    <3> QED
      BY <3>1, <3>2
  <2>4. ASSUME NEW a \in ProbeActivity, StartActivity(c, a) PROVE GoodCalls(call')
    BY <2>4 DEF StartActivity, GoodCalls, TypeOK
  <2> QED
    BY <1>1, <2>1, <2>2, <2>3, <2>4 DEF UserRequest
<1>2. ASSUME NEW c \in Calls, Continue(c) PROVE GoodCalls(call')
  <2>1. CASE Abort(c)
    BY <2>1, AbortGood
  <2>2. CASE ResolveBackend(c) /\ ~Abort(c)
    <3>1. PICK b \in Backends :
             StopBackend(b, [call EXCEPT ![c].pc = "prepare", ![c].backend = b])
      BY <2>2 DEF ResolveBackend
    <3>2. [call EXCEPT ![c].pc = "prepare", ![c].backend = b] \in [Calls -> Call]
      BY DEF TypeOK, Call
    <3>3. GoodCalls([call EXCEPT ![c].pc = "prepare", ![c].backend = b])
      BY DEF GoodCalls, TypeOK, Call
    <3> QED
      BY <3>1, <3>2, <3>3, LoseProcessGood DEF StopBackend
  <2>3. CASE RestartJLink(c) \/ StartFails(c) \/ (Started(c) /\ call'[c].pc = "discard")
    <3>1. \A at \in {"prepare", "failed", "discard"} :
             [call EXCEPT ![c].pc = at] \in [Calls -> Call]
      BY DEF TypeOK, Call
    <3>2. /\ GoodCalls([call EXCEPT ![c].pc = "failed"])
          /\ GoodCalls([call EXCEPT ![c].pc = "discard"])
      BY DEF GoodCalls, TypeOK, Call
    <3>3. CASE RestartJLink(c)
      <4>1. GoodCalls([call EXCEPT ![c].pc = "prepare"])
        BY <3>3 DEF RestartJLink, GoodCalls, TypeOK, Call
      <4> QED
        BY <3>1, <3>3, <4>1, LoseProcessGood DEF RestartJLink, StopBackend
    <3>4. CASE StartFails(c)
      BY <3>1, <3>2, <3>4, LoseProcessGood DEF StartFails, StopBackend
    <3>5. CASE Started(c) /\ call'[c].pc = "discard"
      <4>1. call' # [call EXCEPT ![c] = Idle]
        BY <3>5 DEF Idle, TypeOK
      <4>2. StopBackend(call[c].backend, [call EXCEPT ![c].pc = "discard"])
        BY <3>5, <4>1 DEF Started
      <4> QED
        BY <3>1, <3>2, <4>2, LoseProcessGood DEF StopBackend
    <3> QED
      BY <2>3, <3>3, <3>4, <3>5
  <2>4. CASE StartProcess(c) /\ ~Abort(c)
    <3>1. GoodCalls(LoseProcess(call[c].backend, call))
      BY LoseProcessGood DEF TypeOK
    <3>2. call' = [LoseProcess(call[c].backend, call) EXCEPT ![c].pc = "starting"]
      BY <2>4 DEF StartProcess
    <3>3. LoseProcess(call[c].backend, call)[c].backend = call[c].backend
      BY DEF LoseProcess, TypeOK, Call
    <3>4. call[c].backend \in Backends
      BY <2>4 DEF StartProcess, GoodCalls
    <3>5. LoseProcess(call[c].backend, call) \in [Calls -> Call]
      BY LoseProcessType DEF TypeOK
    <3> HIDE DEF Starting
    <3> QED
      BY <3>1, <3>2, <3>3, <3>4, <3>5 DEF GoodCalls, Call
  <2>5. CASE call' = [call EXCEPT ![c] = Idle] \/ UNCHANGED call
    BY <2>5 DEF GoodCalls, TypeOK, Idle
  <2>6. CASE StopDone(c)
    BY <2>5, <2>6, UnbindGood DEF StopDone
  <2>7. CASE StopFails(c)
    <3>1. [call EXCEPT ![c] = Idle] \in [Calls -> Call]
      BY IdleType DEF TypeOK
    <3>2. GoodCalls([call EXCEPT ![c] = Idle])
      BY DEF GoodCalls, TypeOK, Idle
    <3>3. CASE StopBackend(call[c].backend, [call EXCEPT ![c] = Idle])
      BY <3>1, <3>2, <3>3, LoseProcessGood DEF StopBackend
    <3> QED
      BY <2>5, <2>7, <3>3 DEF StopFails
  <2>8. CASE ConfigureDone(c)
    BY <2>8 DEF ConfigureDone, GoodCalls, TypeOK, Call, Idle
  <2>9. CASE Started(c) /\ call'[c].pc # "discard"
    <3>1. CASE call' = [call EXCEPT ![c] = Idle]
      BY <2>5, <3>1
    <3>2. CASE StopBackend(call[c].backend, [call EXCEPT ![c].pc = "discard"])
      BY <2>9, <3>2 DEF StopBackend, LoseProcess, TypeOK, Call
    <3> QED
      BY <2>9, <3>1, <3>2 DEF Started
  <2> QED
    BY <1>2, <2>1, <2>2, <2>3, <2>4, <2>5, <2>6, <2>7, <2>8, <2>9
       DEF Continue, GiveUp, UnbindDone, BeginDone
<1>3. ASSUME NEW c \in Calls, UnexpectedDisconnect(c) PROVE GoodCalls(call')
  BY <1>3, UnbindGood DEF UnexpectedDisconnect
<1>4. ASSUME NEW b \in Backends, ProcessExits(b) PROVE GoodCalls(call')
  BY <1>4, LoseProcessGood DEF ProcessExits, StopBackend, TypeOK
<1>5. ASSUME NEW o \in Owner, OtherAcquire(o) \/ OtherRelease(o)
      PROVE  GoodCalls(call')
  BY <1>5 DEF OtherAcquire, OtherRelease
<1>6. CASE UNCHANGED vars
  BY <1>6 DEF vars
<1> QED
  BY <1>1, <1>2, <1>3, <1>4, <1>5, <1>6 DEF Next, Watch, Diagnose

LEMMA TypesStart == Init => Inv
<1> SUFFICES ASSUME Init PROVE Inv
  OBVIOUS
<1>1. call \in [Calls -> Call] /\ GoodCalls(call)
  BY IdleType DEF Init, GoodCalls, Starting, Idle
<1> QED
  BY <1>1, BackendsAssumption DEF Init, Inv, TypeOK, OwnerState

LEMMA TypesStep == Inv /\ [Next]_vars => Inv'
<1> SUFFICES ASSUME Inv, [Next]_vars PROVE TypeOK' /\ GoodCalls(call)'
  BY DEF Inv
<1>1. GoodCalls(call)' <=> GoodCalls(call')
  BY DEF GoodCalls
<1> QED
  BY <1>1, TypeStep, GoodStep

\* Every variable of the probe connection keeps its type, whatever calls are
\* suspended at the same time.
THEOREM ProbeTypeCorrect == Spec => []TypeOK
<1>1. Inv => TypeOK
  BY DEF Inv
<1> QED
  BY <1>1, TypesStart, TypesStep, PTL DEF Spec

-------------------------------------------------------------------------------
(* EntryNotLeaked is inductive by itself: the state becomes "disconnected"   *)
(* only in ReportDisconnected, which also gives the entry back, and the      *)
(* entry is taken only together with the state "connecting".                 *)

LEMMA ReportKeepsEntry ==
  ASSUME ReportDisconnected
  PROVE  EntryNotLeaked'
BY DEF ReportDisconnected, Released, EntryNotLeaked

LEMMA UnbindKeepsEntry ==
  ASSUME EntryNotLeaked, NEW c, NEW k, Unbind(c, k)
  PROVE  EntryNotLeaked'
BY ReportKeepsEntry DEF Unbind, EntryNotLeaked

LEMMA EntryStep == EntryNotLeaked /\ [Next]_vars => EntryNotLeaked'
<1> SUFFICES ASSUME EntryNotLeaked, [Next]_vars PROVE EntryNotLeaked'
  OBVIOUS
<1> USE DEF EntryNotLeaked
<1>1. ASSUME NEW c \in Calls, UserRequest(c) PROVE EntryNotLeaked'
  <2>1. CASE Connect(c)
    BY <2>1 DEF Connect
  <2>2. CASE Disconnect(c)
    BY <2>2, UnbindKeepsEntry DEF Disconnect
  <2>3. CASE StopActivity(c)
    BY <2>3 DEF StopActivity
  <2>4. ASSUME NEW a \in ProbeActivity, StartActivity(c, a) PROVE EntryNotLeaked'
    BY <2>4 DEF StartActivity
  <2> QED
    BY <1>1, <2>1, <2>2, <2>3, <2>4 DEF UserRequest
<1>2. ASSUME NEW c \in Calls, Continue(c) PROVE EntryNotLeaked'
  <2>1. CASE ResolveBackend(c) \/ StartProcess(c) \/ GiveUp(c)
    BY <2>1, UnbindKeepsEntry
       DEF ResolveBackend, StartProcess, GiveUp, Abort, service
  <2>2. CASE RestartJLink(c) \/ StartFails(c) \/ StopFails(c)
    BY <2>2 DEF RestartJLink, StartFails, StopFails, service
  <2>3. CASE Started(c)
    BY <2>3 DEF Started
  <2>4. CASE UnbindDone(c)
    BY <2>4, ReportKeepsEntry DEF UnbindDone
  <2>5. CASE StopDone(c)
    BY <2>5, UnbindKeepsEntry DEF StopDone
  <2>6. CASE ConfigureDone(c) \/ BeginDone(c)
    BY <2>6 DEF ConfigureDone, BeginDone
  <2> QED
    BY <1>2, <2>1, <2>2, <2>3, <2>4, <2>5, <2>6 DEF Continue
<1>3. ASSUME NEW c \in Calls, UnexpectedDisconnect(c) PROVE EntryNotLeaked'
  BY <1>3, UnbindKeepsEntry DEF UnexpectedDisconnect
<1>4. ASSUME NEW b \in Backends, ProcessExits(b) PROVE EntryNotLeaked'
  BY <1>4 DEF ProcessExits, service
<1>5. ASSUME NEW o \in Owner, OtherAcquire(o) \/ OtherRelease(o)
      PROVE  EntryNotLeaked'
  BY <1>5 DEF OtherAcquire, OtherRelease, Released
<1>6. CASE UNCHANGED vars
  BY <1>6 DEF vars, service
<1> QED
  BY <1>1, <1>2, <1>3, <1>4, <1>5, <1>6 DEF Next, Watch, Diagnose

\* A probe service that says it is disconnected never holds the entry, so no
\* interleaving of cancellations, failures and losses locks the other services
\* out for good.
THEOREM ProbeEntryNotLeaked == Spec => []EntryNotLeaked
<1>1. Init => EntryNotLeaked
  BY DEF Init, EntryNotLeaked
<1> QED
  BY <1>1, EntryStep, PTL DEF Spec

-------------------------------------------------------------------------------
(***************************************************************************)
(* What is not overtaken.  A connect starts with no call in progress, and   *)
(* nothing ends the session of a J-Link that is being restarted; so all     *)
(* calls in progress are about one backend.  Resolving, Attempt and Restart *)
(* say what a call that will report "connected" may rely on at each of its  *)
(* awaits; Processes who will end each process, Settling who will leave     *)
(* each state.                                                              *)
(***************************************************************************)
Alone(c) == \A d \in Calls \ {c} : ~InProgress(d)

\* c is in backend.connect, or about to give up after it.
Attempting(c) == call[c].pc \in {"prepare", "starting", "lost", "failed", "discard"}

OneBackend ==
    \A c \in Calls :
        /\ call[c].pc \in {"idle", "resolve"} => call[c].backend = NoBackend
        /\ Attempting(c) \/ call[c].pc \in {"restart", "stop", "unbind"} =>
               call[c].backend \in Backends
        /\ call[c].backend # NoBackend => activeBackend \in {NoBackend, call[c].backend}
        /\ \A d \in Calls : NoBackend \notin {call[c].backend, call[d].backend} =>
                                call[c].backend = call[d].backend

Kinds ==
    \A c \in Calls :
        /\ call[c].pc \in {"resolve", "discard"} => call[c].kind = "connect"
        /\ call[c].pc = "restart" => call[c].kind = "stop"
        /\ Attempting(c) => call[c].kind \in {"connect", "stop"}
        /\ call[c].pc = "stop" => call[c].backend \notin JLink
        /\ call[c].kind = "connect" => call[c].gen <= connectionGeneration

Resolving ==
    \A c \in Calls : call[c].pc = "resolve" =>
        /\ Alone(c) /\ activeBackend = NoBackend /\ process = {}
        /\ IF Stale(c) THEN state = "disconnected"
           ELSE state = "connecting" /\ owner = "probe"

Attempt ==
    \A c \in Calls : Attempting(c) /\ call[c].kind = "connect" =>
        IF Stale(c)
        THEN /\ activeBackend = NoBackend /\ state \in {"connecting", "disconnected"}
             /\ \A d \in Calls \ {c} : call[d].pc \in {"idle", "unbind"}
        ELSE /\ activeBackend = call[c].backend /\ state = "connecting"
             /\ Alone(c) /\ activityOwner = "none"

Restart ==
    \A c \in Calls :
        call[c].kind = "stop" /\ (call[c].pc = "restart" \/ Attempting(c)) =>
            /\ activeBackend = call[c].backend /\ activeBackend \in JLink
            /\ state = "reconnecting"
            /\ \A d \in Calls \ {c} : call[d].pc \in {"idle", "configure", "begin"}

\* No process is overwritten, and each has a session or an attempt that ends it.
Processes ==
    /\ orphans = 0
    /\ \A c \in Calls : call[c].pc = "prepare" => call[c].backend \notin process
    /\ \A b \in process :
          \/ b = activeBackend
          \/ \E c \in Calls : call[c].pc = "starting" /\ call[c].backend = b

Settling ==
    /\ (\E c \in Calls : call[c].pc = "unbind") => activeBackend = NoBackend
    /\ state = "disconnected" => activeBackend = NoBackend
    /\ state = "connected" =>
          activeBackend # NoBackend \/ \E c \in Calls : call[c].pc = "unbind"
    /\ isConnecting =>
          \E c \in Calls :
              Attempting(c) \/ call[c].pc \in {"resolve", "restart", "unbind"}

\* The session has the entry and is watched.
Watched ==
    /\ activeBackend # NoBackend => owner = "probe"
    /\ connectionMonitor <=> isConnected /\ activeBackend # NoBackend

ConsistentInv ==
    /\ OneBackend /\ Kinds /\ Resolving /\ Attempt /\ Restart /\ Processes
    /\ Settling /\ Watched

NotOvertaken == ~overtaken => ConsistentInv

-------------------------------------------------------------------------------
(* What the actions do to the calls.                                         *)

\* A call is what it was.
Same(d) == call'[d] = call[d]

\* It may have lost the process of b.
Loses(d, b) ==
    /\ call'[d].kind = call[d].kind /\ call'[d].gen = call[d].gen
    /\ call'[d].backend = call[d].backend
    /\ call'[d].pc = IF call[d].pc = "starting" /\ call[d].backend = b THEN "lost"
                     ELSE call[d].pc

\* It goes on to another await.
GoesOn(c, at, b) ==
    /\ call'[c].pc = at /\ call'[c].kind = call[c].kind
    /\ call'[c].gen = call[c].gen /\ call'[c].backend = b

LEMMA StopLeaves ==
  ASSUME TypeOK, NEW c \in Calls, NEW r \in Call, NEW b,
         StopBackend(b, [call EXCEPT ![c] = r])
  PROVE  /\ \A d \in Calls \ {c} : Loses(d, b)
         /\ r.pc # "starting" => call'[c] = r
         /\ process' = process \ {b} /\ UNCHANGED orphans
<1>1. \A d \in Calls : call[d] \in Call
  BY DEF TypeOK
<1>2. call' = LoseProcess(b, [call EXCEPT ![c] = r])
  BY DEF StopBackend
<1>3. \A d \in Calls \ {c} :
         call'[d] = IF call[d].pc = "starting" /\ call[d].backend = b
                    THEN [call[d] EXCEPT !.pc = "lost"] ELSE call[d]
  BY <1>2 DEF LoseProcess, TypeOK
<1>4. r.pc # "starting" => call'[c] = r
  BY <1>2 DEF LoseProcess, TypeOK
<1>5. \A x \in Call : LET y == [x EXCEPT !.pc = "lost"]
                    IN  /\ y.pc = "lost" /\ y.kind = x.kind
                        /\ y.gen = x.gen /\ y.backend = x.backend
  BY DEF Call
<1>6. ASSUME NEW d \in Calls \ {c}
      PROVE  Loses(d, b)
  <2> DEFINE y == [call[d] EXCEPT !.pc = "lost"]
  <2>1. call'[d] = IF call[d].pc = "starting" /\ call[d].backend = b THEN y ELSE call[d]
    BY <1>3
  <2>2. /\ y.pc = "lost" /\ y.kind = call[d].kind
        /\ y.gen = call[d].gen /\ y.backend = call[d].backend
    BY <1>1, <1>5
  <2> HIDE DEF y
  <2> QED
    BY <2>1, <2>2 DEF Loses
<1> QED
  BY <1>4, <1>6 DEF StopBackend

\* StopBackend by a call that goes on to another await.
LEMMA StopGoesOn ==
  ASSUME TypeOK, NEW c \in Calls, NEW b \in Backends \cup {NoBackend}, NEW kept,
         NEW at \in {"prepare", "discard", "failed"},
         StopBackend(kept, [call EXCEPT ![c] = [call[c] EXCEPT !.pc = at, !.backend = b]])
  PROVE  /\ \A d \in Calls \ {c} : Loses(d, kept)
         /\ GoesOn(c, at, b)
         /\ process' = process \ {kept} /\ UNCHANGED orphans
<1> DEFINE r == [call[c] EXCEPT !.pc = at, !.backend = b]
<1>1. /\ r \in Call /\ r.pc = at /\ r.backend = b
      /\ r.kind = call[c].kind /\ r.gen = call[c].gen
  BY DEF TypeOK, Call
<1>2. StopBackend(kept, [call EXCEPT ![c] = r])
  OBVIOUS
<1> HIDE DEF r
<1> QED
  BY <1>1, <1>2, StopLeaves DEF GoesOn

LEMMA UnbindLeaves ==
  ASSUME TypeOK, NEW c \in Calls,
         NEW k \in {"connect", "disconnect", "stop", "start", "unexpected"},
         Unbind(c, k)
  PROVE  /\ connectionMonitor' = FALSE /\ activeBackend' = NoBackend
         /\ activityOwner' = "none" /\ UNCHANGED orphans
         /\ \/ /\ activeBackend = NoBackend
               /\ \A d \in Calls \ {c} : Same(d)
               /\ call'[c] = Idle
               /\ state' = "disconnected" /\ UNCHANGED process
            \/ /\ activeBackend \in Backends
               /\ \A d \in Calls \ {c} : Loses(d, activeBackend)
               /\ call'[c].pc = "unbind" /\ call'[c].kind = k
               /\ call'[c].gen = 0 /\ call'[c].backend = activeBackend
               /\ process' = process \ {activeBackend} /\ UNCHANGED state
<1>1. CASE activeBackend = NoBackend
  BY <1>1 DEF Unbind, ReportDisconnected, backend, Same, TypeOK
<1>2. CASE activeBackend # NoBackend
  <2> DEFINE r == [pc |-> "unbind", kind |-> k, gen |-> 0,
                   backend |-> activeBackend]
  <2>1. r \in Call /\ activeBackend \in Backends
    BY <1>2 DEF Call, TypeOK
  <2>2. StopBackend(activeBackend, [call EXCEPT ![c] = r])
    BY <1>2 DEF Unbind
  <2>3. r.pc = "unbind" /\ r.kind = k /\ r.gen = 0 /\ r.backend = activeBackend
    OBVIOUS
  <2> HIDE DEF r
  <2> QED
    BY <1>2, <2>1, <2>2, <2>3, StopLeaves DEF Unbind
<1> QED
  BY <1>1, <1>2

\* A session may be ended unless its J-Link is being restarted by another call,
\* or another call is connecting and is not told.
LEMMA UnbindKept ==
  ASSUME TypeOK, ConsistentInv, NEW c \in Calls,
         NEW k \in {"connect", "disconnect", "stop", "start", "unexpected"},
         Unbind(c, k), call[c].pc \notin {"starting", "unbind"},
         \A d \in Calls \ {c} :
            call[d].kind = "stop" => call[d].pc # "restart" /\ ~Attempting(d),
         \/ UNCHANGED connectionGeneration /\ (InProgress(c) \/ isConnected)
         \/ Invalidate
  PROVE  ConsistentInv'
<1>1. \A d \in Calls :
         /\ call[d].gen \in Nat
         /\ call[d].gen <= connectionGeneration => call[d].gen <= connectionGeneration'
         /\ connectionGeneration' # connectionGeneration
               /\ call[d].gen <= connectionGeneration
            => call[d].gen # connectionGeneration'
         /\ 0 <= connectionGeneration'
  BY DEF TypeOK, Call, Invalidate
<1>2. UNCHANGED connectionGeneration \/ connectionGeneration' # connectionGeneration
  OBVIOUS
<1>3. connectionGeneration' # connectionGeneration \/ InProgress(c) \/ isConnected
  BY DEF Invalidate, TypeOK
<1>4. process \subseteq Backends
  BY DEF TypeOK
<1>5. CASE activeBackend = NoBackend
  <2>1. /\ connectionMonitor' = FALSE /\ activeBackend' = NoBackend
        /\ UNCHANGED <<orphans, process>> /\ state' = "disconnected"
        /\ call'[c] = Idle /\ \A d \in Calls \ {c} : Same(d)
    BY <1>5, UnbindLeaves, BackendsAssumption
  <2> QED
    BY <1>1, <1>3, <1>4, <1>5, <2>1, BackendsAssumption
    DEF Same, ConsistentInv, OneBackend, Kinds, Resolving, Attempt, Restart, Processes, Settling,
      Watched, Attempting, Alone, InProgress, Stale, isConnected, isConnecting, Idle
<1>6. CASE activeBackend # NoBackend
  <2>1. /\ connectionMonitor' = FALSE /\ activeBackend' = NoBackend
        /\ UNCHANGED <<orphans, state>> /\ activeBackend \in Backends
        /\ process' = process \ {activeBackend}
        /\ call'[c].pc = "unbind" /\ call'[c].kind = k
        /\ call'[c].gen = 0 /\ call'[c].backend = activeBackend
        /\ \A d \in Calls \ {c} : Loses(d, activeBackend)
    BY <1>6, UnbindLeaves, BackendsAssumption
  <2> QED
    BY <1>1, <1>3, <1>4, <1>6, <2>1, BackendsAssumption
    DEF Loses, ConsistentInv, OneBackend, Kinds, Resolving, Attempt, Restart, Processes, Settling,
      Watched, Attempting, Alone, InProgress, Stale, isConnected, isConnecting, Idle
<1> QED
  BY <1>5, <1>6

-------------------------------------------------------------------------------
(* The requests of the user.                                                 *)

LEMMA ConnectKept ==
  ASSUME TypeOK, ConsistentInv, NEW c \in Calls, Connect(c), ~overtaken'
  PROVE  ConsistentInv'
<1>1. /\ \A d \in Calls : ~InProgress(d)
      /\ state = "disconnected"
  BY DEF Connect, TypeOK, isConnected, isConnecting
<1>2. /\ \A d \in Calls \ {c} : Same(d)
      /\ call'[c].pc = "resolve" /\ call'[c].kind = "connect"
      /\ call'[c].gen = connectionGeneration' /\ call'[c].backend = NoBackend
  BY DEF Connect, Invalidate, Same, TypeOK
<1>3. /\ owner' = "probe" /\ state' = "connecting"
      /\ UNCHANGED <<activeBackend, connectionMonitor, process, orphans>>
  BY DEF Connect, backend
<1>4. /\ \A d \in Calls : call[d].gen <= connectionGeneration
                             => call[d].gen <= connectionGeneration'
      /\ connectionGeneration' <= connectionGeneration'
  BY DEF Connect, Invalidate, TypeOK, Call
<1>5. activeBackend = NoBackend /\ process = {}
  BY <1>1, BackendsAssumption
  DEF ConsistentInv, Settling, Processes, InProgress, TypeOK
<1> QED
  BY <1>1, <1>2, <1>3, <1>4, <1>5, BackendsAssumption
  DEF Same,
      ConsistentInv, OneBackend, Kinds, Resolving, Attempt, Restart, Processes, Settling,
      Watched, Attempting, Alone, InProgress, Stale, isConnected, isConnecting, Idle

LEMMA DisconnectKept ==
  ASSUME TypeOK, ConsistentInv, NEW c \in Calls, Disconnect(c), ~overtaken'
  PROVE  ConsistentInv'
<1>1. call[c].pc = "idle" /\ ~Restarting /\ Invalidate
  BY DEF Disconnect, InProgress
<1>2. \A d \in Calls \ {c} :
         call[d].kind = "stop" => call[d].pc # "restart" /\ ~Attempting(d)
  BY <1>1 DEF Restarting, ConsistentInv, Restart
<1>3. CASE Unbind(c, "disconnect")
  BY <1>1, <1>2, <1>3, UnbindKept
<1>4. CASE ~Unbind(c, "disconnect")
  <2>1. /\ activityOwner # "none" /\ activeBackend \in Backends \ JLink
        /\ call' = [call EXCEPT ![c] = [pc |-> "stop", kind |-> "disconnect",
                                        gen |-> 0, backend |-> activeBackend]]
        /\ UNCHANGED <<connectionMonitor, activeBackend, activityOwner, state, owner>>
        /\ UNCHANGED <<process, orphans>>
    BY <1>4 DEF Disconnect, backend, TypeOK
  <2>2. /\ \A d \in Calls \ {c} : Same(d)
        /\ call'[c].pc = "stop" /\ call'[c].kind = "disconnect"
        /\ call'[c].backend = activeBackend
    BY <2>1 DEF Same, TypeOK
  <2>3. \A d \in Calls : call[d].gen <= connectionGeneration
                            => call[d].gen <= connectionGeneration'
    BY <1>1 DEF Invalidate, TypeOK, Call
  <2> QED
    BY <1>1, <2>1, <2>2, <2>3, BackendsAssumption
    DEF Same,
      ConsistentInv, OneBackend, Kinds, Resolving, Attempt, Restart, Processes, Settling,
      Watched, Attempting, Alone, InProgress, Stale, isConnected, isConnecting, Idle
<1> QED
  BY <1>3, <1>4

LEMMA StopActivityKept ==
  ASSUME TypeOK, ConsistentInv, NEW c \in Calls, StopActivity(c), ~overtaken'
  PROVE  ConsistentInv'
<1>1. /\ call[c].pc = "idle" /\ ~Restarting /\ activityOwner # "none"
      /\ UNCHANGED <<connectionGeneration, activeBackend, owner>>
      /\ process \subseteq Backends
  BY DEF StopActivity, InProgress, TypeOK
<1>2. CASE activeBackend = NoBackend
  <2>1. UNCHANGED <<connectionMonitor, state, process, orphans, call>>
    BY <1>2, BackendsAssumption DEF StopActivity, backend
  <2> QED
    BY <1>1, <1>2, <2>1, BackendsAssumption
    DEF ConsistentInv, OneBackend, Kinds, Resolving, Attempt, Restart, Processes, Settling,
      Watched, Attempting, Alone, InProgress, Stale, isConnected, isConnecting, Idle
<1>3. CASE activeBackend \in JLink
  <2> DEFINE r == [pc |-> "restart", kind |-> "stop", gen |-> 0, backend |-> activeBackend]
  <2>1. /\ connectionMonitor' = FALSE /\ state' = "reconnecting"
        /\ StopBackend(activeBackend, [call EXCEPT ![c] = r]) /\ UNCHANGED activityOwner
    BY <1>3, BackendsAssumption DEF StopActivity
  <2>2. r \in Call
    BY <1>3, BackendsAssumption DEF Call
  <2>3. r.pc = "restart" /\ r.kind = "stop" /\ r.backend = activeBackend
    OBVIOUS
  <2> HIDE DEF r
  <2>4. /\ \A d \in Calls \ {c} : Loses(d, activeBackend)
        /\ call'[c].pc = "restart" /\ call'[c].kind = "stop"
        /\ call'[c].backend = activeBackend
        /\ process' = process \ {activeBackend} /\ UNCHANGED orphans
    BY <2>1, <2>2, <2>3, StopLeaves
  <2>5. /\ activeBackend # NoBackend /\ activeBackend \in Backends
        /\ \A d \in Calls \ {c} : call[d].pc \in {"idle", "configure", "begin"}
    <3>1. activeBackend # NoBackend /\ activeBackend \in Backends
      BY <1>3, BackendsAssumption
    <3>2. \A d \in Calls : call[d].pc \notin {"unbind", "resolve", "stop"}
      BY <1>3, <3>1, BackendsAssumption
      DEF ConsistentInv, Settling, Resolving, Kinds, OneBackend
    <3>3. ASSUME NEW d \in Calls
          PROVE  ~Attempting(d) /\ call[d].pc # "restart"
      <4>1. ~(call[d].kind = "stop" /\ (call[d].pc = "restart" \/ Attempting(d)))
        BY <1>1 DEF ConsistentInv, Restart, Restarting
      <4>2. ~(call[d].kind = "connect" /\ Attempting(d))
        BY <1>1, <3>1 DEF ConsistentInv, Attempt
      <4> QED
        BY <4>1, <4>2 DEF ConsistentInv, Kinds
    <3>4. \A d \in Calls : call[d] \in Call
      BY DEF TypeOK
    <3> QED
      BY <3>1, <3>2, <3>3, <3>4 DEF Call, Attempting
  <2> QED
    BY <1>1, <1>3, <2>1, <2>4, <2>5, BackendsAssumption
    DEF Loses,
      ConsistentInv, OneBackend, Kinds, Resolving, Attempt, Restart, Processes, Settling,
      Watched, Attempting, Alone, InProgress, Stale, isConnected, isConnecting, Idle
<1>4. CASE activeBackend \in Backends \ JLink
  <2>1. /\ \A d \in Calls \ {c} : Same(d)
        /\ call'[c].pc = "stop" /\ call'[c].kind = "stop" /\ call'[c].backend = activeBackend
        /\ UNCHANGED <<connectionMonitor, state, activityOwner, process, orphans>>
    BY <1>4, BackendsAssumption DEF StopActivity, backend, Same, TypeOK
  <2> QED
    BY <1>1, <1>4, <2>1, BackendsAssumption
    DEF Same,
      ConsistentInv, OneBackend, Kinds, Resolving, Attempt, Restart, Processes, Settling,
      Watched, Attempting, Alone, InProgress, Stale, isConnected, isConnecting, Idle
<1> QED
  BY <1>2, <1>3, <1>4 DEF TypeOK

LEMMA StartActivityKept ==
  ASSUME TypeOK, ConsistentInv, NEW c \in Calls, NEW a, StartActivity(c, a)
  PROVE  ConsistentInv'
<1>1. /\ call[c].pc = "idle" /\ isConnected /\ activeBackend \in Backends \cup {NoBackend}
      /\ UNCHANGED <<state, connectionGeneration, activeBackend, owner, connectionMonitor,
                     process, orphans>>
  BY DEF StartActivity, InProgress, backend, TypeOK
<1>2. /\ \A d \in Calls \ {c} : Same(d)
      /\ call'[c].pc \in {"begin", "configure"} /\ call'[c].kind = "start"
      /\ call'[c].backend = activeBackend
  BY DEF StartActivity, Same, TypeOK
<1> QED
  BY <1>1, <1>2, BackendsAssumption
  DEF Same,
      ConsistentInv, OneBackend, Kinds, Resolving, Attempt, Restart, Processes, Settling,
      Watched, Attempting, Alone, InProgress, Stale, isConnected, isConnecting, Idle

-------------------------------------------------------------------------------
(* connect, and the restart of a J-Link, after each await.                   *)

LEMMA AbortKept ==
  ASSUME TypeOK, ConsistentInv, NEW c \in Calls, Abort(c), InProgress(c),
         call[c].pc \notin {"starting", "unbind"},
         \A d \in Calls \ {c} :
            call[d].kind = "stop" => call[d].pc # "restart" /\ ~Attempting(d)
  PROVE  ConsistentInv'
<1>1. call[c].kind \in {"connect", "disconnect", "stop", "start", "unexpected"}
  BY DEF TypeOK, Call
<1> QED
  BY <1>1, UnbindKept DEF Abort

\* A call that connects is the only one that does.
LEMMA OnlyAttempt ==
  ASSUME ConsistentInv, NEW c \in Calls,
         Attempting(c) \/ call[c].pc \in {"resolve", "restart"},
         NEW d \in Calls \ {c}
  PROVE  call[d].pc # "restart" /\ ~Attempting(d)
BY DEF ConsistentInv, Resolving, Attempt, Restart, Kinds, Attempting, Alone, InProgress

LEMMA ResolveKept ==
  ASSUME TypeOK, ConsistentInv, NEW c \in Calls, ResolveBackend(c)
  PROVE  ConsistentInv'
<1>1. call[c].pc = "resolve"
  BY DEF ResolveBackend
<1>2. CASE Abort(c)
  BY <1>1, <1>2, AbortKept, OnlyAttempt DEF InProgress
<1>3. CASE ~Abort(c)
  <2>1. PICK b \in Backends :
           /\ activeBackend' = b
           /\ StopBackend(b, [call EXCEPT ![c] =
                                 [call[c] EXCEPT !.pc = "prepare", !.backend = b]])
    BY <1>3 DEF ResolveBackend, TypeOK
  <2>2. /\ \A d \in Calls \ {c} : Loses(d, b)
        /\ GoesOn(c, "prepare", b)
        /\ process' = process \ {b} /\ UNCHANGED orphans
    BY <2>1, StopGoesOn
  <2>3. /\ ~Stale(c) /\ activityOwner' = "none"
        /\ UNCHANGED <<state, connectionGeneration, connectionMonitor, owner>>
    BY <1>3 DEF ResolveBackend
  <2> QED
    BY <1>1, <2>1, <2>2, <2>3, BackendsAssumption
    DEF Loses, GoesOn,
      ConsistentInv, OneBackend, Kinds, Resolving, Attempt, Restart, Processes, Settling,
      Watched, Attempting, Alone, InProgress, Stale, isConnected, isConnecting, Idle
<1> QED
  BY <1>2, <1>3

LEMMA RestartKept ==
  ASSUME TypeOK, ConsistentInv, NEW c \in Calls, RestartJLink(c)
  PROVE  ConsistentInv'
<1>1. /\ call[c].pc = "restart" /\ call[c].backend \in Backends
      /\ UNCHANGED <<state, connectionGeneration, activeBackend, activityOwner,
                     connectionMonitor, owner>>
  BY DEF RestartJLink, service, ConsistentInv, OneBackend
<1>2. StopBackend(call[c].backend, [call EXCEPT ![c] =
          [call[c] EXCEPT !.pc = "prepare", !.backend = call[c].backend]])
  BY <1>1 DEF RestartJLink, TypeOK, Call
<1>3. /\ \A d \in Calls \ {c} : Loses(d, call[c].backend)
      /\ GoesOn(c, "prepare", call[c].backend)
      /\ process' = process \ {call[c].backend} /\ UNCHANGED orphans
  BY <1>1, <1>2, StopGoesOn
<1> QED
  BY <1>1, <1>3, BackendsAssumption
  DEF Loses, GoesOn,
      ConsistentInv, OneBackend, Kinds, Resolving, Attempt, Restart, Processes, Settling,
      Watched, Attempting, Alone, InProgress, Stale, isConnected, isConnecting, Idle

LEMMA StartProcessKept ==
  ASSUME TypeOK, ConsistentInv, NEW c \in Calls, StartProcess(c)
  PROVE  ConsistentInv'
<1> DEFINE b == call[c].backend
<1>1. call[c].pc = "prepare" /\ Attempting(c) /\ b \in Backends /\ b \notin process
  BY DEF StartProcess, Attempting, ConsistentInv, OneBackend, Processes
<1>2. CASE Abort(c)
  BY <1>1, <1>2, AbortKept, OnlyAttempt DEF InProgress
<1>3. CASE ~Abort(c)
  <2>1. /\ process' = process \cup {b} /\ UNCHANGED orphans
        /\ call' = [LoseProcess(b, call) EXCEPT ![c].pc = "starting"]
        /\ UNCHANGED <<state, connectionGeneration, activeBackend, activityOwner,
                       connectionMonitor, owner>>
    BY <1>1, <1>3 DEF StartProcess, service
  <2>2. \A d \in Calls \ {c} : call[d].pc # "starting"
    BY <1>1, OnlyAttempt DEF Attempting
  <2>3. \A d \in Calls \ {c} : Same(d)
    BY <2>1, <2>2 DEF LoseProcess, Same, TypeOK
  <2>4. GoesOn(c, "starting", b)
    BY <1>1, <2>1 DEF LoseProcess, GoesOn, TypeOK, Call
  <2>5. Processes'
    BY <1>1, <2>1, <2>3, <2>4, BackendsAssumption
    DEF Same, GoesOn,
      ConsistentInv, OneBackend, Kinds, Resolving, Attempt, Restart, Processes, Settling,
      Watched, Attempting, Alone, InProgress, Stale, isConnected, isConnecting, Idle
  <2>6. (OneBackend /\ Kinds)'
    BY <1>1, <2>1, <2>3, <2>4, BackendsAssumption
    DEF Same, GoesOn,
      ConsistentInv, OneBackend, Kinds, Resolving, Attempt, Restart, Processes, Settling,
      Watched, Attempting, Alone, InProgress, Stale, isConnected, isConnecting, Idle
  <2>7. (Resolving /\ Attempt)'
    BY <1>1, <2>1, <2>3, <2>4, BackendsAssumption
    DEF Same, GoesOn,
      ConsistentInv, OneBackend, Kinds, Resolving, Attempt, Restart, Processes, Settling,
      Watched, Attempting, Alone, InProgress, Stale, isConnected, isConnecting, Idle
  <2>8. (Restart /\ Settling /\ Watched)'
    BY <1>1, <2>1, <2>3, <2>4, BackendsAssumption
    DEF Same, GoesOn,
      ConsistentInv, OneBackend, Kinds, Resolving, Attempt, Restart, Processes, Settling,
      Watched, Attempting, Alone, InProgress, Stale, isConnected, isConnecting, Idle
  <2> QED
    BY <2>5, <2>6, <2>7, <2>8 DEF ConsistentInv
<1> QED
  BY <1>2, <1>3

LEMMA StartedKept ==
  ASSUME TypeOK, ConsistentInv, NEW c \in Calls, Started(c)
  PROVE  ConsistentInv'
<1> DEFINE b == call[c].backend
<1>1. /\ call[c].pc = "starting" /\ Attempting(c) /\ b \in Backends
      /\ UNCHANGED <<connectionGeneration, activeBackend, owner>>
  BY DEF Started, Attempting, ConsistentInv, OneBackend
<1>2. CASE Stale(c) \/ (call[c].kind = "connect" /\ activeBackend # b)
  <2>1. /\ StopBackend(b, [call EXCEPT ![c] =
               [call[c] EXCEPT !.pc = "discard", !.backend = b]])
        /\ UNCHANGED <<state, connectionMonitor, activityOwner>>
    BY <1>1, <1>2 DEF Started, TypeOK, Call
  <2>2. /\ \A d \in Calls \ {c} : Loses(d, b)
        /\ GoesOn(c, "discard", b)
        /\ process' = process \ {b} /\ UNCHANGED orphans
    BY <1>1, <2>1, StopGoesOn
  <2>3. call[c].kind = "connect"
    BY <1>2 DEF Stale
  <2> QED
    BY <1>1, <2>1, <2>2, <2>3, BackendsAssumption
    DEF Loses, GoesOn,
      ConsistentInv, OneBackend, Kinds, Resolving, Attempt, Restart, Processes, Settling,
      Watched, Attempting, Alone, InProgress, Stale, isConnected, isConnecting, Idle
<1>3. CASE ~(Stale(c) \/ (call[c].kind = "connect" /\ activeBackend # b))
  <2>1. /\ state' = "connected" /\ connectionMonitor' = TRUE
        /\ UNCHANGED <<process, orphans>>
        /\ \A d \in Calls \ {c} : Same(d)
        /\ call'[c] = Idle
    BY <1>3 DEF Started, StartConnectionMonitor, Same, TypeOK
  <2>3. 0 <= connectionGeneration
    BY DEF TypeOK
  <2>2. activeBackend = b /\ owner = "probe" /\ b # NoBackend
    BY <1>1, <1>3, BackendsAssumption
    DEF ConsistentInv, Kinds, Attempt, Restart, Watched
  <2> QED
    BY <1>1, <1>3, <2>1, <2>2, <2>3, BackendsAssumption
    DEF Same,
      ConsistentInv, OneBackend, Kinds, Resolving, Attempt, Restart, Processes, Settling,
      Watched, Attempting, Alone, InProgress, Stale, isConnected, isConnecting, Idle
<1> QED
  BY <1>2, <1>3

LEMMA StartFailsKept ==
  ASSUME TypeOK, ConsistentInv, NEW c \in Calls, StartFails(c)
  PROVE  ConsistentInv'
<1> DEFINE b == call[c].backend
<1>1. /\ call[c].pc \in {"starting", "lost"} /\ Attempting(c) /\ b \in Backends
      /\ UNCHANGED <<state, connectionGeneration, activeBackend, activityOwner,
                     connectionMonitor, owner>>
  BY DEF StartFails, Attempting, service, ConsistentInv, OneBackend
<1>2. StopBackend(b, [call EXCEPT ![c] = [call[c] EXCEPT !.pc = "failed", !.backend = b]])
  BY <1>1 DEF StartFails, TypeOK, Call
<1>3. /\ \A d \in Calls \ {c} : Loses(d, b)
      /\ GoesOn(c, "failed", b)
      /\ process' = process \ {b} /\ UNCHANGED orphans
  BY <1>1, <1>2, StopGoesOn
<1> QED
  BY <1>1, <1>3, BackendsAssumption
  DEF Loses, GoesOn,
      ConsistentInv, OneBackend, Kinds, Resolving, Attempt, Restart, Processes, Settling,
      Watched, Attempting, Alone, InProgress, Stale, isConnected, isConnecting, Idle

LEMMA GiveUpKept ==
  ASSUME TypeOK, ConsistentInv, NEW c \in Calls, GiveUp(c)
  PROVE  ConsistentInv'
<1>1. call[c].pc \in {"failed", "discard"} /\ Attempting(c)
  BY DEF GiveUp, Attempting
<1> QED
  BY <1>1, AbortKept, OnlyAttempt DEF GiveUp, InProgress

LEMMA UnbindDoneKept ==
  ASSUME TypeOK, ConsistentInv, NEW c \in Calls, UnbindDone(c)
  PROVE  ConsistentInv'
<1>1. /\ call[c].pc = "unbind" /\ state' = "disconnected"
      /\ UNCHANGED <<connectionGeneration, activeBackend, activityOwner,
                     connectionMonitor, process, orphans>>
      /\ \A d \in Calls \ {c} : Same(d)
      /\ call'[c] = Idle
  BY DEF UnbindDone, ReportDisconnected, backend, Same, TypeOK
<1>2. 0 <= connectionGeneration
  BY DEF TypeOK
<1> QED
  BY <1>1, <1>2, BackendsAssumption
  DEF Same,
      ConsistentInv, OneBackend, Kinds, Resolving, Attempt, Restart, Processes, Settling,
      Watched, Attempting, Alone, InProgress, Stale, isConnected, isConnecting, Idle

-------------------------------------------------------------------------------
(* Activities after their awaits, and what happens to the backend.           *)

\* A call that leaves the connection alone.
LEMMA ActivityKept ==
  ASSUME TypeOK, ConsistentInv, NEW c \in Calls,
         call[c].pc \in {"stop", "configure", "begin"},
         UNCHANGED <<state, connectionGeneration, activeBackend, connectionMonitor, owner,
                     process, orphans>>,
         \A d \in Calls \ {c} : Same(d),
         \/ call'[c] = Idle
         \/ call[c].pc = "configure" /\ GoesOn(c, "begin", call[c].backend)
  PROVE  ConsistentInv'
<1>1. 0 <= connectionGeneration
  BY DEF TypeOK
<1> QED
  BY <1>1, BackendsAssumption
  DEF Same, GoesOn,
      ConsistentInv, OneBackend, Kinds, Resolving, Attempt, Restart, Processes, Settling,
      Watched, Attempting, Alone, InProgress, Stale, isConnected, isConnecting, Idle

LEMMA ActivitiesKept ==
  ASSUME TypeOK, ConsistentInv, NEW c \in Calls,
         StopDone(c) \/ StopFails(c) \/ ConfigureDone(c) \/ BeginDone(c)
  PROVE  ConsistentInv'
<1>1. CASE StopDone(c) /\ call[c].kind = "disconnect"
  <2>1. /\ Unbind(c, "disconnect") /\ UNCHANGED connectionGeneration
        /\ call[c].pc = "stop" /\ InProgress(c)
    BY <1>1 DEF StopDone, InProgress
  <2>2. \A d \in Calls \ {c} :
           call[d].kind = "stop" => call[d].pc # "restart" /\ ~Attempting(d)
    BY <2>1 DEF ConsistentInv, Restart
  <2> QED
    BY <2>1, <2>2, UnbindKept
<1>2. CASE StopDone(c) /\ call[c].kind # "disconnect"
  <2>1. /\ call' = [call EXCEPT ![c] = Idle] /\ call[c].pc = "stop"
        /\ UNCHANGED <<state, connectionGeneration, activeBackend, connectionMonitor,
                       owner, process, orphans>>
    BY <1>2 DEF StopDone, backend
  <2> QED
    BY <2>1, ActivityKept DEF Same, TypeOK
<1>3. CASE StopFails(c)
  <2>1. /\ call[c].pc = "stop" /\ call[c].backend \in Backends
        /\ UNCHANGED <<state, connectionGeneration, activeBackend, activityOwner,
                       connectionMonitor, owner>>
    BY <1>3 DEF StopFails, service, ConsistentInv, OneBackend
  <2>2. CASE call' = [call EXCEPT ![c] = Idle] /\ UNCHANGED backend
    BY <2>1, <2>2, ActivityKept DEF Same, TypeOK, backend
  <2>3. CASE StopBackend(call[c].backend, [call EXCEPT ![c] = Idle])
    <3>1. /\ \A d \in Calls \ {c} : Loses(d, call[c].backend)
          /\ call'[c] = Idle
          /\ process' = process \ {call[c].backend} /\ UNCHANGED orphans
      BY <2>3, IdleType, StopLeaves DEF Idle
    <3>2. 0 <= connectionGeneration
      BY DEF TypeOK
    <3> QED
      BY <2>1, <3>1, <3>2, BackendsAssumption
      DEF Loses,
      ConsistentInv, OneBackend, Kinds, Resolving, Attempt, Restart, Processes, Settling,
      Watched, Attempting, Alone, InProgress, Stale, isConnected, isConnecting, Idle
  <2> QED
    BY <1>3, <2>2, <2>3 DEF StopFails
<1>4. CASE ConfigureDone(c) \/ BeginDone(c)
  <2>1. /\ UNCHANGED <<state, connectionGeneration, activeBackend, connectionMonitor,
                       owner, process, orphans>>
        /\ \/ call' = [call EXCEPT ![c] = Idle] /\ call[c].pc \in {"configure", "begin"}
           \/ call' = [call EXCEPT ![c].pc = "begin"] /\ call[c].pc = "configure"
    BY <1>4 DEF ConfigureDone, BeginDone, backend
  <2>2. /\ \A d \in Calls \ {c} : Same(d)
        /\ \/ call'[c] = Idle
           \/ call[c].pc = "configure" /\ GoesOn(c, "begin", call[c].backend)
    BY <2>1 DEF Same, GoesOn, TypeOK, Call
  <2> QED
    BY <2>1, <2>2, ActivityKept
<1> QED
  BY <1>1, <1>2, <1>3, <1>4

LEMMA UnexpectedKept ==
  ASSUME TypeOK, ConsistentInv, NEW c \in Calls, UnexpectedDisconnect(c),
         connectionMonitor \/ isConnected
  PROVE  ConsistentInv'
<1>1. /\ call[c].pc = "idle" /\ Unbind(c, "unexpected")
      /\ UNCHANGED connectionGeneration
  BY DEF UnexpectedDisconnect, InProgress
<1>2. isConnected
  BY DEF ConsistentInv, Watched
<1>3. \A d \in Calls \ {c} :
         call[d].kind = "stop" => call[d].pc # "restart" /\ ~Attempting(d)
  BY <1>2 DEF isConnected, ConsistentInv, Restart
<1> QED
  BY <1>1, <1>2, <1>3, UnbindKept

LEMMA OthersKept ==
  ASSUME TypeOK, ConsistentInv,
         \/ \E b \in Backends : ProcessExits(b)
         \/ \E o \in Owner : OtherAcquire(o) \/ OtherRelease(o)
         \/ UNCHANGED vars
  PROVE  ConsistentInv'
<1>1. ASSUME NEW b \in Backends, ProcessExits(b)
      PROVE  ConsistentInv'
  <2>1. /\ process' = process \ {b} /\ UNCHANGED orphans
        /\ UNCHANGED <<state, connectionGeneration, activeBackend, activityOwner,
                       connectionMonitor, owner>>
        /\ call' = LoseProcess(b, call)
    BY <1>1 DEF ProcessExits, StopBackend, service
  <2>2. \A d \in Calls : Loses(d, b)
    BY <2>1 DEF LoseProcess, Loses, TypeOK, Call
  <2> QED
    BY <2>1, <2>2, BackendsAssumption
    DEF Loses,
      ConsistentInv, OneBackend, Kinds, Resolving, Attempt, Restart, Processes, Settling,
      Watched, Attempting, Alone, InProgress, Stale, isConnected, isConnecting, Idle
<1>2. CASE \/ \E o \in Owner : OtherAcquire(o) \/ OtherRelease(o)
           \/ UNCHANGED vars
  <2>1. /\ UNCHANGED <<state, connectionGeneration, activeBackend, activityOwner,
                       connectionMonitor, process, orphans, call>>
        /\ owner = "probe" => owner' = "probe"
    BY <1>2 DEF OtherAcquire, OtherRelease, Released, vars, service, backend
  <2> QED
    BY <2>1
    DEF ConsistentInv, OneBackend, Kinds, Resolving, Attempt, Restart, Processes, Settling,
      Watched, Attempting, Alone, InProgress, Stale, isConnected, isConnecting, Idle
<1> QED
  BY <1>1, <1>2

-------------------------------------------------------------------------------
LEMMA ConsistentStep == Inv /\ NotOvertaken /\ [Next]_vars => NotOvertaken'
<1> SUFFICES ASSUME TypeOK, NotOvertaken, [Next]_vars, ~overtaken'
             PROVE  ConsistentInv'
  BY DEF Inv, NotOvertaken
<1>1. ASSUME NEW c \in Calls, UserRequest(c) PROVE ConsistentInv'
  <2>1. CASE Connect(c)
    <3>1. ConsistentInv
      BY <2>1 DEF Connect, NotOvertaken
    <3> QED
      BY <2>1, <3>1, ConnectKept
  <2>2. CASE Disconnect(c)
    <3>1. ConsistentInv
      BY <2>2 DEF Disconnect, NotOvertaken
    <3> QED
      BY <2>2, <3>1, DisconnectKept
  <2>3. CASE StopActivity(c)
    <3>1. ConsistentInv
      BY <2>3 DEF StopActivity, NotOvertaken
    <3> QED
      BY <2>3, <3>1, StopActivityKept
  <2>4. ASSUME NEW a \in ProbeActivity, StartActivity(c, a) PROVE ConsistentInv'
    <3>1. ConsistentInv
      BY <2>4 DEF StartActivity, NotOvertaken
    <3> QED
      BY <2>4, <3>1, StartActivityKept
  <2> QED
    BY <1>1, <2>1, <2>2, <2>3, <2>4 DEF UserRequest
<1>2. ASSUME NEW c \in Calls, Continue(c) PROVE ConsistentInv'
  <2>1. UNCHANGED overtaken
    BY <1>2 DEF Continue, ResolveBackend, RestartJLink, StartProcess, Started,
                StartFails, GiveUp, UnbindDone, StopDone, StopFails, ConfigureDone,
                BeginDone, Abort
  <2>2. ConsistentInv
    BY <2>1 DEF NotOvertaken
  <2> QED
    BY <1>2, <2>2, ResolveKept, RestartKept, StartProcessKept, StartedKept,
       StartFailsKept, GiveUpKept, UnbindDoneKept, ActivitiesKept DEF Continue
<1>3. ASSUME NEW c \in Calls, UnexpectedDisconnect(c), connectionMonitor \/ isConnected
      PROVE  ConsistentInv'
  <2>1. ConsistentInv
    BY <1>3 DEF UnexpectedDisconnect, NotOvertaken
  <2> QED
    BY <1>3, <2>1, UnexpectedKept
<1>4. CASE \/ \E b \in Backends : ProcessExits(b)
           \/ \E o \in Owner : OtherAcquire(o) \/ OtherRelease(o)
           \/ UNCHANGED vars
  <2>1. UNCHANGED overtaken
    BY <1>4 DEF ProcessExits, OtherAcquire, OtherRelease, vars
  <2>2. ConsistentInv
    BY <2>1 DEF NotOvertaken
  <2> QED
    BY <1>4, <2>2, OthersKept
<1> QED
  BY <1>1, <1>2, <1>3, <1>4 DEF Next, Watch, Diagnose

LEMMA ConsistentStart == Init => NotOvertaken
BY BackendsAssumption
DEF Init,
      ConsistentInv, OneBackend, Kinds, Resolving, Attempt, Restart, Processes, Settling,
      Watched, Attempting, Alone, InProgress, Stale, isConnected, isConnecting, Idle, NotOvertaken

\* Unless a call was overtaken, a probe service with nothing in progress is
\* connected, owner of the entry, watched and with a backend all at once or
\* not at all, and leaves no process behind.
THEOREM ProbeConsistent == Spec => []ConsistentUnlessOvertaken
<1>1. Inv /\ EntryNotLeaked /\ NotOvertaken => ConsistentUnlessOvertaken
  BY BackendsAssumption
  DEF Inv, TypeOK, EntryNotLeaked, ConsistentUnlessOvertaken, Quiescent, NotOvertaken,
      ConsistentInv, OneBackend, Kinds, Resolving, Attempt, Restart, Processes, Settling,
      Watched, Attempting, Alone, InProgress, Stale, isConnected, isConnecting, Idle
<1>2. Init => EntryNotLeaked
  BY DEF Init, EntryNotLeaked
<1> QED
  BY <1>1, <1>2, TypesStart, TypesStep, EntryStep, ConsistentStart, ConsistentStep, PTL
  DEF Spec
===============================================================================
