------------------------- MODULE FlashProgrammingProofs -------------------------
(***************************************************************************)
(* Proofs about FlashProgramming for any number of concurrent calls, tools *)
(* and requests.                                                           *)
(***************************************************************************)
EXTENDS FlashProgramming, TLAPS

(***************************************************************************)
(* TypeOK is not inductive: a call could start the process of the null     *)
(* backend.  A call about to start one captured a backend that exists.     *)
(***************************************************************************)
GoodCalls == \A c \in Calls : call[c].pc = "prepare" => call[c].tool \in Tools

Inv == TypeOK /\ GoodCalls

LEMMA DropType ==
  ASSUME TypeOK, DropBackend
  PROVE  backend' \in Tools \cup {NoTool} /\ owner' \in OwnerState
BY DEF DropBackend, Released, TypeOK, OwnerState

LEMMA KillType ==
  ASSUME TypeOK, NEW t, Kill(t)
  PROVE  handle' \in [Tools -> Handle] /\ running' \subseteq Tools
BY DEF Kill, TypeOK, Handle

\* The pc values Suspend is used with.
LEMMA SuspendType ==
  ASSUME TypeOK, NEW c \in Calls, NEW t \in Tools \cup {NoTool}, Supersede,
         NEW at \in {"check", "operate", "disconnect", "shutdown", "force"},
         Suspend(c, at, t)
  PROVE  call' \in [Calls -> Call]
<1>1. operationGeneration' \in Nat
  BY DEF Supersede, TypeOK
<1> QED
  BY <1>1 DEF Suspend, TypeOK, Call

LEMMA ReturnType ==
  ASSUME TypeOK, NEW c \in Calls, Return(c)
  PROVE  call' \in [Calls -> Call]
<1>1. Idle \in Call
  BY DEF Idle, Call
<1> QED
  BY <1>1 DEF Return, TypeOK

LEMMA SupersedeType ==
  ASSUME TypeOK, Supersede
  PROVE  operationGeneration' \in Nat
BY DEF Supersede, TypeOK

\* Advancing one call to another await keeps the type of the calls.
LEMMA AdvanceType ==
  ASSUME TypeOK, NEW c \in Calls,
         NEW at \in {"spawned", "probing", "discard", "cleanup", "fallback"},
         call' = [call EXCEPT ![c].pc = at]
  PROVE  call' \in [Calls -> Call]
BY DEF TypeOK, Call

LEMMA EmergencyType ==
  ASSUME TypeOK, NEW c \in Calls, Emergency(c)
  PROVE  /\ state' = "unknown" /\ operationGeneration' \in Nat
         /\ backend' \in Tools \cup {NoTool} /\ owner' \in OwnerState
         /\ handle' \in [Tools -> Handle] /\ running' \subseteq Tools
         /\ call' \in [Calls -> Call]
<1>1. state' = "unknown" /\ operationGeneration' \in Nat
  BY SupersedeType DEF Emergency
<1>2. CASE backend = NoTool \/ handle[backend] = "none"
  BY <1>1, <1>2, DropType, ReturnType DEF Emergency, tools, TypeOK
<1>3. CASE ~(backend = NoTool \/ handle[backend] = "none")
  BY <1>1, <1>3, KillType, SuspendType DEF Emergency, TypeOK
<1> QED
  BY <1>2, <1>3

LEMMA RequestType ==
  ASSUME TypeOK, NEW c \in Calls, UserRequest(c)
  PROVE  TypeOK'
<1>1. CASE Connect(c)
  <2>1. overtaken' \in BOOLEAN
    BY <1>1, Zenon DEF Connect
  <2>2. call' \in [Calls -> Call]
    BY <1>1, SuspendType DEF Connect
  <2>3. owner' = "programming" /\ state' = "connecting" /\ requests' = requests + 1
    BY <1>1 DEF Connect, Request
  <2>4. owner' \in OwnerState /\ state' \in FlashOperationState /\ requests' \in Nat
    BY <2>3 DEF TypeOK, OwnerState, Owner, FlashOperationState
  <2> QED
    BY <1>1, <2>1, <2>2, <2>4, SupersedeType DEF Connect, tools, TypeOK
<1>2. CASE RunOperation(c)
  <2>1. call' \in [Calls -> Call]
    BY <1>2, SuspendType DEF RunOperation, TypeOK
  <2> QED
    BY <1>2, <2>1, SupersedeType
       DEF RunOperation, Request, tools, TypeOK, FlashOperationState
<1>3. ASSUME NEW at \in {"disconnect", "shutdown"}, DisconnectAs(c, at)
      PROVE  TypeOK'
  <2>1. CASE backend = NoTool
    BY <1>3, <2>1, SupersedeType DEF DisconnectAs, Request, TypeOK
  <2>2. CASE backend # NoTool
    <3>1. call' \in [Calls -> Call]
      BY <1>3, <2>2, SuspendType DEF DisconnectAs, TypeOK
    <3>2. handle' \in [Tools -> Handle]
      <4>1. PICK h \in {"none", "process"} :
                handle' = [handle EXCEPT ![backend] = h]
        BY <1>3, <2>2 DEF DisconnectAs
      <4> QED
        BY <4>1 DEF TypeOK, Handle
    <3> QED
      BY <1>3, <2>2, <3>1, <3>2, SupersedeType
         DEF DisconnectAs, Request, TypeOK, FlashOperationState
  <2> QED
    BY <2>1, <2>2
<1>4. CASE ForceTerminate(c)
  <2>1. overtaken' \in BOOLEAN
    BY <1>4, Zenon DEF ForceTerminate
  <2>2. requests' \in Nat /\ Emergency(c)
    BY <1>4 DEF ForceTerminate, Request, TypeOK
  <2> QED
    BY <2>1, <2>2, EmergencyType DEF TypeOK, FlashOperationState
<1> QED
  BY <1>1, <1>2, <1>3, <1>4 DEF UserRequest, Disconnect, Shutdown

LEMMA CatchType ==
  ASSUME TypeOK, NEW c \in Calls, CatchClause(c)
  PROVE  /\ state' \in FlashOperationState
         /\ backend' \in Tools \cup {NoTool} /\ owner' \in OwnerState
         /\ call' \in [Calls -> Call]
BY DropType, ReturnType DEF CatchClause, TypeOK, FlashOperationState

LEMMA ContinueType ==
  ASSUME TypeOK, GoodCalls, NEW c \in Calls, Continue(c)
  PROVE  TypeOK'
<1>1. CASE ToolFound(c)
  <2>1. PICK t \in Tools :
           /\ backend' = t
           /\ handle' = [handle EXCEPT ![t] = "none"]
           /\ call' = [call EXCEPT ![c].pc = "prepare", ![c].tool = t]
    BY <1>1 DEF ToolFound, Fresh
  <2>2. call' \in [Calls -> Call]
    BY <2>1 DEF TypeOK, Call
  <2>3. handle' \in [Tools -> Handle]
    BY <2>1 DEF TypeOK, Handle
  <2> QED
    BY <1>1, <2>1, <2>2, <2>3 DEF ToolFound, TypeOK
<1>2. CASE Spawn(c)
  <2>1. call[c].tool \in Tools
    BY <1>2 DEF Spawn, GoodCalls
  <2>2. handle' \in [Tools -> Handle]
    BY <1>2 DEF Spawn, TypeOK, Handle
  <2> QED
    BY <1>2, <2>1, <2>2, AdvanceType DEF Spawn, service, TypeOK
<1>3. CASE Attach(c)
  <2>1. handle' \in [Tools -> Handle]
    BY <1>3 DEF Attach, TypeOK, Handle
  <2> QED
    BY <1>3, <2>1, AdvanceType DEF Attach, service, TypeOK
<1>4. CASE ConnectReturns(c)
  <2>1. CASE Stale(c)
    BY <1>4, <2>1, KillType, AdvanceType DEF ConnectReturns, TypeOK
  <2>2. CASE ~Stale(c)
    BY <1>4, <2>2, ReturnType DEF ConnectReturns, tools, TypeOK, FlashOperationState
  <2> QED
    BY <2>1, <2>2
<1>5. CASE Discarded(c)
  BY <1>5, ReturnType DEF Discarded, service, tools, TypeOK
<1>6. CASE NoProcess(c) \/ CleanedUp(c)
  BY <1>6, CatchType DEF NoProcess, CleanedUp, tools, TypeOK
<1>7. CASE NoAnswer(c)
  <2>1. handle' \in [Tools -> Handle]
    BY <1>7 DEF NoAnswer, TypeOK, Handle
  <2> QED
    BY <1>7, <2>1, AdvanceType DEF NoAnswer, service, TypeOK
<1>8. CASE NoTarget(c)
  BY <1>8, KillType, AdvanceType DEF NoTarget, TypeOK, FlashOperationState
<1>9. CASE OperationSucceeds(c)
  BY <1>9, ReturnType DEF OperationSucceeds, tools, TypeOK, FlashOperationState
<1>10. CASE OperationFails(c)
  <2>1. handle' \in [Tools -> Handle] /\ running' \subseteq Tools
    BY <1>10 DEF OperationFails, tools, TypeOK, Handle
  <2>2. /\ state' \in FlashOperationState
        /\ backend' \in Tools \cup {NoTool} /\ owner' \in OwnerState
    BY <1>10, DropType DEF OperationFails, TypeOK, FlashOperationState
  <2> QED
    BY <1>10, <2>1, <2>2, ReturnType DEF OperationFails, TypeOK
<1>11. CASE LetGo(c)
  <2>1. handle' \in [Tools -> Handle]
    BY <1>11 DEF LetGo, TypeOK, Handle
  <2> QED
    BY <1>11, <2>1 DEF LetGo, service, TypeOK
<1>12. CASE DisconnectDone(c)
  BY <1>12, DropType, ReturnType DEF DisconnectDone, TypeOK, FlashOperationState
<1>13. CASE DisconnectFails(c)
  <2>1. call' \in [Calls -> Call]
    BY <1>13, AdvanceType, ReturnType DEF DisconnectFails
  <2> QED
    BY <1>13, <2>1 DEF DisconnectFails, TypeOK, FlashOperationState
<1>14. CASE FallBack(c)
  BY <1>14, EmergencyType DEF FallBack, TypeOK, FlashOperationState
<1>15. CASE ForceDone(c)
  BY <1>15, DropType, ReturnType DEF ForceDone, tools, TypeOK
<1> QED
  BY <1>1, <1>2, <1>3, <1>4, <1>5, <1>6, <1>7, <1>8, <1>9, <1>10, <1>11, <1>12,
     <1>13, <1>14, <1>15 DEF Continue

\* Only the selection of a tool puts a call before the start of a process.
LEMMA GoodStep == Inv /\ [Next]_vars => GoodCalls'
<1> SUFFICES ASSUME TypeOK, GoodCalls, [Next]_vars PROVE GoodCalls'
  BY DEF Inv
<1> USE DEF GoodCalls
<1>1. ASSUME NEW c \in Calls, UserRequest(c) PROVE GoodCalls'
  <2>1. UNCHANGED call \/ Return(c)
        \/ \E at \in {"check", "operate", "disconnect", "shutdown", "force"} :
              \E t : Suspend(c, at, t)
    BY <1>1 DEF UserRequest, Connect, RunOperation, Disconnect, Shutdown,
                DisconnectAs, ForceTerminate, Emergency
  <2> QED
    BY <2>1 DEF Return, Suspend, Idle, TypeOK
<1>2. ASSUME NEW c \in Calls, Continue(c) PROVE GoodCalls'
  <2>1. CASE ToolFound(c)
    <3>1. PICK t \in Tools :
             call' = [call EXCEPT ![c].pc = "prepare", ![c].tool = t]
      BY <2>1 DEF ToolFound, Fresh
    <3> QED
      BY <3>1 DEF TypeOK, Call
  <2>2. CASE Spawn(c) \/ Attach(c) \/ ConnectReturns(c) \/ Discarded(c)
             \/ NoProcess(c) \/ NoAnswer(c) \/ NoTarget(c) \/ CleanedUp(c)
    <3>1. \/ Return(c)
          \/ \E at \in {"spawned", "probing", "discard", "cleanup"} :
                 call' = [call EXCEPT ![c].pc = at]
      BY <2>2 DEF Spawn, Attach, ConnectReturns, Discarded, NoProcess, NoAnswer,
                  NoTarget, CleanedUp, CatchClause
    <3> QED
      BY <3>1 DEF Return, Idle, TypeOK, Call
  <2>3. CASE OperationSucceeds(c) \/ OperationFails(c) \/ LetGo(c)
             \/ DisconnectDone(c) \/ DisconnectFails(c) \/ ForceDone(c)
    <3>1. \/ Return(c)
          \/ UNCHANGED call
          \/ call' = [call EXCEPT ![c].pc = "fallback"]
      BY <2>3 DEF OperationSucceeds, OperationFails, LetGo, DisconnectDone,
                  DisconnectFails, ForceDone
    <3> QED
      BY <3>1 DEF Return, Idle, TypeOK, Call
  <2>4. CASE FallBack(c)
    BY <2>4 DEF FallBack, Emergency, Return, Suspend, Idle, TypeOK
  <2> QED
    BY <1>2, <2>1, <2>2, <2>3, <2>4 DEF Continue
<1>3. ASSUME NEW t \in Tools, ToolExits(t) PROVE GoodCalls'
  BY <1>3 DEF ToolExits
<1>4. ASSUME NEW o \in Owner, OtherAcquire(o) \/ OtherRelease(o) PROVE GoodCalls'
  BY <1>4 DEF OtherAcquire, OtherRelease
<1>5. CASE UNCHANGED vars
  BY <1>5 DEF vars
<1> QED
  BY <1>1, <1>2, <1>3, <1>4, <1>5 DEF Next

LEMMA TypeStep == Inv /\ [Next]_vars => TypeOK'
<1> SUFFICES ASSUME TypeOK, GoodCalls, [Next]_vars PROVE TypeOK'
  BY DEF Inv
<1>1. ASSUME NEW t \in Tools, ToolExits(t) PROVE TypeOK'
  <2>1. running' \subseteq Tools /\ UNCHANGED <<service, handle, call, requests, overtaken>>
    BY <1>1 DEF ToolExits, TypeOK
  <2> QED
    BY <2>1 DEF service, TypeOK
<1>2. ASSUME NEW o \in Owner, OtherAcquire(o) \/ OtherRelease(o) PROVE TypeOK'
  <2>1. owner' \in OwnerState
    BY <1>2 DEF OtherAcquire, OtherRelease, Released, TypeOK, OwnerState, Owner
  <2> QED
    BY <1>2, <2>1 DEF OtherAcquire, OtherRelease, tools, TypeOK
<1>3. CASE UNCHANGED vars
  BY <1>3 DEF vars, service, tools, TypeOK
<1> QED
  BY <1>1, <1>2, <1>3, RequestType, ContinueType DEF Next

LEMMA InvInit == Init => Inv
<1> SUFFICES ASSUME Init PROVE Inv
  OBVIOUS
<1>1. call \in [Calls -> Call] /\ GoodCalls
  BY DEF Init, Idle, Call, GoodCalls
<1>2. handle \in [Tools -> Handle]
  BY DEF Init, Handle
<1> QED
  BY <1>1, <1>2 DEF Init, Inv, TypeOK, OwnerState, FlashOperationState

LEMMA InvStep == Inv /\ [Next]_vars => Inv'
BY TypeStep, GoodStep DEF Inv

\* Every variable of the Flash programmer keeps its type, whatever calls are
\* suspended at the same time.
THEOREM FlashTypeCorrect == Spec => []TypeOK
<1>1. Inv => TypeOK
  BY DEF Inv
<1> QED
  BY <1>1, InvInit, InvStep, PTL DEF Spec

-------------------------------------------------------------------------------
(* The entry is taken by an attempt that goes looking for a tool; the tool   *)
(* it finds becomes the backend; and whatever drops the backend gives the    *)
(* entry back in the same step.                                              *)

LEMMA DropKeepsHolder ==
  ASSUME DropBackend
  PROVE  EntryHasHolder'
BY DEF DropBackend, Released, EntryHasHolder

LEMMA OthersKeepHolder ==
  ASSUME EntryHasHolder, owner' = owner, backend' = backend,
         \A d \in Calls : call[d].pc = "check" => call'[d].pc = "check"
  PROVE  EntryHasHolder'
BY DEF EntryHasHolder

LEMMA EmergencyKeepsHolder ==
  ASSUME TypeOK, EntryHasHolder, NEW c \in Calls, call[c].pc # "check", Emergency(c)
  PROVE  EntryHasHolder'
<1>1. CASE DropBackend
  BY <1>1, DropKeepsHolder
<1>2. CASE Suspend(c, "force", backend) /\ UNCHANGED <<backend, owner>>
  BY <1>2, OthersKeepHolder DEF Suspend, TypeOK
<1> QED
  BY <1>1, <1>2 DEF Emergency

LEMMA HolderStep == TypeOK /\ EntryHasHolder /\ [Next]_vars => EntryHasHolder'
<1> SUFFICES ASSUME TypeOK, EntryHasHolder, [Next]_vars PROVE EntryHasHolder'
  OBVIOUS
<1>1. ASSUME NEW c \in Calls, UserRequest(c) PROVE EntryHasHolder'
  <2>1. call[c].pc = "idle"
    BY <1>1 DEF UserRequest, Connect, RunOperation, Disconnect, Shutdown,
                DisconnectAs, ForceTerminate, InProgress
  <2>2. CASE Connect(c)
    BY <2>2 DEF Connect, Suspend, EntryHasHolder, TypeOK
  <2>3. CASE RunOperation(c) \/ Disconnect(c) \/ Shutdown(c)
    BY <2>1, <2>3, OthersKeepHolder
       DEF RunOperation, Disconnect, Shutdown, DisconnectAs, Suspend, TypeOK
  <2>4. CASE ForceTerminate(c)
    BY <2>1, <2>4, EmergencyKeepsHolder DEF ForceTerminate
  <2> QED
    BY <1>1, <2>2, <2>3, <2>4 DEF UserRequest
<1>2. ASSUME NEW c \in Calls, Continue(c) PROVE EntryHasHolder'
  <2>1. CASE ToolFound(c)
    BY <2>1, ToolsAssumption DEF ToolFound, Fresh, EntryHasHolder
  <2>2. CASE Spawn(c) \/ Attach(c) \/ ConnectReturns(c) \/ Discarded(c)
             \/ NoAnswer(c) \/ NoTarget(c) \/ OperationSucceeds(c) \/ LetGo(c)
             \/ DisconnectFails(c)
    <3>1. owner' = owner /\ backend' = backend /\ call[c].pc # "check"
      BY <2>2 DEF Spawn, Attach, ConnectReturns, Discarded, NoAnswer, NoTarget,
                  OperationSucceeds, LetGo, DisconnectFails, service
    <3>2. \A d \in Calls \ {c} : call'[d] = call[d]
      BY <2>2 DEF Spawn, Attach, ConnectReturns, Discarded, NoAnswer, NoTarget,
                  OperationSucceeds, LetGo, DisconnectFails, Return, TypeOK
    <3> QED
      BY <3>1, <3>2, OthersKeepHolder
  <2>3. CASE NoProcess(c) \/ CleanedUp(c) \/ DisconnectDone(c) \/ ForceDone(c)
    BY <2>3, DropKeepsHolder
       DEF NoProcess, CleanedUp, CatchClause, DisconnectDone, ForceDone
  <2>4. CASE OperationFails(c)
    <3>1. CASE DropBackend
      BY <3>1, DropKeepsHolder
    <3>2. CASE UNCHANGED <<backend, owner>>
      BY <2>4, <3>2, OthersKeepHolder DEF OperationFails, Return, TypeOK
    <3> QED
      BY <2>4, <3>1, <3>2 DEF OperationFails
  <2>5. CASE FallBack(c)
    BY <2>5, EmergencyKeepsHolder DEF FallBack
  <2> QED
    BY <1>2, <2>1, <2>2, <2>3, <2>4, <2>5 DEF Continue
<1>3. ASSUME NEW t \in Tools, ToolExits(t) PROVE EntryHasHolder'
  BY <1>3, OthersKeepHolder DEF ToolExits, service
<1>4. ASSUME NEW o \in Owner, OtherAcquire(o) \/ OtherRelease(o)
      PROVE  EntryHasHolder'
  BY <1>4 DEF OtherAcquire, OtherRelease, Released, EntryHasHolder
<1>5. CASE UNCHANGED vars
  BY <1>5, OthersKeepHolder DEF vars, service
<1> QED
  BY <1>1, <1>2, <1>3, <1>4, <1>5 DEF Next

\* The programmer never keeps the entry without a backend to drop or an attempt
\* that is about to get one, so the data connection and the probe are not
\* locked out by a failed or force-terminated session.
THEOREM EntryAlwaysHasHolder == Spec => []EntryHasHolder
<1>1. Init => EntryHasHolder
  BY DEF Init, EntryHasHolder
<1>2. Inv /\ EntryHasHolder /\ [Next]_vars => EntryHasHolder'
  BY HolderStep DEF Inv
<1> QED
  BY <1>1, <1>2, InvInit, InvStep, PTL DEF Spec

-------------------------------------------------------------------------------
(***************************************************************************)
(* What is not overtaken.  A connect starts with no call in progress, so    *)
(* all calls that are in progress are about the same tool, the one connect  *)
(* found.  Looking and Attempt say what a connect may rely on at each of    *)
(* its awaits, Operating and Session that an operation, or a session that   *)
(* could begin one, is alone; Processes who will end each process, Busy who *)
(* will leave each state.                                                   *)
(***************************************************************************)
Alone(c) == \A d \in Calls \ {c} : ~InProgress(d)

OneTool ==
    \A c \in Calls :
        /\ call[c].pc \in {"idle", "check"} <=> call[c].tool = NoTool
        /\ call[c].tool # NoTool => backend \in {NoTool, call[c].tool}
        /\ \A d \in Calls : NoTool \notin {call[c].tool, call[d].tool} =>
                                call[c].tool = call[d].tool

Looking ==
    \A c \in Calls : call[c].pc = "check" =>
        /\ Alone(c) /\ ~Stale(c)
        /\ state = "connecting" /\ owner = "programming"
        /\ backend = NoTool /\ running = {}

Attempting(c) == call[c].pc \in {"prepare", "spawned", "probing"}

Attempt ==
    \A c \in Calls : Attempting(c) =>
        LET t == call[c].tool
        IN  /\ ~Stale(c) => state = "connecting" /\ backend = t
            /\ \/ Alone(c) /\ (Stale(c) => backend = NoTool)
               \/ (Stale(c) /\ call[c].pc # "prepare" /\ t \notin running)
            /\ call[c].pc = "prepare" => t \notin running /\ handle[t] = "none"
            /\ call[c].pc = "probing" => handle[t] = "open" \/ t \notin running

\* The tool of these calls is known to be gone.
Ended ==
    \A c \in Calls :
        call[c].pc \in {"discard", "cleanup", "force"} => call[c].tool \notin running

Operating ==
    \A c \in Calls : call[c].pc = "operate" =>
        LET t == call[c].tool
        IN  IF Stale(c)
            THEN t \notin running /\ handle[t] = "none"
            ELSE /\ Alone(c) /\ state = "operating" /\ backend = t
                 /\ handle[t] \in {"open", "broken"}

Session ==
    backend # NoTool /\ Connected(backend) =>
        \A c \in Calls :
            \/ ~InProgress(c)
            \/ ~Stale(c) /\ call[c].pc \in {"probing", "operate"}

\* Every process has a session or a call that will end it.
Processes ==
    \A t \in running :
        \/ t = backend /\ handle[t] # "none"
        \/ \E c \in Calls :
              /\ call[c].tool = t
              /\ \/ call[c].pc \in {"spawned", "probing"}
                 \/ call[c].pc \in {"disconnect", "shutdown"} /\ handle[t] = "none"

Busy ==
    /\ state = "connecting" =>
          \E c \in Calls : ~Stale(c) /\ (Attempting(c) \/ call[c].pc \in {"check", "cleanup"})
    /\ state = "operating" => \E c \in Calls : ~Stale(c) /\ call[c].pc = "operate"
    /\ state = "disconnecting" =>
          \E c \in Calls : call[c].pc \in {"disconnect", "shutdown"}
    /\ state = "connected" => backend # NoTool /\ \A c \in Calls : ~InProgress(c)
    /\ state = "disconnected" =>
          backend = NoTool \/ \E c \in Calls : call[c].pc = "cleanup"

\* The entry is held for the backend, and no generation is ahead.
Entry == backend # NoTool => owner = "programming"

Generations == \A c \in Calls : call[c].gen <= operationGeneration

UndisturbedInv ==
    /\ Entry /\ Generations /\ OneTool /\ Looking /\ Attempt /\ Ended
    /\ Operating /\ Session /\ Processes /\ Busy

Undisturbed == ~overtaken => UndisturbedInv

-------------------------------------------------------------------------------
(* What connect does between its awaits: the call is alone, or it is stale   *)
(* and its tool has been killed.                                             *)

LEMMA ToolFoundKept ==
  ASSUME TypeOK, UndisturbedInv, NEW c \in Calls, ToolFound(c)
  PROVE  UndisturbedInv'
<1>1. /\ call[c].pc = "check" /\ Alone(c) /\ ~Stale(c) /\ running = {}
      /\ state = "connecting" /\ owner = "programming" /\ backend = NoTool
  BY DEF ToolFound, UndisturbedInv, Looking
<1>2. /\ backend' \in Tools /\ handle'[backend'] = "none"
      /\ UNCHANGED <<state, operationGeneration, owner, running>>
  BY DEF ToolFound, Fresh, TypeOK
<1>3. /\ \A d \in Calls \ {c} : call'[d] = call[d]
      /\ call'[c].pc = "prepare" /\ call'[c].tool = backend'
      /\ call'[c].gen = call[c].gen
  BY DEF ToolFound, TypeOK, Call, Fresh
<1> QED
  BY <1>1, <1>2, <1>3, ToolsAssumption
  DEF UndisturbedInv, Entry, Generations, OneTool, Looking, Attempt, Ended, Operating,
      Session, Processes, Busy, Attempting, Alone, Stale, Connected, InProgress, isBusy,
      Idle

LEMMA SpawnKept ==
  ASSUME TypeOK, UndisturbedInv, NEW c \in Calls, Spawn(c)
  PROVE  UndisturbedInv'
<1>1. /\ call[c].pc = "prepare"
      /\ OneTool /\ operationGeneration \in Nat /\ running \subseteq Tools
      /\ call[c].tool \in Tools /\ backend \in {NoTool, call[c].tool}
  BY ToolsAssumption DEF Spawn, UndisturbedInv, OneTool, TypeOK, Call
<1>2. /\ \A d \in Calls \ {c} : call'[d] = call[d]
      /\ call'[c].pc = "spawned" /\ call'[c].tool = call[c].tool
      /\ call'[c].gen = call[c].gen
  BY DEF Spawn, TypeOK, Call
<1>3. /\ UNCHANGED <<state, operationGeneration, backend, owner>>
      /\ running' = running \cup {call[c].tool}
      /\ handle'[call[c].tool] \in {"none", "process"}
      /\ \A u \in Tools \ {call[c].tool} : handle'[u] = handle[u]
  BY <1>1, <1>2 DEF Spawn, TypeOK, service, tools
<1> QED
  BY <1>1, <1>2, <1>3, ToolsAssumption
  DEF UndisturbedInv, Entry, Generations, OneTool, Looking, Attempt, Ended, Operating,
      Session, Processes, Busy, Attempting, Alone, Stale, Connected, InProgress, isBusy,
      Idle

LEMMA AttachKept ==
  ASSUME TypeOK, UndisturbedInv, NEW c \in Calls, Attach(c)
  PROVE  UndisturbedInv'
<1>1. /\ call[c].pc = "spawned"
      /\ OneTool /\ operationGeneration \in Nat /\ running \subseteq Tools
      /\ call[c].tool \in Tools /\ backend \in {NoTool, call[c].tool}
  BY ToolsAssumption DEF Attach, UndisturbedInv, OneTool, TypeOK, Call
<1>2. /\ \A d \in Calls \ {c} : call'[d] = call[d]
      /\ call'[c].pc = "probing" /\ call'[c].tool = call[c].tool
      /\ call'[c].gen = call[c].gen
  BY DEF Attach, TypeOK, Call
<1>3. /\ UNCHANGED <<state, operationGeneration, backend, owner>>
      /\ call[c].tool \in running /\ UNCHANGED running
      /\ handle'[call[c].tool] = "open"
      /\ \A u \in Tools \ {call[c].tool} : handle'[u] = handle[u]
  BY <1>1, <1>2 DEF Attach, TypeOK, service, tools
<1> QED
  BY <1>1, <1>2, <1>3, ToolsAssumption
  DEF UndisturbedInv, Entry, Generations, OneTool, Looking, Attempt, Ended, Operating,
      Session, Processes, Busy, Attempting, Alone, Stale, Connected, InProgress, isBusy,
      Idle

LEMMA ConnectReturnsKept ==
  ASSUME TypeOK, UndisturbedInv, NEW c \in Calls, ConnectReturns(c)
  PROVE  UndisturbedInv'
<1>1. /\ call[c].pc = "probing"
      /\ OneTool /\ operationGeneration \in Nat /\ running \subseteq Tools
      /\ call[c].tool \in Tools /\ backend \in {NoTool, call[c].tool}
  BY ToolsAssumption DEF ConnectReturns, UndisturbedInv, OneTool, TypeOK, Call
<1>2. /\ call[c].tool \in running /\ handle[call[c].tool] = "open"
      /\ UNCHANGED <<operationGeneration, backend, owner>>
  BY DEF ConnectReturns
<1>3. /\ \A d \in Calls \ {c} : call'[d] = call[d]
      /\ \/ /\ Stale(c) /\ UNCHANGED state /\ Kill(call[c].tool)
            /\ call'[c].pc = "discard" /\ call'[c].tool = call[c].tool
            /\ call'[c].gen = call[c].gen
         \/ /\ ~Stale(c) /\ state' = "connected" /\ call'[c] = Idle
            /\ UNCHANGED <<handle, running>>
  BY DEF ConnectReturns, Return, TypeOK, Call, tools
<1>4. \/ UNCHANGED <<handle, running>> /\ ~Stale(c)
      \/ /\ running' = {u \in running : u # call[c].tool \/ handle[u] = "none"}
         /\ handle'[call[c].tool] = "none"
         /\ \A u \in Tools \ {call[c].tool} : handle'[u] = handle[u]
  BY <1>1, <1>2, <1>3 DEF Kill
<1> QED
  BY <1>1, <1>2, <1>3, <1>4, ToolsAssumption
  DEF UndisturbedInv, Entry, Generations, OneTool, Looking, Attempt, Ended, Operating,
      Session, Processes, Busy, Attempting, Alone, Stale, Connected, InProgress, isBusy,
      Idle

LEMMA DiscardedKept ==
  ASSUME TypeOK, UndisturbedInv, NEW c \in Calls, Discarded(c)
  PROVE  UndisturbedInv'
<1>1. /\ call[c].pc = "discard"
      /\ OneTool /\ operationGeneration \in Nat /\ running \subseteq Tools
      /\ call[c].tool \in Tools /\ backend \in {NoTool, call[c].tool}
  BY ToolsAssumption DEF Discarded, UndisturbedInv, OneTool, TypeOK, Call
<1>2. /\ \A d \in Calls \ {c} : call'[d] = call[d]
      /\ call'[c] = Idle
  BY DEF Discarded, Return, TypeOK
<1>3. /\ UNCHANGED <<state, operationGeneration, backend, owner>>
      /\ UNCHANGED <<handle, running>>
  BY <1>1, <1>2 DEF Discarded, TypeOK, service, tools
<1> QED
  BY <1>1, <1>2, <1>3, ToolsAssumption
  DEF UndisturbedInv, Entry, Generations, OneTool, Looking, Attempt, Ended, Operating,
      Session, Processes, Busy, Attempting, Alone, Stale, Connected, InProgress, isBusy,
      Idle

LEMMA NoProcessKept ==
  ASSUME TypeOK, UndisturbedInv, NEW c \in Calls, NoProcess(c)
  PROVE  UndisturbedInv'
<1>1. /\ call[c].pc \in {"check", "prepare"} /\ operationGeneration \in Nat
  BY DEF NoProcess, TypeOK
<1>2. Alone(c) /\ running = {}
  BY <1>1, ToolsAssumption
  DEF UndisturbedInv, Looking, OneTool, Attempt, Attempting, Processes, Alone,
      InProgress, TypeOK
<1>3. /\ \A d \in Calls \ {c} : call'[d] = call[d]
      /\ call'[c] = Idle
  BY DEF NoProcess, Return, CatchClause, TypeOK
<1>4. /\ backend' = NoTool /\ owner' # "programming" /\ UNCHANGED operationGeneration
      /\ UNCHANGED <<handle, running>>
      /\ state' = IF Stale(c) THEN state ELSE "disconnected"
  BY DEF NoProcess, CatchClause, DropBackend, Released, tools
<1> QED
  BY <1>1, <1>2, <1>3, <1>4, ToolsAssumption
  DEF UndisturbedInv, Entry, Generations, OneTool, Looking, Attempt, Ended, Operating,
      Session, Processes, Busy, Attempting, Alone, Stale, Connected, InProgress, isBusy,
      Idle

LEMMA CleanedUpKept ==
  ASSUME TypeOK, UndisturbedInv, NEW c \in Calls, CleanedUp(c)
  PROVE  UndisturbedInv'
<1>1. /\ call[c].pc = "cleanup"
      /\ OneTool /\ operationGeneration \in Nat /\ running \subseteq Tools
      /\ call[c].tool \in Tools /\ backend \in {NoTool, call[c].tool}
  BY ToolsAssumption DEF CleanedUp, UndisturbedInv, OneTool, TypeOK, Call
<1>2. /\ \A d \in Calls \ {c} : call'[d] = call[d]
      /\ call'[c] = Idle
  BY DEF CleanedUp, Return, CatchClause, TypeOK
<1>3. /\ backend' = NoTool /\ owner' # "programming" /\ UNCHANGED operationGeneration
      /\ UNCHANGED <<handle, running>>
      /\ state' = IF Stale(c) THEN state ELSE "disconnected"
  BY <1>1, <1>2 DEF CleanedUp, TypeOK, service, tools, CatchClause, DropBackend, Released
<1> QED
  BY <1>1, <1>2, <1>3, ToolsAssumption
  DEF UndisturbedInv, Entry, Generations, OneTool, Looking, Attempt, Ended, Operating,
      Session, Processes, Busy, Attempting, Alone, Stale, Connected, InProgress, isBusy,
      Idle

LEMMA NoAnswerKept ==
  ASSUME TypeOK, UndisturbedInv, NEW c \in Calls, NoAnswer(c)
  PROVE  UndisturbedInv'
<1>1. /\ call[c].pc = "spawned"
      /\ OneTool /\ operationGeneration \in Nat /\ running \subseteq Tools
      /\ call[c].tool \in Tools /\ backend \in {NoTool, call[c].tool}
  BY ToolsAssumption DEF NoAnswer, UndisturbedInv, OneTool, TypeOK, Call
<1>2. /\ \A d \in Calls \ {c} : call'[d] = call[d]
      /\ call'[c].pc = "cleanup" /\ call'[c].tool = call[c].tool
      /\ call'[c].gen = call[c].gen
  BY DEF NoAnswer, TypeOK, Call
<1>3. /\ UNCHANGED <<state, operationGeneration, backend, owner>>
      /\ running' = running \ {call[c].tool} /\ handle'[call[c].tool] = "none"
      /\ \A u \in Tools \ {call[c].tool} : handle'[u] = handle[u]
  BY <1>1, <1>2 DEF NoAnswer, TypeOK, service, tools
<1> QED
  BY <1>1, <1>2, <1>3, ToolsAssumption
  DEF UndisturbedInv, Entry, Generations, OneTool, Looking, Attempt, Ended, Operating,
      Session, Processes, Busy, Attempting, Alone, Stale, Connected, InProgress, isBusy,
      Idle

LEMMA NoTargetKept ==
  ASSUME TypeOK, UndisturbedInv, NEW c \in Calls, NoTarget(c)
  PROVE  UndisturbedInv'
<1>1. /\ call[c].pc = "probing"
      /\ OneTool /\ operationGeneration \in Nat /\ running \subseteq Tools
      /\ call[c].tool \in Tools /\ backend \in {NoTool, call[c].tool}
  BY ToolsAssumption DEF NoTarget, UndisturbedInv, OneTool, TypeOK, Call
<1>2. /\ \A d \in Calls \ {c} : call'[d] = call[d]
      /\ call'[c].pc = "cleanup" /\ call'[c].tool = call[c].tool
      /\ call'[c].gen = call[c].gen
  BY DEF NoTarget, TypeOK, Call
<1>3. /\ UNCHANGED <<operationGeneration, backend, owner>>
      /\ state' # state => state' = "disconnected" /\ ~Stale(c)
      /\ running' = {u \in running : u # call[c].tool \/ handle[u] = "none"}
      /\ handle'[call[c].tool] = "none"
      /\ \A u \in Tools \ {call[c].tool} : handle'[u] = handle[u]
  BY <1>1, <1>2 DEF NoTarget, TypeOK, service, tools, Kill
<1> QED
  BY <1>1, <1>2, <1>3, ToolsAssumption
  DEF UndisturbedInv, Entry, Generations, OneTool, Looking, Attempt, Ended, Operating,
      Session, Processes, Busy, Attempting, Alone, Stale, Connected, InProgress, isBusy,
      Idle

-------------------------------------------------------------------------------
(* The end of an operation, of a disconnect and of a forced termination.     *)

LEMMA OperationSucceedsKept ==
  ASSUME TypeOK, UndisturbedInv, NEW c \in Calls, OperationSucceeds(c)
  PROVE  UndisturbedInv'
<1>1. /\ call[c].pc = "operate"
      /\ OneTool /\ operationGeneration \in Nat /\ running \subseteq Tools
      /\ call[c].tool \in Tools /\ backend \in {NoTool, call[c].tool}
  BY ToolsAssumption DEF OperationSucceeds, UndisturbedInv, OneTool, TypeOK, Call
<1>2. /\ \A d \in Calls \ {c} : call'[d] = call[d]
      /\ call'[c] = Idle
  BY DEF OperationSucceeds, Return, TypeOK
<1>3. /\ UNCHANGED <<operationGeneration, backend, owner, handle, running>>
      /\ handle[call[c].tool] = "open"
      /\ state' = IF Stale(c) THEN state ELSE "connected"
  BY <1>1, <1>2 DEF OperationSucceeds, TypeOK, service, tools
<1> QED
  BY <1>1, <1>2, <1>3, ToolsAssumption
  DEF UndisturbedInv, Entry, Generations, OneTool, Looking, Attempt, Ended, Operating,
      Session, Processes, Busy, Attempting, Alone, Stale, Connected, InProgress, isBusy,
      Idle

LEMMA OperationFailsKept ==
  ASSUME TypeOK, UndisturbedInv, NEW c \in Calls, OperationFails(c)
  PROVE  UndisturbedInv'
<1>1. /\ call[c].pc = "operate"
      /\ OneTool /\ operationGeneration \in Nat /\ running \subseteq Tools
      /\ call[c].tool \in Tools /\ backend \in {NoTool, call[c].tool}
  BY ToolsAssumption DEF OperationFails, UndisturbedInv, OneTool, TypeOK, Call
<1>2. /\ \A d \in Calls \ {c} : call'[d] = call[d]
      /\ call'[c] = Idle
  BY DEF OperationFails, Return, TypeOK
<1>3. /\ UNCHANGED operationGeneration
      /\ \/ UNCHANGED <<handle, running>>
         \/ running' = running \ {call[c].tool} /\ UNCHANGED handle
         \/ /\ handle[call[c].tool] = "open" /\ handle'[call[c].tool] = "broken"
            /\ UNCHANGED running
            /\ \A u \in Tools \ {call[c].tool} : handle'[u] = handle[u]
      /\ \/ Stale(c) /\ UNCHANGED <<state, backend, owner>>
         \/ /\ ~Stale(c) /\ state' = "connected" /\ UNCHANGED <<backend, owner>>
            /\ call[c].tool \in running' /\ handle'[call[c].tool] \in {"open", "broken"}
         \/ /\ ~Stale(c) /\ state' = "unknown"
            /\ backend' = NoTool /\ owner' # "programming"
            /\ ~(call[c].tool \in running' /\ handle'[call[c].tool] \in {"open", "broken"})
  BY <1>1, <1>2 DEF OperationFails, TypeOK, service, tools, DropBackend, Released
<1> QED
  BY <1>1, <1>2, <1>3, ToolsAssumption
  DEF UndisturbedInv, Entry, Generations, OneTool, Looking, Attempt, Ended, Operating,
      Session, Processes, Busy, Attempting, Alone, Stale, Connected, InProgress, isBusy,
      Idle

LEMMA LetGoKept ==
  ASSUME TypeOK, UndisturbedInv, NEW c \in Calls, LetGo(c)
  PROVE  UndisturbedInv'
<1>1. /\ call[c].pc \in {"disconnect", "shutdown"}
      /\ OneTool /\ operationGeneration \in Nat /\ running \subseteq Tools
      /\ call[c].tool \in Tools /\ backend \in {NoTool, call[c].tool}
  BY ToolsAssumption DEF LetGo, UndisturbedInv, OneTool, TypeOK, Call
<1>2. UNCHANGED call
  BY DEF LetGo
<1>3. /\ UNCHANGED <<state, operationGeneration, backend, owner>> /\ UNCHANGED running
      /\ handle[call[c].tool] = "process" /\ handle'[call[c].tool] = "none"
      /\ \A u \in Tools \ {call[c].tool} : handle'[u] = handle[u]
  BY <1>1, <1>2 DEF LetGo, TypeOK, service, tools
<1> QED
  BY <1>1, <1>2, <1>3, ToolsAssumption
  DEF UndisturbedInv, Entry, Generations, OneTool, Looking, Attempt, Ended, Operating,
      Session, Processes, Busy, Attempting, Alone, Stale, Connected, InProgress, isBusy,
      Idle

LEMMA DisconnectDoneKept ==
  ASSUME TypeOK, UndisturbedInv, NEW c \in Calls, DisconnectDone(c)
  PROVE  UndisturbedInv'
<1>1. /\ call[c].pc \in {"disconnect", "shutdown"}
      /\ OneTool /\ operationGeneration \in Nat /\ running \subseteq Tools
      /\ call[c].tool \in Tools /\ backend \in {NoTool, call[c].tool}
  BY ToolsAssumption DEF DisconnectDone, UndisturbedInv, OneTool, TypeOK, Call
<1>2. /\ \A d \in Calls \ {c} : call'[d] = call[d]
      /\ call'[c] = Idle
  BY DEF DisconnectDone, Return, TypeOK
<1>3. /\ backend' = NoTool /\ owner' # "programming" /\ UNCHANGED operationGeneration
      /\ UNCHANGED handle /\ handle[call[c].tool] # "process"
      /\ running' = running \ {call[c].tool} /\ state' = "disconnected"
  BY <1>1, <1>2 DEF DisconnectDone, TypeOK, service, tools, DropBackend, Released
<1> QED
  BY <1>1, <1>2, <1>3, ToolsAssumption
  DEF UndisturbedInv, Entry, Generations, OneTool, Looking, Attempt, Ended, Operating,
      Session, Processes, Busy, Attempting, Alone, Stale, Connected, InProgress, isBusy,
      Idle

LEMMA DisconnectFailsKept ==
  ASSUME TypeOK, UndisturbedInv, NEW c \in Calls, DisconnectFails(c)
  PROVE  UndisturbedInv'
<1>1. /\ call[c].pc \in {"disconnect", "shutdown"}
      /\ OneTool /\ operationGeneration \in Nat /\ running \subseteq Tools
      /\ call[c].tool \in Tools /\ backend \in {NoTool, call[c].tool}
  BY ToolsAssumption DEF DisconnectFails, UndisturbedInv, OneTool, TypeOK, Call
<1>2. /\ \A d \in Calls \ {c} : call'[d] = call[d]
      /\ \/ call'[c] = Idle
         \/ /\ call'[c].pc = "fallback" /\ call'[c].tool = call[c].tool
            /\ call'[c].gen = call[c].gen
  BY DEF DisconnectFails, Return, TypeOK, Call
<1>3. /\ UNCHANGED <<operationGeneration, backend, owner, handle>>
      /\ running' = IF handle[call[c].tool] = "process" THEN running
                    ELSE running \ {call[c].tool}
      /\ state' = "unknown"
  BY <1>1, <1>2 DEF DisconnectFails, TypeOK, service, tools
<1> QED
  BY <1>1, <1>2, <1>3, ToolsAssumption
  DEF UndisturbedInv, Entry, Generations, OneTool, Looking, Attempt, Ended, Operating,
      Session, Processes, Busy, Attempting, Alone, Stale, Connected, InProgress, isBusy,
      Idle

LEMMA ForceDoneKept ==
  ASSUME TypeOK, UndisturbedInv, NEW c \in Calls, ForceDone(c)
  PROVE  UndisturbedInv'
<1>1. /\ call[c].pc = "force"
      /\ OneTool /\ operationGeneration \in Nat /\ running \subseteq Tools
      /\ call[c].tool \in Tools /\ backend \in {NoTool, call[c].tool}
  BY ToolsAssumption DEF ForceDone, UndisturbedInv, OneTool, TypeOK, Call
<1>2. /\ \A d \in Calls \ {c} : call'[d] = call[d]
      /\ call'[c] = Idle
  BY DEF ForceDone, Return, TypeOK
<1>3. /\ backend' = NoTool /\ owner' # "programming" /\ UNCHANGED operationGeneration
      /\ UNCHANGED <<state, handle, running>>
  BY <1>1, <1>2 DEF ForceDone, TypeOK, service, tools, DropBackend, Released
<1> QED
  BY <1>1, <1>2, <1>3, ToolsAssumption
  DEF UndisturbedInv, Entry, Generations, OneTool, Looking, Attempt, Ended, Operating,
      Session, Processes, Busy, Attempting, Alone, Stale, Connected, InProgress, isBusy,
      Idle

-------------------------------------------------------------------------------
(* The requests of the user.                                                 *)

\* A request that supersedes makes every call stale.
LEMMA AllStale ==
  ASSUME TypeOK, Generations, Supersede
  PROVE  /\ operationGeneration' \in Nat
         /\ \A d \in Calls : /\ call[d].gen <= operationGeneration'
                            /\ call[d].gen # operationGeneration'
<1>1. \A d \in Calls : call[d].gen \in Nat
  BY DEF TypeOK, Call
<1> QED
  BY <1>1 DEF TypeOK, Generations, Supersede

LEMMA ConnectKept ==
  ASSUME TypeOK, UndisturbedInv, NEW c \in Calls, Connect(c), ~overtaken'
  PROVE  UndisturbedInv'
<1>1. Alone(c) /\ ~InProgress(c) /\ backend = NoTool
  BY DEF Connect, Alone, TypeOK
<1>2. /\ \A d \in Calls \ {c} : call'[d] = call[d]
      /\ call'[c].pc = "check" /\ call'[c].tool = NoTool
      /\ call'[c].gen = operationGeneration'
  BY DEF Connect, Suspend, TypeOK
<1>3. /\ operationGeneration' \in Nat
      /\ \A d \in Calls : /\ call[d].gen <= operationGeneration'
                         /\ call[d].gen # operationGeneration'
  BY AllStale DEF Connect, UndisturbedInv
<1>4. running = {}
  BY <1>1, ToolsAssumption
  DEF UndisturbedInv, Processes, Alone, InProgress, TypeOK
<1>5. /\ owner' = "programming" /\ state' = "connecting"
      /\ UNCHANGED <<backend, handle, running>>
  BY DEF Connect, tools
<1> QED
  BY <1>1, <1>2, <1>3, <1>4, <1>5, ToolsAssumption
  DEF UndisturbedInv, Entry, Generations, OneTool, Looking, Attempt, Ended, Operating,
      Session, Processes, Busy, Attempting, Alone, Stale, Connected, InProgress, isBusy,
      Idle

LEMMA RunOperationKept ==
  ASSUME TypeOK, UndisturbedInv, NEW c \in Calls, RunOperation(c)
  PROVE  UndisturbedInv'
<1>1. /\ operationGeneration' \in Nat
      /\ \A d \in Calls : /\ call[d].gen <= operationGeneration'
                         /\ call[d].gen # operationGeneration'
  BY AllStale DEF RunOperation, UndisturbedInv
<1>2. \A d \in Calls : ~InProgress(d)
  BY DEF RunOperation, TypeOK, isBusy, UndisturbedInv, Session, Attempt, Attempting, Operating
<1>3. /\ \A d \in Calls \ {c} : call'[d] = call[d]
      /\ call'[c].pc = "operate" /\ call'[c].tool = backend
      /\ call'[c].gen = operationGeneration'
  BY DEF RunOperation, Suspend, TypeOK
<1>4. /\ backend \in Tools /\ Connected(backend) /\ state' = "operating"
      /\ UNCHANGED <<backend, owner, handle, running>>
  BY DEF RunOperation, TypeOK, tools
<1> QED
  BY <1>1, <1>2, <1>3, <1>4, ToolsAssumption
  DEF UndisturbedInv, Entry, Generations, OneTool, Looking, Attempt, Ended, Operating,
      Session, Processes, Busy, Attempting, Alone, Stale, Connected, InProgress, isBusy,
      Idle

LEMMA DisconnectKept ==
  ASSUME TypeOK, UndisturbedInv, NEW c \in Calls,
         NEW at \in {"disconnect", "shutdown"}, DisconnectAs(c, at)
  PROVE  UndisturbedInv'
<1>1. /\ operationGeneration' \in Nat
      /\ \A d \in Calls : /\ call[d].gen <= operationGeneration'
                         /\ call[d].gen # operationGeneration'
  BY AllStale DEF DisconnectAs, UndisturbedInv
<1>2. /\ ~isBusy /\ call[c].pc = "idle" /\ backend \in Tools \cup {NoTool}
      /\ running \subseteq Tools /\ UNCHANGED <<backend, owner, running>>
  BY DEF DisconnectAs, InProgress, TypeOK
<1>3. \/ backend = NoTool /\ UNCHANGED <<state, handle, call>>
      \/ /\ backend # NoTool /\ state' = "disconnecting"
         /\ \A d \in Calls \ {c} : call'[d] = call[d]
         /\ call'[c].pc = at /\ call'[c].tool = backend
         /\ call'[c].gen = operationGeneration'
         /\ handle'[backend] \in {"none", "process"}
         /\ handle[backend] = "none" => handle'[backend] = "none"
         /\ \A u \in Tools \ {backend} : handle'[u] = handle[u]
  BY <1>1, <1>2 DEF DisconnectAs, Suspend, TypeOK
<1> QED
  BY <1>1, <1>2, <1>3, ToolsAssumption
  DEF UndisturbedInv, Entry, Generations, OneTool, Looking, Attempt, Ended, Operating,
      Session, Processes, Busy, Attempting, Alone, Stale, Connected, InProgress, isBusy,
      Idle

LEMMA EmergencyKept ==
  ASSUME TypeOK, UndisturbedInv, NEW c \in Calls, call[c].pc \in {"idle", "fallback"},
         \A d \in Calls : call[d].pc # "check", Emergency(c)
  PROVE  UndisturbedInv'
<1>1. /\ operationGeneration' \in Nat
      /\ \A d \in Calls : /\ call[d].gen <= operationGeneration'
                         /\ call[d].gen # operationGeneration'
  BY AllStale DEF Emergency, UndisturbedInv
<1>2. /\ call[c].pc \in {"idle", "fallback"} /\ backend \in Tools \cup {NoTool}
      /\ running \subseteq Tools /\ state' = "unknown"
      /\ \A d \in Calls \ {c} : call'[d] = call[d]
  BY DEF Emergency, Suspend, Return, TypeOK
<1>3. \/ /\ backend = NoTool \/ handle[backend] = "none"
         /\ backend' = NoTool /\ owner' # "programming" /\ UNCHANGED <<handle, running>>
         /\ call'[c] = Idle
      \/ /\ backend # NoTool /\ handle[backend] # "none" /\ UNCHANGED <<backend, owner>>
         /\ call'[c].pc = "force" /\ call'[c].tool = backend
         /\ call'[c].gen = operationGeneration'
         /\ running' = {u \in running : u # backend \/ handle[u] = "none"}
         /\ handle'[backend] = "none"
         /\ \A u \in Tools \ {backend} : handle'[u] = handle[u]
  BY <1>1, <1>2 DEF Emergency, Kill, DropBackend, Released, Suspend, Return, TypeOK, tools
<1> QED
  BY <1>1, <1>2, <1>3, ToolsAssumption
  DEF UndisturbedInv, Entry, Generations, OneTool, Looking, Attempt, Ended, Operating,
      Session, Processes, Busy, Attempting, Alone, Stale, Connected, InProgress, isBusy,
      Idle

\* The tools that exit by themselves, and the other owners of the entry.
LEMMA OthersKept ==
  ASSUME TypeOK, UndisturbedInv,
         \/ \E t \in Tools : ToolExits(t)
         \/ \E o \in Owner : OtherAcquire(o) \/ OtherRelease(o)
         \/ UNCHANGED vars
  PROVE  UndisturbedInv'
<1>1. /\ UNCHANGED <<state, operationGeneration, backend, handle, call>>
      /\ running' \subseteq running /\ (owner = "programming" => owner' = "programming")
      /\ running \subseteq Tools /\ (owner # "programming" => owner' # "programming")
  BY DEF ToolExits, OtherAcquire, OtherRelease, Released, vars, service, tools, TypeOK
<1> QED
  BY <1>1
  DEF UndisturbedInv, Entry, Generations, OneTool, Looking, Attempt, Ended, Operating,
      Session, Processes, Busy, Attempting, Alone, Stale, Connected, InProgress

\* Requests and continuations only ever set overtaken.
LEMMA UndisturbedStep == Inv /\ Undisturbed /\ [Next]_vars => Undisturbed'
<1> SUFFICES ASSUME TypeOK, Undisturbed, [Next]_vars, ~overtaken'
             PROVE  UndisturbedInv'
  BY DEF Inv, Undisturbed
<1>1. ASSUME NEW c \in Calls, UserRequest(c) PROVE UndisturbedInv'
  <2>1. ~overtaken /\ call[c].pc = "idle"
    <3>1. CASE Connect(c) \/ ForceTerminate(c)
      BY <3>1 DEF Connect, ForceTerminate, InProgress
    <3>2. CASE RunOperation(c) \/ Disconnect(c) \/ Shutdown(c)
      BY <3>2 DEF RunOperation, Disconnect, Shutdown, DisconnectAs, InProgress
    <3> QED
      BY <1>1, <3>1, <3>2 DEF UserRequest
  <2>2. UndisturbedInv
    BY <2>1 DEF Undisturbed
  <2>3. CASE ForceTerminate(c)
    BY <2>1, <2>2, <2>3, EmergencyKept DEF ForceTerminate
  <2> QED
    BY <1>1, <2>2, <2>3, ConnectKept, RunOperationKept, DisconnectKept
       DEF UserRequest, Disconnect, Shutdown
<1>2. ASSUME NEW c \in Calls, Continue(c) PROVE UndisturbedInv'
  <2>1. ~overtaken
    BY <1>2 DEF Continue, ToolFound, Spawn, Attach, ConnectReturns, Discarded,
                NoProcess, NoAnswer, NoTarget, CleanedUp, OperationSucceeds,
                OperationFails, LetGo, DisconnectDone, DisconnectFails, FallBack,
                ForceDone
  <2>2. UndisturbedInv
    BY <2>1 DEF Undisturbed
  <2>3. CASE FallBack(c)
    <3>1. call[c].pc = "fallback" /\ Emergency(c)
      BY <2>3 DEF FallBack
    <3>2. \A d \in Calls : call[d].pc # "check"
      BY <2>2, <3>1 DEF UndisturbedInv, Looking, Alone, InProgress
    <3> QED
      BY <2>2, <3>1, <3>2, EmergencyKept
  <2> QED
    BY <1>2, <2>2, <2>3, ToolFoundKept, SpawnKept, AttachKept, ConnectReturnsKept,
       DiscardedKept, NoProcessKept, NoAnswerKept, NoTargetKept, CleanedUpKept,
       OperationSucceedsKept, OperationFailsKept, LetGoKept, DisconnectDoneKept,
       DisconnectFailsKept, ForceDoneKept
       DEF Continue
<1>3. CASE \/ \E t \in Tools : ToolExits(t)
           \/ \E o \in Owner : OtherAcquire(o) \/ OtherRelease(o)
           \/ UNCHANGED vars
  <2>1. ~overtaken
    BY <1>3 DEF ToolExits, OtherAcquire, OtherRelease, vars
  <2> QED
    BY <1>3, <2>1, OthersKept DEF Undisturbed
<1> QED
  BY <1>1, <1>2, <1>3 DEF Next

LEMMA UndisturbedInit == Init => Undisturbed
BY DEF Init, Undisturbed, UndisturbedInv, Entry, Generations, OneTool, Looking,
       Attempt, Attempting, Ended, Operating, Session, Processes, Busy, Idle

LEMMA AlwaysUndisturbed == Spec => [](TypeOK /\ Undisturbed)
<1>1. Inv => TypeOK
  BY DEF Inv
<1> QED
  BY <1>1, InvInit, InvStep, UndisturbedInit, UndisturbedStep, PTL DEF Spec

\* As long as no call was overtaken, only a forced termination takes the tool
\* from a running operation: an operation that still has its tool is alone, its
\* tool is the backend, and the programmer owns the entry (_runOperation,
\* disconnect, isBusy).
THEOREM OperationNeverDisturbed == Spec => []OperationUndisturbed
<1>1. TypeOK /\ Undisturbed => OperationUndisturbed
  <2> SUFFICES ASSUME TypeOK, UndisturbedInv, NEW c \in Calls, call[c].pc = "operate",
                      handle[call[c].tool] # "none"
               PROVE  /\ state = "operating" /\ owner = "programming"
                      /\ backend = call[c].tool
                      /\ \A d \in Calls \ {c} : call[d].tool # call[c].tool
    BY DEF OperationUndisturbed, Undisturbed
  <2>1. /\ Alone(c) /\ state = "operating" /\ backend = call[c].tool
    BY DEF UndisturbedInv, Operating
  <2>2. call[c].tool # NoTool /\ owner = "programming"
    BY <2>1 DEF UndisturbedInv, OneTool, Entry
  <2> QED
    BY <2>1, <2>2 DEF UndisturbedInv, OneTool, Alone, InProgress
<1> QED
  BY <1>1, AlwaysUndisturbed, PTL

\* As long as no call was overtaken, a service with nothing in progress owns the
\* entry exactly while it has a backend, has left no process behind, and says
\* "connected" only with a backend (connect, disconnect, forceTerminate).
THEOREM ServiceConsistent == Spec => []ConsistentUnlessOvertaken
<1>1. TypeOK /\ EntryHasHolder /\ Undisturbed => ConsistentUnlessOvertaken
  <2> SUFFICES ASSUME TypeOK, EntryHasHolder, UndisturbedInv, Quiescent
               PROVE  /\ owner = "programming" <=> backend # NoTool
                      /\ running \subseteq {backend}
                      /\ state \in {"connected", "disconnected", "unknown"}
                      /\ state = "connected" => backend # NoTool
                      /\ state = "disconnected" => backend = NoTool
    BY DEF ConsistentUnlessOvertaken, Undisturbed
  <2>1. \A c \in Calls : call[c].pc = "idle"
    BY DEF Quiescent, InProgress
  <2>2. owner = "programming" <=> backend # NoTool
    BY <2>1 DEF EntryHasHolder, UndisturbedInv, Entry
  <2>3. running \subseteq {backend}
    BY <2>1 DEF UndisturbedInv, Processes
  <2> QED
    BY <2>1, <2>2, <2>3
       DEF UndisturbedInv, Busy, Attempting, TypeOK, FlashOperationState
<1> QED
  BY <1>1, AlwaysUndisturbed, EntryAlwaysHasHolder, PTL
===============================================================================
