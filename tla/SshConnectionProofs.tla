-------------------------- MODULE SshConnectionProofs --------------------------
(***************************************************************************)
(* Proofs about SshConnection for any number of concurrent calls, client   *)
(* objects and requests.                                                   *)
(***************************************************************************)
EXTENDS SshConnection, TLAPS

(***************************************************************************)
(* The invariants that the runs check are not inductive.  CallsInv says    *)
(* what holds of the calls in every behaviour: they hold different clients *)
(* and different generations, and each client is in the state its call     *)
(* waits for.  AttemptInv says what holds until a late call ends what a    *)
(* later one began: only the call of the current generation can still      *)
(* change the service, and the state tells which one that is.  Neither     *)
(* mentions the entry, so they hold whoever else uses it; EntryHeld and    *)
(* EntryNotLeaked need an entry that only the service takes as "data".     *)
(***************************************************************************)
Attempting == {"connector", "shell", "failed"}

Held(c) == call[c].pc # "idle"

Doing(pc) == IF pc = "connector" THEN "opening"
             ELSE IF pc = "shell" THEN "open" ELSE "closing"

HeldInv(c) ==
    Held(c) => /\ call[c].gen <= generation
               /\ call[c].pc = "stale" => call[c].gen < generation
               /\ call[c].client \in Clients
               /\ call[c].client # client
               /\ session[call[c].client] = Doing(call[c].pc)

Apart(c, d) ==
    Held(c) /\ Held(d) /\ c # d => /\ call[c].gen # call[d].gen
                                   /\ call[c].client # call[d].client

CallsInv ==
    /\ \A c \in Calls : HeldInv(c)
    /\ \A c, d \in Calls : Apart(c, d)
    /\ client # NoClient => session[client] = "open"

CurrentInv(c) ==
    Held(c) /\ Current(c) =>
       \/ call[c].pc \in Attempting /\ state = "connecting"
       \/ call[c].pc = "closing" /\ state = "disconnecting"

AttemptInv ==
    /\ \A c \in Calls : CurrentInv(c)
    /\ state = "connecting" =>
          \E c \in Calls : call[c].pc \in Attempting /\ Current(c)
    /\ state = "connected" <=> client # NoClient
    /\ client # NoClient => listening = generation
    /\ \A s \in Clients :
          session[s] # "idle" => s = client \/ \E c \in Calls :
                                    Held(c) /\ call[c].client = s

EntryHeld == state # "disconnected" => owner = "data"

Base == /\ TypeOK /\ CallsInv
        /\ overtaken \/ AttemptInv

Inv == /\ Base /\ EntryNotLeaked
       /\ overtaken \/ EntryHeld

-------------------------------------------------------------------------------
(* Types *)

LEMMA IdleType == Idle \in Call
BY DEF Idle, Call

LEMMA InitInv == Init => Inv
<1> SUFFICES ASSUME Init
             PROVE  Inv
  OBVIOUS
<1>1. TypeOK
  BY IdleType DEF Init, TypeOK, OwnerState
<1>2. \A c \in Calls : ~Held(c)
  BY DEF Init, Held, Idle
<1>3. CallsInv
  BY <1>2 DEF CallsInv, HeldInv, Apart, Init
<1>4. AttemptInv
  BY <1>2 DEF AttemptInv, CurrentInv, Init
<1> QED
  BY <1>1, <1>3, <1>4 DEF Inv, Base, EntryNotLeaked, EntryHeld, Init

LEMMA GotoType ==
  ASSUME NEW c \in Calls, TypeOK,
         NEW pc \in {"idle", "connector", "shell", "stale", "failed", "closing"},
         Goto(c, pc)
  PROVE  call' \in [Calls -> Call]
<1>1. [call[c] EXCEPT !.pc = pc] \in Call
  BY DEF TypeOK, Call
<1> QED
  BY <1>1 DEF Goto, TypeOK

LEMMA BeginType ==
  ASSUME TypeOK, NEW c \in Calls, NEW o,
         NEW f \in [Clients -> {"idle", "opening", "open", "closing"}],
         Begin(c, f, o)
  PROVE  /\ owner' \in OwnerState /\ generation' \in Nat
         /\ state' = "connecting"
         /\ session' \in [Clients -> {"idle", "opening", "open", "closing"}]
         /\ call' \in [Calls -> Call]
<1>1. PICK s \in Clients :
         /\ session' = [f EXCEPT ![s] = "opening"]
         /\ call' = [call EXCEPT ![c] = [pc |-> "connector",
                     gen |-> generation + 1, client |-> s, again |-> FALSE]]
  BY DEF Begin
<1>2. [pc |-> "connector", gen |-> generation + 1, client |-> s,
       again |-> FALSE] \in Call
  BY DEF Call, TypeOK
<1>3. call' \in [Calls -> Call]
  BY <1>1, <1>2 DEF TypeOK
<1> QED
  BY <1>1, <1>3 DEF Begin, TypeOK, OwnerState, Owner

LEMMA ReportType ==
  ASSUME TypeOK, ReportDisconnected
  PROVE  owner' \in OwnerState /\ state' = "disconnected"
BY DEF ReportDisconnected, Released, TypeOK, OwnerState

LEMMA DisconnectClientType ==
  ASSUME TypeOK, NEW c \in Calls, NEW again \in BOOLEAN,
         DisconnectClient(c, again), requests' \in Nat
  PROVE  TypeOK'
<1>1. [pc |-> "closing", gen |-> generation + 1, client |-> client,
       again |-> again] \in Call
  BY DEF Call, TypeOK
<1>2. call' \in [Calls -> Call]
  BY <1>1 DEF DisconnectClient, TypeOK
<1>3. session' \in [Clients -> {"idle", "opening", "open", "closing"}]
  BY DEF DisconnectClient, TypeOK
<1> QED
  BY <1>2, <1>3 DEF DisconnectClient, Invalidate, TypeOK

LEMMA TypeStep == TypeOK /\ [Next]_vars => TypeOK'
<1> SUFFICES ASSUME TypeOK, [Next]_vars
             PROVE  TypeOK'
  OBVIOUS
<1>1. CASE Cancel
  BY <1>1, ReportType DEF Cancel, Request, Invalidate, TypeOK
<1>2. ASSUME NEW c \in Calls, Connect(c)
      PROVE  TypeOK'
  BY <1>2, BeginType DEF Connect, Request, TypeOK
<1>3. ASSUME NEW c \in Calls, NEW again \in BOOLEAN,
             Request, DisconnectClient(c, again)
      PROVE  TypeOK'
  <2>1. requests' \in Nat
    BY <1>3 DEF Request, TypeOK
  <2> QED
    BY <1>3, <2>1, DisconnectClientType
<1>4. ASSUME NEW c \in Calls, Disconnect(c) \/ RemoteClosed(c) \/ Reconnect(c)
      PROVE  TypeOK'
  BY <1>3, <1>4, Zenon DEF Disconnect, RemoteClosed, Reconnect
<1>5. ASSUME NEW c \in Calls, ConnectorSucceeds(c)
      PROVE  TypeOK'
  BY <1>5, GotoType DEF ConnectorSucceeds, DiscardClient, TypeOK
<1>6. ASSUME NEW c \in Calls, ShellSucceeds(c)
      PROVE  TypeOK'
  <2>1. call[c] \in Call
    BY DEF TypeOK
  <2> QED
    BY <1>6, <2>1, GotoType, IdleType DEF ShellSucceeds, DiscardClient, TypeOK, Call
<1>7. ASSUME NEW c \in Calls, StaleDone(c)
      PROVE  TypeOK'
  BY <1>7, IdleType DEF StaleDone, TypeOK
<1>8. ASSUME NEW c \in Calls, ShellFails(c)
      PROVE  TypeOK'
  BY <1>8, GotoType DEF ShellFails, TypeOK
<1>9. ASSUME NEW c \in Calls, Failed(c)
      PROVE  TypeOK'
  <2>1. overtaken' \in BOOLEAN
    BY <1>9, Zenon DEF Failed, RecordOvertaken
  <2> QED
    BY <1>9, <2>1, ReportType, IdleType DEF Failed, TypeOK
<1>10. ASSUME NEW c \in Calls, CloseDone(c)
       PROVE  TypeOK'
  <2> DEFINE f == [session EXCEPT ![call[c].client] = "idle"]
             o == Released(owner, "data")
  <2>1. overtaken' \in BOOLEAN
    BY <1>10, Zenon DEF CloseDone, RecordOvertaken
  <2>2. f \in [Clients -> {"idle", "opening", "open", "closing"}]
    BY DEF TypeOK
  <2>3. CASE Begin(c, f, o)
    <3> HIDE DEF f, o
    <3> QED
      BY <1>10, <2>1, <2>2, <2>3, BeginType DEF CloseDone, TypeOK
  <2>4. CASE /\ ReportDisconnected
             /\ session' = f /\ call' = [call EXCEPT ![c] = Idle]
             /\ UNCHANGED generation
    BY <1>10, <2>1, <2>2, <2>4, ReportType, IdleType DEF CloseDone, TypeOK
  <2> QED
    BY <1>10, <2>3, <2>4 DEF CloseDone
<1>11. ASSUME NEW o \in Owner, OtherAcquire(o) \/ OtherRelease(o)
       PROVE  TypeOK'
  BY <1>11 DEF OtherAcquire, OtherRelease, Released, TypeOK, OwnerState
<1>12. CASE UNCHANGED vars
  BY <1>12 DEF vars, TypeOK
<1> QED
  BY <1>1, <1>2, <1>3, <1>4, <1>5, <1>6, <1>7, <1>8, <1>9, <1>10, <1>11, <1>12
     DEF Next, UserRequest, Continue

-------------------------------------------------------------------------------
(* CallsInv: what a step does to the calls and their clients *)

\* A call that captured a generation newer than all and a client of its own.
LEMMA NewCall ==
  ASSUME TypeOK, TypeOK', CallsInv, NEW c \in Calls,
         generation' = generation + 1,
         call'[c].gen = generation', call'[c].pc # "stale",
         call'[c].client \in Clients, call'[c].client # client',
         session'[call'[c].client] = Doing(call'[c].pc),
         \A d \in Calls \ {c} : call'[d] = call[d],
         \A d \in Calls \ {c} : Held(d) =>
            /\ call[d].client # call'[c].client
            /\ session'[call[d].client] = session[call[d].client]
            /\ call[d].client # client',
         client' # NoClient => session'[client'] = "open"
  PROVE  CallsInv'
<1>1. \A d \in Calls : HeldInv(d)'
  <2> TAKE d \in Calls
  <2>1. generation \in Nat /\ call[d].gen \in Nat
    BY DEF TypeOK, Call
  <2>2. CASE d = c
    BY <2>1, <2>2 DEF HeldInv, Held
  <2>3. CASE d # c
    <3>1. call'[d] = call[d]
      BY <2>3
    <3> QED
      BY <2>1, <2>3, <3>1 DEF CallsInv, HeldInv, Held
  <2> QED
    BY <2>2, <2>3
<1>2. \A d \in Calls \ {c} : Held(d) => call[d].gen # call'[c].gen
  <2> TAKE d \in Calls \ {c}
  <2>1. call[d].gen \in Nat /\ generation \in Nat
    BY DEF TypeOK, Call
  <2>2. Held(d) => call[d].gen <= generation
    BY DEF CallsInv, HeldInv
  <2> QED
    BY <2>1, <2>2
<1>3. \A d, e \in Calls : Apart(d, e)'
  BY <1>2 DEF CallsInv, Apart, Held
<1> QED
  BY <1>1, <1>3 DEF CallsInv

\* A call that goes on, or ends, keeps its generation and its client.
LEMMA OldCall ==
  ASSUME TypeOK, TypeOK', CallsInv, NEW c \in Calls, Held(c),
         generation' = generation,
         Held(c)' => /\ call'[c].gen = call[c].gen
                     /\ call'[c].client = call[c].client
                     /\ call'[c].client # client'
                     /\ session'[call'[c].client] = Doing(call'[c].pc)
                     /\ call'[c].pc = "stale" => ~Current(c),
         \A d \in Calls \ {c} : call'[d] = call[d],
         \A s \in Clients \ {call[c].client} : session'[s] = session[s],
         client' \in {client, NoClient, call[c].client},
         client' # NoClient => session'[client'] = "open"
  PROVE  CallsInv'
<1>1. \A d \in Calls : HeldInv(d)'
  <2> TAKE d \in Calls
  <2>1. CASE d = c
    BY <2>1 DEF CallsInv, HeldInv, Held, TypeOK, Call, Current
  <2>2. CASE d # c
    <3>1. call'[d] = call[d]
      BY <2>2
    <3>2. SUFFICES ASSUME Held(d)
                   PROVE  /\ call[d].client # client'
                          /\ session'[call[d].client] = session[call[d].client]
      BY <3>1 DEF CallsInv, HeldInv, Held
    <3>3. call[d].client # call[c].client
      BY <2>2, <3>2 DEF CallsInv, Apart
    <3> QED
      BY <3>2, <3>3, ClientsAssumption DEF CallsInv, HeldInv
  <2> QED
    BY <2>1, <2>2
<1>2. \A d, e \in Calls : Apart(d, e)'
  BY DEF CallsInv, Apart, Held
<1> QED
  BY <1>1, <1>2 DEF CallsInv

LEMMA BeginCalls ==
  ASSUME TypeOK, TypeOK', CallsInv, NEW c \in Calls, NEW f, NEW o,
         Begin(c, f, o), client' = client,
         \/ ~Held(c) /\ f = session
         \/ Held(c) /\ f = [session EXCEPT ![call[c].client] = "idle"]
  PROVE  CallsInv'
<1>1. PICK s \in Clients :
         /\ f[s] = "idle"
         /\ session' = [f EXCEPT ![s] = "opening"]
         /\ call' = [call EXCEPT ![c] = [pc |-> "connector",
                     gen |-> generation + 1, client |-> s, again |-> FALSE]]
  BY DEF Begin
<1>2. call'[c] = [pc |-> "connector", gen |-> generation + 1, client |-> s,
                  again |-> FALSE]
  BY <1>1 DEF TypeOK
<1>3. session'[s] = "opening"
  BY <1>1 DEF TypeOK
<1>4. \A d \in Calls \ {c} : Held(d) => /\ f[call[d].client] # "idle"
                                        /\ f[call[d].client] = session[call[d].client]
  BY DEF CallsInv, HeldInv, Held, Doing, TypeOK, Apart
<1>5. \A d \in Calls \ {c} : Held(d) =>
            /\ call[d].client # s
            /\ session'[call[d].client] = session[call[d].client]
            /\ call[d].client # client
  BY <1>1, <1>4 DEF CallsInv, HeldInv, TypeOK
<1>6. client # NoClient => f[client] = "open"
  BY DEF CallsInv, HeldInv, TypeOK
<1>7. client # s /\ (client # NoClient => session'[client] = "open")
  BY <1>1, <1>6, ClientsAssumption DEF TypeOK
<1>8. \A d \in Calls \ {c} : call'[d] = call[d]
  BY <1>1 DEF TypeOK
<1>9. generation' = generation + 1
  BY DEF Begin
<1> QED
  BY <1>2, <1>3, <1>5, <1>7, <1>8, <1>9, NewCall DEF Doing

LEMMA DisconnectCalls ==
  ASSUME TypeOK, TypeOK', CallsInv, NEW c \in Calls, NEW again \in BOOLEAN,
         DisconnectClient(c, again)
  PROVE  CallsInv'
<1>1. call'[c] = [pc |-> "closing", gen |-> generation + 1, client |-> client,
                  again |-> again]
  BY DEF DisconnectClient, TypeOK
<1>2. /\ client \in Clients /\ client' = NoClient
      /\ session' = [session EXCEPT ![client] = "closing"]
      /\ generation' = generation + 1
  BY DEF DisconnectClient, Invalidate, TypeOK
<1>3. session'[client] = "closing" /\ client # NoClient
  BY <1>2, ClientsAssumption DEF TypeOK
<1>4. \A d \in Calls \ {c} : call'[d] = call[d]
  BY DEF DisconnectClient, TypeOK
<1>5. \A d \in Calls \ {c} : Held(d) =>
            /\ call[d].client # client
            /\ session'[call[d].client] = session[call[d].client]
            /\ call[d].client # NoClient
  BY <1>2, ClientsAssumption DEF CallsInv, HeldInv, TypeOK
<1> QED
  BY <1>1, <1>2, <1>3, <1>4, <1>5, NewCall DEF Doing

\* The shapes of OldCall: the call waits for something else, or it ends.
LEMMA GotoCalls ==
  ASSUME TypeOK, TypeOK', CallsInv, NEW c \in Calls, Held(c),
         NEW pc \in {"connector", "shell", "stale", "failed", "closing"},
         Goto(c, pc), pc = "stale" => ~Current(c),
         session' = [session EXCEPT ![call[c].client] = Doing(pc)],
         UNCHANGED <<generation, client>>
  PROVE  CallsInv'
<1>1. call[c].client \in Clients /\ call[c].client # client
  BY DEF CallsInv, HeldInv
<1>2. call'[c].client = call[c].client /\ call'[c].gen = call[c].gen /\ call'[c].pc = pc
  BY DEF Goto, TypeOK, Call
<1>3. session'[call[c].client] = Doing(pc)
  BY <1>1 DEF TypeOK
<1>4. client # NoClient => session'[client] = "open"
  BY <1>1 DEF CallsInv, TypeOK
<1>5. \A d \in Calls \ {c} : call'[d] = call[d]
  BY DEF Goto, TypeOK
<1>6. \A s \in Clients \ {call[c].client} : session'[s] = session[s]
  BY DEF TypeOK
<1> QED
  BY <1>1, <1>2, <1>3, <1>4, <1>5, <1>6, OldCall

LEMMA EndCalls ==
  ASSUME TypeOK, TypeOK', CallsInv, NEW c \in Calls, Held(c),
         call' = [call EXCEPT ![c] = Idle], generation' = generation,
         session' = [session EXCEPT ![call[c].client] = "idle"],
         client' \in {client, NoClient}
  PROVE  CallsInv'
<1>1. call[c].client \in Clients /\ call[c].client # client
  BY DEF CallsInv, HeldInv
<1>2. ~Held(c)'
  BY DEF Held, Idle, TypeOK
<1>4. client' # NoClient => session'[client'] = "open"
  BY <1>1 DEF CallsInv, TypeOK
<1>5. \A d \in Calls \ {c} : call'[d] = call[d]
  BY DEF TypeOK
<1>6. \A s \in Clients \ {call[c].client} : session'[s] = session[s]
  BY DEF TypeOK
<1> QED
  BY <1>1, <1>2, <1>4, <1>5, <1>6, OldCall

LEMMA SameCalls ==
  ASSUME CallsInv, UNCHANGED <<generation, client, session, call>>
  PROVE  CallsInv'
BY DEF CallsInv, HeldInv, Apart, Held

LEMMA CallsStep == TypeOK /\ TypeOK' /\ CallsInv /\ [Next]_vars => CallsInv'
<1> SUFFICES ASSUME TypeOK, TypeOK', CallsInv, [Next]_vars
             PROVE  CallsInv'
  OBVIOUS
<1>1. CASE Cancel
  <2>1. \A c \in Calls : HeldInv(c)'
    <3> TAKE c \in Calls
    <3>1. generation \in Nat /\ call[c].gen \in Nat
      BY DEF TypeOK, Call
    <3> QED
      BY <1>1, <3>1 DEF Cancel, Invalidate, CallsInv, HeldInv, Held
  <2> QED
    BY <1>1, <2>1 DEF Cancel, CallsInv, Apart, Held
<1>2. ASSUME NEW c \in Calls, Connect(c)
      PROVE  CallsInv'
  BY <1>2, BeginCalls DEF Connect, Held
<1>3. ASSUME NEW c \in Calls, Disconnect(c) \/ RemoteClosed(c) \/ Reconnect(c)
      PROVE  CallsInv'
  BY <1>3, DisconnectCalls DEF Disconnect, RemoteClosed, Reconnect
<1>4. ASSUME NEW c \in Calls, ConnectorSucceeds(c)
      PROVE  CallsInv'
  BY <1>4, GotoCalls DEF ConnectorSucceeds, DiscardClient, Held, Doing
<1>5. ASSUME NEW c \in Calls, ShellSucceeds(c)
      PROVE  CallsInv'
  <2>1. Held(c) /\ session[call[c].client] = "open" /\ generation' = generation
    BY <1>5 DEF ShellSucceeds, Held, Doing, CallsInv, HeldInv
  <2>2. CASE ~Current(c) /\ DiscardClient(c)
    BY <1>5, <2>1, <2>2, GotoCalls DEF ShellSucceeds, DiscardClient, Doing
  <2>3. CASE /\ client' = call[c].client /\ call' = [call EXCEPT ![c] = Idle]
             /\ UNCHANGED session
    <3>1. ~Held(c)'
      BY <2>3 DEF Held, Idle, TypeOK
    <3>2. \A d \in Calls \ {c} : call'[d] = call[d]
      BY <2>3 DEF TypeOK
    <3> QED
      BY <2>1, <2>3, <3>1, <3>2, OldCall
  <2> QED
    BY <1>5, <2>2, <2>3 DEF ShellSucceeds
<1>6. ASSUME NEW c \in Calls, StaleDone(c)
      PROVE  CallsInv'
  BY <1>6, EndCalls DEF StaleDone, Held
<1>7. ASSUME NEW c \in Calls, ShellFails(c)
      PROVE  CallsInv'
  BY <1>7, GotoCalls DEF ShellFails, Held, Doing
<1>8. ASSUME NEW c \in Calls, Failed(c)
      PROVE  CallsInv'
  BY <1>8, EndCalls DEF Failed, Held
<1>9. ASSUME NEW c \in Calls, CloseDone(c)
      PROVE  CallsInv'
  <2>1. Held(c) /\ client' = client
    BY <1>9 DEF CloseDone, Held
  <2>2. CASE Begin(c, [session EXCEPT ![call[c].client] = "idle"],
                   Released(owner, "data"))
    BY <2>1, <2>2, BeginCalls
  <2>3. CASE /\ session' = [session EXCEPT ![call[c].client] = "idle"]
             /\ call' = [call EXCEPT ![c] = Idle]
             /\ UNCHANGED generation
    BY <2>1, <2>3, EndCalls
  <2> QED
    BY <1>9, <2>2, <2>3 DEF CloseDone
<1>10. ASSUME NEW o \in Owner, OtherAcquire(o) \/ OtherRelease(o)
       PROVE  CallsInv'
  BY <1>10, SameCalls DEF OtherAcquire, OtherRelease
<1>11. CASE UNCHANGED vars
  BY <1>11, SameCalls DEF vars
<1> QED
  BY <1>1, <1>2, <1>3, <1>4, <1>5, <1>6, <1>7, <1>8, <1>9, <1>10, <1>11
     DEF Next, UserRequest, Continue

-------------------------------------------------------------------------------
(* The entry, and AttemptInv *)

LEMMA EntryStep ==
  TypeOK /\ EntryNotLeaked /\ [Next]_vars => EntryNotLeaked'
<1> SUFFICES ASSUME TypeOK, EntryNotLeaked, [Next]_vars
             PROVE  EntryNotLeaked'
  OBVIOUS
<1>1. CASE Cancel
  BY <1>1 DEF Cancel, ReportDisconnected, Released, EntryNotLeaked
<1>2. ASSUME NEW c \in Calls,
             \/ Connect(c) \/ Disconnect(c) \/ Reconnect(c) \/ RemoteClosed(c)
             \/ CloseDone(c)
      PROVE  EntryNotLeaked'
  BY <1>2 DEF Connect, Begin, Disconnect, Reconnect, RemoteClosed,
              DisconnectClient, CloseDone, ReportDisconnected, Released,
              EntryNotLeaked
<1>3. ASSUME NEW c \in Calls,
             \/ ConnectorSucceeds(c) \/ ShellSucceeds(c) \/ StaleDone(c)
             \/ ShellFails(c) \/ Failed(c)
      PROVE  EntryNotLeaked'
  BY <1>3 DEF ConnectorSucceeds, ShellSucceeds, DiscardClient, StaleDone,
              ShellFails, Failed, ReportDisconnected, Released, EntryNotLeaked
<1>4. ASSUME NEW o \in Owner, OtherAcquire(o) \/ OtherRelease(o)
      PROVE  EntryNotLeaked'
  BY <1>4 DEF OtherAcquire, OtherRelease, Released, EntryNotLeaked
<1>5. CASE UNCHANGED vars
  BY <1>5 DEF vars, EntryNotLeaked
<1> QED
  BY <1>1, <1>2, <1>3, <1>4, <1>5 DEF Next, UserRequest, Continue

\* Whoever ends the service's session without overtaking anybody finds it
\* without a client, and is the current call or changes nothing.
LEMMA NotOvertaking ==
  ASSUME TypeOK, CallsInv, AttemptInv, NEW c \in Calls, Held(c),
         Current(c) \/ state = "disconnected"
  PROVE  client = NoClient
BY DEF AttemptInv, CurrentInv

\* No call of an older generation is current after a new one.
LEMMA NoneCurrent ==
  ASSUME TypeOK, CallsInv, generation' = generation + 1, NEW d \in Calls,
         Held(d)
  PROVE  call[d].gen # generation'
<1>1. call[d].gen \in Nat /\ generation \in Nat
  BY DEF TypeOK, Call
<1> QED
  BY <1>1 DEF CallsInv, HeldInv

LEMMA BeginAttempt ==
  ASSUME TypeOK, CallsInv, AttemptInv, NEW c \in Calls, NEW f, NEW o,
         Begin(c, f, o), client' = client, client = NoClient,
         \/ ~Held(c) /\ f = session
         \/ Held(c) /\ f = [session EXCEPT ![call[c].client] = "idle"]
  PROVE  AttemptInv'
<1>1. PICK s \in Clients :
         /\ f[s] = "idle"
         /\ session' = [f EXCEPT ![s] = "opening"]
         /\ call' = [call EXCEPT ![c] = [pc |-> "connector",
                     gen |-> generation + 1, client |-> s, again |-> FALSE]]
  BY DEF Begin
<1>2. call'[c] = [pc |-> "connector", gen |-> generation + 1, client |-> s,
                  again |-> FALSE]
  BY <1>1 DEF TypeOK
<1>3. \A d \in Calls \ {c} : call'[d] = call[d]
  BY <1>1 DEF TypeOK
<1>4. generation' = generation + 1 /\ state' = "connecting"
  BY DEF Begin
<1>5. \A d \in Calls \ {c} : ~(Held(d) /\ Current(d))'
  BY <1>3, <1>4, NoneCurrent DEF Held, Current
<1>6. \A d \in Calls : CurrentInv(d)'
  BY <1>2, <1>4, <1>5 DEF CurrentInv, Attempting
<1>7. call'[c].pc \in Attempting /\ Current(c)'
  BY <1>2, <1>4 DEF Attempting, Current
<1>8. ASSUME NEW t \in Clients, session'[t] # "idle"
      PROVE  \E d \in Calls : (Held(d) /\ call[d].client = t)'
  <2>1. CASE t = s
    BY <1>2, <2>1 DEF Held
  <2>2. CASE t # s
    <3>1. session[t] # "idle" /\ (Held(c) => t # call[c].client)
      BY <1>1, <1>8, <2>2 DEF TypeOK
    <3>2. PICK d \in Calls : Held(d) /\ call[d].client = t
      BY <3>1, ClientsAssumption DEF AttemptInv
    <3>3. d # c
      BY <3>1, <3>2
    <3> QED
      BY <1>3, <3>2, <3>3 DEF Held
  <2> QED
    BY <2>1, <2>2
<1> QED
  BY <1>4, <1>6, <1>7, <1>8 DEF AttemptInv, CurrentInv

\* The call that ends reports "disconnected" for the attempt or the disconnect
\* that is current, or the service is disconnected already.
LEMMA ReportAttempt ==
  ASSUME TypeOK, CallsInv, AttemptInv, NEW c \in Calls, Held(c),
         Current(c) \/ state = "disconnected",
         ReportDisconnected, generation' = generation, client' = NoClient,
         session' = [session EXCEPT ![call[c].client] = "idle"],
         call' = [call EXCEPT ![c] = Idle]
  PROVE  AttemptInv'
<1>1. client = NoClient /\ state' = "disconnected"
  BY NotOvertaking DEF ReportDisconnected
<1>2. ~Held(c)' /\ \A d \in Calls \ {c} : call'[d] = call[d]
  BY DEF Held, Idle, TypeOK
<1>3. \A d \in Calls \ {c} : ~(Held(d) /\ Current(d))
  BY DEF AttemptInv, CurrentInv, CallsInv, Apart, Current
<1>4. \A d \in Calls : CurrentInv(d)'
  BY <1>2, <1>3 DEF CurrentInv, Held, Current
<1>5. ASSUME NEW t \in Clients, session'[t] # "idle"
      PROVE  \E d \in Calls : (Held(d) /\ call[d].client = t)'
  <2>1. session[t] # "idle" /\ t # call[c].client
    BY <1>5 DEF TypeOK
  <2>2. PICK d \in Calls : Held(d) /\ call[d].client = t
    BY <1>1, <2>1, ClientsAssumption DEF AttemptInv
  <2> QED
    BY <1>2, <2>1, <2>2 DEF Held
<1> QED
  BY <1>1, <1>4, <1>5 DEF AttemptInv

LEMMA DisconnectAttempt ==
  ASSUME TypeOK, CallsInv, AttemptInv, NEW c \in Calls, NEW again \in BOOLEAN,
         DisconnectClient(c, again)
  PROVE  AttemptInv'
<1>1. call'[c] = [pc |-> "closing", gen |-> generation + 1, client |-> client,
                  again |-> again]
  BY DEF DisconnectClient, TypeOK
<1>2. \A d \in Calls \ {c} : call'[d] = call[d]
  BY DEF DisconnectClient, TypeOK
<1>3. /\ generation' = generation + 1 /\ state' = "disconnecting"
      /\ client' = NoClient /\ client # NoClient
      /\ session' = [session EXCEPT ![client] = "closing"] /\ ~Held(c)
  BY DEF DisconnectClient, Invalidate, Held
<1>4. \A d \in Calls \ {c} : ~(Held(d) /\ Current(d))'
  BY <1>2, <1>3, NoneCurrent DEF Held, Current
<1>5. \A d \in Calls : CurrentInv(d)'
  BY <1>1, <1>3, <1>4 DEF CurrentInv
<1>6. ASSUME NEW t \in Clients, session'[t] # "idle"
      PROVE  \E d \in Calls : (Held(d) /\ call[d].client = t)'
  <2>1. CASE t = client
    BY <1>1, <2>1 DEF Held
  <2>2. CASE t # client
    <3>1. PICK d \in Calls : Held(d) /\ call[d].client = t
      BY <1>3, <1>6, <2>2 DEF AttemptInv, TypeOK
    <3> QED
      BY <1>2, <1>3, <3>1 DEF Held
  <2> QED
    BY <2>1, <2>2
<1> QED
  BY <1>3, <1>5, <1>6 DEF AttemptInv

\* A call goes on without changing the service.
LEMMA GotoAttempt ==
  ASSUME TypeOK, CallsInv, AttemptInv, NEW c \in Calls, Held(c),
         NEW pc \in {"connector", "shell", "stale", "failed", "closing"},
         Goto(c, pc),
         \/ call[c].pc \in Attempting /\ pc \in Attempting
         \/ ~Current(c),
         NEW h, session' = [session EXCEPT ![call[c].client] = h],
         UNCHANGED <<state, generation, client, listening>>
  PROVE  AttemptInv'
<1>1. call'[c].client = call[c].client /\ call'[c].gen = call[c].gen /\ call'[c].pc = pc
  BY DEF Goto, TypeOK, Call
<1>2. \A d \in Calls \ {c} : call'[d] = call[d]
  BY DEF Goto, TypeOK
<1>3. \A d \in Calls : CurrentInv(d)'
  <2> TAKE d \in Calls
  <2>1. CASE d = c
    BY <1>1, <2>1 DEF AttemptInv, CurrentInv, Current, Held, Attempting
  <2>2. CASE d # c
    BY <1>2, <2>2 DEF AttemptInv, CurrentInv, Current, Held
  <2> QED
    BY <2>1, <2>2
<1>4. state = "connecting" =>
         \E d \in Calls : (call[d].pc \in Attempting /\ Current(d))'
  BY <1>1, <1>2 DEF AttemptInv, Current
<1>5. ASSUME NEW t \in Clients, session'[t] # "idle"
      PROVE  t = client \/ \E d \in Calls : (Held(d) /\ call[d].client = t)'
  <2>1. CASE t = call[c].client
    BY <1>1, <2>1 DEF Held
  <2>2. CASE t # call[c].client
    <3>1. t = client \/ \E d \in Calls : Held(d) /\ call[d].client = t
      BY <1>5, <2>2 DEF AttemptInv, TypeOK
    <3> QED
      BY <1>2, <2>2, <3>1 DEF Held
  <2> QED
    BY <2>1, <2>2
<1> QED
  BY <1>3, <1>4, <1>5 DEF AttemptInv

LEMMA CancelAttempt ==
  ASSUME TypeOK, CallsInv, AttemptInv, Cancel
  PROVE  AttemptInv'
<1>1. /\ generation' = generation + 1 /\ state' = "disconnected"
      /\ client = NoClient /\ UNCHANGED <<client, listening, session, call>>
  BY DEF Cancel, Invalidate, ReportDisconnected
<1>2. \A d \in Calls : CurrentInv(d)'
  BY <1>1, NoneCurrent DEF CurrentInv, Held, Current
<1>3. \A t \in Clients : session'[t] # "idle" =>
         \E d \in Calls : (Held(d) /\ call[d].client = t)'
  BY <1>1, ClientsAssumption DEF AttemptInv, Held
<1> QED
  BY <1>1, <1>2, <1>3 DEF AttemptInv

LEMMA ShellAttempt ==
  ASSUME TypeOK, CallsInv, AttemptInv, NEW c \in Calls, ShellSucceeds(c)
  PROVE  AttemptInv'
<1>1. Held(c) /\ generation' = generation
  BY DEF ShellSucceeds, Held
<1>2. CASE ~Current(c) /\ DiscardClient(c)
  BY <1>1, <1>2, GotoAttempt DEF ShellSucceeds, DiscardClient
<1>3. CASE /\ Current(c)
           /\ client' = call[c].client /\ listening' = call[c].gen
           /\ state' = "connected"
           /\ call' = [call EXCEPT ![c] = Idle]
           /\ UNCHANGED <<owner, session>>
  <2>1. state = "connecting" /\ client = NoClient
    BY <1>1, <1>3 DEF AttemptInv, CurrentInv, ShellSucceeds
  <2>2. ~Held(c)' /\ \A d \in Calls \ {c} : call'[d] = call[d]
    BY <1>3 DEF Held, Idle, TypeOK
  <2>3. \A d \in Calls \ {c} : ~(Held(d) /\ Current(d))
    BY <1>1, <1>3 DEF CallsInv, Apart, Current
  <2>4. \A d \in Calls : CurrentInv(d)'
    BY <1>1, <2>2, <2>3 DEF CurrentInv, Held, Current
  <2>5. client' \in Clients /\ client' # NoClient /\ listening' = generation
    BY <1>1, <1>3, ClientsAssumption DEF CallsInv, HeldInv, Current
  <2>6. ASSUME NEW t \in Clients, session'[t] # "idle"
        PROVE  t = client' \/ \E d \in Calls : (Held(d) /\ call[d].client = t)'
    <3>1. PICK d \in Calls : Held(d) /\ call[d].client = t
      BY <1>3, <2>1, <2>6, ClientsAssumption DEF AttemptInv
    <3> QED
      BY <1>3, <2>2, <3>1 DEF Held
  <2> QED
    BY <1>1, <1>3, <2>1, <2>4, <2>5, <2>6 DEF AttemptInv
<1> QED
  BY <1>2, <1>3 DEF ShellSucceeds

LEMMA StaleAttempt ==
  ASSUME TypeOK, CallsInv, AttemptInv, NEW c \in Calls, StaleDone(c)
  PROVE  AttemptInv'
<1>1. /\ UNCHANGED <<state, generation, client, listening, owner>>
      /\ session' = [session EXCEPT ![call[c].client] = "idle"]
  BY DEF StaleDone
<1>2. ~Held(c)' /\ \A d \in Calls \ {c} : call'[d] = call[d]
  BY DEF StaleDone, Held, Idle, TypeOK
<1>3. call[c].pc \notin Attempting /\ call[c].client # client
  BY DEF StaleDone, Attempting, CallsInv, HeldInv, Held
<1>4. \A d \in Calls : CurrentInv(d)'
  BY <1>1, <1>2 DEF AttemptInv, CurrentInv, Held, Current
<1>5. state = "connecting" =>
         \E d \in Calls : (call[d].pc \in Attempting /\ Current(d))'
  BY <1>1, <1>2, <1>3 DEF AttemptInv, Current
<1>6. ASSUME NEW t \in Clients, session'[t] # "idle"
      PROVE  t = client \/ \E d \in Calls : (Held(d) /\ call[d].client = t)'
  <2>1. session[t] # "idle" /\ t # call[c].client
    BY <1>1, <1>6 DEF TypeOK
  <2>2. t = client \/ \E d \in Calls : Held(d) /\ call[d].client = t
    BY <2>1 DEF AttemptInv
  <2> QED
    BY <1>2, <2>1, <2>2 DEF Held
<1> QED
  BY <1>1, <1>4, <1>5, <1>6 DEF AttemptInv

LEMMA SameAttempt ==
  ASSUME AttemptInv, UNCHANGED <<state, generation, client, listening, session,
                                 call>>
  PROVE  AttemptInv'
BY DEF AttemptInv, CurrentInv, Held, Current

LEMMA AttemptStep ==
  ASSUME TypeOK, CallsInv, overtaken \/ AttemptInv, [Next]_vars
  PROVE  overtaken' \/ AttemptInv'
<1>1. CASE Cancel
  BY <1>1, CancelAttempt DEF Cancel
<1>2. ASSUME NEW c \in Calls, Connect(c)
      PROVE  overtaken' \/ AttemptInv'
  <2>1. AttemptInv => client = NoClient
    BY <1>2 DEF Connect, AttemptInv
  <2> QED
    BY <1>2, <2>1, BeginAttempt DEF Connect, Held
<1>3. ASSUME NEW c \in Calls, Disconnect(c) \/ RemoteClosed(c) \/ Reconnect(c)
      PROVE  overtaken' \/ AttemptInv'
  <2>1. overtaken' = overtaken
    BY <1>3 DEF Disconnect, RemoteClosed, Reconnect, DisconnectClient
  <2> QED
    BY <1>3, <2>1, DisconnectAttempt DEF Disconnect, RemoteClosed, Reconnect
<1>4. ASSUME NEW c \in Calls, ConnectorSucceeds(c)
      PROVE  overtaken' \/ AttemptInv'
  BY <1>4, GotoAttempt DEF ConnectorSucceeds, DiscardClient, Held, Attempting
<1>5. ASSUME NEW c \in Calls, ShellSucceeds(c)
      PROVE  overtaken' \/ AttemptInv'
  BY <1>5, ShellAttempt DEF ShellSucceeds
<1>6. ASSUME NEW c \in Calls, StaleDone(c)
      PROVE  overtaken' \/ AttemptInv'
  BY <1>6, StaleAttempt DEF StaleDone
<1>7. ASSUME NEW c \in Calls, ShellFails(c)
      PROVE  overtaken' \/ AttemptInv'
  BY <1>7, GotoAttempt DEF ShellFails, Held, Attempting
<1>8. ASSUME NEW c \in Calls, Failed(c)
      PROVE  overtaken' \/ AttemptInv'
  BY <1>8, ReportAttempt DEF Failed, RecordOvertaken, Held
<1>9. ASSUME NEW c \in Calls, CloseDone(c)
      PROVE  overtaken' \/ AttemptInv'
  <2>1. Held(c) /\ client' = client
    BY <1>9 DEF CloseDone, Held
  <2>2. CASE overtaken \/ ~(Current(c) \/ state = "disconnected")
    BY <1>9, <2>2 DEF CloseDone, RecordOvertaken
  <2>3. CASE AttemptInv /\ (Current(c) \/ state = "disconnected")
    <3>1. client = NoClient
      BY <2>1, <2>3, NotOvertaking
    <3>2. CASE Begin(c, [session EXCEPT ![call[c].client] = "idle"],
                     Released(owner, "data"))
      BY <2>1, <2>3, <3>1, <3>2, BeginAttempt
    <3>3. CASE /\ ReportDisconnected
               /\ session' = [session EXCEPT ![call[c].client] = "idle"]
               /\ call' = [call EXCEPT ![c] = Idle]
               /\ UNCHANGED generation
      BY <2>1, <2>3, <3>1, <3>3, ReportAttempt
    <3> QED
      BY <1>9, <3>2, <3>3 DEF CloseDone
  <2> QED
    BY <2>2, <2>3
<1>10. ASSUME NEW o \in Owner, OtherAcquire(o) \/ OtherRelease(o)
       PROVE  overtaken' \/ AttemptInv'
  BY <1>10, SameAttempt DEF OtherAcquire, OtherRelease
<1>11. CASE UNCHANGED vars
  BY <1>11, SameAttempt DEF vars
<1> QED
  BY <1>1, <1>2, <1>3, <1>4, <1>5, <1>6, <1>7, <1>8, <1>9, <1>10, <1>11
     DEF Next, UserRequest, Continue

-------------------------------------------------------------------------------
(* Until a late call ends what a later one began, a service with a session *)
(* or an attempt holds the entry.                                          *)

LEMMA HeldStep ==
  ASSUME Base, overtaken \/ EntryHeld, [Next]_vars
  PROVE  overtaken' \/ EntryHeld'
<1>1. CASE Cancel
  BY <1>1 DEF Cancel, ReportDisconnected, EntryHeld
<1>2. ASSUME NEW c \in Calls, Connect(c)
      PROVE  EntryHeld'
  BY <1>2 DEF Connect, Begin, EntryHeld
<1>3. ASSUME NEW c \in Calls, Disconnect(c) \/ RemoteClosed(c) \/ Reconnect(c)
      PROVE  overtaken' \/ EntryHeld'
  <2>1. state # "disconnected"
    BY <1>3 DEF Disconnect, RemoteClosed, Reconnect
  <2>2. owner' = owner /\ overtaken' = overtaken
    BY <1>3 DEF Disconnect, RemoteClosed, Reconnect, DisconnectClient
  <2> QED
    BY <2>1, <2>2 DEF EntryHeld
<1>4. ASSUME NEW c \in Calls,
             ConnectorSucceeds(c) \/ StaleDone(c) \/ ShellFails(c)
      PROVE  overtaken' \/ EntryHeld'
  BY <1>4 DEF ConnectorSucceeds, DiscardClient, StaleDone, ShellFails, EntryHeld
<1>5. ASSUME NEW c \in Calls, ShellSucceeds(c)
      PROVE  overtaken' \/ EntryHeld'
  <2>1. owner' = owner /\ overtaken' = overtaken
    BY <1>5 DEF ShellSucceeds, DiscardClient
  <2>2. CASE ~Current(c) /\ DiscardClient(c)
    BY <2>1, <2>2 DEF DiscardClient, EntryHeld
  <2>3. CASE Current(c)
    <3>1. AttemptInv => state = "connecting"
      BY <1>5, <2>3 DEF ShellSucceeds, Held, AttemptInv, CurrentInv
    <3> QED
      BY <2>1, <3>1 DEF EntryHeld, Base
  <2> QED
    BY <1>5, <2>2, <2>3 DEF ShellSucceeds
<1>6. ASSUME NEW c \in Calls, Failed(c) \/ CloseDone(c)
      PROVE  EntryHeld'
  BY <1>6 DEF Failed, CloseDone, Begin, ReportDisconnected, EntryHeld
<1>7. ASSUME NEW o \in Owner, OtherAcquire(o) \/ OtherRelease(o)
      PROVE  overtaken' \/ EntryHeld'
  BY <1>7 DEF OtherAcquire, OtherRelease, Released, EntryHeld
<1>8. CASE UNCHANGED vars
  BY <1>8 DEF vars, EntryHeld
<1> QED
  BY <1>1, <1>2, <1>3, <1>4, <1>5, <1>6, <1>7, <1>8
     DEF Next, UserRequest, Continue

-------------------------------------------------------------------------------
(* Theorems *)

LEMMA BaseStep == Base /\ [Next]_vars => Base'
<1> SUFFICES ASSUME Base, [Next]_vars
             PROVE  Base'
  OBVIOUS
<1>1. TypeOK'
  BY TypeStep DEF Base
<1>2. CallsInv'
  BY <1>1, CallsStep DEF Base
<1>3. overtaken' \/ AttemptInv'
  BY AttemptStep DEF Base
<1> QED
  BY <1>1, <1>2, <1>3 DEF Base

LEMMA Invariance == Spec => []Inv
<1>1. Inv /\ [Next]_vars => Inv'
  <2> SUFFICES ASSUME Inv, [Next]_vars
               PROVE  Inv'
    OBVIOUS
  <2>1. Base'
    BY BaseStep DEF Inv
  <2>2. EntryNotLeaked'
    BY EntryStep DEF Inv, Base
  <2>3. overtaken' \/ EntryHeld'
    BY HeldStep DEF Inv
  <2> QED
    BY <2>1, <2>2, <2>3 DEF Inv
<1> QED
  BY <1>1, InitInv, PTL DEF Spec

\* Every variable of SshConnectionService's model keeps its type.
THEOREM SshTypeCorrect == Spec => []TypeOK
<1>1. Inv => TypeOK
  BY DEF Inv, Base
<1> QED
  BY <1>1, Invariance, PTL

\* Whatever calls interleave, and even after a late call ended the session of
\* a later one, a service that reports "disconnected" does not hold the entry.
THEOREM SshEntryNotLeaked == Spec => []EntryNotLeaked
<1>1. Inv => EntryNotLeaked
  BY DEF Inv
<1> QED
  BY <1>1, Invariance, PTL

\* Until a call of connect or disconnect overtakes a later one, the service's
\* state, its client and the entry agree.
THEOREM SshConsistent == Spec => []ConsistentUnlessOvertaken
<1>1. Inv => ConsistentUnlessOvertaken
  BY DEF Inv, Base, CallsInv, AttemptInv, EntryHeld, Attempting,
         ConsistentUnlessOvertaken
<1> QED
  BY <1>1, Invariance, PTL

\* Until then no client is left open by a cancelled attempt: it is the
\* service's or some call in progress will close it.
THEOREM SshClientNotLeaked == Spec => []ClientNotLeaked
<1>1. Inv => ClientNotLeaked
  BY DEF Inv, Base, AttemptInv, Held, ClientNotLeaked
<1> QED
  BY <1>1, Invariance, PTL

-------------------------------------------------------------------------------
(* The service next to others that use the entry as they like.  The data   *)
(* connection acquires and releases it under the same owner value, "data", *)
(* so that no step of the service can rely on still holding it.            *)

\* Any step of anybody else: the entry changes hands, the service does not move.
EntryTouched ==
    /\ owner' \in OwnerState
    /\ UNCHANGED <<state, generation, client, listening, session, call,
                   requests, overtaken>>

\* What ConsistentUnlessOvertaken says of the service itself.
ServiceConsistent ==
    \/ overtaken
    \/ /\ state = "connected" <=> client # NoClient
       /\ client # NoClient => /\ session[client] = "open"
                               /\ listening = generation
       /\ state = "connecting" =>
             \E c \in Calls : call[c].pc \in Attempting /\ Current(c)

LEMMA BaseTouched == Base /\ EntryTouched => Base'
<1> SUFFICES ASSUME Base, EntryTouched
             PROVE  Base'
  OBVIOUS
<1>1. TypeOK'
  BY DEF Base, EntryTouched, TypeOK
<1>2. CallsInv'
  BY SameCalls DEF Base, EntryTouched
<1>3. overtaken' \/ AttemptInv'
  BY SameAttempt DEF Base, EntryTouched
<1> QED
  BY <1>1, <1>2, <1>3 DEF Base

\* The generation alone keeps the service's own promises: whoever acquires or
\* releases the entry, and under whatever owner value, between any two of its
\* steps, the service's state and client agree and no client of a cancelled
\* attempt is left open, until a late call ends what a later one began.
THEOREM SshNeedsNoEntry ==
  Init /\ [][Next \/ EntryTouched]_vars => [](ServiceConsistent /\ ClientNotLeaked)
<1>1. Init => Base
  BY InitInv DEF Inv
<1>2. Base /\ [Next \/ EntryTouched]_vars => Base'
  BY BaseStep, BaseTouched
<1>3. Base => ServiceConsistent
  BY DEF Base, CallsInv, AttemptInv, ServiceConsistent
<1>4. Base => ClientNotLeaked
  BY DEF Base, AttemptInv, Held, ClientNotLeaked
<1> QED
  BY <1>1, <1>2, <1>3, <1>4, PTL
===============================================================================
