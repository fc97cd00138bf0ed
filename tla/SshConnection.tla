----------------------------- MODULE SshConnection -----------------------------
(***************************************************************************)
(* The life cycle of an SSH session: SshConnectionService and the clients  *)
(* it opens.                                                               *)
(*                                                                         *)
(* The service has no queue.  A connect attempt and a disconnect may be    *)
(* suspended at an await at the same time; each is a "call" here, and an   *)
(* action is what one call does between two awaits.  It uses the entry     *)
(* under the same owner value as the data connection, "data".              *)
(***************************************************************************)
EXTENDS Naturals, FiniteSets, ConnectionOwner

CONSTANTS
    Calls,        \* calls that may be in progress at the same time
    Clients,      \* client objects (identities are reused once closed)
    NoClient,     \* null
    MaxRequests   \* bound on the requests of the user and the losses of a link

ASSUME ClientsAssumption ==
    /\ NoClient \notin Clients
    /\ IsFiniteSet(Calls) /\ IsFiniteSet(Clients)
    /\ Cardinality(Clients) > Cardinality(Calls)  \* a new one can be allocated
    /\ MaxRequests \in Nat

VARIABLES
    state,        \* state
    generation,   \* _generation
    client,       \* _client
    listening,    \* the generation captured by the listeners of done and shellDone
    owner,        \* ConnectionOwnerService._owner
    session,      \* what each client object is doing
    call,         \* the calls in progress
    requests,     \* requests made so far (bounds the model)
    overtaken     \* history: a call ended the session of one that came later

vars == <<state, generation, client, listening, owner, session, call, requests,
          overtaken>>

\* pc is the await at which a call is suspended: a connect waits for the
\* connector, the shell, the close of a stale client or, after a failure, the
\* close of its client; a disconnect waits for the close.
Call == [pc : {"idle", "connector", "shell", "stale", "failed", "closing"},
         gen : Nat, client : Clients \cup {NoClient}, again : BOOLEAN]

Idle == [pc |-> "idle", gen |-> 0, client |-> NoClient, again |-> FALSE]

TypeOK ==
    /\ state \in {"disconnected", "connecting", "connected", "disconnecting"}
    /\ generation \in Nat /\ listening \in Nat
    /\ client \in Clients \cup {NoClient}
    /\ owner \in OwnerState
    /\ session \in [Clients -> {"idle", "opening", "open", "closing"}]
    /\ call \in [Calls -> Call]
    /\ requests \in Nat /\ overtaken \in BOOLEAN

Init ==
    /\ state = "disconnected" /\ generation = 0 /\ listening = 0
    /\ client = NoClient /\ owner = "none"
    /\ session = [s \in Clients |-> "idle"]
    /\ call = [c \in Calls |-> Idle]
    /\ requests = 0 /\ overtaken = FALSE

-------------------------------------------------------------------------------
(* Helpers; "Faulty:" marks a wrong variant that no specification uses *)

Request == requests < MaxRequests /\ requests' = requests + 1

\* The attempt of call c is still the one the service wants.
Current(c) == call[c].gen = generation

Goto(c, pc) == call' = [call EXCEPT ![c].pc = pc]

\* Every attempt captured before this is stale.
Invalidate == generation' = generation + 1

\* connect up to its first await, by call c, from client states f and owner o.
Begin(c, f, o) ==
    /\ CanAcquire(o, "data") /\ owner' = "data"
    /\ generation' = generation + 1
    /\ state' = "connecting"
    /\ \E s \in Clients :
          /\ f[s] = "idle"
          /\ session' = [f EXCEPT ![s] = "opening"]
          /\ call' = [call EXCEPT ![c] = [pc |-> "connector",
                      gen |-> generation + 1, client |-> s, again |-> FALSE]]

\* Faulty: a failed attempt keeps the entry.
FailKeepsEntry == state' = "disconnected" /\ UNCHANGED owner

\* Faulty: a failed attempt leaves the state as it is.
FailKeepsState == owner' = Released(owner, "data") /\ UNCHANGED state

\* The service reports that there is no session and gives the entry back.
ReportDisconnected == owner' = Released(owner, "data") /\ state' = "disconnected"

\* The call that now reports "disconnected" is not the last one that changed
\* the generation: it ends what a later connect began.
RecordOvertaken(c) ==
    overtaken' = (overtaken \/ (~Current(c) /\ state # "disconnected"))

-------------------------------------------------------------------------------
(* Calls *)

Connect(c) ==
    /\ Request /\ call[c].pc = "idle"
    /\ state = "disconnected"
    /\ Begin(c, session, owner)
    /\ UNCHANGED <<client, listening, overtaken>>

\* disconnect, the first half of reconnect (again), or the handler of a remote
\* close, with a client to close.  The listeners are cancelled first.
DisconnectClient(c, again) ==
    /\ call[c].pc = "idle" /\ client # NoClient
    /\ state' = "disconnecting" /\ Invalidate
    /\ client' = NoClient
    /\ session' = [session EXCEPT ![client] = "closing"]
    /\ call' = [call EXCEPT ![c] = [pc |-> "closing", gen |-> generation + 1,
                                    client |-> client, again |-> again]]
    /\ UNCHANGED <<listening, owner, overtaken>>

Disconnect(c) == Request /\ state # "disconnected" /\ DisconnectClient(c, FALSE)

\* Without a client, an attempt or another disconnect being in progress, there
\* is nothing to wait for.
Cancel ==
    /\ Request /\ state # "disconnected" /\ client = NoClient
    /\ Invalidate /\ ReportDisconnected
    /\ UNCHANGED <<client, listening, session, call, overtaken>>

Reconnect(c) == Request /\ state = "connected" /\ DisconnectClient(c, TRUE)

\* _handleRemoteClosed and _handleRemoteShellClosed.
RemoteClosed(c) ==
    /\ Request
    /\ listening = generation /\ state # "disconnected"
    /\ DisconnectClient(c, FALSE)

\* client.close returns to disconnect; a reconnect connects at once, if nobody
\* else took the entry.
CloseDone(c) ==
    /\ call[c].pc = "closing"
    /\ RecordOvertaken(c)
    /\ LET f == [session EXCEPT ![call[c].client] = "idle"]
           o == Released(owner, "data")
       IN  IF call[c].again /\ CanAcquire(o, "data")
           THEN Begin(c, f, o)
           ELSE /\ ReportDisconnected
                /\ session' = f /\ call' = [call EXCEPT ![c] = Idle]
                /\ UNCHANGED generation
    /\ UNCHANGED <<client, listening, requests>>

\* A stale client is closed and nothing else is done.
DiscardClient(c) ==
    /\ session' = [session EXCEPT ![call[c].client] = "closing"]
    /\ Goto(c, "stale")
    /\ UNCHANGED <<state, client, listening, owner>>

\* The connector authenticated.
ConnectorSucceeds(c) ==
    /\ call[c].pc = "connector"
    /\ \/ /\ Current(c)
          /\ session' = [session EXCEPT ![call[c].client] = "open"]
          /\ Goto(c, "shell")
          /\ UNCHANGED <<state, client, listening, owner>>
       \/ ~Current(c) /\ DiscardClient(c)
    /\ UNCHANGED <<generation, requests, overtaken>>

\* Faulty: the generation is not compared again after the shell was opened.
ShellSucceedsUnchecked(c) ==
    /\ call[c].pc = "shell"
    /\ client' = call[c].client /\ listening' = call[c].gen
    /\ state' = "connected"
    /\ call' = [call EXCEPT ![c] = Idle]
    /\ UNCHANGED <<generation, owner, session, requests, overtaken>>

\* The shell was opened: the client becomes the service's.
ShellSucceeds(c) ==
    /\ call[c].pc = "shell"
    /\ \/ /\ Current(c)
          /\ client' = call[c].client /\ listening' = call[c].gen
          /\ state' = "connected"
          /\ call' = [call EXCEPT ![c] = Idle]
          /\ UNCHANGED <<owner, session>>
       \/ ~Current(c) /\ DiscardClient(c)
    /\ UNCHANGED <<generation, requests, overtaken>>

\* Faulty: a stale client is dropped without closing it.
StaleDoneUnclosed(c) ==
    /\ call[c].pc = "stale"
    /\ call' = [call EXCEPT ![c] = Idle]
    /\ UNCHANGED <<state, generation, client, listening, owner, session,
                   requests, overtaken>>

StaleDone(c) ==
    /\ call[c].pc = "stale"
    /\ session' = [session EXCEPT ![call[c].client] = "idle"]
    /\ call' = [call EXCEPT ![c] = Idle]
    /\ UNCHANGED <<state, generation, client, listening, owner, requests,
                   overtaken>>

\* The shell could not be opened; the catch clause closes the client first.
ShellFails(c) ==
    /\ call[c].pc = "shell"
    /\ session' = [session EXCEPT ![call[c].client] = "closing"]
    /\ Goto(c, "failed")
    /\ UNCHANGED <<state, generation, client, listening, owner, requests,
                   overtaken>>

\* The connector threw, or the client of a failed attempt is closed: the rest
\* of the catch clause, which does not compare the generation.
Failed(c) ==
    /\ call[c].pc \in {"connector", "failed"}
    /\ RecordOvertaken(c)
    /\ client' = NoClient
    /\ ReportDisconnected
    /\ session' = [session EXCEPT ![call[c].client] = "idle"]
    /\ call' = [call EXCEPT ![c] = Idle]
    /\ UNCHANGED <<generation, listening, requests>>

-------------------------------------------------------------------------------
(* The other holders of the entry: the probe and the Flash programmer.  The data *)
(* connection uses the owner "data" as well; SharedEntry adds it.               *)

OtherAcquire(o) ==
    /\ o # "data" /\ owner = "none"
    /\ owner' = o
    /\ UNCHANGED <<state, generation, client, listening, session, call,
                   requests, overtaken>>

OtherRelease(o) ==
    /\ o # "data"
    /\ owner' = Released(owner, o)
    /\ UNCHANGED <<state, generation, client, listening, session, call,
                   requests, overtaken>>

\* What a call does at its next await, without anything from the user.
Continue(c) ==
    \/ ConnectorSucceeds(c) \/ ShellSucceeds(c) \/ StaleDone(c)
    \/ ShellFails(c) \/ Failed(c) \/ CloseDone(c)

UserRequest ==
    \/ Cancel
    \/ \E c \in Calls :
          Connect(c) \/ Disconnect(c) \/ Reconnect(c) \/ RemoteClosed(c)

Next ==
    \/ UserRequest
    \/ \E c \in Calls : Continue(c)
    \/ \E o \in Owner : OtherAcquire(o) \/ OtherRelease(o)

\* The connector has time limits for the socket, the handshake and the
\* authentication, and the Dart event loop runs every continuation; the server
\* is assumed to answer the request for a shell.
Fairness == \A c \in Calls : WF_vars(Continue(c))

Spec == Init /\ [][Next]_vars /\ Fairness

-------------------------------------------------------------------------------
(* Properties *)

\* No order of attempts, failures and disconnects leaves the entry acquired by
\* a service that reports no session, not even one in which a late call ends
\* the session of a later one.
EntryNotLeaked == owner = "data" => state # "disconnected"

\* Until a late call ends what a later one began, state, client and entry
\* agree: connected means a client that is open and bound to the current
\* generation, connecting means an attempt in progress that can still succeed.
ConsistentUnlessOvertaken ==
    \/ overtaken
    \/ /\ state # "disconnected" => owner = "data"
       /\ state = "connected" <=> client # NoClient
       /\ client # NoClient => /\ session[client] = "open"
                               /\ listening = generation
       /\ state = "connecting" =>
             \E c \in Calls : /\ call[c].pc \in {"connector", "shell", "failed"}
                              /\ Current(c)

\* Until then, too, every client that is not closed is the service's or held
\* by a call that will close it: cancelled attempts leave no SSH link behind.
ClientNotLeaked ==
    \/ overtaken
    \/ \A s \in Clients :
          session[s] # "idle" => \/ s = client
                                 \/ \E c \in Calls : /\ call[c].pc # "idle"
                                                     /\ call[c].client = s

\* The buttons come back: neither "connecting" nor "disconnecting" lasts.
StateSettles ==
    state \in {"connecting", "disconnecting"} ~>
       state \in {"connected", "disconnected"}
===============================================================================
