---------------------------- MODULE TestDevicesProofs ----------------------------
(***************************************************************************)
(* Proofs about the devices in test_tools, for any table sizes, frame      *)
(* lengths, configurations and encodings, and any number of masters,       *)
(* requests, increments and commands: first the Modbus slave, then the     *)
(* devices that stream data.                                               *)
(***************************************************************************)
EXTENDS Integers, MCTestDevices, TLAPS

(***************************************************************************)
(* AccessIsAtomic needs to know what an access has done so far: what it    *)
(* has read or written agrees with the store, because the other thread     *)
(* waits for the lock (Locked, InSync); that a thread begins no access     *)
(* while it has one (MainLoop); and what requests are on their way         *)
(* (Pieces), because a write brings as many values as it has cells.        *)
(***************************************************************************)
Slots == Tables \X (0 .. Size - 1)

Accesses == [op : {"none", "read", "write", "tick"}, cells : Seq(Slots),
             at : Nat \ {0}, data : Seq(Nat)]

StoreTypes ==
    /\ store \in [Tables -> [0 .. Size - 1 -> 0 .. WordMod - 1]]
    /\ access \in [Threads -> Accesses]

\* A read or write touches each cell once, and a write has a value for each.
GoodAccess(w) ==
    /\ w.at <= Len(w.cells) + 1
    /\ w.op \in {"read", "write"} =>
          \A i, j \in 1 .. Len(w.cells) : w.cells[i] = w.cells[j] => i = j
    /\ w.op = "write" => Len(w.data) = Len(w.cells)
    /\ w.op = "read" => Len(w.data) = w.at - 1

Locked ==
    \A t \in Threads :
        /\ GoodAccess(access[t])
        /\ access[t].op = "none" => lock # t
        /\ access[t].op # "none" /\ access[t].at > 1 => lock = t

InSync ==
    \A t \in Threads : access[t].op \in {"read", "write"} =>
        \A i \in 1 .. access[t].at - 1 :
            store[access[t].cells[i][1]][access[t].cells[i][2]]
                = access[t].data[i] % WordMod

MainLoop == access["main"].op # "none" => pc = "access"

Pieces ==
    /\ buffer \in Seq(Piece)
    /\ line \in [Masters -> Seq(Piece)]
    /\ peer \in [Masters -> [link : {"new", "asking", "open", "gone", "reset"},
                             rest : Seq(Piece)]]
    /\ frames \in 0 .. MaxFrames

SlaveInv == StoreTypes /\ Locked /\ InSync /\ MainLoop /\ Pieces

-------------------------------------------------------------------------------
(* Accesses *)

LEMMA Constants ==
  /\ Size \in Nat /\ Incremented \in Nat /\ WordMod \in Nat \ {0}
  /\ Requests \subseteq Request /\ MaxFrames \in Nat
BY SlaveAssumption

\* What a master sends next.
LEMMA NextFrameSent ==
  ASSUME NEW m \in Masters, NEW q \in Requests, frames \in 0 .. MaxFrames, frames < MaxFrames
  PROVE  /\ frames + 1 \in 0 .. MaxFrames
         /\ [id |-> frames + 1, from |-> m, request |-> q] \in Frame
         /\ \A k \in {"head", "tail"} :
              [part |-> k, of |-> [id |-> frames + 1, from |-> m, request |-> q]] \in Piece
<1>1. frames + 1 \in 0 .. MaxFrames /\ frames + 1 \in 1 .. MaxFrames
  BY Constants
<1> QED  BY <1>1 DEF Frame, Piece

\* The cells of an area that lies within its table.
LEMMA CellsOfArea ==
  ASSUME NEW table \in Tables, NEW address \in Nat, NEW quantity \in Nat,
         address + quantity <= Size
  PROVE  /\ Cells(table, address, quantity) \in Seq(Slots)
         /\ Len(Cells(table, address, quantity)) = quantity
         /\ \A i, j \in 1 .. quantity :
               Cells(table, address, quantity)[i] = Cells(table, address, quantity)[j]
                  => i = j
<1> DEFINE c == Cells(table, address, quantity)
<1>1. c = [i \in 1 .. quantity |-> <<table, address + i - 1>>]
  BY DEF Cells
<1>2. \A i \in 1 .. quantity : address + i - 1 \in 0 .. Size - 1
  BY Constants
<1>3. c \in [1 .. quantity -> Slots]
  <2>1. \A i \in 1 .. quantity : <<table, address + i - 1>> \in Slots
    BY <1>2 DEF Slots
  <2> HIDE DEF c
  <2> QED  BY <1>1, <2>1
<1>4. c \in Seq(Slots) /\ Len(c) = quantity
  <2> HIDE DEF c
  <2> QED  BY <1>3
<1>5. \A i, j \in 1 .. quantity : c[i] = c[j] => i = j
  BY <1>1
<1> QED  BY <1>4, <1>5

\* What a thread may begin.
Begins(w) == w \in Accesses /\ w.op # "none" /\ w.at = 1 /\ GoodAccess(w)

LEMMA TickBegins == Begins(Tick)
<1> DEFINE n == Least(Incremented, Size)
           c == Cells("holding", 0, n)
           d == Cells("input", 0, n)
<1>1. n \in Nat /\ 0 + n <= Size
  BY Constants DEF Least
<1>2. c \in Seq(Slots) /\ d \in Seq(Slots)
  <2>1. "holding" \in Tables /\ "input" \in Tables
    BY DEF Tables
  <2> HIDE DEF n
  <2> QED  BY <1>1, <2>1, CellsOfArea
<1>3. Tick = [op |-> "tick", cells |-> c \o d, at |-> 1, data |-> <<>>]
  BY DEF Tick, Begin
<1> HIDE DEF c, d, n
<1>4. c \o d \in Seq(Slots) /\ Len(c \o d) \in Nat
  BY <1>2
<1> QED  BY <1>3, <1>4 DEF Begins, Accesses, GoodAccess

LEMMA RequestBegins ==
  ASSUME NEW r \in Requests, ExceptionOf(r) = 0
  PROVE  Begins(AccessFor(r))
<1>1. /\ r.fc \in READ_FC \cup WRITE_FC \cup {"none", "other"}
      /\ r.address \in Nat /\ r.quantity \in Nat /\ r.values \in Seq(Nat)
      /\ r.wellFormed \in BOOLEAN
  BY Constants DEF Request
<1>2. r.fc \in READ_FC \cup WRITE_FC
  BY DEF ExceptionOf
<1>3. r.wellFormed /\ r.address + r.quantity <= Size
  <2>1. Injected \in 0 .. 4
    BY SlaveAssumption
  <2> QED  BY <1>1, <1>2, <2>1, Constants DEF ExceptionOf
<1>4. TableOf(r.fc) \in Tables
  BY DEF TableOf, Tables
<1> DEFINE c == Cells(TableOf(r.fc), r.address, r.quantity)
<1>5. /\ c \in Seq(Slots) /\ Len(c) = r.quantity
      /\ \A i, j \in 1 .. r.quantity : c[i] = c[j] => i = j
  BY <1>1, <1>3, <1>4, CellsOfArea
<1> HIDE DEF c
<1>6. CASE r.fc \in READ_FC
  <2>1. AccessFor(r) = [op |-> "read", cells |-> c, at |-> 1, data |-> <<>>]
    BY <1>6 DEF AccessFor, Begin, c
  <2> QED  BY <1>1, <1>5, <2>1 DEF Begins, Accesses, GoodAccess
<1>7. CASE r.fc \notin READ_FC
  <2>1. AccessFor(r) = [op |-> "write", cells |-> c, at |-> 1, data |-> r.values]
    BY <1>7 DEF AccessFor, Begin, c
  <2>2. Len(r.values) = r.quantity
    BY <1>2, <1>3, <1>7, SlaveAssumption
  <2> QED  BY <1>1, <1>5, <2>1, <2>2 DEF Begins, Accesses, GoodAccess
<1> QED  BY <1>6, <1>7

-------------------------------------------------------------------------------
(* What a step does to the store *)

StoreKept == UNCHANGED <<store, lock, access>>

Starts(t) ==
    /\ access[t].op = "none" /\ UNCHANGED <<store, lock>>
    /\ \E w : Begins(w) /\ access' = [access EXCEPT ![t] = w]

LEMMA ProcessStarts ==
  ASSUME NEW f, f.request \in Requests, ProcessFrame(f), pc = "frames", MainLoop,
         UNCHANGED <<store, lock>>
  PROVE  StoreKept \/ (Starts("main") /\ pc' = "access")
<1>1. CASE UNCHANGED access
  BY <1>1 DEF StoreKept
<1>2. CASE /\ ExceptionOf(f.request) = 0
           /\ access' = [access EXCEPT !["main"] = AccessFor(f.request)]
           /\ pc' = "access"
  <2>1. access["main"].op = "none"
    BY DEF MainLoop
  <2>2. Begins(AccessFor(f.request))
    BY <1>2, RequestBegins
  <2> QED  BY <1>2, <2>1, <2>2 DEF Starts
<1> QED  BY <1>1, <1>2 DEF ProcessFrame

\* The pieces in the buffer make frames of requests that were sent.
LEMMA FrameRequest ==
  ASSUME NEW s \in Seq(Piece), Len(s) >= 1
  PROVE  s[1].of.request \in Requests
<1>1. s[1] \in Piece
  OBVIOUS
<1> QED  BY <1>1 DEF Piece, Frame

LEMMA PartOfSeq ==
  ASSUME NEW S, NEW s \in Seq(S), NEW i \in Nat \ {0}, NEW j \in Nat, j <= Len(s)
  PROVE  SubSeq(s, i, j) \in Seq(S)
OBVIOUS

LEMMA NextFrameStep ==
  ASSUME Pieces, MainLoop, NextFrame
  PROVE  /\ buffer' \in Seq(Piece)
         /\ StoreKept \/ (Starts("main") /\ pc' = "access")
<1>1. buffer \in Seq(Piece) /\ Len(buffer) \in Nat
  BY DEF Pieces
<1>2. pc = "frames" /\ UNCHANGED <<store, lock>>
  BY DEF NextFrame
<1>3. ASSUME NEW rest \in Seq(Piece), NothingMore(rest)
      PROVE  buffer' \in Seq(Piece) /\ StoreKept
  BY <1>2, <1>3 DEF NothingMore, StoreKept
<1>4. CASE NextRtu
  <2>1. CASE NothingMore(buffer)
    BY <1>1, <1>3, <2>1
  <2>2. CASE buffer' = <<>> /\ UNCHANGED access
    BY <1>2, <2>2 DEF StoreKept
  <2>3. CASE buffer' = <<>> /\ IsFrame(buffer) /\ ProcessFrame(buffer[1].of)
    <3>1. buffer[1].of.request \in Requests
      BY <1>1, <2>3, FrameRequest DEF IsFrame
    <3> QED  BY <1>2, <2>3, <3>1, ProcessStarts
  <2> QED  BY <1>4, <2>1, <2>2, <2>3 DEF NextRtu
<1>5. CASE NextAscii
  <2>1. CASE NothingMore(<<>>)
    <3>1. <<>> \in Seq(Piece)
      OBVIOUS
    <3> QED  BY <1>3, <2>1, <3>1
  <2>2. ASSUME NEW from \in Heads, NothingMore(SubSeq(buffer, from, Len(buffer)))
        PROVE  buffer' \in Seq(Piece) /\ StoreKept
    <3>1. from \in Nat \ {0}
      BY DEF Heads
    <3>2. SubSeq(buffer, from, Len(buffer)) \in Seq(Piece)
      BY <1>1, <3>1, PartOfSeq
    <3> QED  BY <1>3, <2>2, <3>2
  <2>3. ASSUME NEW from \in Heads, NEW to \in Tails,
               NextLine(SubSeq(buffer, from, to), to)
        PROVE  /\ buffer' \in Seq(Piece)
               /\ StoreKept \/ (Starts("main") /\ pc' = "access")
    <3>1. from \in Nat \ {0} /\ to \in Nat \ {0} /\ to + 1 \in Nat \ {0} /\ to <= Len(buffer)
      BY <1>1 DEF Heads, Tails
    <3>2. buffer' \in Seq(Piece)
      BY <1>1, <2>3, <3>1, PartOfSeq DEF NextLine
    <3>3. SubSeq(buffer, from, to) \in Seq(Piece)
      BY <1>1, <3>1, PartOfSeq
    <3>4. CASE UNCHANGED access
      BY <1>2, <3>2, <3>4 DEF StoreKept
    <3>5. CASE /\ IsFrame(SubSeq(buffer, from, to))
               /\ ProcessFrame(SubSeq(buffer, from, to)[1].of)
      <4> DEFINE body == SubSeq(buffer, from, to)
      <4>1. body \in Seq(Piece) /\ Len(body) >= 1 /\ ProcessFrame(body[1].of)
        BY <3>3, <3>5 DEF IsFrame
      <4> HIDE DEF body
      <4>2. body[1].of.request \in Requests
        BY <4>1, FrameRequest
      <4> QED  BY <1>2, <3>2, <4>1, <4>2, ProcessStarts
    <3> QED  BY <2>3, <3>4, <3>5 DEF NextLine
  <2> QED  BY <1>5, <2>1, <2>2, <2>3 DEF NextAscii
<1>6. CASE NextTcp
  <2>1. CASE NothingMore(buffer)
    BY <1>1, <1>3, <2>1
  <2>2. CASE /\ Len(buffer) >= 2 /\ buffer' = SubSeq(buffer, 3, Len(buffer))
             /\ ProcessFrame(buffer[1].of)
    <3>1. buffer[1].of.request \in Requests
      BY <1>1, <2>2, FrameRequest
    <3>2. buffer' \in Seq(Piece)
      BY <1>1, <2>2, PartOfSeq
    <3> QED  BY <1>2, <2>2, <3>1, <3>2, ProcessStarts
  <2> QED  BY <1>1, <1>6, <2>1, <2>2 DEF NextTcp
<1> QED  BY <1>4, <1>5, <1>6 DEF NextFrame

LEMMA StepStore ==
  ASSUME SlaveInv, Next
  PROVE  \/ StoreKept \/ \E t \in Threads : Starts(t) \/ Acquire(t) \/ TouchCell(t)
         \/ \E t \in Threads : Release(t)
<1>1. {"main", "increment"} = Threads
  BY DEF Threads
<1>2. CASE NextFrame
  BY <1>1, <1>2, NextFrameStep DEF SlaveInv
<1>3. CASE Command
  <2>1. CASE access' = [access EXCEPT !["main"] = Tick]
    <3>1. access["main"].op = "none"
      BY <1>3 DEF Command, SlaveInv, MainLoop
    <3>2. Starts("main")
      BY <1>3, <2>1, <3>1, TickBegins DEF Command, Starts
    <3> QED  BY <1>1, <3>2
  <2>2. CASE UNCHANGED access
    BY <1>3, <2>2 DEF Command, StoreKept
  <2> QED  BY <1>3, <2>1, <2>2 DEF Command
<1>4. CASE StartTick
  <2>1. access["increment"].op = "none"
    BY <1>4 DEF StartTick, NoAccess
  <2>2. Starts("increment")
    BY <1>4, <2>1, TickBegins DEF StartTick, Starts
  <2> QED  BY <1>1, <2>2
<1>5. CASE FinishRequest \/ FinishCommand \/ FinishTick
  BY <1>1, <1>5 DEF FinishRequest, FinishCommand, FinishTick
<1>6. CASE Loop \/ CommandsDone \/ PollSerial \/ PollNobody \/ \E m \in Masters : PollTcp(m)
  BY <1>6 DEF Loop, CommandsDone, PollSerial, PollNobody, PollTcp, storeVars, StoreKept
<1>7. CASE \/ \E c \in Commands : Type(c)
           \/ \E m \in Masters : Connect(m) \/ SendTail(m) \/ Leave(m)
           \/ \E m \in Masters, r \in Requests : SendHead(m, r)
           \/ Lose
  BY <1>7 DEF Type, Connect, SendTail, Leave, SendHead, Lose, SlaveLeaves, storeVars, StoreKept
<1>8. CASE \E t \in Threads : Acquire(t) \/ TouchCell(t)
  BY <1>8
<1> QED  BY <1>2, <1>3, <1>4, <1>5, <1>6, <1>7, <1>8 DEF Next

-------------------------------------------------------------------------------
(* The store and its lock *)

LockInv == StoreTypes /\ Locked /\ InSync

LEMMA StartsLock ==
  ASSUME LockInv, NEW t \in Threads, Starts(t)
  PROVE  LockInv'
<1>1. PICK w : Begins(w) /\ access' = [access EXCEPT ![t] = w]
  BY DEF Starts
<1>2. /\ access'[t] = w /\ \A u \in Threads : u # t => access'[u] = access[u]
      /\ access' \in [Threads -> Accesses]
      /\ UNCHANGED <<store, lock>> /\ access[t].op = "none"
  BY <1>1 DEF LockInv, StoreTypes, Begins, Starts
<1>3. StoreTypes'
  BY <1>2 DEF LockInv, StoreTypes
<1>4. Locked'
  BY <1>1, <1>2 DEF LockInv, Locked, Begins
<1>5. InSync'
  BY <1>1, <1>2 DEF LockInv, InSync, Begins
<1> QED  BY <1>3, <1>4, <1>5 DEF LockInv

LEMMA AcquireLock ==
  ASSUME LockInv, NEW t \in Threads, Acquire(t)
  PROVE  LockInv'
<1>1. /\ access[t].op # "none" /\ access[t].at = 1 /\ lock' = t
      /\ lock = Nobody
      /\ UNCHANGED <<store, access>>
  BY DEF Acquire, Free
<1>2. Nobody \notin Threads
  BY DEF Nobody, Threads
<1>3. StoreTypes' /\ InSync'
  BY <1>1 DEF LockInv, StoreTypes, InSync
<1>4. Locked'
  BY <1>1, <1>2 DEF LockInv, Locked
<1> QED  BY <1>3, <1>4 DEF LockInv

LEMMA ReleaseLock ==
  ASSUME LockInv, NEW t \in Threads, Release(t)
  PROVE  LockInv'
<1>1. /\ lock = t /\ lock' = Nobody /\ UNCHANGED store
      /\ access' = [access EXCEPT ![t] = NoAccess]
  BY DEF LockInv, Locked, Release, Finished, Entered
<1>2. NoAccess \in Accesses /\ NoAccess.op = "none" /\ GoodAccess(NoAccess)
  BY DEF NoAccess, Accesses, GoodAccess
<1>3. /\ access'[t] = NoAccess /\ \A u \in Threads : u # t => access'[u] = access[u]
      /\ access' \in [Threads -> Accesses]
  BY <1>1, <1>2 DEF LockInv, StoreTypes
<1>4. Nobody \notin Threads
  BY DEF Nobody, Threads
<1>5. StoreTypes' /\ InSync'
  BY <1>1, <1>2, <1>3 DEF LockInv, StoreTypes, InSync
<1>6. Locked'
  BY <1>1, <1>2, <1>3, <1>4 DEF LockInv, Locked
<1> QED  BY <1>5, <1>6 DEF LockInv

LEMMA CellUpdate ==
  ASSUME NEW S, NEW T, NEW V, NEW f \in [S -> [T -> V]], NEW a \in S, NEW b \in T,
         NEW v \in V, NEW g, g = [f EXCEPT ![a] = [f[a] EXCEPT ![b] = v]]
  PROVE  /\ g \in [S -> [T -> V]]
         /\ g[a][b] = v
         /\ \A x \in S, y \in T : x # a \/ y # b => g[x][y] = f[x][y]
OBVIOUS

LEMMA Remainder ==
  ASSUME NEW x \in Nat
  PROVE  /\ x % WordMod \in 0 .. WordMod - 1
         /\ x \in 0 .. WordMod - 1 => x % WordMod = x
BY Constants

\* One cell of an access: the other thread has none that has begun, and the cells
\* of this one are all different.
LEMMA TouchLock ==
  ASSUME LockInv, NEW t \in Threads, TouchCell(t)
  PROVE  LockInv'
<1> DEFINE w == access[t]
           c == w.cells[w.at]
           old == store[c[1]][c[2]]
           new == CASE w.op = "write" -> w.data[w.at] % WordMod
                    [] w.op = "tick" -> (old + 1) % WordMod
                    [] OTHER -> old
           v == [w EXCEPT !.at = w.at + 1,
                          !.data = IF w.op = "read" THEN Append(w.data, old) ELSE w.data]
<1>1. /\ w \in Accesses /\ w.op # "none" /\ w.at <= Len(w.cells) /\ GoodAccess(w)
      /\ lock = t /\ UNCHANGED lock
  BY DEF LockInv, StoreTypes, Locked, TouchCell, Entered
<1>2. c \in Slots /\ c[1] \in Tables /\ c[2] \in 0 .. Size - 1
  <2>1. w.cells \in Seq(Slots) /\ w.at \in 1 .. Len(w.cells)
    BY <1>1 DEF Accesses
  <2>2. w.cells[w.at] \in Slots
    BY <2>1
  <2> QED  BY <2>2 DEF Slots
<1>3. old \in 0 .. WordMod - 1
  BY <1>2 DEF LockInv, StoreTypes
<1>4. new \in 0 .. WordMod - 1
  <2>1. w.op = "write" => w.data[w.at] \in Nat
    BY <1>1 DEF Accesses, GoodAccess
  <2> HIDE DEF old, w
  <2>2. old \in Nat /\ old + 1 \in Nat
    BY <1>3
  <2>3. /\ (old + 1) % WordMod \in 0 .. WordMod - 1
        /\ w.op = "write" => w.data[w.at] % WordMod \in 0 .. WordMod - 1
    BY <2>1, <2>2, Remainder
  <2> QED  BY <1>3, <2>3
<1>5. /\ v \in Accesses /\ v.op = w.op /\ v.cells = w.cells /\ v.at = w.at + 1
      /\ v.data = IF w.op = "read" THEN Append(w.data, old) ELSE w.data
  <2> DEFINE d == IF w.op = "read" THEN Append(w.data, old) ELSE w.data
  <2>1. old \in Nat /\ w.data \in Seq(Nat) /\ w.at + 1 \in Nat \ {0}
    <3>1. w.data \in Seq(Nat) /\ w.at + 1 \in Nat \ {0}
      BY <1>1 DEF Accesses
    <3> HIDE DEF old, w
    <3> QED  BY <1>3, <3>1
  <2>2. d \in Seq(Nat)
    <3> HIDE DEF old, w
    <3> QED  BY <2>1
  <2> HIDE DEF old, w, d
  <2>3. /\ v \in Accesses /\ v.op = w.op /\ v.cells = w.cells /\ v.at = w.at + 1
        /\ v.data = d
    BY <1>1, <2>1, <2>2 DEF Accesses, d
  <2> QED  BY <2>3 DEF d
<1>6. access' = [access EXCEPT ![t] = v]
  BY DEF TouchCell, LockInv, StoreTypes, Accesses
<1>7. store' = [store EXCEPT ![c[1]] = [store[c[1]] EXCEPT ![c[2]] = new]]
  BY <1>2 DEF TouchCell, LockInv, StoreTypes
<1> HIDE DEF old, new, v
<1>8. /\ access'[t] = v /\ access' \in [Threads -> Accesses]
      /\ \A u \in Threads : u # t => access'[u] = access[u]
  BY <1>5, <1>6 DEF LockInv, StoreTypes
<1>9. /\ store' \in [Tables -> [0 .. Size - 1 -> 0 .. WordMod - 1]]
      /\ store'[c[1]][c[2]] = new
      /\ \A s \in Slots : s # c => store'[s[1]][s[2]] = store[s[1]][s[2]]
  <2> HIDE DEF c
  <2>1. store \in [Tables -> [0 .. Size - 1 -> 0 .. WordMod - 1]]
    BY DEF LockInv, StoreTypes
  <2>2. /\ store' \in [Tables -> [0 .. Size - 1 -> 0 .. WordMod - 1]]
        /\ store'[c[1]][c[2]] = new
        /\ \A x \in Tables, y \in 0 .. Size - 1 :
              x # c[1] \/ y # c[2] => store'[x][y] = store[x][y]
    <3> DEFINE T == 0 .. Size - 1
               V == 0 .. WordMod - 1
    <3>1. store \in [Tables -> [T -> V]] /\ c[1] \in Tables /\ c[2] \in T /\ new \in V
      BY <1>2, <1>4, <2>1
    <3> HIDE DEF T, V
    <3>2. /\ store' \in [Tables -> [T -> V]]
          /\ store'[c[1]][c[2]] = new
          /\ \A x \in Tables, y \in T :
                x # c[1] \/ y # c[2] => store'[x][y] = store[x][y]
      BY <1>7, <3>1, CellUpdate
    <3> QED  BY <3>2 DEF T, V
  <2>3. \A s \in Slots : s # c => s[1] # c[1] \/ s[2] # c[2]
    BY <1>2 DEF Slots
  <2>4. \A s \in Slots : s[1] \in Tables /\ s[2] \in 0 .. Size - 1
    BY DEF Slots
  <2> QED  BY <2>2, <2>3, <2>4
<1>10. StoreTypes'
  BY <1>8, <1>9 DEF StoreTypes
<1>11. GoodAccess(v)
  BY <1>1, <1>5 DEF GoodAccess, Accesses
<1>12. Locked'
  BY <1>1, <1>5, <1>8, <1>11, Constants DEF LockInv, Locked, Accesses
<1>13. ASSUME NEW u \in Threads, u # t, NEW i \in 1 .. access'[u].at - 1
       PROVE  access'[u].op = "none"
  <2>1. access'[u] = access[u] /\ access[u].at \in Nat
    BY <1>8, <1>13 DEF LockInv, StoreTypes, Accesses
  <2>2. access[u].at > 1
    BY <1>13, <2>1
  <2> QED  BY <1>1, <1>13, <2>1, <2>2 DEF LockInv, Locked
<1>14. ASSUME w.op \in {"read", "write"}, NEW i \in 1 .. w.at
       PROVE  store'[w.cells[i][1]][w.cells[i][2]] = v.data[i] % WordMod
  <2>1. w.at \in Nat \ {0} /\ w.cells \in Seq(Slots) /\ w.data \in Seq(Nat)
    BY <1>1 DEF Accesses
  <2>2. CASE i = w.at
    <3>1. CASE w.op = "write"
      BY <1>5, <1>9, <1>14, <2>2, <3>1 DEF new
    <3>2. CASE w.op = "read"
      <4>1. new = old
        BY <3>2 DEF new
      <4>2. Len(w.data) = w.at - 1
        BY <1>1, <3>2 DEF GoodAccess
      <4>3. v.data[i] = old
        <5>1. old \in Nat
          BY <1>3
        <5> QED  BY <1>5, <2>1, <2>2, <3>2, <4>2, <5>1
      <4>4. old % WordMod = old
        <5>1. old \in Nat
          BY <1>3
        <5> QED  BY <1>3, <5>1, Remainder
      <4> QED  BY <1>9, <2>2, <4>1, <4>3, <4>4
    <3> QED  BY <1>14, <3>1, <3>2
  <2>3. CASE i # w.at
    <3>1. i \in 1 .. w.at - 1 /\ i \in 1 .. Len(w.cells) /\ w.at \in 1 .. Len(w.cells)
      BY <1>1, <2>1, <2>3
    <3>2. w.cells[i] \in Slots /\ w.cells[i] # c
      BY <1>1, <1>14, <2>1, <2>3, <3>1 DEF GoodAccess
    <3>3. store[w.cells[i][1]][w.cells[i][2]] = w.data[i] % WordMod
      BY <1>14, <3>1 DEF LockInv, InSync
    <3>4. v.data[i] = w.data[i]
      <4>1. w.op = "read" => Len(w.data) = w.at - 1
        BY <1>1 DEF GoodAccess
      <4>2. old \in Nat
        BY <1>3
      <4> QED  BY <1>5, <2>1, <3>1, <4>1, <4>2
    <3> QED  BY <1>9, <3>2, <3>3, <3>4
  <2> QED  BY <2>2, <2>3
<1>15. InSync'
  <2>1. w.at \in Nat
    BY <1>1 DEF Accesses
  <2>2. v.at - 1 = w.at
    BY <1>5, <2>1
  <2> QED  BY <1>5, <1>8, <1>13, <1>14, <2>2 DEF InSync
<1> QED  BY <1>10, <1>12, <1>15 DEF LockInv

LEMMA KeptLock ==
  ASSUME LockInv, StoreKept
  PROVE  LockInv'
BY DEF StoreKept, LockInv, StoreTypes, Locked, InSync

LEMMA StepLock ==
  ASSUME SlaveInv, Next
  PROVE  LockInv'
<1>1. LockInv
  BY DEF SlaveInv, LockInv
<1> QED  BY <1>1, StepStore, KeptLock, StartsLock, AcquireLock, TouchLock, ReleaseLock

-------------------------------------------------------------------------------
(* The main loop *)

\* An access that goes on keeps its operation.
LEMMA TouchKeepsOp ==
  ASSUME StoreTypes, NEW t \in Threads, Acquire(t) \/ TouchCell(t)
  PROVE  access'["main"].op = access["main"].op
<1>1. access["main"] \in Accesses /\ access \in [Threads -> Accesses]
  BY DEF StoreTypes, Threads
<1>2. CASE Acquire(t)
  BY <1>2 DEF Acquire
<1>3. CASE TouchCell(t)
  BY <1>1, <1>3 DEF TouchCell, Accesses, Threads
<1> QED  BY <1>2, <1>3

LEMMA StepMain ==
  ASSUME SlaveInv, Next
  PROVE  MainLoop'
<1>1. /\ StoreTypes /\ MainLoop
      /\ access \in [Threads -> Accesses] /\ {"main", "increment"} = Threads
  BY DEF SlaveInv, StoreTypes, Threads
<1>2. CASE NextFrame
  <2>1. StoreKept \/ pc' = "access"
    BY <1>2, NextFrameStep DEF SlaveInv
  <2>2. pc = "frames"
    BY <1>2 DEF NextFrame
  <2> QED  BY <1>1, <2>1, <2>2 DEF MainLoop, StoreKept
<1>3. CASE Command
  <2>1. pc = "commands" /\ (pc' = "access" \/ UNCHANGED <<access, pc>>)
    BY <1>3 DEF Command
  <2> QED  BY <1>1, <2>1 DEF MainLoop
<1>4. CASE FinishRequest \/ FinishCommand
  <2>1. access' = [access EXCEPT !["main"] = NoAccess]
    BY <1>4 DEF FinishRequest, FinishCommand, Release
  <2>2. access'["main"].op = "none"
    BY <1>1, <2>1 DEF NoAccess
  <2> QED  BY <2>2 DEF MainLoop
<1>5. CASE StartTick \/ FinishTick
  <2>1. pc' = pc /\ access'["main"] = access["main"]
    BY <1>1, <1>5 DEF StartTick, FinishTick, Release
  <2> QED  BY <1>1, <2>1 DEF MainLoop
<1>6. CASE Loop \/ CommandsDone \/ PollSerial \/ PollNobody \/ \E m \in Masters : PollTcp(m)
  <2>1. UNCHANGED access /\ pc # "access"
    BY <1>6 DEF Loop, CommandsDone, PollSerial, PollNobody, PollTcp, storeVars
  <2> QED  BY <1>1, <2>1 DEF MainLoop
<1>7. CASE \/ \E c \in Commands : Type(c)
           \/ \E m \in Masters : Connect(m) \/ SendTail(m) \/ Leave(m)
           \/ \E m \in Masters, r \in Requests : SendHead(m, r)
           \/ Lose
  <2>1. UNCHANGED access /\ pc' = pc
    BY <1>7 DEF Type, Connect, SendTail, Leave, SendHead, Lose, SlaveLeaves, storeVars
  <2> QED  BY <1>1, <2>1 DEF MainLoop
<1>8. ASSUME NEW t \in Threads, Acquire(t) \/ TouchCell(t)
      PROVE  MainLoop'
  <2>1. pc' = pc
    BY <1>8 DEF Acquire, TouchCell
  <2>2. access'["main"].op = access["main"].op
    BY <1>1, <1>8, TouchKeepsOp
  <2> QED  BY <1>1, <2>1, <2>2 DEF MainLoop
<1> QED  BY <1>2, <1>3, <1>4, <1>5, <1>6, <1>7, <1>8 DEF Next

-------------------------------------------------------------------------------
(* The pieces on their way *)

Lines == [Masters -> Seq(Piece)]
Peers == [Masters -> [link : {"new", "asking", "open", "gone", "reset"},
                      rest : Seq(Piece)]]

LEMMA LineKept ==
  ASSUME NEW m \in Masters, line \in Lines, NEW s \in Seq(Piece)
  PROVE  [line EXCEPT ![m] = s] \in Lines
BY DEF Lines

LEMMA PeerKept ==
  ASSUME NEW m \in Masters, peer \in Peers,
         NEW k \in {"new", "asking", "open", "gone", "reset"}, NEW s \in Seq(Piece)
  PROVE  /\ peer[m] \in [link : {"new", "asking", "open", "gone", "reset"},
                          rest : Seq(Piece)]
         /\ [peer EXCEPT ![m] = [link |-> k, rest |-> s]] \in Peers
         /\ [peer EXCEPT ![m].link = k] \in Peers
         /\ [peer EXCEPT ![m].rest = s] \in Peers
BY DEF Peers

LEMMA NoPieces == <<>> \in Seq(Piece)
OBVIOUS

LEMMA Joined ==
  ASSUME NEW s \in Seq(Piece), NEW r \in Seq(Piece)
  PROVE  s \o r \in Seq(Piece)
OBVIOUS

LEMMA SerialMaster == Serial \in Masters
BY SlaveAssumption DEF Serial

LEMMA FeedStep ==
  ASSUME Pieces, NEW m \in Masters, Feed(m)
  PROVE  buffer' \in Seq(Piece) /\ line' \in Lines
<1>1. buffer \in Seq(Piece) /\ line[m] \in Seq(Piece) /\ line \in Lines
  BY DEF Pieces, Lines
<1>2. buffer \o line[m] \in Seq(Piece)
  BY <1>1, Joined
<1> QED  BY <1>1, <1>2, NoPieces, LineKept DEF Feed

LEMMA StepPieces ==
  ASSUME SlaveInv, Next
  PROVE  Pieces'
<1>1. /\ Pieces /\ MainLoop /\ buffer \in Seq(Piece) /\ line \in Lines
      /\ peer \in Peers /\ frames \in 0 .. MaxFrames
  BY DEF SlaveInv, Pieces, Lines, Peers
<1>2. SUFFICES buffer' \in Seq(Piece) /\ line' \in Lines /\ peer' \in Peers
               /\ frames' \in 0 .. MaxFrames
  BY DEF Pieces, Lines, Peers
<1>3. CASE UNCHANGED <<buffer, line, peer, frames>>
  BY <1>1, <1>3
<1>4. CASE NextFrame
  <2>1. UNCHANGED <<line, peer, frames>>
    BY <1>4 DEF NextFrame, outsideVars
  <2> QED  BY <1>1, <1>4, <2>1, NextFrameStep
<1>5. CASE PollSerial
  <2>1. Feed(Serial) /\ UNCHANGED <<peer, frames>>
    BY <1>5 DEF PollSerial
  <2> QED  BY <1>1, <2>1, SerialMaster, FeedStep
<1>6. ASSUME NEW m \in Masters, PollTcp(m)
      PROVE  buffer' \in Seq(Piece) /\ line' \in Lines /\ peer' \in Peers
             /\ frames' \in 0 .. MaxFrames
  <2>1. frames' = frames
    BY <1>6 DEF PollTcp
  <2>2. CASE /\ Feed(m)
             /\ peer' = [peer EXCEPT ![m].link = IF @ = "asking" THEN "open" ELSE @]
    <3>1. peer[m].link \in {"new", "asking", "open", "gone", "reset"}
      BY <1>1, NoPieces, PeerKept
    <3>2. peer' \in Peers
      BY <1>1, <2>2, <3>1 DEF Peers
    <3> QED  BY <1>1, <2>1, <2>2, <3>2, FeedStep
  <2>3. CASE UNCHANGED <<buffer, line, peer>>
    BY <1>1, <2>1, <2>3
  <2>4. CASE /\ Drop /\ UNCHANGED line
             /\ peer' = [peer EXCEPT ![m] = [link |-> "gone", rest |-> <<>>]]
    BY <1>1, <2>1, <2>4, NoPieces, PeerKept DEF Drop
  <2> QED  BY <1>6, <2>2, <2>3, <2>4 DEF PollTcp
<1>7. ASSUME NEW m \in Masters, Connect(m) \/ SendTail(m) \/ Leave(m)
      PROVE  buffer' \in Seq(Piece) /\ line' \in Lines /\ peer' \in Peers
             /\ frames' \in 0 .. MaxFrames
  <2>1. UNCHANGED <<buffer, frames>>
    BY <1>7 DEF Connect, SendTail, Leave, SlaveLeaves, transportVars
  <2>2. line[m] \in Seq(Piece) /\ peer[m].rest \in Seq(Piece)
    BY <1>1 DEF Lines, Peers
  <2>3. CASE Connect(m)
    BY <1>1, <2>1, <2>3, NoPieces, PeerKept DEF Connect
  <2>4. CASE SendTail(m)
    <3>1. line[m] \o peer[m].rest \in Seq(Piece)
      BY <2>2, Joined
    <3> QED  BY <1>1, <2>1, <2>4, <3>1, NoPieces, LineKept, PeerKept DEF SendTail
  <2>5. CASE Leave(m)
    <3>1. CASE /\ peer' = [peer EXCEPT ![m] = [link |-> "gone", rest |-> <<>>]]
               /\ UNCHANGED line
      BY <1>1, <2>1, <3>1, NoPieces, PeerKept
    <3>2. CASE /\ peer' = [peer EXCEPT ![m] = [link |-> "reset", rest |-> <<>>]]
               /\ line' = [line EXCEPT ![m] = <<>>]
      BY <1>1, <2>1, <3>2, NoPieces, LineKept, PeerKept
    <3> QED  BY <2>5, <3>1, <3>2 DEF Leave
  <2> QED  BY <1>7, <2>3, <2>4, <2>5
<1>8. ASSUME NEW m \in Masters, NEW r \in Requests, SendHead(m, r)
      PROVE  buffer' \in Seq(Piece) /\ line' \in Lines /\ peer' \in Peers
             /\ frames' \in 0 .. MaxFrames
  <2> DEFINE f == [id |-> frames + 1, from |-> m, request |-> r]
             head == [part |-> "head", of |-> f]
             tail == [part |-> "tail", of |-> f]
  <2>1. /\ UNCHANGED buffer /\ frames' = frames + 1
        /\ line' = [line EXCEPT ![m] = Append(@, head)]
        /\ peer' = [peer EXCEPT ![m].rest = <<tail>>]
    BY <1>8 DEF SendHead, SlaveLeaves, transportVars
  <2>2. head \in Piece /\ tail \in Piece /\ frames' \in 0 .. MaxFrames
    BY <1>1, <1>8, <2>1, NextFrameSent DEF SendHead
  <2> HIDE DEF head, tail
  <2>3. Append(line[m], head) \in Seq(Piece) /\ <<tail>> \in Seq(Piece)
    <3>1. line[m] \in Seq(Piece)
      BY <1>1 DEF Lines
    <3> QED  BY <2>2, <3>1
  <2>4. line' \in Lines
    BY <1>1, <2>1, <2>3, LineKept
  <2>5. peer' \in Peers
    BY <1>1, <2>1, <2>3, PeerKept
  <2> QED  BY <1>1, <2>1, <2>2, <2>4, <2>5
<1>9. CASE Lose
  <2>1. /\ line[Serial] # <<>> /\ line' = [line EXCEPT ![Serial] = Tail(@)]
        /\ UNCHANGED <<buffer, peer, frames>>
    BY <1>9 DEF Lose, SlaveLeaves, transportVars
  <2>2. line[Serial] \in Seq(Piece)
    BY <1>1, SerialMaster DEF Lines
  <2>3. Tail(line[Serial]) \in Seq(Piece)
    BY <2>1, <2>2
  <2> QED  BY <1>1, <2>1, <2>3, SerialMaster, LineKept
<1>10. CASE \/ Loop \/ Command \/ FinishCommand \/ CommandsDone \/ PollNobody
            \/ FinishRequest \/ StartTick \/ FinishTick
            \/ (\E t \in Threads : Acquire(t) \/ TouchCell(t))
            \/ \E c \in Commands : Type(c)
  BY <1>3, <1>10 DEF Loop, Command, FinishCommand, CommandsDone, PollNobody, FinishRequest,
       StartTick, FinishTick, Acquire, TouchCell, Type, transportVars, outsideVars
<1> QED  BY <1>4, <1>5, <1>6, <1>7, <1>8, <1>9, <1>10 DEF Next

-------------------------------------------------------------------------------
(* The specification *)

LEMMA SlaveInitially ==
  ASSUME Init
  PROVE  SlaveInv
<1>1. NoAccess \in Accesses /\ NoAccess.op = "none" /\ GoodAccess(NoAccess)
  BY DEF NoAccess, Accesses, GoodAccess
<1>2. StoreTypes
  BY <1>1, Constants DEF Init, StoreTypes
<1>3. \A t \in Threads : access[t] = NoAccess
  BY DEF Init
<1>4. Nobody \notin Threads
  BY DEF Nobody, Threads
<1>5. Locked /\ InSync
  BY <1>1, <1>3, <1>4 DEF Init, Locked, InSync
<1>6. MainLoop
  BY <1>1, <1>3 DEF MainLoop, Threads
<1>7. Pieces
  BY NoPieces, Constants DEF Init, Pieces
<1> QED  BY <1>2, <1>5, <1>6, <1>7 DEF SlaveInv

LEMMA SlaveStep ==
  ASSUME SlaveInv, [Next]_slaveVars
  PROVE  SlaveInv'
<1>1. CASE Next
  BY <1>1, StepLock, StepMain, StepPieces DEF SlaveInv, LockInv
<1>2. CASE UNCHANGED slaveVars
  BY <1>2 DEF slaveVars, storeVars, transportVars, outsideVars, SlaveInv, StoreTypes, Locked,
       InSync, MainLoop, Pieces
<1> QED  BY <1>1, <1>2

\* Only the release of the lock ends an access, and then all cells are in step.
LEMMA StepAtomic ==
  ASSUME SlaveInv, Next, NEW t \in Threads, access[t].op \in {"read", "write"},
         access'[t].op = "none", NEW i \in 1 .. Len(access[t].cells)
  PROVE  store[access[t].cells[i][1]][access[t].cells[i][2]] = access[t].data[i] % WordMod
<1>1. access[t] \in Accesses /\ access \in [Threads -> Accesses]
  BY DEF SlaveInv, StoreTypes
<1>2. ASSUME StoreKept
      PROVE  FALSE
  BY <1>1, <1>2 DEF StoreKept
<1>3. ASSUME NEW u \in Threads, Starts(u)
      PROVE  FALSE
  <2>1. PICK w : Begins(w) /\ access' = [access EXCEPT ![u] = w]
    BY <1>3 DEF Starts
  <2> QED  BY <1>1, <2>1 DEF Begins
<1>4. ASSUME NEW u \in Threads, Acquire(u)
      PROVE  FALSE
  BY <1>4 DEF Acquire
<1>5. ASSUME NEW u \in Threads, TouchCell(u)
      PROVE  FALSE
  BY <1>1, <1>5 DEF TouchCell, Accesses
<1>6. ASSUME NEW u \in Threads, Release(u)
      PROVE  u = t
  BY <1>1, <1>6 DEF Release
<1>7. Release(t)
  BY <1>2, <1>3, <1>4, <1>5, <1>6, StepStore
<1>8. access[t].at \in Nat /\ access[t].at > Len(access[t].cells)
  BY <1>1, <1>7 DEF Release, Finished, Accesses
<1>9. Len(access[t].cells) \in Nat
  BY <1>1 DEF Accesses
<1>10. i \in 1 .. access[t].at - 1
  BY <1>8, <1>9
<1> QED  BY <1>10 DEF SlaveInv, InSync

\* What the read or write of a request has taken from the store or put there is
\* what the store holds when the request is done, although the other thread
\* increments the same registers (read_registers, write_registers, tick): the
\* action property AccessIsAtomic, for all sizes, limits and requests.
THEOREM AccessIsAtomicHolds == Spec => AccessIsAtomic
<1>1. Init => SlaveInv
  BY SlaveInitially
<1>2. SlaveInv /\ [Next]_slaveVars => SlaveInv'
  BY SlaveStep
<1>3. SlaveInv /\ [Next]_slaveVars =>
        [\A t \in Threads :
           /\ access[t].op \in {"read", "write"} /\ access'[t].op = "none"
           => \A i \in 1 .. Len(access[t].cells) :
                LET c == access[t].cells[i]
                IN  store[c[1]][c[2]] = access[t].data[i] % WordMod]_slaveVars
  BY StepAtomic
<1> QED  BY <1>1, <1>2, <1>3, PTL DEF Spec, AccessIsAtomic

-------------------------------------------------------------------------------
(***************************************************************************)
(* AnswerToAsker needs to know whose pieces are where (Senders): the       *)
(* buffer holds what the master sent whom an answer would reach.  A frame  *)
(* is processed when its head is taken from the buffer; each head is in    *)
(* one place only, and not where its frame has been processed already      *)
(* (Once).  In TCP that the front of the buffer is a head follows from the *)
(* order of the pieces, since the buffer is emptied between two clients    *)
(* (InTurn).                                                               *)
(***************************************************************************)

\* To whom an answer would go.
Speaker == IF mode = "tcp" THEN client ELSE Serial

PieceFrom(m) == {p \in Piece : p.of.from = m}

Senders ==
    /\ buffer \in Seq(PieceFrom(Speaker))
    /\ \A m \in Masters : /\ line[m] \in Seq(PieceFrom(m))
                          /\ peer[m].rest \in Seq({p \in PieceFrom(m) : p.part = "tail"})

HeadsOf(s) == {i \in 1 .. Len(s) : s[i].part = "head"}
Ids(s) == {s[i].of.id : i \in HeadsOf(s)}
NoneTwice(s) == \A i, j \in HeadsOf(s) : s[i].of.id = s[j].of.id => i = j

\* The frames that were answered, and those that were processed.
Answered == {answers[k].frame.id : k \in 1 .. Len(answers)}
Taken == Answered \cup (IF frame = NoFrame THEN {} ELSE {frame.id})

Once ==
    /\ NoneTwice(buffer) /\ \A m \in Masters : NoneTwice(line[m])
    /\ \A m \in Masters : Ids(line[m]) \cap (Ids(buffer) \cup Taken) = {}
    /\ \A m, n \in Masters : m # n => Ids(line[m]) \cap Ids(line[n]) = {}
    /\ Ids(buffer) \cap Taken = {}
    /\ frame # NoFrame => frame.id \notin Answered
    /\ \A x \in Ids(buffer) \cup Taken : x <= frames
    /\ \A m \in Masters : \A x \in Ids(line[m]) : x <= frames

\* Heads and tails alternate in s, where a piece p is in front of it.
Alternates(s, p) ==
    /\ s # <<>> => s[1].part # p
    /\ \A i \in 1 .. Len(s) - 1 : s[i].part # s[i + 1].part
EndOf(s, p) == IF s = <<>> THEN p ELSE s[Len(s)].part

\* What is in front of the line of m.
Before(m) == IF client = m THEN EndOf(buffer, "tail") ELSE "tail"

InTurn ==
    mode = "tcp" =>
        /\ Alternates(buffer, "tail")
        /\ \A m \in Masters :
              /\ Alternates(line[m], Before(m))
              /\ Len(peer[m].rest) <= 1
              /\ IF peer[m].rest # <<>> THEN EndOf(line[m], Before(m)) = "head"
                 ELSE peer[m].link \in {"new", "asking", "open"} =>
                          EndOf(line[m], Before(m)) = "tail"

\* Answers, and the frame whose access to the store is in progress.
Answer == [to : Masters, frame : Frame, exception : 0 .. 4]

Accepted(f) == f \in Frame /\ f.from = Speaker /\ f.request.valid /\ IsForUs(f.request)

InWork ==
    /\ client \in Masters \cup {NoMaster} /\ answers \in Seq(Answer)
    /\ frame # NoFrame => pc = "access" /\ Accepted(frame)

AnswerInv == Senders /\ Once /\ InTurn /\ InWork /\ AnswerToAsker

-------------------------------------------------------------------------------
(* Sequences of pieces *)

LEMMA PieceFields ==
  ASSUME NEW p \in Piece
  PROVE  /\ p.part \in {"head", "tail"} /\ p.of \in Frame
         /\ p.of.id \in Nat /\ p.of.from \in Masters
BY DEF Piece, Frame, Frame

LEMMA NoHeads ==
  ASSUME NEW s \in Seq({p \in Piece : p.part = "tail"})
  PROVE  Ids(s) = {} /\ NoneTwice(s)
BY DEF Ids, NoneTwice, HeadsOf

LEMMA JoinedItems ==
  ASSUME NEW s \in Seq(Piece), NEW t \in Seq(Piece)
  PROVE  /\ s \o t \in Seq(Piece) /\ Len(s \o t) = Len(s) + Len(t)
         /\ Len(s) \in Nat /\ Len(t) \in Nat
         /\ \A i \in 1 .. Len(s) : (s \o t)[i] = s[i]
         /\ \A i \in 1 .. Len(t) : (s \o t)[Len(s) + i] = t[i]
         /\ \A i \in 1 .. Len(s \o t) : i \in 1 .. Len(s)
                \/ (i - Len(s) \in 1 .. Len(t) /\ (s \o t)[i] = t[i - Len(s)])
OBVIOUS

LEMMA HeadsJoined ==
  ASSUME NEW s \in Seq(Piece), NEW t \in Seq(Piece)
  PROVE  /\ Ids(s \o t) = Ids(s) \cup Ids(t)
         /\ NoneTwice(s) /\ NoneTwice(t) /\ Ids(s) \cap Ids(t) = {} => NoneTwice(s \o t)
<1> DEFINE r == s \o t
<1>1. /\ Len(r) = Len(s) + Len(t) /\ Len(s) \in Nat /\ Len(t) \in Nat
      /\ \A i \in 1 .. Len(s) : r[i] = s[i]
      /\ \A i \in 1 .. Len(t) : r[Len(s) + i] = t[i]
      /\ \A i \in 1 .. Len(r) : i \in 1 .. Len(s)
             \/ (i - Len(s) \in 1 .. Len(t) /\ r[i] = t[i - Len(s)])
  BY JoinedItems
<1> HIDE DEF r
<1>2. \A i \in HeadsOf(s) : i \in HeadsOf(r) /\ r[i] = s[i]
  BY <1>1 DEF HeadsOf
<1>3. \A i \in HeadsOf(t) : Len(s) + i \in HeadsOf(r) /\ r[Len(s) + i] = t[i]
  BY <1>1 DEF HeadsOf
<1>4. \A i \in HeadsOf(r) : \/ i \in HeadsOf(s) /\ r[i] = s[i]
                            \/ i - Len(s) \in HeadsOf(t) /\ r[i] = t[i - Len(s)]
  BY <1>1 DEF HeadsOf
<1>5. Ids(r) = Ids(s) \cup Ids(t)
  BY <1>2, <1>3, <1>4 DEF Ids
<1>6. ASSUME NoneTwice(s), NoneTwice(t), Ids(s) \cap Ids(t) = {}
      PROVE  NoneTwice(r)
  <2>1. SUFFICES ASSUME NEW i \in HeadsOf(r), NEW j \in HeadsOf(r), r[i].of.id = r[j].of.id
                 PROVE  i = j
    BY DEF NoneTwice
  <2>2. i \in Nat /\ j \in Nat /\ Len(s) \in Nat
    BY <1>1 DEF HeadsOf
  <2>3. CASE i \in HeadsOf(s) /\ r[i] = s[i] /\ j \in HeadsOf(s) /\ r[j] = s[j]
    BY <1>6, <2>1, <2>3 DEF NoneTwice
  <2>4. CASE /\ i - Len(s) \in HeadsOf(t) /\ r[i] = t[i - Len(s)]
             /\ j - Len(s) \in HeadsOf(t) /\ r[j] = t[j - Len(s)]
    <3>1. i - Len(s) = j - Len(s)
      BY <1>6, <2>1, <2>4 DEF NoneTwice
    <3> QED  BY <2>2, <3>1
  <2>5. CASE /\ i \in HeadsOf(s) /\ r[i] = s[i]
             /\ j - Len(s) \in HeadsOf(t) /\ r[j] = t[j - Len(s)]
    <3>1. r[i].of.id \in Ids(s) /\ r[j].of.id \in Ids(t)
      BY <2>5 DEF Ids
    <3> QED  BY <1>6, <2>1, <3>1
  <2>6. CASE /\ j \in HeadsOf(s) /\ r[j] = s[j]
             /\ i - Len(s) \in HeadsOf(t) /\ r[i] = t[i - Len(s)]
    <3>1. r[j].of.id \in Ids(s) /\ r[i].of.id \in Ids(t)
      BY <2>6 DEF Ids
    <3> QED  BY <1>6, <2>1, <3>1
  <2> QED  BY <1>4, <2>3, <2>4, <2>5, <2>6
<1> QED  BY <1>5, <1>6 DEF r

LEMMA PartItems ==
  ASSUME NEW s \in Seq(Piece), NEW i \in Nat \ {0}, NEW j \in Nat, j <= Len(s)
  PROVE  /\ SubSeq(s, i, j) \in Seq(Piece) /\ Len(SubSeq(s, i, j)) \in Nat
         /\ Len(s) \in Nat
         /\ i <= j + 1 => Len(SubSeq(s, i, j)) = j - i + 1
         /\ i > j => SubSeq(s, i, j) = <<>>
         /\ \A k \in 1 .. Len(SubSeq(s, i, j)) :
                i + k - 1 \in 1 .. Len(s) /\ SubSeq(s, i, j)[k] = s[i + k - 1]
OBVIOUS

\* A part has some of the heads, and none of those before it.
LEMMA HeadsOfPart ==
  ASSUME NEW s \in Seq(Piece), NEW i \in Nat \ {0}, NEW j \in Nat, j <= Len(s)
  PROVE  /\ Ids(SubSeq(s, i, j)) \subseteq Ids(s)
         /\ NoneTwice(s) =>
              /\ NoneTwice(SubSeq(s, i, j))
              /\ \A k \in HeadsOf(s) : k < i => s[k].of.id \notin Ids(SubSeq(s, i, j))
<1> DEFINE r == SubSeq(s, i, j)
<1>1. \A k \in 1 .. Len(r) : i + k - 1 \in 1 .. Len(s) /\ r[k] = s[i + k - 1]
  BY PartItems
<1> HIDE DEF r
<1>2. \A k \in HeadsOf(r) : /\ i + k - 1 \in HeadsOf(s) /\ r[k] = s[i + k - 1]
                            /\ k \in Nat \ {0}
  BY <1>1 DEF HeadsOf
<1>3. Ids(r) \subseteq Ids(s)
  BY <1>2 DEF Ids
<1>4. ASSUME NoneTwice(s) PROVE NoneTwice(r)
  <2>1. SUFFICES ASSUME NEW k \in HeadsOf(r), NEW l \in HeadsOf(r), r[k].of.id = r[l].of.id
                 PROVE  k = l
    BY DEF NoneTwice
  <2>2. /\ i + k - 1 \in HeadsOf(s) /\ i + l - 1 \in HeadsOf(s) /\ k \in Nat /\ l \in Nat
        /\ s[i + k - 1].of.id = s[i + l - 1].of.id
    BY <1>2, <2>1
  <2>3. i + k - 1 = i + l - 1
    BY <1>4, <2>2, Zenon DEF NoneTwice
  <2> QED  BY <2>2, <2>3
<1>5. ASSUME NoneTwice(s), NEW k \in HeadsOf(s), k < i, s[k].of.id \in Ids(r)
      PROVE  FALSE
  <2>1. PICK l \in HeadsOf(r) : r[l].of.id = s[k].of.id
    BY <1>5 DEF Ids
  <2>2. /\ i + l - 1 \in HeadsOf(s) /\ l \in Nat \ {0} /\ k \in Nat
        /\ s[i + l - 1].of.id = s[k].of.id
    BY <1>2, <2>1 DEF HeadsOf
  <2>3. i + l - 1 = k
    BY <1>5, <2>2, Zenon DEF NoneTwice
  <2> QED  BY <1>5, <2>2, <2>3
<1> QED  BY <1>3, <1>4, <1>5 DEF r

LEMMA HeadsLonger ==
  ASSUME NEW s \in Seq(Piece), NEW p \in Piece, p.part = "head", p.of.id \notin Ids(s),
         NoneTwice(s)
  PROVE  Ids(Append(s, p)) = Ids(s) \cup {p.of.id} /\ NoneTwice(Append(s, p))
<1>1. <<p>> \in Seq(Piece) /\ Append(s, p) = s \o <<p>> /\ Len(<<p>>) = 1 /\ <<p>>[1] = p
  OBVIOUS
<1> DEFINE t == <<p>>
<1>2. t \in Seq(Piece) /\ Append(s, p) = s \o t /\ Len(t) = 1 /\ t[1] = p
  BY <1>1
<1> HIDE DEF t
<1>3. HeadsOf(t) = {1}
  BY <1>2 DEF HeadsOf
<1>4. Ids(t) = {p.of.id} /\ NoneTwice(t)
  BY <1>2, <1>3 DEF Ids, NoneTwice
<1> QED  BY <1>2, <1>4, HeadsJoined

\* Heads and tails go on alternating in a sequence that is put behind another.
LEMMA InTurnJoined ==
  ASSUME NEW s \in Seq(Piece), NEW t \in Seq(Piece), NEW p,
         Alternates(s, p), Alternates(t, EndOf(s, p))
  PROVE  Alternates(s \o t, p) /\ EndOf(s \o t, p) = EndOf(t, EndOf(s, p))
<1> DEFINE r == s \o t
<1>1. /\ Len(r) = Len(s) + Len(t) /\ Len(s) \in Nat /\ Len(t) \in Nat
      /\ \A i \in 1 .. Len(s) : r[i] = s[i]
      /\ \A i \in 1 .. Len(t) : r[Len(s) + i] = t[i]
      /\ r \in Seq(Piece)
  BY JoinedItems
<1>2. /\ s = <<>> <=> Len(s) = 0
      /\ t = <<>> <=> Len(t) = 0
  OBVIOUS
<1>3. r = <<>> <=> Len(r) = 0
  BY <1>1
<1> HIDE DEF r
<1>4. r # <<>> => r[1].part # p
  <2>1. CASE s = <<>>
    BY <1>1, <1>2, <1>3, <2>1 DEF Alternates, EndOf
  <2>2. CASE s # <<>>
    <3>1. r[1] = s[1]
      BY <1>1, <1>2, <2>2
    <3> QED  BY <2>2, <3>1 DEF Alternates
  <2> QED  BY <2>1, <2>2
<1>5. ASSUME NEW i \in 1 .. Len(r) - 1
      PROVE  r[i].part # r[i + 1].part
  <2>1. CASE i < Len(s)
    <3>1. /\ i \in 1 .. Len(s) - 1 /\ r[i] = s[i] /\ r[i + 1] = s[i + 1]
      BY <1>1, <2>1
    <3> QED  BY <3>1 DEF Alternates
  <2>2. CASE i = Len(s)
    <3>1. /\ s # <<>> /\ t # <<>> /\ r[i] = s[Len(s)] /\ r[i + 1] = t[1]
      BY <1>1, <1>2, <2>2
    <3> QED  BY <3>1 DEF Alternates, EndOf
  <2>3. CASE i > Len(s)
    <3>1. PICK k \in 1 .. Len(t) - 1 : Len(s) + k = i /\ Len(s) + (k + 1) = i + 1
      <4>1. i - Len(s) \in 1 .. Len(t) - 1
        BY <1>1, <2>3
      <4>2. Len(s) + (i - Len(s)) = i /\ Len(s) + ((i - Len(s)) + 1) = i + 1
        BY <1>1
      <4> QED  BY <4>1, <4>2
    <3>2. k \in 1 .. Len(t) /\ k + 1 \in 1 .. Len(t)
      BY <1>1
    <3>3. r[i] = t[k] /\ r[i + 1] = t[k + 1]
      BY <1>1, <3>1, <3>2
    <3> QED  BY <3>1, <3>3 DEF Alternates
  <2> QED  BY <1>1, <2>1, <2>2, <2>3
<1>6. EndOf(r, p) = EndOf(t, EndOf(s, p))
  <2>1. CASE t = <<>>
    BY <1>1, <1>2, <1>3, <2>1 DEF EndOf
  <2>2. CASE t # <<>>
    <3>1. r[Len(r)] = t[Len(t)] /\ r # <<>>
      BY <1>1, <1>2, <1>3, <2>2
    <3> QED  BY <2>2, <3>1 DEF EndOf
  <2> QED  BY <2>1, <2>2
<1> QED  BY <1>4, <1>5, <1>6 DEF r, Alternates

\* Without its first two pieces.
LEMMA InTurnLater ==
  ASSUME NEW s \in Seq(Piece), Len(s) >= 2, Alternates(s, "tail")
  PROVE  /\ s[1].part = "head"
         /\ Alternates(SubSeq(s, 3, Len(s)), "tail")
         /\ EndOf(SubSeq(s, 3, Len(s)), "tail") = EndOf(s, "tail")
<1> DEFINE r == SubSeq(s, 3, Len(s))
<1>0. Len(s) \in Nat
  OBVIOUS
<1>1. /\ Len(s) \in Nat /\ Len(r) = Len(s) - 2 /\ r \in Seq(Piece)
      /\ \A k \in 1 .. Len(r) : r[k] = s[k + 2]
  <2>1. /\ r \in Seq(Piece) /\ Len(r) = Len(s) - 3 + 1 /\ Len(r) \in Nat
        /\ \A k \in 1 .. Len(r) : r[k] = s[3 + k - 1]
    <3>1. 3 \in Nat \ {0} /\ Len(s) <= Len(s) /\ 3 <= Len(s) + 1
      BY <1>0
    <3>2. /\ r \in Seq(Piece) /\ Len(r) \in Nat
          /\ 3 <= Len(s) + 1 => Len(r) = Len(s) - 3 + 1
          /\ \A k \in 1 .. Len(r) : 3 + k - 1 \in 1 .. Len(s) /\ r[k] = s[3 + k - 1]
      BY <1>0, <3>1, PartItems
    <3> QED  BY <3>1, <3>2
  <2> HIDE DEF r
  <2>2. ASSUME NEW k \in 1 .. Len(r) PROVE 3 + k - 1 = k + 2
    BY <2>1
  <2> QED  BY <1>0, <2>1, <2>2
<1> HIDE DEF r
<1>2. r = <<>> <=> Len(r) = 0
  BY <1>1
<1>3. s # <<>> /\ \A k \in 1 .. Len(s) : s[k].part \in {"head", "tail"}
  BY PieceFields
<1>4. s[1].part = "head" /\ s[2].part = "tail"
  <2>1. 1 \in 1 .. Len(s) /\ 2 \in 1 .. Len(s) /\ 1 \in 1 .. Len(s) - 1 /\ 1 + 1 = 2
    BY <1>1
  <2> QED  BY <1>3, <2>1 DEF Alternates
<1>5. r # <<>> => r[1].part # "tail"
  <2>1. SUFFICES ASSUME r # <<>> PROVE r[1].part # "tail"
    OBVIOUS
  <2>2. r[1] = s[3] /\ 2 \in 1 .. Len(s) - 1 /\ 2 + 1 = 3
    BY <1>1, <1>2, <2>1
  <2> QED  BY <1>4, <2>2 DEF Alternates
<1>6. ASSUME NEW k \in 1 .. Len(r) - 1
      PROVE  r[k].part # r[k + 1].part
  <2>1. r[k] = s[k + 2] /\ r[k + 1] = s[(k + 2) + 1] /\ k + 2 \in 1 .. Len(s) - 1
    BY <1>1
  <2> QED  BY <2>1 DEF Alternates
<1>7. EndOf(r, "tail") = EndOf(s, "tail")
  <2>1. CASE r = <<>>
    <3>1. Len(s) = 2
      BY <1>1, <1>2, <2>1
    <3> QED  BY <1>3, <1>4, <2>1, <3>1 DEF EndOf
  <2>2. CASE r # <<>>
    <3>1. r[Len(r)] = s[Len(s)]
      BY <1>1, <1>2, <2>2
    <3> QED  BY <1>3, <2>2, <3>1 DEF EndOf
  <2> QED  BY <2>1, <2>2
<1> QED  BY <1>4, <1>5, <1>6, <1>7 DEF r, Alternates

-------------------------------------------------------------------------------
(* The next frame, and what is sent *)

LEMMA PiecesFrom ==
  ASSUME NEW m, NEW s \in Seq(PieceFrom(m))
  PROVE  /\ s \in Seq(Piece) /\ Len(s) \in Nat
         /\ \A i \in 1 .. Len(s) : s[i] \in Piece /\ s[i].of.from = m
         /\ \A i \in Nat \ {0} : \A j \in Nat : j <= Len(s) =>
                SubSeq(s, i, j) \in Seq(PieceFrom(m))
<1>1. ASSUME NEW i \in Nat \ {0}, NEW j \in Nat, j <= Len(s)
      PROVE  SubSeq(s, i, j) \in Seq(PieceFrom(m))
  BY <1>1, PartOfSeq
<1> QED  BY <1>1 DEF PieceFrom

\* An answer is sent to the master of the frame, unless it has been sent before.
LEMMA AnswerSent ==
  ASSUME InWork, AnswerToAsker, NEW f, Accepted(f), f.id \notin Answered,
         NEW e \in 0 .. 4, SendFrame(f, e), mode' = mode
  PROVE  /\ answers' \in Seq(Answer) /\ AnswerToAsker'
         /\ Answered' \subseteq Answered \cup {f.id}
<1> DEFINE a == [to |-> Speaker, frame |-> f, exception |-> e]
<1>1. answers \in Seq(Answer) /\ Len(answers) \in Nat
  BY DEF InWork
<1>2. CASE answers' = answers
  BY <1>1, <1>2 DEF AnswerToAsker, Answered
<1>3. CASE /\ IsAnswered(f.request) /\ Speaker # NoMaster
           /\ answers' = Append(answers, a)
  <2>1. Speaker = f.from /\ f \in Frame /\ f.from \in Masters
    BY DEF Accepted, Frame
  <2>2. a \in Answer /\ a.to = f.from /\ a.frame = f
    BY <2>1 DEF Answer
  <2> HIDE DEF a
  <2>3. /\ answers' \in Seq(Answer) /\ Len(answers') = Len(answers) + 1
        /\ answers'[Len(answers) + 1] = a
        /\ \A i \in 1 .. Len(answers) : answers'[i] = answers[i]
    BY <1>1, <1>3, <2>2
  <2>4. \A i \in 1 .. Len(answers') : i \in 1 .. Len(answers) \/ i = Len(answers) + 1
    BY <1>1, <2>3
  <2>5. f.request.valid /\ (mode # "tcp" => f.request.unit = Unit)
    BY <1>3 DEF Accepted, IsForUs, IsAnswered
  <2>6. \A i \in 1 .. Len(answers) : answers[i].frame.id # f.id
    BY DEF Answered
  <2>7. AnswerToAsker'
    <3>1. ASSUME NEW i \in 1 .. Len(answers')
          PROVE  /\ answers'[i].to = answers'[i].frame.from
                 /\ answers'[i].frame.request.valid
                 /\ mode # "tcp" => answers'[i].frame.request.unit = Unit
      <4>1. CASE i \in 1 .. Len(answers) /\ answers'[i] = answers[i]
        BY <4>1 DEF AnswerToAsker
      <4>2. CASE answers'[i].frame = f /\ answers'[i].to = f.from
        BY <2>5, <4>2
      <4> QED  BY <2>2, <2>3, <2>4, <4>1, <4>2
    <3>2. \A i, j \in 1 .. Len(answers') :
             answers'[i].frame.id = answers'[j].frame.id => i = j
      BY <2>2, <2>3, <2>4, <2>6 DEF AnswerToAsker
    <3> QED  BY <3>1, <3>2 DEF AnswerToAsker
  <2>8. Answered' \subseteq Answered \cup {f.id}
    BY <2>2, <2>3, <2>4 DEF Answered
  <2> QED  BY <2>3, <2>7, <2>8
<1> QED  BY <1>2, <1>3 DEF SendFrame, Speaker

LEMMA Exceptions ==
  ASSUME NEW r \in Request
  PROVE  ExceptionOf(r) \in 0 .. 4
<1>1. Injected \in 0 .. 4
  BY SlaveAssumption
<1> QED  BY <1>1 DEF ExceptionOf

\* What is taken from the buffer: less of it remains, and the frame that is
\* processed is not in it any more.
TakenFromBuffer(f) ==
    /\ f \in Frame /\ f.from = Speaker
    /\ f.id \in Ids(buffer) /\ f.id \notin Ids(buffer')
    /\ ProcessFrame(f)

BufferShorter ==
    /\ buffer' \in Seq(PieceFrom(Speaker))
    /\ Ids(buffer') \subseteq Ids(buffer) /\ NoneTwice(buffer')

LEMMA FirstPiece ==
  ASSUME Senders, NEW s \in Seq(PieceFrom(Speaker)), Len(s) >= 1
  PROVE  s[1].of \in Frame /\ s[1].of.from = Speaker
<1>1. s[1] \in Piece /\ s[1].of.from = Speaker
  BY PiecesFrom
<1> QED  BY <1>1, PieceFields

LEMMA NextFrameTakes ==
  ASSUME Senders, Once, InTurn, NextFrame
  PROVE  /\ BufferShorter
         /\ \/ UNCHANGED <<frame, answers>> /\ pc' # "access"
            \/ \E f : TakenFromBuffer(f)
         /\ mode = "tcp" => \/ UNCHANGED buffer
                            \/ Len(buffer) >= 2 /\ buffer' = SubSeq(buffer, 3, Len(buffer))
<1>1. /\ buffer \in Seq(PieceFrom(Speaker)) /\ buffer \in Seq(Piece)
      /\ Len(buffer) \in Nat /\ NoneTwice(buffer)
  BY PiecesFrom DEF Senders, Once
<1>2. pc = "frames"
  BY DEF NextFrame
<1>3. /\ <<>> \in Seq(PieceFrom(Speaker)) /\ Ids(<<>>) = {} /\ NoneTwice(<<>>)
  BY DEF Ids, HeadsOf, NoneTwice
<1>4. CASE NextRtu /\ mode = "rtu"
  <2>1. CASE NothingMore(buffer)
    BY <1>1, <1>4, <2>1 DEF NothingMore, BufferShorter
  <2>2. CASE buffer' = <<>> /\ UNCHANGED <<pc, frame, answers>>
    BY <1>2, <1>3, <1>4, <2>2 DEF BufferShorter
  <2>3. CASE buffer' = <<>> /\ IsFrame(buffer) /\ ProcessFrame(buffer[1].of)
    <3>1. 1 \in HeadsOf(buffer) /\ Len(buffer) >= 1
      BY <1>1, <2>3 DEF IsFrame, HeadsOf
    <3>2. buffer[1].of.id \in Ids(buffer)
      BY <3>1 DEF Ids
    <3>3. TakenFromBuffer(buffer[1].of)
      BY <1>1, <1>3, <2>3, <3>1, <3>2, FirstPiece DEF TakenFromBuffer
    <3> QED  BY <1>3, <1>4, <2>3, <3>3 DEF BufferShorter
  <2> QED  BY <1>4, <2>1, <2>2, <2>3 DEF NextRtu
<1>5. CASE NextAscii /\ mode = "ascii"
  <2>1. CASE NothingMore(<<>>)
    BY <1>1, <1>3, <1>5, <2>1 DEF NothingMore, BufferShorter
  <2>2. ASSUME NEW i \in Nat \ {0}, NEW j \in Nat, j <= Len(buffer)
        PROVE  LET r == SubSeq(buffer, i, j)
               IN  /\ r \in Seq(PieceFrom(Speaker)) /\ Ids(r) \subseteq Ids(buffer)
                   /\ NoneTwice(r)
                   /\ \A k \in HeadsOf(buffer) : k < i => buffer[k].of.id \notin Ids(r)
    BY <1>1, <2>2, PiecesFrom, HeadsOfPart
  <2>3. ASSUME NEW from \in Heads, NothingMore(SubSeq(buffer, from, Len(buffer)))
        PROVE  BufferShorter /\ UNCHANGED <<frame, answers>> /\ pc' # "access"
    <3>1. from \in Nat \ {0}
      BY DEF Heads
    <3>2. BufferShorter
      BY <1>1, <2>2, <2>3, <3>1 DEF NothingMore, BufferShorter
    <3> QED  BY <2>3, <3>2 DEF NothingMore
  <2>4. ASSUME NEW from \in Heads, NEW to \in Tails, from < to,
               NextLine(SubSeq(buffer, from, to), to)
        PROVE  /\ BufferShorter
               /\ \/ UNCHANGED <<frame, answers>> /\ pc' # "access"
                  \/ \E f : TakenFromBuffer(f)
    <3>1. /\ from \in Nat \ {0} /\ to \in Nat \ {0} /\ to + 1 \in Nat \ {0} /\ to <= Len(buffer)
          /\ from \in HeadsOf(buffer)
      BY <1>1 DEF Heads, Tails, HeadsOf
    <3>2. BufferShorter
      BY <1>1, <2>2, <2>4, <3>1 DEF NextLine, BufferShorter
    <3> DEFINE body == SubSeq(buffer, from, to)
    <3>3. body \in Seq(PieceFrom(Speaker)) /\ body[1] = buffer[from] /\ Len(body) >= 1
      <4>1. body \in Seq(PieceFrom(Speaker))
        BY <2>2, <3>1
      <4>2. /\ Len(body) = to - from + 1
            /\ \A k \in 1 .. Len(body) : body[k] = buffer[from + k - 1]
        BY <1>1, <2>4, <3>1, PartItems
      <4>3. Len(body) >= 1 /\ from + 1 - 1 = from /\ 1 \in 1 .. Len(body)
        BY <2>4, <3>1, <4>2
      <4> QED  BY <4>1, <4>2, <4>3
    <3> HIDE DEF body
    <3>4. CASE ProcessFrame(body[1].of)
      <4>1. body[1].of \in Frame /\ body[1].of.from = Speaker
        BY <3>3, FirstPiece
      <4>2. body[1].of.id \in Ids(buffer)
        BY <3>1, <3>3 DEF Ids
      <4>3. body[1].of.id \notin Ids(SubSeq(buffer, to + 1, Len(buffer)))
        BY <1>1, <2>2, <2>4, <3>1, <3>3
      <4>4. TakenFromBuffer(body[1].of)
        BY <2>4, <3>4, <4>1, <4>2, <4>3 DEF TakenFromBuffer, NextLine
      <4> QED  BY <3>2, <4>4
    <3>5. CASE UNCHANGED <<frame, answers>> /\ pc' \in {"frames", "closed"}
      BY <3>2, <3>5
    <3> QED  BY <2>4, <3>4, <3>5 DEF NextLine, body
  <2>5. \A to \in Tails : to \in Nat
    BY DEF Tails
  <2> QED  BY <1>5, <2>1, <2>3, <2>4 DEF NextAscii
<1>6. CASE NextTcp /\ mode = "tcp"
  <2>1. CASE NothingMore(buffer)
    BY <1>1, <2>1 DEF NothingMore, BufferShorter
  <2>2. CASE /\ Len(buffer) >= 2 /\ buffer' = SubSeq(buffer, 3, Len(buffer))
             /\ ProcessFrame(buffer[1].of)
    <3>1. buffer[1].part = "head"
      BY <1>1, <1>6, <2>2, InTurnLater DEF InTurn
    <3>2. 1 \in HeadsOf(buffer) /\ 1 < 3 /\ Len(buffer) >= 1 /\ 3 \in Nat \ {0}
      BY <1>1, <2>2, <3>1 DEF HeadsOf
    <3>3. buffer[1].of.id \in Ids(buffer)
      BY <3>2 DEF Ids
    <3>4. buffer[1].of.id \notin Ids(buffer') /\ BufferShorter
      BY <1>1, <2>2, <3>2, HeadsOfPart, PiecesFrom DEF BufferShorter
    <3>5. TakenFromBuffer(buffer[1].of)
      BY <1>1, <2>2, <3>2, <3>3, <3>4, FirstPiece DEF TakenFromBuffer
    <3> QED  BY <2>2, <3>4, <3>5
  <2> QED  BY <1>1, <1>6, <2>1, <2>2 DEF NextTcp
<1> QED  BY <1>4, <1>5, <1>6 DEF NextFrame

-------------------------------------------------------------------------------
(* The steps *)

LEMMA Known ==
  ASSUME Senders
  PROVE  /\ buffer \in Seq(Piece)
         /\ \A m \in Masters : line[m] \in Seq(Piece) /\ peer[m].rest \in Seq(Piece)
<1>1. ASSUME NEW m, NEW s \in Seq({p \in PieceFrom(m) : p.part = "tail"})
      PROVE  s \in Seq(Piece)
  BY DEF PieceFrom
<1> QED  BY <1>1, PiecesFrom DEF Senders

\* Pieces leave the buffer, and perhaps a frame is processed.
LEMMA OnceTaken ==
  ASSUME Once, UNCHANGED <<line, frames>>,
         Ids(buffer') \subseteq Ids(buffer), NoneTwice(buffer'),
         Taken' \subseteq Taken \cup (Ids(buffer) \ Ids(buffer')),
         frame' # NoFrame => frame'.id \notin Answered'
  PROVE  Once'
<1>1. Ids(buffer)' = Ids(buffer') /\ NoneTwice(buffer)' = NoneTwice(buffer')
  BY DEF Ids, HeadsOf, NoneTwice
<1>2. \A m \in Masters : Ids(line[m])' = Ids(line[m]) /\ NoneTwice(line[m])' = NoneTwice(line[m])
  BY DEF Ids, HeadsOf, NoneTwice
<1> QED  BY <1>1, <1>2 DEF Once

LEMMA InTurnTaken ==
  ASSUME Senders, InTurn, UNCHANGED <<mode, line, peer, client>>,
         mode = "tcp" => \/ UNCHANGED buffer
                         \/ Len(buffer) >= 2 /\ buffer' = SubSeq(buffer, 3, Len(buffer))
  PROVE  InTurn'
<1>1. SUFFICES ASSUME mode = "tcp" PROVE InTurn'
  BY DEF InTurn
<1>2. Alternates(buffer', "tail") /\ EndOf(buffer', "tail") = EndOf(buffer, "tail")
  BY <1>1, Known, InTurnLater DEF InTurn
<1>3. \A m : Before(m)' = Before(m)
  BY <1>2 DEF Before, EndOf
<1> QED  BY <1>1, <1>2, <1>3 DEF InTurn, Alternates, EndOf

LEMMA FrameProcessed ==
  ASSUME InWork, AnswerToAsker, Once, NEW f, TakenFromBuffer(f), frame = NoFrame,
         pc = "frames", UNCHANGED <<mode, client>>
  PROVE  /\ InWork' /\ AnswerToAsker'
         /\ Taken' \subseteq Taken \cup {f.id}
         /\ frame' # NoFrame => frame'.id \notin Answered'
<1>1. /\ f.id \notin Answered /\ f \in Frame /\ f.from = Speaker
      /\ f.request \in Request
  BY Constants DEF TakenFromBuffer, Once, Taken, Frame
<1>2. Speaker' = Speaker
  BY DEF Speaker
<1>3. CASE UNCHANGED <<frame, answers>>
  BY <1>3 DEF InWork, AnswerToAsker, Taken, Answered
<1>4. CASE f.request.valid /\ IsForUs(f.request) /\ SendFrame(f, ExceptionOf(f.request))
           /\ UNCHANGED frame
  <2>1. Accepted(f) /\ ExceptionOf(f.request) \in 0 .. 4
    BY <1>1, <1>4, Exceptions DEF Accepted
  <2>2. /\ answers' \in Seq(Answer) /\ AnswerToAsker'
        /\ Answered' \subseteq Answered \cup {f.id}
    BY <1>1, <1>4, <2>1, AnswerSent
  <2> QED  BY <1>4, <2>2 DEF InWork, Taken
<1>5. CASE /\ f.request.valid /\ IsForUs(f.request)
           /\ pc' = "access" /\ frame' = f /\ UNCHANGED answers
  <2>1. Accepted(frame)'
    BY <1>1, <1>2, <1>5 DEF Accepted, IsForUs
  <2>2. Answered' = Answered /\ Taken' \subseteq Taken \cup {f.id}
    BY <1>5 DEF Answered, Taken
  <2> QED  BY <1>1, <1>5, <2>1, <2>2 DEF InWork, AnswerToAsker
<1> QED  BY <1>3, <1>4, <1>5 DEF TakenFromBuffer, ProcessFrame

LEMMA NextFrameAnswers ==
  ASSUME AnswerInv, NextFrame
  PROVE  AnswerInv'
<1>1. Senders /\ Once /\ InTurn /\ InWork /\ AnswerToAsker
  BY DEF AnswerInv
<1>2. /\ UNCHANGED <<mode, client, line, peer, frames>> /\ pc = "frames"
      /\ frame = NoFrame
  BY <1>1 DEF NextFrame, outsideVars, InWork
<1>3. /\ BufferShorter
      /\ \/ UNCHANGED <<frame, answers>> /\ pc' # "access"
         \/ \E f : TakenFromBuffer(f)
      /\ mode = "tcp" => \/ UNCHANGED buffer
                         \/ Len(buffer) >= 2 /\ buffer' = SubSeq(buffer, 3, Len(buffer))
  BY <1>1, NextFrameTakes
<1>4. Senders'
  BY <1>1, <1>2, <1>3 DEF Senders, BufferShorter, Speaker
<1>5. InTurn'
  BY <1>1, <1>2, <1>3, InTurnTaken
<1>6. CASE UNCHANGED <<frame, answers>>
  <2>1. InWork' /\ AnswerToAsker' /\ Taken' = Taken /\ frame' = NoFrame
    BY <1>1, <1>2, <1>6 DEF InWork, AnswerToAsker, Taken, Answered
  <2>2. Once'
    BY <1>1, <1>2, <1>3, <2>1, OnceTaken DEF BufferShorter
  <2> QED  BY <1>4, <1>5, <2>1, <2>2 DEF AnswerInv
<1>7. ASSUME NEW f, TakenFromBuffer(f)
      PROVE  AnswerInv'
  <2>1. /\ InWork' /\ AnswerToAsker' /\ Taken' \subseteq Taken \cup {f.id}
        /\ frame' # NoFrame => frame'.id \notin Answered'
    BY <1>1, <1>2, <1>7, FrameProcessed
  <2>2. f.id \in Ids(buffer) \ Ids(buffer')
    BY <1>7 DEF TakenFromBuffer
  <2>3. Once'
    BY <1>1, <1>2, <1>3, <2>1, <2>2, OnceTaken DEF BufferShorter
  <2> QED  BY <1>4, <1>5, <2>1, <2>3 DEF AnswerInv
<1> QED  BY <1>3, <1>6, <1>7

LEMMA FinishRequestAnswers ==
  ASSUME AnswerInv, FinishRequest
  PROVE  AnswerInv'
<1>1. Senders /\ Once /\ InTurn /\ InWork /\ AnswerToAsker
  BY DEF AnswerInv
<1>2. /\ frame # NoFrame /\ SendFrame(frame, 0) /\ frame' = NoFrame
      /\ UNCHANGED <<mode, client, buffer, line, peer, frames>>
  BY DEF FinishRequest, outsideVars
<1>3. Accepted(frame) /\ frame.id \notin Answered
  BY <1>1, <1>2 DEF InWork, Once
<1>4. /\ answers' \in Seq(Answer) /\ AnswerToAsker'
      /\ Answered' \subseteq Answered \cup {frame.id}
  BY <1>1, <1>2, <1>3, AnswerSent
<1>5. Taken' \subseteq Taken
  BY <1>2, <1>4 DEF Taken
<1>6. Ids(buffer') \subseteq Ids(buffer) /\ NoneTwice(buffer')
  BY <1>1, <1>2 DEF Once
<1>7. Once'
  BY <1>1, <1>2, <1>5, <1>6, OnceTaken
<1>8. InTurn'
  BY <1>1, <1>2, InTurnTaken
<1>9. Senders' /\ InWork'
  BY <1>1, <1>2, <1>4 DEF Senders, Speaker, InWork
<1> QED  BY <1>4, <1>7, <1>8, <1>9 DEF AnswerInv

LEMMA KeptAnswers ==
  ASSUME AnswerInv, UNCHANGED <<mode, client, buffer, frame, answers, line, peer, frames>>,
         frame # NoFrame => pc' = "access"
  PROVE  AnswerInv'
<1>1. Senders /\ Once /\ InTurn /\ InWork /\ AnswerToAsker
  BY DEF AnswerInv
<1>2. Senders' /\ AnswerToAsker'
  BY <1>1 DEF Senders, Speaker, AnswerToAsker
<1>3. Ids(buffer') \subseteq Ids(buffer) /\ NoneTwice(buffer')
      /\ Answered' = Answered /\ Taken' = Taken
  BY <1>1 DEF Once, Answered, Taken
<1>4. Once'
  <2>1. frame' # NoFrame => frame'.id \notin Answered'
    BY <1>1, <1>3 DEF Once
  <2> QED  BY <1>1, <1>3, <2>1, OnceTaken
<1>5. InTurn'
  BY <1>1, InTurnTaken
<1>6. InWork'
  BY <1>1 DEF InWork, Accepted, IsForUs, Speaker
<1> QED  BY <1>2, <1>4, <1>5, <1>6 DEF AnswerInv

\* Pieces move between one line and the buffer, or are lost.
LEMMA OnceMoved ==
  ASSUME Once, NEW m \in Masters, \A n \in Masters \ {m} : line'[n] = line[n],
         NoneTwice(buffer'), NoneTwice(line'[m]), UNCHANGED <<frame, answers, frames>>,
         Ids(buffer') \subseteq Ids(buffer) \cup Ids(line[m]),
         Ids(line'[m]) \subseteq Ids(line[m]), Ids(buffer') \cap Ids(line'[m]) = {}
  PROVE  Once'
<1>1. Ids(buffer)' = Ids(buffer') /\ NoneTwice(buffer)' = NoneTwice(buffer')
  BY DEF Ids, HeadsOf, NoneTwice
<1>2. \A n \in Masters : /\ Ids(line[n])' = Ids(line'[n])
                         /\ NoneTwice(line[n])' = NoneTwice(line'[n])
  BY DEF Ids, HeadsOf, NoneTwice
<1>3. \A n \in Masters \ {m} : /\ Ids(line'[n]) = Ids(line[n])
                               /\ NoneTwice(line'[n]) = NoneTwice(line[n])
  OBVIOUS
<1>4. Taken' = Taken /\ Answered' = Answered
  BY DEF Taken, Answered
<1> QED  BY <1>1, <1>2, <1>3, <1>4 DEF Once

\* A frame gets a new number.
LEMMA OnceSent ==
  ASSUME Once, NEW m \in Masters, \A n \in Masters \ {m} : line'[n] = line[n],
         UNCHANGED <<buffer, frame, answers>>, frames \in 0 .. MaxFrames, frames' = frames + 1,
         \A x \in Ids(buffer) \cup Taken : x \in Nat,
         \A n \in Masters : \A x \in Ids(line[n]) : x \in Nat,
         NoneTwice(line'[m]), Ids(line'[m]) = Ids(line[m]) \cup {frames'}
  PROVE  Once'
<1>1. /\ Ids(buffer)' = Ids(buffer) /\ NoneTwice(buffer)' = NoneTwice(buffer)
      /\ Taken' = Taken /\ Answered' = Answered
  BY DEF Ids, HeadsOf, NoneTwice, Taken, Answered
<1>2. \A n \in Masters : /\ Ids(line[n])' = Ids(line'[n])
                         /\ NoneTwice(line[n])' = NoneTwice(line'[n])
  BY DEF Ids, HeadsOf, NoneTwice
<1>3. \A n \in Masters \ {m} : /\ Ids(line'[n]) = Ids(line[n])
                               /\ NoneTwice(line'[n]) = NoneTwice(line[n])
  OBVIOUS
<1>4. frames' \notin Ids(buffer) \cup Taken /\ \A n \in Masters : frames' \notin Ids(line[n])
  BY DEF Once
<1>5. /\ \A x \in Ids(buffer) \cup Taken : x <= frames'
      /\ \A n \in Masters : \A x \in Ids(line'[n]) : x <= frames'
  <2>1. \A x \in Nat : x <= frames => x <= frames'
    OBVIOUS
  <2>2. frames' <= frames'
    OBVIOUS
  <2>3. /\ \A x \in Ids(buffer) \cup Taken : x \in Nat /\ x <= frames
        /\ \A n \in Masters : \A x \in Ids(line[n]) : x \in Nat /\ x <= frames
    BY DEF Once
  <2>4. \A n \in Masters : Ids(line'[n]) \subseteq Ids(line[n]) \cup {frames'}
    BY <1>3
  <2> QED  BY <2>1, <2>2, <2>3, <2>4
<1> QED  BY <1>1, <1>2, <1>3, <1>4, <1>5 DEF Once

\* What has a number has a natural number.
LEMMA Numbers ==
  ASSUME Senders, InWork
  PROVE  /\ \A x \in Ids(buffer) \cup Taken : x \in Nat
         /\ \A m \in Masters : \A x \in Ids(line[m]) : x \in Nat
<1>1. ASSUME NEW s \in Seq(Piece)
      PROVE  \A x \in Ids(s) : x \in Nat
  <2>1. \A i \in HeadsOf(s) : s[i] \in Piece
    BY DEF HeadsOf
  <2> QED  BY <2>1, PieceFields DEF Ids
<1>2. \A x \in Answered : x \in Nat
  <2>1. \A k \in 1 .. Len(answers) : answers[k] \in Answer
    BY DEF InWork
  <2> QED  BY <2>1 DEF Answered, Answer, Frame
<1>3. frame # NoFrame => frame.id \in Nat
  BY DEF InWork, Accepted, Frame
<1> QED  BY <1>1, <1>2, <1>3, Known DEF Taken

\* What Feed does.
LEMMA Fed ==
  ASSUME Senders, Once, line \in Lines, NEW m \in Masters, Feed(m),
         UNCHANGED <<frame, answers, frames>>
  PROVE  /\ Once' /\ line'[m] = <<>> /\ \A n \in Masters \ {m} : line'[n] = line[n]
         /\ buffer' = buffer \o line[m]
<1>1. /\ line'[m] = <<>> /\ \A n \in Masters \ {m} : line'[n] = line[n]
      /\ buffer' = buffer \o line[m]
  BY DEF Feed, Lines
<1>2. buffer \in Seq(Piece) /\ line[m] \in Seq(Piece)
  BY Known
<1>3. /\ Ids(buffer') = Ids(buffer) \cup Ids(line[m])
      /\ NoneTwice(buffer')
  BY <1>1, <1>2, HeadsJoined DEF Once
<1>4. Ids(line'[m]) = {} /\ NoneTwice(line'[m])
  BY <1>1 DEF Ids, HeadsOf, NoneTwice
<1> QED  BY <1>1, <1>3, <1>4, OnceMoved

LEMMA JoinedFrom ==
  ASSUME NEW m, NEW s \in Seq(PieceFrom(m)), NEW t \in Seq(PieceFrom(m))
  PROVE  s \o t \in Seq(PieceFrom(m))
OBVIOUS

LEMMA PollSerialAnswers ==
  ASSUME SlaveInv, AnswerInv, PollSerial
  PROVE  AnswerInv'
<1>1. /\ Senders /\ Once /\ InWork /\ AnswerToAsker /\ line \in Lines
      /\ Serial \in Masters
  BY SerialMaster DEF AnswerInv, SlaveInv, Pieces, Lines
<1>2. /\ mode # "tcp" /\ Feed(Serial) /\ frame = NoFrame
      /\ UNCHANGED <<mode, client, frame, answers, peer, frames>>
  BY <1>1 DEF PollSerial, InWork
<1>3. /\ Once' /\ line'[Serial] = <<>> /\ \A n \in Masters \ {Serial} : line'[n] = line[n]
      /\ buffer' = buffer \o line[Serial]
  BY <1>1, <1>2, Fed
<1>4. buffer' \in Seq(PieceFrom(Speaker))
  BY <1>1, <1>2, <1>3, JoinedFrom DEF Senders, Speaker
<1>5. Senders'
  <2>1. <<>> \in Seq(PieceFrom(Serial)) /\ Speaker' = Speaker
    BY <1>2 DEF Speaker
  <2> QED  BY <1>1, <1>2, <1>3, <1>4, <2>1 DEF Senders
<1>6. InTurn' /\ InWork' /\ AnswerToAsker'
  BY <1>1, <1>2 DEF InTurn, InWork, AnswerToAsker
<1> QED  BY <1>3, <1>5, <1>6 DEF AnswerInv

\* Between two clients the buffer is empty.
LEMMA EmptyBetween ==
  ASSUME Senders, mode = "tcp", client = NoMaster
  PROVE  buffer = <<>>
<1>1. \A i \in 1 .. Len(buffer) : buffer[i] \in Piece /\ buffer[i].of.from = NoMaster
  BY PiecesFrom DEF Senders, Speaker
<1>2. \A i \in 1 .. Len(buffer) : FALSE
  BY <1>1, PieceFields, SlaveAssumption
<1>3. buffer \in Seq(Piece)
  BY Known
<1> QED  BY <1>2, <1>3

LEMMA PollTcpAnswers ==
  ASSUME SlaveInv, AnswerInv, NEW m \in Masters, PollTcp(m)
  PROVE  AnswerInv'
<1>1. /\ Senders /\ Once /\ InTurn /\ InWork /\ AnswerToAsker /\ line \in Lines
      /\ peer \in Peers
  BY DEF AnswerInv, SlaveInv, Pieces, Lines, Peers
<1>2. /\ mode = "tcp" /\ frame = NoFrame /\ client \in {NoMaster, m}
      /\ UNCHANGED <<mode, frame, answers, frames>>
  BY <1>1 DEF PollTcp, InWork
<1>3. /\ client = NoMaster => buffer = <<>>
      /\ Before(m) = EndOf(buffer, "tail")
      /\ \A n \in Masters \ {m} : Before(n) = "tail"
  <2>1. client = NoMaster => buffer = <<>>
    BY <1>1, <1>2, EmptyBetween
  <2> QED  BY <1>2, <2>1, SlaveAssumption DEF Before, EndOf
<1>4. CASE /\ Feed(m) /\ client' = m
           /\ peer' = [peer EXCEPT ![m].link = IF @ = "asking" THEN "open" ELSE @]
  <2>1. /\ Once' /\ line'[m] = <<>> /\ \A n \in Masters \ {m} : line'[n] = line[n]
        /\ buffer' = buffer \o line[m]
    BY <1>1, <1>2, <1>4, Fed
  <2>2. /\ \A n \in Masters \ {m} : peer'[n] = peer[n]
        /\ peer'[m].rest = peer[m].rest
        /\ peer'[m].link = peer[m].link \/ {peer[m].link, peer'[m].link} = {"asking", "open"}
    BY <1>1, <1>4 DEF Peers
  <2>3. Speaker' = m /\ buffer \in Seq(PieceFrom(m))
    BY <1>1, <1>2, <1>3, <1>4 DEF Speaker, Senders
  <2>4. buffer' \in Seq(PieceFrom(m)) /\ <<>> \in Seq(PieceFrom(m))
    <3>1. line[m] \in Seq(PieceFrom(m))
      BY <1>1 DEF Senders
    <3>2. buffer \o line[m] \in Seq(PieceFrom(m))
      BY <2>3, <3>1, JoinedFrom
    <3> QED  BY <2>1, <3>2
  <2>5. Senders'
    BY <1>1, <2>1, <2>2, <2>3, <2>4 DEF Senders
  <2>6. /\ Alternates(buffer', "tail")
        /\ EndOf(buffer', "tail") = EndOf(line[m], Before(m))
    <3>1. Alternates(buffer, "tail") /\ Alternates(line[m], EndOf(buffer, "tail"))
      BY <1>1, <1>2, <1>3 DEF InTurn
    <3> QED  BY <1>1, <1>3, <2>1, <3>1, Known, InTurnJoined
  <2>7. /\ Before(m)' = EndOf(line[m], Before(m))
        /\ \A n \in Masters \ {m} : Before(n)' = Before(n)
    BY <1>3, <1>4, <2>6 DEF Before, EndOf
  <2>8. InTurn'
    <3>1. Alternates(buffer', "tail")
      BY <2>6
    <3>2. Alternates(line'[m], Before(m)') /\ EndOf(line'[m], Before(m)') = Before(m)'
      BY <2>1 DEF Alternates, EndOf
    <3>3. /\ Alternates(buffer', "tail") = Alternates(buffer, "tail")'
          /\ \A n \in Masters :
                /\ Alternates(line[n], Before(n))' = Alternates(line'[n], Before(n)')
                /\ EndOf(line[n], Before(n))' = EndOf(line'[n], Before(n)')
      BY DEF Alternates, EndOf
    <3> QED  BY <1>1, <1>2, <2>1, <2>2, <2>7, <3>1, <3>2, <3>3 DEF InTurn
  <2>9. InWork' /\ AnswerToAsker'
    BY <1>1, <1>2, <1>4 DEF InWork, AnswerToAsker
  <2> QED  BY <2>1, <2>5, <2>8, <2>9 DEF AnswerInv
<1>5. CASE peer[m].link = "reset" /\ client' = m /\ UNCHANGED <<buffer, line, peer>>
  <2>1. client = m
    BY <1>2, <1>5 DEF PollTcp
  <2> QED  BY <1>2, <1>5, <2>1, KeptAnswers
<1>6. CASE /\ line[m] = <<>> /\ Drop /\ UNCHANGED line
           /\ peer' = [peer EXCEPT ![m] = [link |-> "gone", rest |-> <<>>]]
  <2>1. /\ client' = NoMaster /\ buffer' = <<>> /\ Ids(<<>>) = {} /\ NoneTwice(<<>>)
        /\ \A n \in Masters \ {m} : peer'[n] = peer[n]
        /\ peer'[m].rest = <<>> /\ peer'[m].link = "gone"
    BY <1>1, <1>6 DEF Drop, Ids, HeadsOf, NoneTwice, Peers
  <2>2. Once'
    BY <1>1, <1>2, <1>6, <2>1, OnceMoved DEF Once
  <2>3. Senders'
    <3>1. /\ <<>> \in Seq(PieceFrom(Speaker'))
          /\ <<>> \in Seq({p \in PieceFrom(m) : p.part = "tail"})
      OBVIOUS
    <3> QED  BY <1>1, <1>6, <2>1, <3>1 DEF Senders
  <2>4. \A n \in Masters : Before(n)' = "tail"
    BY <2>1 DEF Before, EndOf
  <2>5. InTurn'
    <3>1. /\ Alternates(<<>>, "tail") /\ Alternates(buffer, "tail")' = Alternates(buffer', "tail")
          /\ \A n \in Masters : /\ Alternates(line[n], Before(n))' = Alternates(line[n], "tail")
                                /\ EndOf(line[n], Before(n))' = EndOf(line[n], "tail")
      BY <1>6, <2>4 DEF Alternates, EndOf
    <3> QED  BY <1>1, <1>2, <1>3, <1>6, <2>1, <3>1 DEF InTurn, Alternates
  <2>6. InWork' /\ AnswerToAsker'
    BY <1>1, <1>2, <2>1 DEF InWork, AnswerToAsker
  <2> QED  BY <2>2, <2>3, <2>5, <2>6 DEF AnswerInv
<1> QED  BY <1>4, <1>5, <1>6 DEF PollTcp

\* The masters and the line do not touch what the slave has.
LEMMA OutsideLeaves ==
  ASSUME AnswerInv, SlaveLeaves
  PROVE  /\ InWork' /\ AnswerToAsker' /\ Speaker' = Speaker
         /\ UNCHANGED <<mode, client, buffer, frame, answers>>
         /\ \A n : Before(n)' = Before(n)
<1>1. UNCHANGED <<mode, client, buffer, frame, answers, pc>> /\ InWork /\ AnswerToAsker
  BY DEF SlaveLeaves, transportVars, AnswerInv
<1> QED
  BY <1>1 DEF InWork, AnswerToAsker, Speaker, Accepted, IsForUs, Before, EndOf

\* The line and the connection of one master change.
LEMMA OneMaster ==
  ASSUME AnswerInv, SlaveLeaves, NEW m \in Masters, Once',
         \A n \in Masters \ {m} : line'[n] = line[n] /\ peer'[n] = peer[n],
         line'[m] \in Seq(PieceFrom(m)),
         peer'[m].rest \in Seq({p \in PieceFrom(m) : p.part = "tail"}),
         mode = "tcp" =>
             /\ Alternates(line'[m], Before(m)) /\ Len(peer'[m].rest) <= 1
             /\ IF peer'[m].rest # <<>> THEN EndOf(line'[m], Before(m)) = "head"
                ELSE peer'[m].link \in {"new", "asking", "open"} =>
                         EndOf(line'[m], Before(m)) = "tail"
  PROVE  AnswerInv'
<1>1. Senders /\ InTurn
  BY DEF AnswerInv
<1>2. /\ InWork' /\ AnswerToAsker' /\ Speaker' = Speaker
      /\ UNCHANGED <<mode, client, buffer>>
      /\ \A n : Before(n)' = Before(n)
  BY OutsideLeaves
<1>3. Senders'
  BY <1>1, <1>2 DEF Senders
<1>4. InTurn'
  <2>1. /\ Alternates(buffer, "tail")' = Alternates(buffer, "tail")
        /\ \A n \in Masters : /\ Alternates(line[n], Before(n))' = Alternates(line'[n], Before(n))
                              /\ EndOf(line[n], Before(n))' = EndOf(line'[n], Before(n))
    BY <1>2 DEF Alternates, EndOf
  <2> QED  BY <1>1, <1>2, <2>1 DEF InTurn
<1> QED  BY <1>2, <1>3, <1>4 DEF AnswerInv

LEMMA ConnectAnswers ==
  ASSUME SlaveInv, AnswerInv, NEW m \in Masters, Connect(m)
  PROVE  AnswerInv'
<1>1. /\ Senders /\ Once /\ InTurn /\ peer \in Peers
  BY DEF AnswerInv, SlaveInv, Pieces, Peers
<1>2. /\ UNCHANGED <<line, frames>> /\ SlaveLeaves /\ peer[m].link = "new"
      /\ peer' = [peer EXCEPT ![m].link = "asking"]
  BY DEF Connect
<1>3. /\ \A n \in Masters \ {m} : peer'[n] = peer[n]
      /\ peer'[m].rest = peer[m].rest
  BY <1>1, <1>2 DEF Peers
<1>4. Once'
  <2>1. UNCHANGED <<buffer, frame, answers>>
    BY <1>2, OutsideLeaves
  <2> QED  BY <1>1, <1>2, <2>1, OnceMoved DEF Once
<1>5. mode = "tcp" =>
         /\ Alternates(line'[m], Before(m)) /\ Len(peer'[m].rest) <= 1
         /\ IF peer'[m].rest # <<>> THEN EndOf(line'[m], Before(m)) = "head"
            ELSE EndOf(line'[m], Before(m)) = "tail"
  BY <1>1, <1>2, <1>3 DEF InTurn
<1>6. line'[m] \in Seq(PieceFrom(m))
      /\ peer'[m].rest \in Seq({p \in PieceFrom(m) : p.part = "tail"})
  BY <1>1, <1>2, <1>3 DEF Senders
<1> QED  BY <1>2, <1>3, <1>4, <1>5, <1>6, OneMaster

LEMMA OnePiece ==
  ASSUME NEW S, NEW s \in Seq(S), s # <<>>, Len(s) <= 1
  PROVE  Len(s) = 1
<1>1. Len(s) \in Nat /\ (Len(s) = 0 => s = <<>>)
  OBVIOUS
<1> QED  BY <1>1

LEMMA SendTailAnswers ==
  ASSUME SlaveInv, AnswerInv, NEW m \in Masters, SendTail(m)
  PROVE  AnswerInv'
<1>1. /\ Senders /\ Once /\ InTurn /\ peer \in Peers /\ line \in Lines
  BY DEF AnswerInv, SlaveInv, Pieces, Peers, Lines
<1> DEFINE r == peer[m].rest
<1>2. /\ r # <<>> /\ SlaveLeaves /\ UNCHANGED <<buffer, frame, answers, frames>>
      /\ line' = [line EXCEPT ![m] = @ \o r] /\ peer' = [peer EXCEPT ![m].rest = <<>>]
  BY OutsideLeaves DEF SendTail
<1>3. /\ \A n \in Masters \ {m} : line'[n] = line[n] /\ peer'[n] = peer[n]
      /\ line'[m] = line[m] \o r /\ peer'[m].rest = <<>>
  BY <1>1, <1>2 DEF Peers, Lines
<1>4. /\ r \in Seq({p \in PieceFrom(m) : p.part = "tail"}) /\ line[m] \in Seq(PieceFrom(m))
  BY <1>1 DEF Senders
<1> HIDE DEF r
<1>5. /\ r \in Seq(PieceFrom(m)) /\ r \in Seq({p \in Piece : p.part = "tail"})
      /\ r \in Seq(Piece) /\ line[m] \in Seq(Piece)
      /\ \A i \in 1 .. Len(r) : r[i].part = "tail"
  BY <1>4 DEF PieceFrom
<1>6. Once'
  <2>1. /\ Ids(line'[m]) = Ids(line[m]) /\ NoneTwice(line'[m])
    <3>1. Ids(r) = {} /\ NoneTwice(r)
      BY <1>5, NoHeads
    <3>2. NoneTwice(line[m])
      BY <1>1 DEF Once
    <3>3. /\ Ids(line[m] \o r) = Ids(line[m]) \cup Ids(r)
          /\ NoneTwice(line[m]) /\ NoneTwice(r) /\ Ids(line[m]) \cap Ids(r) = {} =>
                 NoneTwice(line[m] \o r)
      BY <1>5, HeadsJoined
    <3> QED  BY <1>3, <3>1, <3>2, <3>3
  <2> QED  BY <1>1, <1>2, <1>3, <2>1, OnceMoved DEF Once
<1>7. line'[m] \in Seq(PieceFrom(m))
  BY <1>3, <1>4, <1>5, JoinedFrom
<1>8. ASSUME mode = "tcp"
      PROVE  /\ Alternates(line'[m], Before(m)) /\ EndOf(line'[m], Before(m)) = "tail"
  <2>1. /\ Alternates(line[m], Before(m)) /\ EndOf(line[m], Before(m)) = "head" /\ Len(r) <= 1
    BY <1>1, <1>2, <1>8 DEF InTurn, r
  <2>2. Len(r) = 1 /\ r[1].part = "tail"
    <3>1. r # <<>> /\ r \in Seq(Piece) /\ Len(r) <= 1
      BY <1>2, <1>5, <2>1 DEF r
    <3>2. Len(r) = 1
      BY <3>1, OnePiece
    <3> QED  BY <1>5, <3>2
  <2>3. Alternates(r, "head") /\ EndOf(r, "head") = "tail"
    BY <2>2 DEF Alternates, EndOf
  <2> QED  BY <1>3, <1>5, <2>1, <2>3, InTurnJoined
<1>9. <<>> \in Seq({p \in PieceFrom(m) : p.part = "tail"}) /\ Len(<<>>) = 0
  OBVIOUS
<1>10. mode = "tcp" =>
         /\ Alternates(line'[m], Before(m)) /\ Len(peer'[m].rest) <= 1
         /\ IF peer'[m].rest # <<>> THEN EndOf(line'[m], Before(m)) = "head"
            ELSE peer'[m].link \in {"new", "asking", "open"} =>
                     EndOf(line'[m], Before(m)) = "tail"
  BY <1>3, <1>8, <1>9
<1>11. peer'[m].rest \in Seq({p \in PieceFrom(m) : p.part = "tail"})
  BY <1>3, <1>9
<1> QED  BY <1>2, <1>3, <1>6, <1>7, <1>10, <1>11, OneMaster

LEMMA LeaveAnswers ==
  ASSUME SlaveInv, AnswerInv, NEW m \in Masters, Leave(m)
  PROVE  AnswerInv'
<1>1. /\ Senders /\ Once /\ InTurn /\ peer \in Peers /\ line \in Lines
  BY DEF AnswerInv, SlaveInv, Pieces, Peers, Lines
<1>2. /\ SlaveLeaves /\ UNCHANGED <<buffer, frame, answers, frames>>
      /\ \A n \in Masters \ {m} : line'[n] = line[n] /\ peer'[n] = peer[n]
      /\ peer'[m].rest = <<>> /\ peer'[m].link \in {"gone", "reset"}
      /\ line'[m] = line[m] \/ line'[m] = <<>>
  BY <1>1, OutsideLeaves DEF Leave, Peers, Lines
<1>3. /\ Ids(<<>>) = {} /\ NoneTwice(<<>>) /\ <<>> \in Seq(PieceFrom(m))
      /\ <<>> \in Seq({p \in PieceFrom(m) : p.part = "tail"}) /\ Len(<<>>) = 0
      /\ Alternates(<<>>, Before(m))
  BY DEF Ids, HeadsOf, NoneTwice, Alternates
<1>4. Once'
  <2>1. Ids(line'[m]) \subseteq Ids(line[m]) /\ NoneTwice(line'[m])
    BY <1>1, <1>2, <1>3 DEF Once
  <2> QED  BY <1>1, <1>2, <2>1, OnceMoved DEF Once
<1>5. line'[m] \in Seq(PieceFrom(m)) /\ (mode = "tcp" => Alternates(line'[m], Before(m)))
  BY <1>1, <1>2, <1>3 DEF Senders, InTurn
<1>10. mode = "tcp" =>
         /\ Alternates(line'[m], Before(m)) /\ Len(peer'[m].rest) <= 1
         /\ IF peer'[m].rest # <<>> THEN EndOf(line'[m], Before(m)) = "head"
            ELSE peer'[m].link \in {"new", "asking", "open"} =>
                     EndOf(line'[m], Before(m)) = "tail"
  BY <1>2, <1>3, <1>5
<1>11. peer'[m].rest \in Seq({p \in PieceFrom(m) : p.part = "tail"})
  BY <1>2, <1>3
<1> QED  BY <1>2, <1>4, <1>5, <1>10, <1>11, OneMaster

LEMMA SendHeadAnswers ==
  ASSUME SlaveInv, AnswerInv, NEW m \in Masters, NEW q \in Requests, SendHead(m, q)
  PROVE  AnswerInv'
<1>1. /\ Senders /\ Once /\ InTurn /\ InWork
      /\ peer \in Peers /\ line \in Lines /\ frames \in 0 .. MaxFrames
  BY DEF AnswerInv, SlaveInv, Pieces, Peers, Lines
<1> DEFINE f == [id |-> frames + 1, from |-> m, request |-> q]
           head == [part |-> "head", of |-> f]
           tail == [part |-> "tail", of |-> f]
<1>2. /\ SlaveLeaves /\ UNCHANGED <<buffer, frame, answers>> /\ frames' = frames + 1
      /\ peer[m].link \in {"asking", "open"} /\ peer[m].rest = <<>>
      /\ line' = [line EXCEPT ![m] = Append(@, head)]
      /\ peer' = [peer EXCEPT ![m].rest = <<tail>>]
  BY OutsideLeaves DEF SendHead
<1>3. /\ head \in PieceFrom(m) /\ head \in Piece /\ head.of.id = frames + 1
      /\ head.part = "head" /\ tail \in {p \in PieceFrom(m) : p.part = "tail"}
  <2>1. head \in Piece /\ tail \in Piece
    BY <1>1, NextFrameSent DEF SendHead
  <2> QED  BY <2>1 DEF PieceFrom
<1> HIDE DEF head, tail
<1>4. /\ \A n \in Masters \ {m} : line'[n] = line[n] /\ peer'[n] = peer[n]
      /\ line'[m] = Append(line[m], head) /\ peer'[m].rest = <<tail>>
  BY <1>1, <1>2 DEF Peers, Lines
<1>5. line[m] \in Seq(PieceFrom(m)) /\ line[m] \in Seq(Piece)
  BY <1>1, Known DEF Senders
<1>6. Once'
  <2>1. /\ \A x \in Ids(buffer) \cup Taken : x \in Nat
        /\ \A n \in Masters : \A x \in Ids(line[n]) : x \in Nat /\ x <= frames
    BY <1>1, Numbers DEF Once
  <2>2. head.of.id \notin Ids(line[m])
    BY <1>1, <1>3, <2>1
  <2>3. NoneTwice(line'[m]) /\ Ids(line'[m]) = Ids(line[m]) \cup {frames'}
    BY <1>1, <1>2, <1>3, <1>4, <1>5, <2>2, HeadsLonger DEF Once
  <2> QED  BY <1>1, <1>2, <1>4, <2>1, <2>3, OnceSent
<1>7. line'[m] \in Seq(PieceFrom(m))
  BY <1>3, <1>4, <1>5
<1>8. /\ <<tail>> \in Seq({p \in PieceFrom(m) : p.part = "tail"})
      /\ <<tail>> # <<>> /\ Len(<<tail>>) = 1
  BY <1>3
<1>9. ASSUME mode = "tcp"
      PROVE  /\ Alternates(line'[m], Before(m)) /\ EndOf(line'[m], Before(m)) = "head"
  <2>1. /\ Alternates(line[m], Before(m)) /\ EndOf(line[m], Before(m)) = "tail"
    BY <1>1, <1>2, <1>9 DEF InTurn
  <2> DEFINE t == <<head>>
  <2>2. t \in Seq(Piece) /\ Append(line[m], head) = line[m] \o t /\ Len(t) = 1
        /\ t[1] = head /\ t # <<>>
    BY <1>3, <1>5
  <2> HIDE DEF t
  <2>3. Alternates(t, "tail") /\ EndOf(t, "tail") = "head"
    BY <1>3, <2>2 DEF Alternates, EndOf
  <2> QED  BY <1>4, <1>5, <2>1, <2>2, <2>3, InTurnJoined
<1>10. mode = "tcp" =>
         /\ Alternates(line'[m], Before(m)) /\ Len(peer'[m].rest) <= 1
         /\ IF peer'[m].rest # <<>> THEN EndOf(line'[m], Before(m)) = "head"
            ELSE peer'[m].link \in {"new", "asking", "open"} =>
                     EndOf(line'[m], Before(m)) = "tail"
  BY <1>4, <1>8, <1>9
<1>11. peer'[m].rest \in Seq({p \in PieceFrom(m) : p.part = "tail"})
  BY <1>4, <1>8
<1> QED  BY <1>2, <1>4, <1>6, <1>7, <1>10, <1>11, OneMaster

LEMMA LoseAnswers ==
  ASSUME SlaveInv, AnswerInv, Lose
  PROVE  AnswerInv'
<1> DEFINE s == line[Serial]
<1>1. /\ Senders /\ Once /\ line \in Lines /\ Serial \in Masters
  BY SerialMaster DEF AnswerInv, SlaveInv, Pieces, Lines
<1>2. /\ SlaveLeaves /\ UNCHANGED <<buffer, frame, answers, frames, peer>> /\ mode # "tcp"
      /\ s # <<>> /\ line' = [line EXCEPT ![Serial] = Tail(@)]
  BY OutsideLeaves DEF Lose
<1>3. /\ \A n \in Masters \ {Serial} : line'[n] = line[n] /\ peer'[n] = peer[n]
      /\ line'[Serial] = Tail(s)
  BY <1>1, <1>2 DEF Lines
<1>4. s \in Seq(PieceFrom(Serial)) /\ s \in Seq(Piece)
  BY <1>1, Known DEF Senders
<1> HIDE DEF s
<1>5. /\ Tail(s) = SubSeq(s, 2, Len(s)) /\ Len(s) \in Nat /\ 2 \in Nat \ {0}
      /\ Tail(s) \in Seq(PieceFrom(Serial))
  BY <1>2, <1>4
<1>6. Once'
  <2>1. Ids(line'[Serial]) \subseteq Ids(s) /\ NoneTwice(line'[Serial])
    <3>1. NoneTwice(s) /\ Len(s) <= Len(s)
      BY <1>1, <1>5 DEF Once, s
    <3>2. /\ Ids(SubSeq(s, 2, Len(s))) \subseteq Ids(s)
          /\ NoneTwice(SubSeq(s, 2, Len(s)))
      BY <1>4, <1>5, <3>1, HeadsOfPart
    <3> QED  BY <1>3, <1>5, <3>2
  <2> QED  BY <1>1, <1>2, <1>3, <2>1, OnceMoved DEF Once, s
<1>7. peer'[Serial].rest \in Seq({p \in PieceFrom(Serial) : p.part = "tail"})
  BY <1>1, <1>2 DEF Senders
<1> QED  BY <1>1, <1>2, <1>3, <1>5, <1>6, <1>7, OneMaster

LEMMA AnswerStep ==
  ASSUME SlaveInv, AnswerInv, [Next]_slaveVars
  PROVE  AnswerInv'
<1>1. CASE \/ Loop \/ Command \/ FinishCommand \/ CommandsDone \/ PollNobody
           \/ StartTick \/ FinishTick
           \/ (\E t \in Threads : Acquire(t) \/ TouchCell(t))
           \/ (\E c \in Commands : Type(c))
           \/ UNCHANGED slaveVars
  <2>1. UNCHANGED <<mode, client, buffer, frame, answers, line, peer, frames>>
    BY <1>1 DEF Loop, Command, FinishCommand, CommandsDone, PollNobody, StartTick,
         FinishTick, Acquire, TouchCell, Type, transportVars, outsideVars, slaveVars
  <2>2. frame # NoFrame => pc' = "access"
    BY <1>1 DEF AnswerInv, InWork, Loop, Command, FinishCommand, CommandsDone, PollNobody,
         StartTick, FinishTick, Acquire, TouchCell, Type, slaveVars
  <2> QED  BY <2>1, <2>2, KeptAnswers
<1>2. CASE \E m \in Masters : PollTcp(m) \/ Connect(m) \/ SendTail(m) \/ Leave(m)
  BY <1>2, PollTcpAnswers, ConnectAnswers, SendTailAnswers, LeaveAnswers
<1> QED
  BY <1>1, <1>2, NextFrameAnswers, FinishRequestAnswers, PollSerialAnswers, SendHeadAnswers,
     LoseAnswers DEF Next

LEMMA AnswersInitially ==
  ASSUME Init
  PROVE  AnswerInv
<1>1. /\ buffer = <<>> /\ answers = <<>> /\ frame = NoFrame /\ client = NoMaster
      /\ \A m \in Masters : line[m] = <<>> /\ peer[m].rest = <<>>
  BY DEF Init
<1>2. /\ \A S : <<>> \in Seq(S)
      /\ Len(<<>>) = 0 /\ Ids(<<>>) = {} /\ NoneTwice(<<>>)
      /\ \A p : Alternates(<<>>, p) /\ EndOf(<<>>, p) = p
  BY DEF Ids, HeadsOf, NoneTwice, Alternates, EndOf
<1>3. Taken = {} /\ \A m : Before(m) = "tail"
  BY <1>1, <1>2 DEF Taken, Answered, Before
<1>4. Senders
  BY <1>1, <1>2 DEF Senders
<1>5. Once
  BY <1>1, <1>2, <1>3 DEF Once
<1>6. InTurn
  BY <1>1, <1>2, <1>3 DEF InTurn
<1>7. InWork /\ AnswerToAsker
  BY <1>1, <1>2 DEF InWork, AnswerToAsker
<1> QED  BY <1>4, <1>5, <1>6, <1>7 DEF AnswerInv

\* Every answer of the slave goes to the master that sent the request, at most
\* once, and only to a request that is undamaged and not a broadcast, whatever
\* masters connect, leave or send by halves and whatever the line loses.
THEOREM AnswerToAskerHolds == Spec => []AnswerToAsker
<1>1. Init => SlaveInv /\ AnswerInv
  BY SlaveInitially, AnswersInitially
<1>2. SlaveInv /\ AnswerInv /\ [Next]_slaveVars => (SlaveInv /\ AnswerInv)'
  BY SlaveStep, AnswerStep
<1>3. AnswerInv => AnswerToAsker
  BY DEF AnswerInv
<1> QED  BY <1>1, <1>2, <1>3, PTL DEF Spec

-------------------------------------------------------------------------------
(* Sequences *)

\* What remains of a sequence, and what it begins with.
LEMMA SeqParts ==
  ASSUME NEW S, NEW s \in Seq(S), NEW n \in Nat
  PROVE  /\ SubSeq(s, n + 1, Len(s)) \in Seq(S)
         /\ 1 <= n /\ n <= Len(s) =>
               Len(SubSeq(s, 1, n)) = n /\ SubSeq(s, 1, n)[1] = s[1] /\ s[1] \in S
         /\ s # <<>> => Tail(s) \in Seq(S) /\ Head(s) \in S
<1>1. SubSeq(s, n + 1, Len(s)) \in Seq(S)
  OBVIOUS
<1>2. ASSUME 1 <= n, n <= Len(s)
      PROVE  Len(SubSeq(s, 1, n)) = n /\ SubSeq(s, 1, n)[1] = s[1] /\ s[1] \in S
  BY <1>2
<1>3. s # <<>> => Tail(s) \in Seq(S) /\ Head(s) \in S
  OBVIOUS
<1> QED  BY <1>1, <1>2, <1>3

\* One sequence after another.
LEMMA SeqJoined ==
  ASSUME NEW S, NEW s \in Seq(S), NEW t \in Seq(S)
  PROVE  s \o t \in Seq(S)
OBVIOUS

LEMMA SeqLonger ==
  ASSUME NEW S, NEW s \in Seq(S), NEW e \in S
  PROVE  Append(s, e) \in Seq(S)
OBVIOUS

-------------------------------------------------------------------------------
(***************************************************************************)
(* The types of the slave's other variables; those of the store, of the    *)
(* pieces and of the answers are in the invariants above.                  *)
(***************************************************************************)
Places == {"loop", "commands", "poll", "frames", "access", "closed"}

LoopTypes ==
    /\ mode \in Modes /\ lock \in Threads \cup {Nobody} /\ pc \in Places
    /\ commands \in Seq(Commands) /\ todo \in Seq(Commands)
    /\ running \in BOOLEAN /\ paused \in BOOLEAN
    /\ ticks \in 0 .. MaxTicks /\ typed \in 0 .. MaxCommands

LEMMA SlaveTypes ==
  ASSUME SlaveInv, AnswerInv, LoopTypes
  PROVE  TypeOK
<1>1. access \in [Threads -> Access]
  BY DEF SlaveInv, StoreTypes, Accesses, Access, Slots
<1>2. frame \in Frame \cup {NoFrame}
  BY DEF AnswerInv, InWork, Accepted
<1>3. answers \in Seq([to : Masters, frame : Frame, exception : 0 .. 4])
  BY DEF AnswerInv, InWork, Answer
<1> QED  BY <1>1, <1>2, <1>3
       DEF SlaveInv, StoreTypes, Pieces, AnswerInv, InWork, LoopTypes, Places, TypeOK

LEMMA LoopTypesInitially ==
  ASSUME Init
  PROVE  LoopTypes
<1>1. MaxTicks \in Nat /\ MaxCommands \in Nat
  BY SlaveAssumption
<1>2. /\ mode \in Modes /\ lock = Nobody /\ pc = "loop" /\ todo = <<>> /\ commands = <<>>
      /\ ticks = 0 /\ typed = 0
  BY DEF Init
<1>3. running \in BOOLEAN /\ paused \in BOOLEAN
  BY Zenon DEF Init
<1>4. <<>> \in Seq(Commands)
  OBVIOUS
<1> QED  BY <1>1, <1>2, <1>3, <1>4 DEF LoopTypes, Places

LEMMA NextFramePlace ==
  ASSUME NextFrame
  PROVE  pc' \in Places
<1>1. pc = "frames"
  BY DEF NextFrame
<1>2. ASSUME NEW f, ProcessFrame(f)
      PROVE  pc' \in Places
  BY <1>1, <1>2 DEF ProcessFrame, Places
<1>3. ASSUME NEW rest, NothingMore(rest)
      PROVE  pc' \in Places
  BY <1>3 DEF NothingMore, Places
<1>4. ASSUME NEW body, NEW to, NextLine(body, to)
      PROVE  pc' \in Places
  BY <1>2, <1>4 DEF NextLine, Places
<1>5. CASE NextRtu
  BY <1>1, <1>2, <1>3, <1>5 DEF NextRtu, Places
<1>6. CASE NextAscii
  BY <1>3, <1>4, <1>6 DEF NextAscii
<1>7. CASE NextTcp
  BY <1>2, <1>3, <1>7 DEF NextTcp
<1> QED  BY <1>5, <1>6, <1>7 DEF NextFrame

LEMMA LoopTypesStep ==
  ASSUME LoopTypes, [Next]_slaveVars
  PROVE  LoopTypes'
<1>1. MaxTicks \in Nat /\ MaxCommands \in Nat
  BY SlaveAssumption
<1>2. CASE Loop
  <2>1. <<>> \in Seq(Commands)
    OBVIOUS
  <2> QED  BY <1>2, <2>1 DEF LoopTypes, Loop, storeVars, transportVars, Places
<1>3. CASE Command
  <2>1. Tail(todo) \in Seq(Commands)
    BY <1>3, SeqParts DEF LoopTypes, Command
  <2>2. running' \in BOOLEAN /\ paused' \in BOOLEAN
    BY <1>3, Zenon DEF LoopTypes, Command
  <2> QED  BY <1>3, <2>1, <2>2 DEF LoopTypes, Command, Places
<1>4. CASE FinishCommand \/ FinishRequest \/ FinishTick
  BY <1>4 DEF LoopTypes, FinishCommand, FinishRequest, FinishTick, Release, transportVars, Places
<1>5. CASE CommandsDone \/ PollSerial \/ PollNobody \/ \E m \in Masters : PollTcp(m)
  BY <1>5 DEF LoopTypes, CommandsDone, PollSerial, PollNobody, PollTcp, storeVars,
              transportVars, Places
<1>6. CASE NextFrame
  BY <1>6, NextFramePlace DEF LoopTypes, NextFrame
<1>7. CASE \E t \in Threads : Acquire(t) \/ TouchCell(t)
  BY <1>7 DEF LoopTypes, Acquire, TouchCell, transportVars
<1>8. CASE StartTick
  BY <1>1, <1>8 DEF LoopTypes, StartTick, transportVars
<1>9. ASSUME NEW c \in Commands, Type(c)
      PROVE  LoopTypes'
  <2>1. commands' \in Seq(Commands)
    BY <1>9, SeqLonger DEF LoopTypes, Type
  <2>2. typed' \in 0 .. MaxCommands
    BY <1>1, <1>9 DEF LoopTypes, Type
  <2> QED  BY <1>9, <2>1, <2>2 DEF LoopTypes, Type, storeVars, transportVars
<1>10. CASE \/ \E m \in Masters : Connect(m) \/ SendTail(m) \/ Leave(m)
            \/ \E m \in Masters, r \in Requests : SendHead(m, r)
            \/ Lose
  <2>1. SlaveLeaves
    BY <1>10 DEF Connect, SendTail, Leave, SendHead, Lose
  <2> QED  BY <2>1 DEF LoopTypes, SlaveLeaves, storeVars, transportVars
<1>11. CASE UNCHANGED slaveVars
  BY <1>11 DEF LoopTypes, slaveVars, storeVars, transportVars
<1> QED  BY <1>2, <1>3, <1>4, <1>5, <1>6, <1>7, <1>8, <1>9, <1>10, <1>11 DEF Next

\* The slave keeps every variable in its type: registers and coils within their
\* widths, accesses within the tables, exception codes and frames that exist,
\* for all sizes, limits, masters and requests.
THEOREM SlaveTypeCorrect == Spec => []TypeOK
<1> DEFINE Inv == SlaveInv /\ AnswerInv /\ LoopTypes
<1>1. Init => Inv
  BY SlaveInitially, AnswersInitially, LoopTypesInitially
<1>2. Inv /\ [Next]_slaveVars => Inv'
  BY SlaveStep, AnswerStep, LoopTypesStep
<1>3. Inv => TypeOK
  BY SlaveTypes
<1> QED  BY <1>1, <1>2, <1>3, PTL DEF Spec

-------------------------------------------------------------------------------
(***************************************************************************)
(* StreamsLastSelection is not inductive.  What is on the line and in the  *)
(* buffer has arrived since the last reset (Fresh), and between a reset at *)
(* the console and the discarding of the input the device is not           *)
(* configured (Forgotten).                                                 *)
(***************************************************************************)
FreshUnit == [config : Configs, place : Nat, at : {resets}] \cup Stream!Noise

Fresh ==
    /\ wire \in Seq(FreshUnit) /\ input \in Seq(FreshUnit)
    /\ sending \in Seq([config : Configs, place : Nat, at : Nat])

Forgotten == place = "keys" /\ resetting => ~configured

Selected ==
    /\ Stream!StreamsLastSelection
    /\ Stream!IsText => ~configured

StreamInv == Fresh /\ Forgotten /\ Selected

-------------------------------------------------------------------------------
(* The console *)

Inputs == <<wire, input, resets>>
Choice == <<device, configured, channels, generator, encoding>>

LEMMA FreshKept ==
  ASSUME Fresh, UNCHANGED <<Inputs, sending>>
  PROVE  Fresh'
BY DEF Fresh, FreshUnit, Inputs

LEMMA SelectedKept ==
  ASSUME Selected, UNCHANGED <<Choice, resets>>
  PROVE  Selected'
BY DEF Selected, Stream!StreamsLastSelection, Stream!IsText, Stream!InEncoding, Choice

\* Nothing is streamed for a configuration that was reset.
LEMMA SelectedForgotten ==
  ASSUME Selected, ~configured', UNCHANGED <<device, encoding>>,
         Stream!IsText => UNCHANGED generator
  PROVE  Selected'
BY DEF Selected, Stream!StreamsLastSelection, Stream!IsText, Stream!InEncoding

LEMMA KeyStep ==
  ASSUME StreamInv, Stream!Key
  PROVE  StreamInv'
<1>1. UNCHANGED <<Inputs, sending, place, device>> /\ place = "keys"
  BY DEF Stream!Key, Inputs
<1>2. Fresh'
  BY <1>1, FreshKept DEF StreamInv
<1>3. CASE UNCHANGED <<Choice, resetting>>
  <2>1. Selected' /\ Forgotten'
    BY <1>1, <1>3, SelectedKept DEF StreamInv, Forgotten, Inputs, Choice
  <2> QED  BY <1>2, <2>1 DEF StreamInv
<1>4. CASE ~Stream!IsText /\ Stream!ResetToWaiting
  <2>1. ~configured' /\ UNCHANGED encoding
    BY <1>4 DEF Stream!ResetToWaiting
  <2>2. Selected' /\ Forgotten'
    BY <1>1, <1>4, <2>1, SelectedForgotten DEF StreamInv, Forgotten
  <2> QED  BY <1>2, <2>2 DEF StreamInv
<1>5. ASSUME NEW i, Stream!IsText, Stream!ApplyEncoding(i)
      PROVE  StreamInv'
  <2>1. /\ generator' = Stream!InEncoding(i) /\ UNCHANGED <<configured, resetting>>
        /\ encoding' = [index |-> i, pending |-> i, display |-> i, codec |-> i]
    BY <1>5 DEF Stream!ApplyEncoding
  <2>2. ~configured'
    BY <1>5, <2>1 DEF StreamInv, Selected
  <2>3. \A part \in DOMAIN encoding' : encoding'[part] = i
    BY <2>1
  <2>4. Selected' /\ Forgotten'
    BY <1>1, <2>1, <2>2, <2>3
    DEF Selected, Stream!StreamsLastSelection, Forgotten, Stream!IsText, Stream!InEncoding
  <2> QED  BY <1>2, <2>4 DEF StreamInv
<1>6. \/ UNCHANGED <<Choice, resetting>>
      \/ ~Stream!IsText /\ Stream!ResetToWaiting
      \/ \E i : Stream!IsText /\ Stream!ApplyEncoding(i)
  BY DEF Stream!Key, Stream!TogglePause, Choice
<1> QED  BY <1>3, <1>4, <1>5, <1>6

LEMMA KeysDoneStep ==
  ASSUME StreamInv, Stream!KeysDone
  PROVE  StreamInv'
<1>1. /\ place = "keys" /\ place' # "keys"
      /\ UNCHANGED <<Choice, sending>>
  BY DEF Stream!KeysDone, Choice
<1>2. Forgotten'
  BY <1>1 DEF Forgotten
<1>3. CASE resetting
  <2>1. wire' = <<>> /\ input' = <<>>
    BY <1>3 DEF Stream!KeysDone, Stream!Discard
  <2>2. Fresh'
    BY <1>1, <2>1 DEF Fresh, StreamInv
  <2>3. ~configured
    BY <1>1, <1>3 DEF StreamInv, Forgotten
  <2>4. Selected'
    BY <1>1, <2>3, SelectedForgotten DEF StreamInv, Choice
  <2> QED  BY <1>2, <2>2, <2>4 DEF StreamInv
<1>4. CASE ~resetting
  <2>1. UNCHANGED Inputs
    BY <1>4 DEF Stream!KeysDone, Inputs
  <2> QED  BY <1>1, <1>2, <2>1, FreshKept, SelectedKept DEF StreamInv, Inputs
<1> QED  BY <1>3, <1>4

-------------------------------------------------------------------------------
(* The input *)

\* A configuration begins with a unit of a configuration.
LEMMA FirstOfConfig ==
  ASSUME NEW S, NEW s \in Seq(S), NEW n, Stream!IsConfig(s, n)
  PROVE  s[1] \in S /\ s[1] \notin Stream!Noise
<1>1. s # <<>> /\ Len(s) = n /\ \A i \in 1 .. n : s[i] \notin Stream!Noise
  BY DEF Stream!IsConfig
<1>2. n \in Nat \ {0} /\ s[1] \in S
  BY <1>1
<1> QED  BY <1>1, <1>2

\* A configuration that is taken from the buffer is not older than the last reset.
LEMMA ApplyFresh ==
  ASSUME StreamInv, NEW s \in Seq(FreshUnit), NEW n, Stream!IsConfig(s, n), Stream!Apply(s),
         ~Stream!IsText, UNCHANGED <<device, encoding, resets>>
  PROVE  Selected'
<1>1. s[1] \in FreshUnit /\ s[1] \notin Stream!Noise
  BY FirstOfConfig
<1>2. s[1].at = resets
  BY <1>1 DEF FreshUnit
<1>3. channels'.at = resets' /\ generator' = channels'
  BY <1>2 DEF Stream!Apply
<1> QED  BY <1>3 DEF Selected, Stream!StreamsLastSelection, Stream!IsText

LEMMA ParseStep ==
  ASSUME Stream!StreamAssumption, StreamInv, Stream!ParseZobow \/ Stream!ParseJustFloat
  PROVE  StreamInv'
<1>1. /\ place = "parse" /\ place' \in {"parse", "send"} /\ ~Stream!IsText
      /\ UNCHANGED <<wire, device, encoding, resets, sending>>
  BY DEF Stream!ParseZobow, Stream!ParseJustFloat, Stream!LineLeaves, Stream!IsText
<1>2. Forgotten'
  BY <1>1 DEF Forgotten
<1>3. input \in Seq(FreshUnit) /\ Len(input) \in Nat
  BY DEF StreamInv, Fresh
<1>4. /\ LongLength \in Nat \ {0} /\ ShortLength \in Nat \ {0}
  BY DEF Stream!StreamAssumption
<1>5. ASSUME Stream!Keep, input' \in Seq(FreshUnit)
      PROVE  StreamInv'
  <2>1. input' \in Seq(FreshUnit)
    BY <1>5
  <2>2. Fresh'
    BY <1>1, <2>1 DEF StreamInv, Fresh, FreshUnit
  <2>3. Selected'
    BY <1>1, <1>5, SelectedKept DEF StreamInv, Stream!Keep, Choice
  <2> QED  BY <1>2, <2>2, <2>3 DEF StreamInv
<1>6. ASSUME NEW n \in Nat, n <= Len(input), input' = Stream!After(n),
             NEW s \in Seq(FreshUnit), NEW k, Stream!IsConfig(s, k), Stream!Apply(s)
      PROVE  StreamInv'
  <2>1. input' \in Seq(FreshUnit)
    BY <1>3, <1>6, SeqParts DEF Stream!After
  <2>2. Fresh'
    BY <1>1, <2>1 DEF StreamInv, Fresh, FreshUnit
  <2>3. Selected'
    BY <1>1, <1>6, ApplyFresh
  <2> QED  BY <1>2, <2>2, <2>3 DEF StreamInv
<1>7. CASE Stream!ParseZobow
  <2>1. CASE Stream!Keep /\ UNCHANGED input
    BY <1>3, <1>5, <2>1
  <2>2. CASE Stream!Keep /\ Len(input) >= LongLength /\ input' = Tail(input)
    <3>1. input' \in Seq(FreshUnit)
      BY <1>3, <1>4, <2>2, SeqParts
    <3> QED  BY <1>5, <2>2, <3>1
  <2>3. \/ Stream!Keep /\ UNCHANGED input
        \/ Stream!Keep /\ Len(input) >= LongLength /\ input' = Tail(input)
        \/ \E n \in {LongLength, ShortLength} :
              /\ n <= Len(input) /\ Stream!IsConfig(Stream!Prefix(n), n)
              /\ Stream!Apply(Stream!Prefix(n)) /\ input' = Stream!After(n)
    BY <1>3, <1>4, <1>7 DEF Stream!ParseZobow
  <2>4. ASSUME NEW n \in {LongLength, ShortLength}, n <= Len(input)
        PROVE  Stream!Prefix(n) \in Seq(FreshUnit) /\ n \in Nat
    BY <1>3, <1>4, <2>4, SeqParts DEF Stream!Prefix
  <2> QED  BY <1>6, <2>1, <2>2, <2>3, <2>4
<1>8. CASE Stream!ParseJustFloat
  <2>1. CASE Stream!Keep /\ UNCHANGED input
    BY <1>3, <1>5, <2>1
  <2>2. ASSUME NEW i \in Stream!LineEnds, input' = Stream!After(i),
               Stream!Keep \/ \E n \in Stream!Command(i) : Stream!Apply(SubSeq(input, n, i))
        PROVE  StreamInv'
    <3>1. i \in Nat /\ i <= Len(input)
      BY <1>3 DEF Stream!LineEnds
    <3>2. Stream!After(i) \in Seq(FreshUnit)
      BY <1>3, <3>1, SeqParts DEF Stream!After
    <3>3. ASSUME NEW n \in Stream!Command(i), Stream!Apply(SubSeq(input, n, i))
          PROVE  StreamInv'
      <4>1. n \in 1 .. i /\ Stream!IsConfig(SubSeq(input, n, i), i - n + 1)
        BY DEF Stream!Command
      <4>2. SubSeq(input, n, i) \in Seq(FreshUnit)
        BY <1>3, <3>1, <4>1, SeqParts
      <4> QED  BY <1>6, <2>2, <3>1, <3>3, <4>1, <4>2
    <3> QED  BY <1>5, <2>2, <3>2, <3>3
  <2> QED  BY <1>8, <2>1, <2>2 DEF Stream!ParseJustFloat
<1> QED  BY <1>7, <1>8

LEMMA ReadStep ==
  ASSUME StreamInv, Stream!Read
  PROVE  StreamInv'
<1>1. /\ place' # "keys" /\ UNCHANGED <<Choice, resets, sending>>
      /\ \/ UNCHANGED <<wire, input>>
         \/ wire' = <<>> /\ input' = input \o wire
  BY DEF Stream!Read, Stream!LineLeaves, Choice
<1>2. wire' \in Seq(FreshUnit) /\ input' \in Seq(FreshUnit)
  <2>1. wire \in Seq(FreshUnit) /\ input \in Seq(FreshUnit)
    BY DEF StreamInv, Fresh
  <2>2. input \o wire \in Seq(FreshUnit) /\ <<>> \in Seq(FreshUnit)
    BY <2>1, SeqJoined
  <2> QED  BY <1>1, <2>1, <2>2
<1>3. Fresh'
  BY <1>1, <1>2 DEF StreamInv, Fresh, FreshUnit
<1>4. Selected' /\ Forgotten'
  BY <1>1, SelectedKept DEF StreamInv, Forgotten
<1> QED  BY <1>3, <1>4 DEF StreamInv

LEMMA EchoStep ==
  ASSUME StreamInv, Stream!Echo
  PROVE  StreamInv'
<1>1. /\ place' # "keys" /\ UNCHANGED <<Choice, resets, sending, input>>
      /\ wire' = <<>>
  BY DEF Stream!Echo, Choice
<1>2. Fresh'
  BY <1>1 DEF StreamInv, Fresh, FreshUnit
<1>3. Selected' /\ Forgotten'
  BY <1>1, SelectedKept DEF StreamInv, Forgotten
<1> QED  BY <1>2, <1>3 DEF StreamInv

-------------------------------------------------------------------------------
(* The host *)

LEMMA HostStep ==
  ASSUME Stream!StreamAssumption, StreamInv,
         (\E c \in Configs : Stream!SendConfig(c)) \/ Stream!Arrive \/ Stream!SendNoise
  PROVE  StreamInv'
<1> DEFINE U == [config : Configs, place : Nat, at : Nat]
<1>1. UNCHANGED <<Choice, resets, place, resetting, input>>
  BY DEF Stream!SendConfig, Stream!Arrive, Stream!SendNoise, Stream!HostLeaves, Stream!loopVars,
         Choice
<1>2. Selected' /\ Forgotten'
  BY <1>1, SelectedKept DEF StreamInv, Forgotten, Choice
<1>3. wire \in Seq(FreshUnit) /\ sending \in Seq(U)
  BY DEF StreamInv, Fresh
<1>4. ASSUME Stream!Arrive PROVE Fresh'
  <2>1. sending # <<>> /\ sending' = Tail(sending)
        /\ wire' = Append(wire, [Head(sending) EXCEPT !.at = resets])
    BY <1>4 DEF Stream!Arrive
  <2>2. Head(sending) \in U /\ sending' \in Seq(U)
    <3> HIDE DEF U
    <3> QED  BY <1>3, <2>1, SeqParts
  <2>3. [Head(sending) EXCEPT !.at = resets] \in FreshUnit
    BY <2>2 DEF FreshUnit
  <2>4. wire' \in Seq(FreshUnit)
    BY <1>3, <2>1, <2>3, SeqLonger
  <2> QED  BY <1>1, <2>2, <2>4 DEF Fresh, FreshUnit, StreamInv
<1>5. ASSUME Stream!SendNoise PROVE Fresh'
  <2>1. Stream!Noise \subseteq FreshUnit
    BY DEF FreshUnit
  <2>2. wire' \in Seq(FreshUnit) /\ UNCHANGED sending
    BY <1>3, <1>5, <2>1, SeqLonger DEF Stream!SendNoise
  <2> QED  BY <1>1, <1>3, <2>2 DEF Fresh, FreshUnit, StreamInv
<1>6. ASSUME NEW c \in Configs, Stream!SendConfig(c)
      PROVE  Fresh'
  <2>1. c.length \in Nat
    BY DEF Stream!StreamAssumption
  <2>2. [i \in 1 .. c.length |-> [config |-> c, place |-> i, at |-> 0]] \in Seq(U)
    <3> DEFINE f == [i \in 1 .. c.length |-> [config |-> c, place |-> i, at |-> 0]]
    <3>1. f \in [1 .. c.length -> U]
      BY <2>1
    <3> HIDE DEF U
    <3> QED  BY <2>1, <3>1
  <2>3. sending' \in Seq(U) /\ UNCHANGED wire
    BY <1>6, <2>2 DEF Stream!SendConfig
  <2> QED  BY <1>1, <1>3, <2>3 DEF Fresh, FreshUnit, StreamInv
<1>7. Fresh'
  BY <1>4, <1>5, <1>6
<1> QED  BY <1>2, <1>7 DEF StreamInv

-------------------------------------------------------------------------------
(* The theorem *)

LEMMA StreamInitially == Stream!Init => StreamInv
<1> SUFFICES ASSUME Stream!Init PROVE StreamInv
  OBVIOUS
<1>1. Fresh /\ Forgotten
  BY DEF Stream!Init, Fresh, Forgotten
<1>2. encoding = [index |-> 1, pending |-> 1, display |-> 1, codec |-> 1]
  BY DEF Stream!Init
<1>3. \A part \in DOMAIN encoding : encoding[part] = 1
  BY <1>2
<1>4. Selected
  BY <1>3 DEF Stream!Init, Selected, Stream!StreamsLastSelection
<1> QED  BY <1>1, <1>4 DEF StreamInv

LEMMA StreamStep ==
  ASSUME Stream!StreamAssumption, StreamInv, [Stream!Next]_(Stream!streamVars)
  PROVE  StreamInv'
<1>1. CASE UNCHANGED Stream!streamVars
  BY <1>1, FreshKept, SelectedKept
  DEF StreamInv, Forgotten, Stream!streamVars, Stream!loopVars, Inputs, Choice
<1>2. ASSUME NEW k \in Stream!Commands, Stream!Type(k)
      PROVE  StreamInv'
  BY <1>2, FreshKept, SelectedKept DEF Stream!Type, StreamInv, Forgotten, Inputs, Choice
<1>3. CASE Stream!Drain
  BY <1>3, FreshKept, SelectedKept DEF Stream!Drain, StreamInv, Forgotten, Inputs, Choice
<1>4. CASE Stream!Send \/ Stream!SendLine
  BY <1>4, FreshKept, SelectedKept
  DEF Stream!Send, Stream!SendLine, Stream!Keep, Stream!LineLeaves, StreamInv, Forgotten, Inputs,
      Choice
<1> QED
  BY <1>1, <1>2, <1>3, <1>4, KeyStep, KeysDoneStep, ReadStep, ParseStep, EchoStep, HostStep
  DEF Stream!Next

\* A device never streams for a configuration of which a part arrived before the last
\* reset at the console, nor in another encoding than it shows, for any frame lengths
\* and however frames, noise and commands are interleaved (run, _reset_to_waiting,
\* _apply_encoding).
THEOREM StreamsLastSelectionHolds == Stream!Spec => []StreamsLastSelection
<1>1. StreamInv /\ [Stream!Next]_(Stream!streamVars) => StreamInv'
  BY StreamConstants, StreamStep
<1>2. StreamInv => StreamsLastSelection
  BY DEF StreamInv, Selected, StreamsLastSelection
<1> QED  BY StreamInitially, <1>1, <1>2, PTL DEF Stream!Spec

-------------------------------------------------------------------------------
(***************************************************************************)
(* The types of the variables of the devices that stream data.             *)
(***************************************************************************)
ConsoleTypes ==
    /\ device \in Devices
    /\ place \in {"loop", "keys", "read", "parse", "send", "closed"}
    /\ active \in BOOLEAN /\ halted \in BOOLEAN /\ resetting \in BOOLEAN
    /\ keys \in Seq(Stream!Commands) /\ drained \in Seq(Stream!Commands)
    /\ resets \in Nat

ChoiceTypes ==
    /\ configured \in BOOLEAN
    /\ channels \in Stream!Config \cup {Stream!NoConfig}
    /\ generator \in Stream!Config \cup {Stream!NoConfig}
                       \cup {Stream!InEncoding(i) : i \in 1 .. Encodings}
    /\ encoding \in [index : 1 .. Encodings, pending : 1 .. Encodings,
                     display : 1 .. Encodings, codec : 1 .. Encodings]
    /\ counter \in 0 .. BeatEvery - 1

LineItem == Stream!LineUnit \cup Stream!Noise

LineTypes ==
    /\ wire \in Seq(LineItem) /\ input \in Seq(LineItem)
    /\ sending \in Seq(Stream!LineUnit)

StreamTypes == ConsoleTypes /\ ChoiceTypes /\ LineTypes

LEMMA StreamTypesAre == StreamTypes => Stream!TypeOK
BY DEF StreamTypes, ConsoleTypes, ChoiceTypes, LineTypes, LineItem, Stream!TypeOK

LEMMA LineTypesKept ==
  ASSUME LineTypes, UNCHANGED <<wire, input, sending>>
  PROVE  LineTypes'
BY DEF LineTypes, LineItem

LEMMA ChoiceTypesKept ==
  ASSUME ChoiceTypes, UNCHANGED <<Choice, counter>>
  PROVE  ChoiceTypes'
BY Zenon DEF ChoiceTypes, Choice

LEMMA KeyTypes ==
  ASSUME Stream!StreamAssumption, StreamTypes, Stream!Key
  PROVE  StreamTypes'
<1>1. /\ UNCHANGED <<device, place, keys, wire, input, sending, resets>>
      /\ drained # <<>> /\ drained' = Tail(drained)
  BY DEF Stream!Key
<1>2. drained' \in Seq(Stream!Commands) /\ Head(drained) \in Stream!Commands
  BY <1>1, SeqParts DEF StreamTypes, ConsoleTypes
<1>3. LineTypes'
  BY <1>1, LineTypesKept DEF StreamTypes
<1>4. Encodings \in Nat \ {0} /\ BeatEvery \in Nat \ {0}
  BY DEF Stream!StreamAssumption
<1>5. ASSUME NEW i \in 1 .. Encodings, Stream!ApplyEncoding(i)
      PROVE  ChoiceTypes' /\ UNCHANGED <<active, halted, resetting>>
  <2>1. /\ encoding' = [index |-> i, pending |-> i, display |-> i, codec |-> i]
        /\ generator' = Stream!InEncoding(i) /\ counter' = 0
        /\ UNCHANGED <<active, halted, resetting, configured, channels>>
    BY <1>5 DEF Stream!ApplyEncoding
  <2> QED
    BY <1>4, <2>1 DEF StreamTypes, ChoiceTypes
<1>6. CASE UNCHANGED <<Choice, counter>> /\ active' \in BOOLEAN /\ halted' \in BOOLEAN
           /\ UNCHANGED resetting
  <2>1. ChoiceTypes'
    BY <1>6, ChoiceTypesKept DEF StreamTypes
  <2> QED
    BY <1>1, <1>2, <1>3, <1>6, <2>1, Zenon DEF StreamTypes, ConsoleTypes
<1>7. CASE Stream!ResetToWaiting
  <2>1. ChoiceTypes'
    BY <1>7 DEF Stream!ResetToWaiting, StreamTypes, ChoiceTypes
  <2>2. active' \in BOOLEAN /\ halted' \in BOOLEAN /\ resetting' \in BOOLEAN
    BY <1>7, Zenon DEF Stream!ResetToWaiting, StreamTypes, ConsoleTypes
  <2> QED
    BY <1>1, <1>2, <1>3, <2>1, <2>2, Zenon DEF StreamTypes, ConsoleTypes
<1>8. CASE \E i \in 1 .. Encodings : Stream!ApplyEncoding(i)
  <2>1. ChoiceTypes' /\ UNCHANGED <<active, halted, resetting>>
    BY <1>5, <1>8
  <2> QED
    BY <1>1, <1>2, <1>3, <2>1, Zenon DEF StreamTypes, ConsoleTypes
<1>9. (encoding.index % Encodings) + 1 \in 1 .. Encodings
  <2>1. encoding.index \in Nat
    BY DEF StreamTypes, ChoiceTypes
  <2> QED
    BY <1>4, <2>1
<1>10. Head(drained)[1] = "digit" => Head(drained)[2] \in 1 .. Encodings
  BY <1>2 DEF Stream!Commands
<1>11. Stream!TogglePause => UNCHANGED <<Choice, counter>> /\ active' \in BOOLEAN
         /\ halted' \in BOOLEAN /\ UNCHANGED resetting
  BY <1>1, Zenon DEF Stream!TogglePause, StreamTypes, ConsoleTypes, Choice
<1>12. \/ Stream!TogglePause
       \/ active' = FALSE /\ UNCHANGED <<halted, resetting, configured, channels, generator,
                                         encoding, counter>>
       \/ Stream!ResetToWaiting
       \/ Stream!ApplyEncoding((encoding.index % Encodings) + 1)
       \/ Head(drained)[1] = "digit" /\ Stream!ApplyEncoding(Head(drained)[2])
       \/ UNCHANGED <<active, halted, resetting, configured, channels, generator, encoding,
                      counter>>
  BY DEF Stream!Key
<1>13. active' = FALSE /\ UNCHANGED <<halted, resetting, configured, channels, generator,
                                      encoding, counter>>
       => UNCHANGED <<Choice, counter>> /\ active' \in BOOLEAN /\ halted' \in BOOLEAN
          /\ UNCHANGED resetting
  BY <1>1, Zenon DEF StreamTypes, ConsoleTypes, Choice
<1>14. UNCHANGED <<active, halted, resetting, configured, channels, generator, encoding, counter>>
       => UNCHANGED <<Choice, counter>> /\ active' \in BOOLEAN /\ halted' \in BOOLEAN
          /\ UNCHANGED resetting
  BY <1>1, Zenon DEF StreamTypes, ConsoleTypes, Choice
<1> QED
  BY <1>6, <1>7, <1>8, <1>9, <1>10, <1>11, <1>12, <1>13, <1>14

LEMMA ApplyTypes ==
  ASSUME ChoiceTypes, NEW s, s[1] \in Stream!LineUnit, Stream!Apply(s),
         UNCHANGED <<encoding, counter>>
  PROVE  ChoiceTypes' /\ halted' \in BOOLEAN
<1>1. [config |-> s[1].config, at |-> s[1].at] \in Stream!Config
  BY DEF Stream!LineUnit, Stream!Config
<1> QED
  BY <1>1 DEF Stream!Apply, ChoiceTypes

LEMMA ParseTypes ==
  ASSUME Stream!StreamAssumption, StreamTypes, Stream!ParseZobow \/ Stream!ParseJustFloat
  PROVE  StreamTypes'
<1>1. /\ place' \in {"parse", "send"}
      /\ UNCHANGED <<wire, device, keys, drained, active, resetting, encoding, counter, sending,
                     resets>>
  BY DEF Stream!ParseZobow, Stream!ParseJustFloat, Stream!LineLeaves, StreamTypes, ConsoleTypes
<1>2. input \in Seq(LineItem) /\ Len(input) \in Nat
  BY DEF StreamTypes, LineTypes
<1>3. LongLength \in Nat \ {0} /\ ShortLength \in Nat \ {0}
  BY DEF Stream!StreamAssumption
<1>4. ASSUME ChoiceTypes', halted' \in BOOLEAN, input' \in Seq(LineItem)
      PROVE  StreamTypes'
  <2>1. ConsoleTypes'
    BY <1>1, <1>4, Zenon DEF StreamTypes, ConsoleTypes
  <2>2. LineTypes'
    BY <1>1, <1>4 DEF StreamTypes, LineTypes, LineItem
  <2> QED
    BY <1>4, <2>1, <2>2 DEF StreamTypes
<1>5. ASSUME Stream!Keep, input' \in Seq(LineItem)
      PROVE  StreamTypes'
  <2>1. ChoiceTypes'
    BY <1>1, <1>5, ChoiceTypesKept DEF StreamTypes, Stream!Keep, Choice
  <2>2. halted' \in BOOLEAN
    BY <1>5, Zenon DEF StreamTypes, ConsoleTypes, Stream!Keep
  <2> QED
    BY <1>4, <1>5, <2>1, <2>2
<1>6. ASSUME NEW n \in Nat, n <= Len(input), input' = Stream!After(n),
             NEW s \in Seq(LineItem), NEW k, Stream!IsConfig(s, k), Stream!Apply(s)
      PROVE  StreamTypes'
  <2>1. input' \in Seq(LineItem)
    BY <1>2, <1>6, SeqParts DEF Stream!After
  <2>2. s[1] \in LineItem /\ s[1] \notin Stream!Noise
    BY <1>6, FirstOfConfig
  <2>3. ChoiceTypes' /\ halted' \in BOOLEAN
    BY <1>1, <1>6, <2>2, ApplyTypes DEF StreamTypes, LineItem
  <2> QED
    BY <1>4, <2>1, <2>3
<1>7. CASE Stream!ParseZobow
  <2>1. CASE Stream!Keep /\ UNCHANGED input
    BY <1>2, <1>5, <2>1
  <2>2. CASE Stream!Keep /\ Len(input) >= LongLength /\ input' = Tail(input)
    <3>1. input' \in Seq(LineItem)
      BY <1>2, <1>3, <2>2, SeqParts
    <3> QED  BY <1>5, <2>2, <3>1
  <2>3. \/ Stream!Keep /\ UNCHANGED input
        \/ Stream!Keep /\ Len(input) >= LongLength /\ input' = Tail(input)
        \/ \E n \in {LongLength, ShortLength} :
              /\ n <= Len(input) /\ Stream!IsConfig(Stream!Prefix(n), n)
              /\ Stream!Apply(Stream!Prefix(n)) /\ input' = Stream!After(n)
    BY <1>2, <1>3, <1>7 DEF Stream!ParseZobow
  <2>4. ASSUME NEW n \in {LongLength, ShortLength}, n <= Len(input)
        PROVE  Stream!Prefix(n) \in Seq(LineItem) /\ n \in Nat
    BY <1>2, <1>3, <2>4, SeqParts DEF Stream!Prefix
  <2> QED  BY <1>6, <2>1, <2>2, <2>3, <2>4
<1>8. CASE Stream!ParseJustFloat
  <2>1. CASE Stream!Keep /\ UNCHANGED input
    BY <1>2, <1>5, <2>1
  <2>2. ASSUME NEW i \in Stream!LineEnds, input' = Stream!After(i),
               Stream!Keep \/ \E n \in Stream!Command(i) : Stream!Apply(SubSeq(input, n, i))
        PROVE  StreamTypes'
    <3>1. i \in Nat /\ i <= Len(input)
      BY <1>2 DEF Stream!LineEnds
    <3>2. Stream!After(i) \in Seq(LineItem)
      BY <1>2, <3>1, SeqParts DEF Stream!After
    <3>3. ASSUME NEW n \in Stream!Command(i), Stream!Apply(SubSeq(input, n, i))
          PROVE  StreamTypes'
      <4>1. n \in 1 .. i /\ Stream!IsConfig(SubSeq(input, n, i), i - n + 1)
        BY DEF Stream!Command
      <4>2. SubSeq(input, n, i) \in Seq(LineItem)
        BY <1>2, <3>1, <4>1, SeqParts
      <4> QED  BY <1>6, <2>2, <3>1, <3>3, <4>1, <4>2
    <3> QED  BY <1>5, <2>2, <3>2, <3>3
  <2> QED  BY <1>8, <2>1, <2>2 DEF Stream!ParseJustFloat
<1> QED  BY <1>7, <1>8

LEMMA InputTypes ==
  ASSUME Stream!StreamAssumption, StreamTypes, Stream!Read \/ Stream!Echo
  PROVE  StreamTypes'
<1>1. /\ place' \in {"parse", "send", "loop"}
      /\ UNCHANGED <<device, keys, drained, active, halted, resetting, resets, sending,
                     configured, channels, generator, encoding>>
  BY DEF Stream!Read, Stream!Echo, Stream!LineLeaves
<1>2. ConsoleTypes'
  BY <1>1, Zenon DEF StreamTypes, ConsoleTypes
<1>3. counter' \in 0 .. BeatEvery - 1
  <2>1. BeatEvery \in Nat \ {0} /\ counter \in 0 .. BeatEvery - 1
    BY DEF Stream!StreamAssumption, StreamTypes, ChoiceTypes
  <2>2. 1 % BeatEvery \in 0 .. BeatEvery - 1
    BY <2>1
  <2>3. counter' \in {counter, 1 % BeatEvery}
    BY DEF Stream!Read, Stream!Echo, Stream!LineLeaves
  <2> QED
    BY <2>1, <2>2, <2>3
<1>4. ChoiceTypes'
  BY <1>1, <1>3, Zenon DEF StreamTypes, ChoiceTypes
<1>5. LineTypes'
  <2>1. wire \in Seq(LineItem) /\ input \in Seq(LineItem) /\ sending \in Seq(Stream!LineUnit)
    BY DEF StreamTypes, LineTypes
  <2>2. input \o wire \in Seq(LineItem) /\ <<>> \in Seq(LineItem)
    BY <2>1, SeqJoined
  <2>3. wire' \in {wire, <<>>} /\ input' \in {input, input \o wire}
    BY DEF Stream!Read, Stream!Echo
  <2> QED
    BY <1>1, <2>1, <2>2, <2>3 DEF LineTypes, LineItem
<1> QED
  BY <1>2, <1>4, <1>5 DEF StreamTypes

LEMMA HostTypes ==
  ASSUME Stream!StreamAssumption, StreamTypes,
         (\E c \in Configs : Stream!SendConfig(c)) \/ Stream!Arrive \/ Stream!SendNoise
  PROVE  StreamTypes'
<1>1. UNCHANGED <<Choice, counter, resets, place, active, halted, resetting, keys, drained, input>>
  BY DEF Stream!SendConfig, Stream!Arrive, Stream!SendNoise, Stream!HostLeaves, Stream!loopVars,
         Choice
<1>2. ConsoleTypes' /\ ChoiceTypes'
  <2>1. ConsoleTypes'
    BY <1>1, Zenon DEF StreamTypes, ConsoleTypes, Choice
  <2> QED
    BY <1>1, <2>1, ChoiceTypesKept DEF StreamTypes
<1>3. wire \in Seq(LineItem) /\ sending \in Seq(Stream!LineUnit) /\ resets \in Nat
  BY DEF StreamTypes, LineTypes, ConsoleTypes
<1>4. ASSUME Stream!Arrive PROVE LineTypes'
  <2>1. sending # <<>> /\ sending' = Tail(sending)
        /\ wire' = Append(wire, [Head(sending) EXCEPT !.at = resets])
    BY <1>4 DEF Stream!Arrive
  <2>2. Head(sending) \in Stream!LineUnit /\ sending' \in Seq(Stream!LineUnit)
    BY <1>3, <2>1, SeqParts
  <2>3. [Head(sending) EXCEPT !.at = resets] \in LineItem
    BY <1>3, <2>2 DEF LineItem, Stream!LineUnit
  <2>4. wire' \in Seq(LineItem)
    BY <1>3, <2>1, <2>3, SeqLonger
  <2> QED  BY <1>1, <2>2, <2>4 DEF LineTypes, LineItem, StreamTypes
<1>5. ASSUME Stream!SendNoise PROVE LineTypes'
  <2>1. Stream!Noise \subseteq LineItem
    BY DEF LineItem
  <2>2. wire' \in Seq(LineItem) /\ UNCHANGED sending
    BY <1>3, <1>5, <2>1, SeqLonger DEF Stream!SendNoise
  <2> QED  BY <1>1, <1>3, <2>2 DEF LineTypes, LineItem, StreamTypes
<1>6. ASSUME NEW c \in Configs, Stream!SendConfig(c)
      PROVE  LineTypes'
  <2>1. c.length \in 1 .. LongLength /\ LongLength \in Nat /\ c.length \in Nat
    BY DEF Stream!StreamAssumption
  <2> DEFINE f == [i \in 1 .. c.length |-> [config |-> c, place |-> i, at |-> 0]]
  <2>2. f \in Seq(Stream!LineUnit)
    <3>1. \A i \in 1 .. c.length : [config |-> c, place |-> i, at |-> 0] \in Stream!LineUnit
      BY <2>1 DEF Stream!LineUnit
    <3>2. f \in [1 .. c.length -> Stream!LineUnit]
      BY <3>1
    <3> QED  BY <2>1, <3>2
  <2>3. sending' \in Seq(Stream!LineUnit) /\ UNCHANGED wire
    BY <1>6, <2>2 DEF Stream!SendConfig
  <2> QED  BY <1>1, <1>3, <2>3 DEF LineTypes, LineItem, StreamTypes
<1>7. LineTypes'
  BY <1>4, <1>5, <1>6
<1> QED  BY <1>2, <1>7 DEF StreamTypes

LEMMA OtherTypes ==
  ASSUME StreamTypes,
         \/ UNCHANGED Stream!streamVars \/ (\E k \in Stream!Commands : Stream!Type(k))
         \/ Stream!Drain \/ Stream!KeysDone \/ Stream!Send \/ Stream!SendLine
  PROVE  StreamTypes'
<1>1. UNCHANGED <<Choice, counter, sending, active, halted>>
  BY DEF Stream!streamVars, Stream!loopVars, Stream!Type, Stream!Drain, Stream!KeysDone,
         Stream!Send, Stream!SendLine, Stream!Keep, Stream!LineLeaves, Choice
<1>2. ChoiceTypes'
  BY <1>1, ChoiceTypesKept DEF StreamTypes
<1>3. LineTypes'
  <2>1. wire' \in {wire, <<>>} /\ input' \in {input, <<>>}
    BY DEF Stream!streamVars, Stream!Type, Stream!Drain, Stream!KeysDone,
           Stream!Discard, Stream!Send, Stream!SendLine
  <2>2. /\ wire' \in Seq(LineItem) /\ input' \in Seq(LineItem)
        /\ sending' \in Seq(Stream!LineUnit)
    <3>1. /\ wire \in Seq(LineItem) /\ input \in Seq(LineItem) /\ <<>> \in Seq(LineItem)
          /\ sending \in Seq(Stream!LineUnit)
      BY DEF StreamTypes, LineTypes
    <3> QED
      BY <1>1, <2>1, <3>1
  <2> QED
    BY <2>2 DEF LineTypes, LineItem
<1>4. keys' \in Seq(Stream!Commands) /\ drained' \in Seq(Stream!Commands)
  <2>1. keys \in Seq(Stream!Commands) /\ drained \in Seq(Stream!Commands)
    BY DEF StreamTypes, ConsoleTypes
  <2>2. \/ UNCHANGED <<keys, drained>>
        \/ keys' = <<>> /\ drained' = keys
        \/ \E k \in Stream!Commands : keys' = Append(keys, k) /\ UNCHANGED drained
    BY DEF Stream!streamVars, Stream!loopVars, Stream!Type, Stream!Drain, Stream!KeysDone,
           Stream!Send, Stream!SendLine, Stream!LineLeaves
  <2>3. CASE UNCHANGED <<keys, drained>>
    BY <2>1, <2>3
  <2>4. CASE keys' = <<>> /\ drained' = keys
    BY <2>1, <2>4
  <2>5. CASE \E k \in Stream!Commands : keys' = Append(keys, k) /\ UNCHANGED drained
    BY <2>1, <2>5, SeqLonger
  <2> QED
    BY <2>2, <2>3, <2>4, <2>5
<1>5. /\ resets' \in {resets, resets + 1} /\ resetting' \in {resetting, FALSE}
      /\ place' \in {place, "keys", "read", "closed", "loop"}
  BY DEF Stream!streamVars, Stream!loopVars, Stream!Type, Stream!Drain, Stream!KeysDone,
         Stream!Discard, Stream!Send, Stream!SendLine, Stream!LineLeaves
<1>6. resets' \in Nat
  BY <1>5 DEF StreamTypes, ConsoleTypes
<1>7. ConsoleTypes'
  <2>1. device' \in Devices /\ place' \in {"loop", "keys", "read", "parse", "send", "closed"}
        /\ active' \in BOOLEAN /\ halted' \in BOOLEAN /\ resetting' \in BOOLEAN
    BY <1>1, <1>5, Zenon DEF StreamTypes, ConsoleTypes, Choice
  <2> QED
    BY <1>4, <1>6, <2>1, Zenon DEF ConsoleTypes
<1> QED
  BY <1>2, <1>3, <1>7 DEF StreamTypes

LEMMA StreamTypesInvariant == Stream!Spec => []StreamTypes
<1>1. Stream!Init => StreamTypes
  <2> SUFFICES ASSUME Stream!Init PROVE StreamTypes
    OBVIOUS
  <2>0. Encodings \in Nat \ {0} /\ BeatEvery \in Nat \ {0}
    BY StreamConstants DEF Stream!StreamAssumption
  <2>1. LineTypes
    BY DEF Stream!Init, LineTypes
  <2>2. ConsoleTypes
    <3>1. <<>> \in Seq(Stream!Commands) /\ 0 \in Nat
      OBVIOUS
    <3> QED
      BY <3>1, Zenon DEF Stream!Init, ConsoleTypes
  <2>3. ChoiceTypes
    <3>1. configured \in BOOLEAN /\ channels \in Stream!Config \cup {Stream!NoConfig}
      BY Zenon DEF Stream!Init
    <3>2. generator = Stream!InEncoding(1) \/ generator = Stream!NoConfig
      BY DEF Stream!Init
    <3>3. encoding = [index |-> 1, pending |-> 1, display |-> 1, codec |-> 1] /\ counter = 0
      BY DEF Stream!Init
    <3>4. 1 \in 1 .. Encodings /\ 0 \in 0 .. BeatEvery - 1
      BY <2>0
    <3>5. encoding \in [index : 1 .. Encodings, pending : 1 .. Encodings,
                        display : 1 .. Encodings, codec : 1 .. Encodings]
      BY <3>3, <3>4
    <3>6. generator \in Stream!Config \cup {Stream!NoConfig}
                           \cup {Stream!InEncoding(i) : i \in 1 .. Encodings}
      BY <3>2, <3>4, Zenon
    <3> QED
      BY <3>1, <3>3, <3>4, <3>5, <3>6, Zenon DEF ChoiceTypes
  <2> QED
    BY <2>1, <2>2, <2>3 DEF StreamTypes
<1>2. StreamTypes /\ [Stream!Next]_(Stream!streamVars) => StreamTypes'
  BY StreamConstants, KeyTypes, ParseTypes, InputTypes, HostTypes, OtherTypes DEF Stream!Next
<1> QED
  BY <1>1, <1>2, PTL DEF Stream!Spec

\* A device that streams keeps every variable in its type: what it generates is
\* a configuration it was sent or an encoding of its list, and the counter of
\* heartbeats stays below its period, for all configurations and encodings.
THEOREM StreamTypeCorrect == Stream!Spec => []Stream!TypeOK
<1>1. StreamTypes => Stream!TypeOK
  BY StreamTypesAre
<1> QED  BY <1>1, StreamTypesInvariant, PTL

-------------------------------------------------------------------------------
(* Both devices *)

\* The three promises together, for the behaviours that the run test_devices checks.
THEOREM TestDevicesHold ==
    MCSpec => []StreamsLastSelection /\ []AnswerToAsker /\ AccessIsAtomic
<1> DEFINE Inv == SlaveInv /\ AnswerInv /\ StreamInv
<1>1. MCInit => Inv
  BY SlaveInitially, AnswersInitially, StreamInitially DEF MCInit
<1>2. [MCNext]_<<tool, slaveVars, streamState>> =>
         [Next]_slaveVars /\ [Stream!Next]_(Stream!streamVars)
  BY DEF MCNext, streamState, Stream!streamVars, Stream!loopVars
<1>3. Inv /\ [MCNext]_<<tool, slaveVars, streamState>> => Inv'
  BY <1>2, SlaveStep, AnswerStep, StreamConstants, StreamStep
<1>4. Inv /\ [MCNext]_<<tool, slaveVars, streamState>> =>
        [\A t \in Threads :
           /\ access[t].op \in {"read", "write"} /\ access'[t].op = "none"
           => \A i \in 1 .. Len(access[t].cells) :
                LET c == access[t].cells[i]
                IN  store[c[1]][c[2]] = access[t].data[i] % WordMod]_slaveVars
  BY <1>2, StepAtomic
<1>5. Inv => StreamsLastSelection /\ AnswerToAsker
  BY DEF StreamInv, Selected, StreamsLastSelection, AnswerInv
<1> QED  BY <1>1, <1>3, <1>4, <1>5, PTL DEF MCSpec, AccessIsAtomic
==================================================================================
