------------------------------ MODULE ModbusSlave ------------------------------
(***************************************************************************)
(* The simulated Modbus slave (modbus_device.py): the store of coils and   *)
(* registers, the processing of a request, the three transports, the       *)
(* console and the thread that increments the registers.                   *)
(*                                                                         *)
(* The main loop and the incrementing thread share the store under its     *)
(* lock, the main loop and the console thread a list of commands under     *)
(* another.  A frame arrives in two pieces: "head" says where it begins    *)
(* and, in TCP, how long it is; "tail" holds the check sum or the end.     *)
(* valid says whether the check sum or the protocol number is right,       *)
(* wellFormed whether the length of the request, its byte count and the    *)
(* value of a coil are.  An illegal MBAP length is not among the inputs.   *)
(***************************************************************************)
EXTENDS Integers, Sequences, FiniteSets

CONSTANTS
    Modes,         \* the values of --mode that are considered
    Masters,       \* masters: on the serial line one, in TCP one per connection
    NoMaster,      \* None
    Size,          \* number of addresses of a table
    MaxRead,       \* MAX_READ_COILS, MAX_READ_REGISTERS
    MaxWrite,      \* MAX_WRITE_MULTI_COILS, MAX_WRITE_MULTI_REGISTERS
    WordMod,       \* registers count modulo this (2^16)
    Incremented,   \* how many registers of a table tick increments (64)
    AutoIncrement, \* --auto-increment
    Injected,      \* --inject-exception, 0 for None
    Unit,          \* --unit
    Requests,      \* what masters ask
    MaxFrames,     \* bound on the frames sent
    MaxTicks,      \* bound on the rounds of the incrementing thread
    MaxCommands    \* bound on the console commands

READ_FC == {"readCoils", "readDiscreteInputs", "readHoldingRegisters", "readInputRegisters"}
Single == {"writeSingleCoil", "writeSingleRegister"}
WRITE_FC == Single \cup {"writeMultipleCoils", "writeMultipleRegisters"}

Request == [unit : Nat, valid : BOOLEAN, fc : READ_FC \cup WRITE_FC \cup {"none", "other"},
            wellFormed : BOOLEAN, address : Nat, quantity : Nat, values : Seq(Nat)]

ASSUME SlaveAssumption ==
    /\ Modes \subseteq {"rtu", "ascii", "tcp"} /\ NoMaster \notin Masters /\ Masters # {}
    /\ {Size, MaxRead, MaxWrite, Incremented, Unit, MaxFrames, MaxTicks, MaxCommands}
         \subseteq Nat
    /\ WordMod \in Nat \ {0} /\ AutoIncrement \in BOOLEAN /\ Injected \in 0 .. 4
    /\ Requests \subseteq Request
    \* the byte count of a request that writes agrees with its quantity
    /\ \A r \in Requests : r.fc \in WRITE_FC /\ r.wellFormed => Len(r.values) = r.quantity

VARIABLES
    mode,       \* --mode
    store,      \* the four tables
    lock,       \* who holds the lock of the store
    access,     \* of each thread: its access to the store
    pc,         \* where the main loop is
    todo,       \* drained commands not yet executed
    commands,   \* ConsoleCommandReader._commands
    running,    \* transport.running
    paused,     \* transport.paused
    buffer,     \* transport._buffer
    client,     \* TcpTransport._client
    frame,      \* the frame being processed
    answers,    \* answers sent: to whom, to which frame, with what exception
    line,       \* of each master: pieces on the way to the slave
    peer,       \* of each master: its connection and the rest of a half-sent frame
    frames,     \* frames sent so far (bounds the model)
    ticks,      \* rounds of the incrementing thread (bounds the model)
    typed       \* commands typed (bounds the model)

storeVars == <<store, lock, access>>
transportVars == <<running, paused, buffer, client, frame, answers>>
outsideVars == <<line, peer, frames>>
slaveVars == <<mode, storeVars, pc, todo, commands, transportVars, outsideVars, ticks, typed>>

Tables == {"coils", "discrete", "holding", "input"}
Threads == {"main", "increment"}
Nobody == "nobody"
Commands == {"p", "r", "c"}

\* An access goes through its cells one by one; data is what a read has
\* copied or what a write puts there.
Access == [op : {"none", "read", "write", "tick"}, cells : Seq(Tables \X (0 .. Size - 1)),
           at : Nat, data : Seq(Nat)]
NoAccess == [op |-> "none", cells |-> <<>>, at |-> 1, data |-> <<>>]

Frame == [id : 1 .. MaxFrames, from : Masters, request : Requests]
Piece == [part : {"head", "tail"}, of : Frame]
NoFrame == [id |-> 0]

TypeOK ==
    /\ mode \in Modes
    /\ store \in [Tables -> [0 .. Size - 1 -> 0 .. WordMod - 1]]
    /\ lock \in Threads \cup {Nobody} /\ access \in [Threads -> Access]
    /\ pc \in {"loop", "commands", "poll", "frames", "access", "closed"}
    /\ commands \in Seq(Commands) /\ todo \in Seq(Commands)
    /\ running \in BOOLEAN /\ paused \in BOOLEAN
    /\ buffer \in Seq(Piece) /\ line \in [Masters -> Seq(Piece)]
    /\ client \in Masters \cup {NoMaster} /\ frame \in Frame \cup {NoFrame}
    /\ answers \in Seq([to : Masters, frame : Frame, exception : 0 .. 4])
    /\ peer \in [Masters -> [link : {"new", "asking", "open", "gone", "reset"},
                             rest : Seq(Piece)]]
    /\ frames \in 0 .. MaxFrames /\ ticks \in 0 .. MaxTicks /\ typed \in 0 .. MaxCommands

\* The master at the other end of the serial line.
Serial == CHOOSE m \in Masters : TRUE

Init ==
    /\ mode \in Modes
    /\ store = [t \in Tables |-> [a \in 0 .. Size - 1 |-> 0]]
    /\ lock = Nobody /\ access = [t \in Threads |-> NoAccess]
    /\ pc = "loop" /\ todo = <<>> /\ commands = <<>>
    /\ running = TRUE /\ paused = FALSE
    /\ buffer = <<>> /\ client = NoMaster /\ frame = NoFrame /\ answers = <<>>
    /\ line = [m \in Masters |-> <<>>]
    /\ peer = [m \in Masters |->
         [link |-> IF mode # "tcp" /\ m = Serial THEN "open" ELSE "new", rest |-> <<>>]]
    /\ frames = 0 /\ ticks = 0 /\ typed = 0

-------------------------------------------------------------------------------
(* The store; "Faulty:" marks a wrong variant that no specification uses *)

\* The cells of an area from address on.
Cells(table, address, quantity) == [i \in 1 .. quantity |-> <<table, address + i - 1>>]
Least(a, b) == IF a < b THEN a ELSE b

Begin(op, cells, data) == [op |-> op, cells |-> cells, at |-> 1, data |-> data]

\* tick increments the first registers of both register tables.
Tick == Begin("tick", Cells("holding", 0, Least(Incremented, Size))
                          \o Cells("input", 0, Least(Incremented, Size)), <<>>)

\* Faulty: nobody waits for the lock.
FreeAlways == TRUE

Free == lock = Nobody

Acquire(t) ==
    /\ access[t].op # "none" /\ access[t].at = 1 /\ lock # t /\ Free
    /\ lock' = t
    /\ UNCHANGED <<mode, store, access, pc, todo, commands, transportVars, outsideVars,
                   ticks, typed>>

\* The thread is behind the acquisition of the lock.
Entered(t) == lock = t \/ access[t].at > 1

\* One turn of the loop over the cells.
TouchCell(t) ==
    LET w == access[t]
        c == w.cells[w.at]
        old == store[c[1]][c[2]]
    IN  /\ w.op # "none" /\ w.at <= Len(w.cells) /\ Entered(t)
        /\ access' = [access EXCEPT ![t].at = @ + 1,
                          ![t].data = IF w.op = "read" THEN Append(@, old) ELSE @]
        /\ store' = [store EXCEPT ![c[1]][c[2]] =
                         CASE w.op = "write" -> w.data[w.at] % WordMod
                           [] w.op = "tick" -> (@ + 1) % WordMod
                           [] OTHER -> @]
        /\ UNCHANGED <<mode, lock, pc, todo, commands, transportVars, outsideVars,
                       ticks, typed>>

Finished(t) == access[t].op # "none" /\ access[t].at > Len(access[t].cells) /\ Entered(t)

Release(t) ==
    /\ Finished(t) /\ lock' = Nobody
    /\ access' = [access EXCEPT ![t] = NoAccess] /\ UNCHANGED store

-------------------------------------------------------------------------------
(* The processing of a request *)

TableOf(fc) == CASE fc \in {"readCoils", "writeSingleCoil", "writeMultipleCoils"} -> "coils"
                 [] fc = "readDiscreteInputs" -> "discrete"
                 [] fc = "readInputRegisters" -> "input"
                 [] OTHER -> "holding"

MaxQuantity(fc) == IF fc \in READ_FC THEN MaxRead ELSE MaxWrite

\* The exception code that answers a request, 0 for none.
ExceptionOf(r) ==
    CASE r.fc \notin READ_FC \cup WRITE_FC -> 1
      [] r.fc \in READ_FC \cup WRITE_FC /\ Injected # 0 -> Injected
      [] OTHER -> CASE ~r.wellFormed -> 3
                    [] r.wellFormed /\ r.fc \notin Single
                       /\ (r.quantity = 0 \/ r.quantity > MaxQuantity(r.fc)) -> 3
                    [] OTHER -> IF r.address + r.quantity > Size THEN 2 ELSE 0

AccessFor(r) ==
    Begin(IF r.fc \in READ_FC THEN "read" ELSE "write",
          Cells(TableOf(r.fc), r.address, r.quantity),
          IF r.fc \in READ_FC THEN <<>> ELSE r.values)

\* Faulty: a broadcast is answered as well.
IsAnsweredAlways(r) == TRUE

\* On a serial line unit 0 is the broadcast, which nobody answers.
IsAnswered(r) == mode = "tcp" \/ r.unit # 0

\* Is the request for this slave?  (In TCP any unit is.)
IsForUs(r) == mode = "tcp" \/ r.unit \in {Unit, 0}

\* The answer goes to whoever is connected by now.
SendFrame(f, exception) ==
    LET to == IF mode = "tcp" THEN client ELSE Serial
    IN  answers' = IF IsAnswered(f.request) /\ to # NoMaster
                   THEN Append(answers, [to |-> to, frame |-> f, exception |-> exception])
                   ELSE answers

\* A frame has been delimited: it is dropped, refused, or starts an access.
ProcessFrame(f) ==
    LET r == f.request
    IN  IF ~r.valid \/ ~IsForUs(r) \/ paused \/ r.fc = "none"
        THEN UNCHANGED <<access, pc, frame, answers>>
        ELSE IF ExceptionOf(r) # 0
        THEN SendFrame(f, ExceptionOf(r)) /\ UNCHANGED <<access, pc, frame>>
        ELSE /\ access' = [access EXCEPT !["main"] = AccessFor(r)]
             /\ pc' = "access" /\ frame' = f /\ UNCHANGED answers

FinishRequest ==
    /\ pc = "access" /\ frame # NoFrame /\ Release("main")
    /\ SendFrame(frame, 0) /\ frame' = NoFrame /\ pc' = "frames"
    /\ UNCHANGED <<mode, todo, commands, running, paused, buffer, client, outsideVars,
                   ticks, typed>>

-------------------------------------------------------------------------------
(* The transports: the next frame in the buffer *)

Heads == {i \in 1 .. Len(buffer) : buffer[i].part = "head"}
Tails == {i \in 1 .. Len(buffer) : buffer[i].part = "tail"}
IsFirst(i, S) == i \in S /\ \A j \in S : i <= j

\* Are these pieces one frame?
IsFrame(pieces) ==
    /\ Len(pieces) = 2 /\ pieces[1].part = "head" /\ pieces[2].part = "tail"
    /\ pieces[1].of = pieces[2].of

NothingMore(rest) ==
    /\ buffer' = rest /\ pc' = "loop" /\ UNCHANGED <<access, frame, answers>>

\* RTU: after a silence whatever has been received is one frame.
NextRtu ==
    \/ NothingMore(buffer)
    \/ /\ buffer # <<>> /\ buffer' = <<>>
       /\ IF IsFrame(buffer) THEN ProcessFrame(buffer[1].of)
          ELSE UNCHANGED <<access, pc, frame, answers>>

\* body is a line that ends at to.  A ":" inside it is no hexadecimal digit:
\* when the length is even, fromhex raises an error that nobody catches, and the
\* script ends.
NextLine(body, to) ==
    /\ buffer' = SubSeq(buffer, to + 1, Len(buffer))
    /\ IF IsFrame(body) THEN ProcessFrame(body[1].of)
       ELSE /\ UNCHANGED <<access, frame, answers>>
            /\ pc' \in {"frames"} \cup (IF Len(body) > 2 THEN {"closed"} ELSE {})

\* ASCII: from the first ":" to the next end of line.
NextAscii ==
    \/ Heads = {} /\ NothingMore(<<>>)
    \/ \E from \in Heads :
          LET ends == {i \in Tails : i > from}
          IN  /\ IsFirst(from, Heads)
              /\ \/ ends = {} /\ NothingMore(SubSeq(buffer, from, Len(buffer)))
                 \/ \E to \in ends : IsFirst(to, ends) /\ NextLine(SubSeq(buffer, from, to), to)

\* TCP: as many bytes as the header at the front of the buffer announces.
NextTcp ==
    IF client = NoMaster \/ Len(buffer) < 2 THEN NothingMore(buffer)
    ELSE /\ buffer' = SubSeq(buffer, 3, Len(buffer))
         /\ ProcessFrame(buffer[1].of)

NextFrame ==
    /\ pc = "frames"
    /\ \/ mode = "rtu" /\ NextRtu
       \/ mode = "ascii" /\ NextAscii
       \/ mode = "tcp" /\ NextTcp
    /\ UNCHANGED <<mode, store, lock, todo, commands, running, paused, client, outsideVars,
                   ticks, typed>>

-------------------------------------------------------------------------------
(* The main loop *)

Feed(m) ==
    /\ buffer' = buffer \o line[m] /\ line' = [line EXCEPT ![m] = <<>>]

PollSerial ==
    /\ pc = "poll" /\ mode # "tcp"
    /\ Feed(Serial) /\ pc' = "frames"
    /\ UNCHANGED <<mode, storeVars, todo, commands, running, paused, client, frame,
                   answers, peer, frames, ticks, typed>>

\* Faulty: what the old client left stays in the buffer.
DropKeepingBuffer == client' = NoMaster /\ UNCHANGED buffer

Drop == client' = NoMaster /\ buffer' = <<>>

\* Accept a client if there is none, then read.  A read that would block is
\* taken for the end of the connection; one that fails for no data.
PollTcp(m) ==
    /\ pc = "poll" /\ mode = "tcp"
    /\ IF client = NoMaster THEN peer[m].link = "asking" ELSE client = m
    /\ IF line[m] # <<>>
       THEN /\ Feed(m) /\ client' = m /\ pc' = "frames"
            /\ peer' = [peer EXCEPT ![m].link = IF @ = "asking" THEN "open" ELSE @]
       ELSE IF peer[m].link = "reset"
       THEN client' = m /\ pc' = "frames" /\ UNCHANGED <<buffer, line, peer>>
       ELSE /\ Drop /\ pc' = "loop" /\ UNCHANGED line
            /\ peer' = [peer EXCEPT ![m] = [link |-> "gone", rest |-> <<>>]]
    /\ UNCHANGED <<mode, storeVars, todo, commands, running, paused, frame, answers,
                   frames, ticks, typed>>

PollNobody ==
    /\ pc = "poll" /\ mode = "tcp" /\ client = NoMaster
    /\ \A m \in Masters : peer[m].link # "asking"
    /\ pc' = "loop"
    /\ UNCHANGED <<mode, storeVars, todo, commands, transportVars, outsideVars, ticks, typed>>

\* The condition of the loop, and drain.
Loop ==
    /\ pc = "loop"
    /\ IF running
       THEN pc' = "commands" /\ todo' = commands /\ commands' = <<>>
       ELSE pc' = "closed" /\ UNCHANGED <<todo, commands>>
    /\ UNCHANGED <<mode, storeVars, transportVars, outsideVars, ticks, typed>>

\* "r" is announced as a reset of the data; what it does is one tick.
Command ==
    /\ pc = "commands" /\ todo # <<>>
    /\ todo' = Tail(todo)
    /\ paused' = (paused # (Head(todo) = "p"))
    /\ running' = (running /\ Head(todo) # "c")
    /\ IF Head(todo) = "r" /\ AutoIncrement
       THEN access' = [access EXCEPT !["main"] = Tick] /\ pc' = "access"
       ELSE UNCHANGED <<access, pc>>
    /\ UNCHANGED <<mode, store, lock, commands, buffer, client, frame, answers,
                   outsideVars, ticks, typed>>

FinishCommand ==
    /\ pc = "access" /\ frame = NoFrame /\ Release("main") /\ pc' = "commands"
    /\ UNCHANGED <<mode, todo, commands, transportVars, outsideVars, ticks, typed>>

CommandsDone ==
    /\ pc = "commands" /\ todo = <<>> /\ pc' = "poll"
    /\ UNCHANGED <<mode, storeVars, todo, commands, transportVars, outsideVars, ticks, typed>>

-------------------------------------------------------------------------------
(* The other threads *)

\* _run_autoincrement wakes once a second.
StartTick ==
    /\ AutoIncrement /\ pc # "closed" /\ ticks < MaxTicks /\ ticks' = ticks + 1
    /\ access["increment"] = NoAccess
    /\ access' = [access EXCEPT !["increment"] = Tick]
    /\ UNCHANGED <<mode, store, lock, pc, todo, commands, transportVars, outsideVars, typed>>

FinishTick ==
    /\ Release("increment")
    /\ UNCHANGED <<mode, pc, todo, commands, transportVars, outsideVars, ticks, typed>>

\* The console thread appends a command.
Type(c) ==
    /\ pc # "closed" /\ typed < MaxCommands /\ typed' = typed + 1
    /\ commands' = Append(commands, c)
    /\ UNCHANGED <<mode, storeVars, pc, todo, transportVars, outsideVars, ticks>>

-------------------------------------------------------------------------------
(* The masters and the line *)

SlaveLeaves == UNCHANGED <<mode, storeVars, pc, todo, commands, transportVars, ticks, typed>>

Connect(m) ==
    /\ mode = "tcp" /\ peer[m].link = "new"
    /\ peer' = [peer EXCEPT ![m].link = "asking"]
    /\ UNCHANGED <<line, frames>> /\ SlaveLeaves

\* The kernel takes the data of a client that is not accepted yet.
SendHead(m, r) ==
    /\ peer[m].link \in {"asking", "open"} /\ peer[m].rest = <<>>
    /\ frames < MaxFrames /\ frames' = frames + 1
    /\ LET f == [id |-> frames + 1, from |-> m, request |-> r]
       IN  /\ line' = [line EXCEPT ![m] = Append(@, [part |-> "head", of |-> f])]
           /\ peer' = [peer EXCEPT ![m].rest = <<[part |-> "tail", of |-> f]>>]
    /\ SlaveLeaves

SendTail(m) ==
    /\ peer[m].link \in {"asking", "open"} /\ peer[m].rest # <<>>
    /\ line' = [line EXCEPT ![m] = @ \o peer[m].rest]
    /\ peer' = [peer EXCEPT ![m].rest = <<>>]
    /\ UNCHANGED frames /\ SlaveLeaves

\* A serial line loses a piece of a frame.
Lose ==
    /\ mode # "tcp" /\ line[Serial] # <<>>
    /\ line' = [line EXCEPT ![Serial] = Tail(@)]
    /\ UNCHANGED <<peer, frames>> /\ SlaveLeaves

Leave(m) ==
    /\ mode = "tcp" /\ peer[m].link = "open"
    /\ \/ peer' = [peer EXCEPT ![m] = [link |-> "gone", rest |-> <<>>]] /\ UNCHANGED line
       \/ /\ peer' = [peer EXCEPT ![m] = [link |-> "reset", rest |-> <<>>]]
          /\ line' = [line EXCEPT ![m] = <<>>]
    /\ UNCHANGED frames /\ SlaveLeaves

Next ==
    \/ Loop \/ Command \/ FinishCommand \/ CommandsDone
    \/ PollSerial \/ PollNobody \/ \E m \in Masters : PollTcp(m)
    \/ NextFrame \/ FinishRequest
    \/ \E t \in Threads : Acquire(t) \/ TouchCell(t)
    \/ StartTick \/ FinishTick \/ \E c \in Commands : Type(c)
    \/ \E m \in Masters : Connect(m) \/ SendTail(m) \/ Leave(m)
    \/ \E m \in Masters, r \in Requests : SendHead(m, r)
    \/ Lose

Spec == Init /\ [][Next]_slaveVars

-------------------------------------------------------------------------------
(* Properties *)

\* When an access to the store ends, the store agrees with what was read or
\* written as a whole: no increment by the other thread lies between two of its
\* registers (read_registers, write_registers, tick).
AccessIsAtomic ==
    [][\A t \in Threads :
         /\ access[t].op \in {"read", "write"} /\ access'[t].op = "none"
         => \A i \in 1 .. Len(access[t].cells) :
              LET c == access[t].cells[i]
              IN  store[c[1]][c[2]] = access[t].data[i] % WordMod]_slaveVars

\* An answer goes to the master that asked, once, whatever connections were
\* dropped with half a frame in the buffer (TcpTransport); and only to a frame
\* that passed its check and, on a serial line, is addressed to this unit and so
\* is no broadcast (RtuTransport, AsciiTransport).
AnswerToAsker ==
    /\ \A i \in 1 .. Len(answers) :
         LET f == answers[i].frame
         IN  /\ answers[i].to = f.from /\ f.request.valid
             /\ mode # "tcp" => f.request.unit = Unit
    /\ \A i, j \in 1 .. Len(answers) : answers[i].frame.id = answers[j].frame.id => i = j
================================================================================
