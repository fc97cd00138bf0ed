----------------------------- MODULE YmodemTransfer -----------------------------
(***************************************************************************)
(* One YMODEM transfer of one file over a serial line.  Each end is either *)
(* the application (YmodemService, which retries) or the test device       *)
(* (shell_device.py, which gives up at the first surprise).                *)
(*                                                                         *)
(* A packet is one message: its bytes, its CRC and the complement of its   *)
(* block number say no more than whether it arrived undamaged.  The file   *)
(* is the sequence of its blocks, which the receiver cuts to the length    *)
(* that the header announces.  A time-out of eight or ten seconds is far   *)
(* longer than a message is under way, so it needs an empty line.          *)
(***************************************************************************)
EXTENDS Naturals, Sequences

CONSTANTS
    Pairings,    \* the kinds of the ends that are considered
    Blocks,      \* number of blocks of the file
    BlockMod,    \* block numbers are counted modulo this (256)
    MaxRetries,  \* attempts of the application at one packet (_maxRetries)
    MaxRequests, \* times the device asks for a file (one in 2 s, for 60 s)
    MaxFaults    \* bound on the faults of the line

ASSUME YmodemAssumption ==
    /\ Pairings \subseteq [sender : {"app", "device"}, receiver : {"app", "device"}]
    /\ {Blocks, MaxRetries, MaxRequests, MaxFaults} \subseteq Nat
    /\ BlockMod \in Nat /\ BlockMod > 2 /\ MaxRetries > 0 /\ MaxRequests > 0

VARIABLES
    ends,       \* which program is at which end
    sender,     \* what the sender waits for, of which block, at which attempt
    receiver,   \* the same of the receiver: expected block, failed attempts
    written,    \* the blocks in the receiver's file
    toReceiver, \* messages on the line to the receiver
    toSender,   \* bytes on the line to the sender
    faults      \* faults so far (bounds the model)

vars == <<ends, sender, receiver, written, toReceiver, toSender, faults>>

\* The file; block 0 stands for the header, the block after the last one for
\* the header with an empty name that ends the batch.
File == [i \in 1 .. Blocks |-> i]
End == Blocks + 1

Packet(i) == [kind |-> "packet", good |-> TRUE, data |-> i,
              block |-> IF i = End THEN 0 ELSE i % BlockMod]
Byte(k) == [kind |-> k, good |-> TRUE, data |-> 0, block |-> 0]

Message == [kind : {"packet", "EOT", "CAN", "noise"}, good : BOOLEAN,
            data : 0 .. End, block : 0 .. BlockMod - 1]
Reply == {"ACK", "NAK", "C", "CAN", "noise"}
Over == {"completed", "failed", "cancelled"}

TypeOK ==
    /\ ends \in Pairings
    /\ sender \in [await : {"idle", "request", "ack", "data", "eotNak", "eotAck",
                            "final"} \cup Over,
                   at : 0 .. End, tries : 0 .. MaxRetries]
    /\ receiver \in [await : {"idle", "header", "data", "eot", "end"} \cup Over,
                     expected : Nat \ {0}, tries : 0 .. MaxRetries + MaxRequests]
    /\ written \in Seq(1 .. Blocks)
    /\ toReceiver \in Seq(Message) /\ toSender \in Seq(Reply)
    /\ faults \in 0 .. MaxFaults

\* The device waits for a request as soon as it is started; the application
\* waits for the user.
Init ==
    /\ ends \in Pairings
    /\ sender = [await |-> IF ends.sender = "app" THEN "idle" ELSE "request",
                 at |-> 0, tries |-> 0]
    /\ receiver = [await |-> "idle", expected |-> 1, tries |-> 0]
    /\ written = <<>> /\ toReceiver = <<>> /\ toSender = <<>> /\ faults = 0

-------------------------------------------------------------------------------
(* The sender; "Faulty:" marks a wrong variant that no specification uses *)

SenderLeaves == UNCHANGED <<ends, receiver, written, faults>>

\* The sender stops, with no further message.
SenderEnds(how) == sender' = [sender EXCEPT !.await = how] /\ UNCHANGED toReceiver

\* The byte that the sender waits for.
Wanted == CASE sender.await \in {"request", "data", "final"} -> "C"
            [] sender.await \in {"ack", "eotAck"} -> "ACK"
            [] sender.await = "eotNak" -> "NAK"
            [] OTHER -> "none"

\* Send m and wait for what answers it.
Emit(m, await, at) ==
    /\ toReceiver' = Append(toReceiver, m)
    /\ sender' = [await |-> await, at |-> at, tries |-> 0]

EmitBlock(i) ==
    IF i = End THEN Emit(Byte("EOT"), "eotNak", Blocks) ELSE Emit(Packet(i), "ack", i)

\* The wanted byte has come: the next part of ymodem_send_bytes.
Advance ==
    CASE sender.await = "request" -> Emit(Packet(0), "ack", 0)
      [] sender.await = "ack" /\ sender.at = 0 ->
            /\ sender' = [await |-> "data", at |-> 0, tries |-> 0]
            /\ UNCHANGED toReceiver
      [] sender.await = "data" -> EmitBlock(1)
      [] sender.await = "ack" /\ sender.at \in 1 .. Blocks -> EmitBlock(sender.at + 1)
      [] sender.await = "eotNak" -> Emit(Byte("EOT"), "eotAck", Blocks)
      [] sender.await = "eotAck" ->
            /\ sender' = [await |-> "final", at |-> Blocks, tries |-> 0]
            /\ UNCHANGED toReceiver
      [] sender.await = "final" -> Emit(Packet(End), "ack", End)
      [] OTHER -> SenderEnds("completed")

\* The device accepts no other byte than the one it waits for.
DeviceSenderReads(b) == IF b = Wanted THEN Advance ELSE SenderEnds("failed")

\* Faulty: the attempts are not counted.
AgainForever ==
    /\ UNCHANGED sender
    /\ toReceiver' = IF sender.await = "ack" THEN Append(toReceiver, Packet(sender.at))
                     ELSE toReceiver

\* One attempt of the application has failed; again sends the packet or the
\* end of transmission once more.
Again ==
    IF sender.tries + 1 >= MaxRetries THEN SenderEnds("failed")
    ELSE /\ sender' = [sender EXCEPT !.tries = @ + 1,
                                     !.await = IF @ = "eotAck" THEN "eotNak" ELSE @]
         /\ toReceiver' =
              CASE sender.await = "ack" -> Append(toReceiver, Packet(sender.at))
                [] sender.await \in {"eotNak", "eotAck"} -> Append(toReceiver, Byte("EOT"))
                [] OTHER -> toReceiver

\* A receiver may also acknowledge the first EOT.
AppSenderReads(b) ==
    IF b = "ACK" /\ sender.await = "eotNak"
    THEN sender' = [await |-> "final", at |-> Blocks, tries |-> 0] /\ UNCHANGED toReceiver
    ELSE IF b = Wanted
    THEN IF sender.await = "eotNak"
         THEN /\ toReceiver' = Append(toReceiver, Byte("EOT"))
              /\ sender' = [sender EXCEPT !.await = "eotAck"]
         ELSE Advance
    ELSE IF b = "CAN" /\ sender.await \notin {"eotNak", "eotAck"}
    THEN SenderEnds("failed")
    ELSE Again

SenderWaits == sender.await \notin Over \cup {"idle"}
Quiet == toReceiver = <<>> /\ toSender = <<>>

StartSending ==
    /\ sender.await = "idle"
    /\ sender' = [sender EXCEPT !.await = "request"] /\ toSender' = <<>>
    /\ SenderLeaves /\ UNCHANGED toReceiver

\* What arrives while no transfer is active is read by nobody
\* (addIncomingBytes drops it).
SenderIgnores ==
    /\ toSender # <<>> /\ ~SenderWaits
    /\ toSender' = Tail(toSender)
    /\ SenderLeaves /\ UNCHANGED <<sender, toReceiver>>

DeviceSends ==
    /\ ends.sender = "device" /\ SenderWaits
    /\ \/ toSender # <<>> /\ DeviceSenderReads(Head(toSender)) /\ toSender' = Tail(toSender)
       \/ Quiet /\ SenderEnds("failed") /\ UNCHANGED toSender
    /\ SenderLeaves

AppSends ==
    /\ ends.sender = "app" /\ SenderWaits
    /\ \/ toSender # <<>> /\ AppSenderReads(Head(toSender)) /\ toSender' = Tail(toSender)
       \/ Quiet /\ Again /\ UNCHANGED toSender
    /\ SenderLeaves

-------------------------------------------------------------------------------
(* The receiver *)

ReceiverLeaves == UNCHANGED <<ends, sender, faults>>

Answer(bytes) == toSender' = toSender \o bytes
Silent == toSender' = toSender

Becomes(await) == receiver' = [receiver EXCEPT !.await = await] /\ UNCHANGED written
ReceiverFails == Becomes("failed") /\ Silent

\* Which messages end a state of the receiver other than a block.
Acceptable(m) ==
    \/ receiver.await \in {"header", "end"} /\ m.kind = "packet" /\ m.block = 0
    \/ receiver.await \in {"data", "eot"} /\ m.kind = "EOT"

\* The header has come, twice the end of transmission, or the empty header.
\* The length of what was written is not compared with the header.
Accept ==
    CASE receiver.await = "header" -> Becomes("data") /\ Answer(<<"ACK", "C">>)
      [] receiver.await = "data" -> Becomes("eot") /\ Answer(<<"NAK">>)
      [] receiver.await = "eot" -> Becomes("end") /\ Answer(<<"ACK", "C">>)
      [] OTHER -> Becomes("completed") /\ Answer(<<"ACK">>)

\* Write no more than the length that the header announced.
Write(m) ==
    /\ written' = IF Len(written) < Blocks THEN Append(written, m.data) ELSE written
    /\ receiver' = [receiver EXCEPT !.expected = @ + 1]
    /\ Answer(<<"ACK">>)

\* Faulty: the block number is not looked at.
ExpectsAny(m) == m.kind = "packet"

Expects(m) == m.kind = "packet" /\ m.block = receiver.expected % BlockMod

\* The device accepts nothing but the message it expects.
DeviceReceiverReads(m) ==
    IF m.good /\ receiver.await = "data" /\ Expects(m) THEN Write(m)
    ELSE IF m.good /\ Acceptable(m) THEN Accept ELSE ReceiverFails

\* The next attempt at the header, after the bytes of the last one.
NextRequest(bytes, attempts) ==
    IF receiver.tries + 1 >= attempts THEN Becomes("failed") /\ Answer(bytes)
    ELSE /\ receiver' = [receiver EXCEPT !.tries = @ + 1]
         /\ Answer(Append(bytes, "C")) /\ UNCHANGED written

\* A block that cannot be used is refused.
Refuse(ends_) ==
    LET tries == IF receiver.tries < MaxRetries THEN receiver.tries + 1 ELSE MaxRetries
    IN  /\ receiver' = [receiver EXCEPT !.tries = tries, !.await =
                            IF ends_ /\ tries = MaxRetries THEN "failed" ELSE @]
        /\ Answer(<<"NAK">>) /\ UNCHANGED written

IsPrevious(m) == m.block = (receiver.expected - 1) % BlockMod

\* While it waits for blocks the application takes a cancellation by the
\* sender for a damaged packet.
AppReceiverReads(m) ==
    IF m.good /\ Acceptable(m) THEN Accept
    ELSE CASE receiver.await = "header" /\ m.kind = "packet" /\ ~m.good ->
                    NextRequest(<<"NAK">>, MaxRetries)
           [] receiver.await = "header" /\ m.kind \in {"noise", "EOT"} ->
                    NextRequest(<<>>, MaxRetries)
           [] receiver.await = "data" /\ (m.kind # "packet" \/ ~m.good) -> Refuse(TRUE)
           [] receiver.await = "data" /\ m.kind = "packet" /\ m.good ->
                    IF IsPrevious(m) THEN Answer(<<"ACK">>) /\ UNCHANGED <<receiver, written>>
                    ELSE IF Expects(m) THEN Write(m) ELSE Refuse(FALSE)
           [] OTHER -> ReceiverFails

ReceiverWaits == receiver.await \notin Over \cup {"idle"}

StartReceiving ==
    /\ receiver.await = "idle"
    /\ receiver' = [receiver EXCEPT !.await = "header"]
    /\ Answer(<<"C">>) /\ UNCHANGED <<written, toReceiver>> /\ ReceiverLeaves

ReceiverIgnores ==
    /\ toReceiver # <<>> /\ ~ReceiverWaits
    /\ toReceiver' = Tail(toReceiver)
    /\ UNCHANGED <<receiver, written, toSender>> /\ ReceiverLeaves

DeviceReceives ==
    /\ ends.receiver = "device" /\ ReceiverWaits
    /\ \/ /\ toReceiver # <<>> /\ toReceiver' = Tail(toReceiver)
          /\ DeviceReceiverReads(Head(toReceiver))
       \/ /\ Quiet /\ UNCHANGED toReceiver
          /\ IF receiver.await = "header" THEN NextRequest(<<>>, MaxRequests)
             ELSE ReceiverFails
    /\ ReceiverLeaves

AppReceives ==
    /\ ends.receiver = "app" /\ ReceiverWaits
    /\ \/ /\ toReceiver # <<>> /\ toReceiver' = Tail(toReceiver)
          /\ AppReceiverReads(Head(toReceiver))
       \/ /\ Quiet /\ UNCHANGED toReceiver
          /\ IF receiver.await = "header" THEN NextRequest(<<>>, MaxRetries)
             ELSE ReceiverFails
    /\ ReceiverLeaves

-------------------------------------------------------------------------------
(* The user of the application, and the line *)

\* cancel tells the other end and stops this one.  (Sending takes no time
\* here, so the transfer has no step left to take.)
CancelSending ==
    /\ ends.sender = "app" /\ SenderWaits
    /\ sender' = [sender EXCEPT !.await = "cancelled"]
    /\ toReceiver' = Append(toReceiver, Byte("CAN"))
    /\ UNCHANGED toSender /\ SenderLeaves

CancelReceiving ==
    /\ ends.receiver = "app" /\ ReceiverWaits
    /\ Becomes("cancelled") /\ Answer(<<"CAN">>)
    /\ UNCHANGED toReceiver /\ ReceiverLeaves

\* A message is lost or damaged, or a byte comes that nobody sent.
Fault ==
    /\ faults < MaxFaults /\ faults' = faults + 1
    /\ UNCHANGED <<ends, sender, receiver, written>>
    /\ \/ /\ toReceiver # <<>> /\ UNCHANGED toSender
          /\ \/ toReceiver' = Tail(toReceiver)
             \/ toReceiver' = [toReceiver EXCEPT ![1].good = FALSE]
       \/ toSender # <<>> /\ toSender' = Tail(toSender) /\ UNCHANGED toReceiver
       \/ toReceiver' = Append(toReceiver, Byte("noise")) /\ UNCHANGED toSender
       \/ toSender' = Append(toSender, "noise") /\ UNCHANGED toReceiver

Next ==
    \/ StartSending \/ SenderIgnores \/ DeviceSends \/ AppSends \/ CancelSending
    \/ StartReceiving \/ ReceiverIgnores \/ DeviceReceives \/ AppReceives \/ CancelReceiving
    \/ Fault

\* Both programs keep running and every wait has a time limit.
Fairness ==
    /\ WF_vars(SenderIgnores) /\ WF_vars(DeviceSends) /\ WF_vars(AppSends)
    /\ WF_vars(ReceiverIgnores) /\ WF_vars(DeviceReceives) /\ WF_vars(AppReceives)

Spec == Init /\ [][Next]_vars /\ Fairness

-------------------------------------------------------------------------------
(* Properties *)

\* Whatever the line loses, damages or adds, a receiver that reports the
\* transfer as complete has the whole file, each block once and in order
\* (ymodem_receive, receiveFile), when one end is the strict test device.
DeliveredIntact == receiver.await = "completed" => written = File

\* A transfer that has begun ends, on both sides, however much is lost and
\* whoever cancels (the time limits of wait_for_byte and _readByteWithTimeout,
\* and the limits on the retries).
TransferEnds ==
    /\ SenderWaits ~> sender.await \in Over
    /\ ReceiverWaits ~> receiver.await \in Over

\* What the comment on YmodemService promises: lost input never leaves a
\* damaged file that looks like a success.  Between two applications it is
\* violated: after an answer that was disturbed the sender takes each late ACK
\* for that of the next block, and receiveFile accepts the end of transmission
\* without comparing written with the length in the header.
NoShortFile == receiver.await = "completed" => Len(written) = Blocks
=================================================================================
