------------------------------ MODULE StreamDevice ------------------------------
(***************************************************************************)
(* The test devices that stream data: zobow_device.py and                  *)
(* justfloat_device.py, which the host configures over the line, and       *)
(* text_sender.py, whose encoding is chosen at the console.  Each has a    *)
(* main loop and a thread that reads the console.                          *)
(*                                                                         *)
(* The bytes of the line are counted in units; a unit of a configuration   *)
(* knows its place in it, which is what the CRC (Zobow) or the words of    *)
(* the line (JustFloat) tell.  The last unit of a JustFloat line is its    *)
(* end of line.  The values that are streamed are left out: what matters   *)
(* is for which channels, or in which encoding, they are generated.        *)
(***************************************************************************)
EXTENDS Naturals, Sequences

CONSTANTS
    Devices,     \* the devices that are considered
    ShortLength, \* length of a frame with four channels (18)
    LongLength,  \* length of a frame with eight channels (34)
    Configs,     \* configurations the host sends: their lengths
    Encodings,   \* ENCODING_LIST
    BeatEvery,   \* 1000 / interval: the heart beats at multiples of this
    MaxFrames,   \* bound on the configurations sent
    MaxNoise,    \* bound on the units of noise
    MaxKeys      \* bound on the console commands

\* What the constants have to be.
StreamAssumption ==
    /\ Devices \subseteq {"zobow", "justfloat", "text", "echo"}
    /\ {ShortLength, LongLength} \subseteq Nat \ {0} /\ ShortLength < LongLength
    /\ Configs \subseteq [name : STRING, length : {ShortLength, LongLength}]
    /\ Encodings \in Nat \ {0} /\ BeatEvery \in Nat \ {0}
    /\ {MaxFrames, MaxNoise, MaxKeys} \subseteq Nat

VARIABLES
    device,     \* which script runs, and in which mode
    pc,         \* where the main loop is
    keys,       \* ConsoleCommandReader._commands
    todo,       \* drained commands not yet executed
    running,    \* self.running
    paused,     \* self.paused
    resetting,  \* reset_requested
    configured, \* self.configured
    channels,   \* self.channel_ids or channel_addresses
    generator,  \* what data_gen or generator is set to
    encoding,   \* encoding_index, pending_encoding, encoding_display and codec
    counter,    \* generator._counter, modulo BeatEvery
    wire,       \* the input buffer of the serial port
    buffer,     \* the local variable buffer
    sending,    \* what the host has still to send of a configuration
    sent,       \* configurations and noise sent so far (bounds the model)
    typed,      \* commands typed so far (bounds the model)
    resets      \* history: how often the input was discarded

loopVars == <<pc, keys, todo, running, paused, resetting>>
streamVars == <<device, loopVars, configured, channels, generator, encoding, counter, wire,
                buffer, sending, sent, typed, resets>>

\* A configuration as it was received, with the count of resets by then.
Config == [config : Configs, at : Nat]
NoConfig == [config |-> "none"]
LineUnit == [config : Configs, place : 1 .. LongLength, at : Nat]
\* A unit of noise, and whether JustFloat drops it where it is in front of a line.
Noise == [config : {"noise"}, dropped : BOOLEAN]

\* A command, and the digit of one that chooses an encoding.
Commands == ({"p", "r", "c", "e", "?"} \X {0}) \cup ({"digit"} \X (1 .. Encodings))
InEncoding(i) == [encoding |-> i]

TypeOK ==
    /\ device \in Devices
    /\ pc \in {"loop", "keys", "read", "parse", "send", "closed"}
    /\ running \in BOOLEAN /\ paused \in BOOLEAN
    /\ resetting \in BOOLEAN /\ configured \in BOOLEAN
    /\ channels \in Config \cup {NoConfig}
    /\ generator \in Config \cup {NoConfig} \cup {InEncoding(i) : i \in 1 .. Encodings}
    /\ encoding \in [index : 1 .. Encodings, pending : 1 .. Encodings,
                     display : 1 .. Encodings, codec : 1 .. Encodings]
    /\ counter \in 0 .. BeatEvery - 1
    /\ wire \in Seq(LineUnit \cup Noise) /\ buffer \in Seq(LineUnit \cup Noise)
    /\ sending \in Seq(LineUnit)

IsText == device \in {"text", "echo"}

Init ==
    /\ device \in Devices
    /\ pc = "loop" /\ keys = <<>> /\ todo = <<>>
    /\ running = TRUE /\ paused = FALSE /\ resetting = FALSE /\ configured = FALSE
    /\ channels = NoConfig
    /\ generator = IF IsText THEN InEncoding(1) ELSE NoConfig
    /\ encoding = [index |-> 1, pending |-> 1, display |-> 1, codec |-> 1] /\ counter = 0
    /\ wire = <<>> /\ buffer = <<>> /\ sending = <<>>
    /\ sent = [frames |-> 0, noise |-> 0] /\ typed = 0 /\ resets = 0

-------------------------------------------------------------------------------
(* The console *)

Type(k) ==
    /\ pc # "closed" /\ typed < MaxKeys /\ typed' = typed + 1
    /\ keys' = Append(keys, k)
    /\ UNCHANGED <<device, pc, todo, running, paused, resetting, configured, channels,
                   generator, encoding, counter, wire, buffer, sending, sent, resets>>

Drain ==
    /\ pc = "loop" /\ pc' = "keys"
    /\ todo' = keys /\ keys' = <<>> /\ resetting' = FALSE
    /\ UNCHANGED <<device, running, paused, configured, channels, generator, encoding,
                   counter, wire, buffer, sending, sent, typed, resets>>

\* A device that is not configured has nothing to pause.
TogglePause ==
    /\ paused' = IF IsText \/ configured THEN ~paused ELSE paused
    /\ UNCHANGED <<running, resetting, configured, channels, generator, encoding, counter>>

\* Zobow keeps its channels, JustFloat forgets them.
ResetToWaiting ==
    /\ configured' = FALSE /\ paused' = FALSE /\ resetting' = TRUE
    /\ IF device = "justfloat" THEN channels' = NoConfig /\ generator' = NoConfig
       ELSE UNCHANGED <<channels, generator>>
    /\ UNCHANGED <<running, encoding, counter>>

\* _apply_encoding makes a new generator.
ApplyEncoding(i) ==
    /\ encoding' = [index |-> i, pending |-> i, display |-> i, codec |-> i]
    /\ generator' = InEncoding(i) /\ counter' = 0
    /\ UNCHANGED <<running, paused, resetting, configured, channels>>

Key ==
    /\ pc = "keys" /\ todo # <<>> /\ todo' = Tail(todo)
    /\ LET k == Head(todo)[1]
       IN  CASE k = "p" -> TogglePause
             [] k = "c" -> /\ running' = FALSE
                           /\ UNCHANGED <<paused, resetting, configured, channels, generator,
                                          encoding, counter>>
             [] k = "r" /\ ~IsText -> ResetToWaiting
             [] k = "e" /\ IsText -> ApplyEncoding((encoding.index % Encodings) + 1)
             [] k = "digit" /\ IsText -> ApplyEncoding(Head(todo)[2])
             [] OTHER -> UNCHANGED <<running, paused, resetting, configured, channels,
                                     generator, encoding, counter>>
    /\ UNCHANGED <<device, pc, keys, wire, buffer, sending, sent, typed, resets>>

\* Faulty: only what has been read already is discarded.
DiscardBuffer == buffer' = <<>> /\ resets' = resets + 1 /\ UNCHANGED wire

\* buffer.clear and reset_input_buffer.
Discard == buffer' = <<>> /\ wire' = <<>> /\ resets' = resets + 1

KeysDone ==
    /\ pc = "keys" /\ todo = <<>>
    /\ IF resetting THEN Discard ELSE UNCHANGED <<buffer, wire, resets>>
    /\ pc' = IF running THEN "read" ELSE "closed"
    /\ UNCHANGED <<device, keys, todo, running, paused, resetting, configured, channels,
                   generator, encoding, counter, sending, sent, typed>>

-------------------------------------------------------------------------------
(* The input *)

LineLeaves == UNCHANGED <<keys, todo, running, resetting, encoding, counter, sending, sent,
                          typed, resets, device>>

\* Is this a whole configuration (of the length of a frame)?
IsConfig(s, length) ==
    /\ Len(s) = length /\ s # <<>> /\ \A i \in 1 .. length : s[i] \notin Noise
    /\ s[1].config.length = length
    /\ \A i \in 1 .. length : s[i].config = s[1].config /\ s[i].place = i

Read ==
    /\ pc = "read" /\ device \in {"zobow", "justfloat"}
    /\ IF wire = <<>> THEN pc' = "send" /\ UNCHANGED <<buffer, wire>>
       ELSE pc' = "parse" /\ buffer' = buffer \o wire /\ wire' = <<>>
    /\ UNCHANGED <<paused, configured, channels, generator>> /\ LineLeaves

\* s is a configuration: it replaces the old one.
Apply(s) ==
    LET c == [config |-> s[1].config, at |-> s[1].at]
    IN  channels' = c /\ generator' = c /\ configured' = TRUE /\ paused' = FALSE

Keep == UNCHANGED <<channels, generator, configured, paused>>

Prefix(n) == SubSeq(buffer, 1, n)
After(n) == SubSeq(buffer, n + 1, Len(buffer))

\* Of two frames that arrive together the second stays in the buffer until
\* more is received; the window slides only over the length of a long frame.
ParseZobow ==
    /\ pc = "parse" /\ device = "zobow"
    /\ IF Len(buffer) >= LongLength /\ IsConfig(Prefix(LongLength), LongLength)
       THEN Apply(Prefix(LongLength)) /\ buffer' = After(LongLength) /\ pc' = "send"
       ELSE IF Len(buffer) >= ShortLength /\ IsConfig(Prefix(ShortLength), ShortLength)
       THEN Apply(Prefix(ShortLength)) /\ buffer' = After(ShortLength) /\ pc' = "send"
       ELSE /\ Keep
            /\ IF Len(buffer) < LongLength THEN pc' = "send" /\ UNCHANGED buffer
               ELSE buffer' = Tail(buffer) /\ UNCHANGED pc
    /\ UNCHANGED wire /\ LineLeaves

LineEnds == {i \in 1 .. Len(buffer) :
               buffer[i] \notin Noise /\ buffer[i].place = buffer[i].config.length}

\* Where the line that ends at i holds a read command: bytes that are not ASCII are
\* ignored (errors="ignore"), and strip() removes blanks.
Command(i) ==
    {n \in 1 .. i : /\ \A k \in 1 .. n - 1 : buffer[k] \in Noise /\ buffer[k].dropped
                   /\ IsConfig(SubSeq(buffer, n, i), i - n + 1)}

\* Every complete line is looked at; one that is no read command is dropped.
ParseJustFloat ==
    /\ pc = "parse" /\ device = "justfloat"
    /\ \/ LineEnds = {} /\ pc' = "send" /\ Keep /\ UNCHANGED buffer
       \/ \E i \in LineEnds :
             /\ \A j \in LineEnds : i <= j
             /\ buffer' = After(i) /\ UNCHANGED pc
             /\ \/ Command(i) = {} /\ Keep
                \/ \E n \in Command(i) : Apply(SubSeq(buffer, n, i))
    /\ UNCHANGED wire /\ LineLeaves

\* Data are streamed for what generator is set to, which changes nothing here.
Send ==
    /\ pc = "send" /\ pc' = "loop"
    /\ Keep /\ UNCHANGED <<buffer, wire>> /\ LineLeaves

SendLine ==
    /\ pc = "read" /\ device = "text" /\ pc' = "loop"
    /\ Keep /\ UNCHANGED <<buffer, wire>> /\ LineLeaves

\* What arrives is sent back, even while the script is paused; without
\* input the heart beats, and only a beat advances the counter.
Echo ==
    /\ pc = "read" /\ device = "echo" /\ pc' = "loop"
    /\ wire' = <<>>
    /\ counter' = IF wire = <<>> /\ ~paused /\ counter = 0 THEN 1 % BeatEvery ELSE counter
    /\ UNCHANGED <<device, keys, todo, running, paused, resetting, configured, channels,
                   generator, encoding, buffer, sending, sent, typed, resets>>

-------------------------------------------------------------------------------
(* The host *)

HostLeaves == UNCHANGED <<device, loopVars, configured, channels, generator, encoding, counter,
                          buffer, typed, resets>>

SendConfig(c) ==
    /\ pc # "closed" /\ sending = <<>> /\ sent.frames < MaxFrames
    /\ sent' = [sent EXCEPT !.frames = @ + 1]
    /\ sending' = [i \in 1 .. c.length |-> [config |-> c, place |-> i, at |-> 0]]
    /\ UNCHANGED wire /\ HostLeaves

Arrive ==
    /\ sending # <<>> /\ pc # "closed"
    /\ wire' = Append(wire, [Head(sending) EXCEPT !.at = resets])
    /\ sending' = Tail(sending)
    /\ UNCHANGED sent /\ HostLeaves

SendNoise ==
    /\ pc # "closed" /\ sending = <<>> /\ sent.noise < MaxNoise
    /\ sent' = [sent EXCEPT !.noise = @ + 1]
    /\ \E n \in Noise : wire' = Append(wire, n)
    /\ UNCHANGED sending /\ HostLeaves

Next ==
    \/ \E k \in Commands : Type(k)
    \/ Drain \/ Key \/ KeysDone
    \/ Read \/ ParseZobow \/ ParseJustFloat \/ Send \/ SendLine \/ Echo
    \/ \E c \in Configs : SendConfig(c)
    \/ Arrive \/ SendNoise

Spec == Init /\ [][Next]_streamVars

-------------------------------------------------------------------------------
(* Properties *)

\* Nothing that was received before the last reset is streamed: a configured
\* device uses one configuration for its channels and its generator, and none
\* of which a part arrived before that (_reset_to_waiting, run); and text is
\* generated in the encoding that is shown, that is sent in and that the next
\* "e" starts from (_apply_encoding, _cycle_encoding).
StreamsLastSelection ==
    /\ configured => channels.at = resets /\ generator = channels
    /\ IsText => \A part \in DOMAIN encoding : generator = InEncoding(encoding[part])
=================================================================================
