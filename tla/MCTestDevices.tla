----------------------------- MODULE MCTestDevices -----------------------------
(***************************************************************************)
(* Model checking of the devices in test_tools: the Modbus slave, and in   *)
(* the same run the devices that stream data.  They share nothing; tool    *)
(* says which of the two scripts a behaviour is about.                     *)
(***************************************************************************)
EXTENDS ModbusSlave

CONSTANTS
    Devices, ShortLength, LongLength, Configs, Encodings, BeatEvery, MaxConfigs, MaxNoise,
    MaxKeys

VARIABLES
    tool, device, place, keys, drained, active, halted, resetting, configured, channels,
    generator, encoding, counter, wire, input, sending, sent, pressed, resets

Stream == INSTANCE StreamDevice WITH
    MaxFrames <- MaxConfigs, pc <- place, todo <- drained, running <- active,
    paused <- halted, buffer <- input, typed <- pressed

ASSUME StreamConstants == Stream!StreamAssumption

streamState == <<device, place, keys, drained, active, halted, resetting, configured, channels,
                 generator, encoding, counter, wire, input, sending, sent, pressed, resets>>

Ask(unit, fc, address, quantity, values) ==
    [unit |-> unit, valid |-> TRUE, fc |-> fc, wellFormed |-> TRUE, address |-> address,
     quantity |-> quantity, values |-> values]

\* A whole table read and written, a damaged frame, a broadcast, and requests
\* that the device has to refuse or ignore.
MCRequests ==
    {Ask(1, "readHoldingRegisters", 0, 2, <<>>),
     Ask(1, "writeMultipleRegisters", 0, 2, <<3, 2>>),
     [Ask(1, "readCoils", 0, 2, <<>>) EXCEPT !.valid = FALSE],
     Ask(0, "writeSingleCoil", 1, 1, <<1>>),
     Ask(1, "readInputRegisters", 1, 2, <<>>)}

\* A configuration of each length.
MCConfigs == {[name |-> "four", length |-> 2], [name |-> "eight", length |-> 4]}

MCInit ==
    /\ Init /\ Stream!Init
    /\ \/ tool = "slave" /\ device = "text"
       \/ tool = "stream" /\ mode = "tcp"

MCNext ==
    /\ UNCHANGED tool
    /\ \/ tool = "slave" /\ Next /\ UNCHANGED streamState
       \/ tool = "stream" /\ Stream!Next /\ UNCHANGED slaveVars

MCSpec == MCInit /\ [][MCNext]_<<tool, slaveVars, streamState>>

\* Nothing received before the last reset is streamed, and text is generated in
\* the encoding that is shown (StreamDevice).
StreamsLastSelection == Stream!StreamsLastSelection
=================================================================================
