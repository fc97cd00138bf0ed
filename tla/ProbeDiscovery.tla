----------------------------- MODULE ProbeDiscovery -----------------------------
(***************************************************************************)
(* How the pyOCD worker finds CMSIS-DAP probes and names USB devices.      *)
(*                                                                         *)
(* Every VID/PID pair is inspected in a child process per CMSIS-DAP        *)
(* version; an inspection that fails or takes too long finds nothing.      *)
(* What the inspections find is merged, a probe is chosen among it, and    *)
(* the worker itself enumerates that pair once more to open the probe.     *)
(* Only operators: PyocdWorker holds the state.                            *)
(***************************************************************************)
EXTENDS Naturals, Sequences, FiniteSets, SequencesExt

CONSTANTS
    Bus,           \* the USB devices, in the order the backends return them
    NoSerial,      \* the empty serial number
    NoPair,        \* no VID/PID pair
    NoName,        \* the empty product name
    UsbDevice,     \* the name of a device of which nothing is known
    GenericNames   \* names that Windows gives to any device of a class

Modes == {"v1", "v2"}

\* A pair stands for a vendor and product id; 0 for ids that are not both set.
ASSUME BusAssumption ==
    /\ Bus \in Seq([pair : Nat, modes : SUBSET Modes, serial : STRING, name : STRING])
    /\ NoSerial \in STRING /\ NoPair \notin Nat
    /\ {NoName, UsbDevice} \subseteq STRING
    /\ NoName \in GenericNames /\ GenericNames \subseteq STRING

Devices == DOMAIN Bus
Pairs == {Bus[i].pair : i \in Devices}

\* The numbers of S in increasing order.
InOrder(S) ==
    [k \in 1 .. Cardinality(S) |->
        CHOOSE i \in S : Cardinality({j \in S : j < i}) = k - 1]

\* _usb_pairs: the ids alone, sorted.
UsbPairs == InOrder(Pairs)

-------------------------------------------------------------------------------
(* Probes; "Faulty:" marks a wrong variant that no specification uses *)

Versions(version) == IF version = "automatic" THEN <<"v2", "v1">> ELSE <<version>>

\* Faulty: the pair the user selected is not taken into account.
InspectAll(version, pair) ==
    LET modes == Versions(version)
    IN  FlattenSeq([i \in DOMAIN UsbPairs |->
                       [j \in DOMAIN modes |-> <<UsbPairs[i], modes[j]>>]])

\* Which inspections are made: all pairs, or the pair the user selected.
InspectRequests(version, pair) ==
    LET pairs == IF pair = NoPair THEN UsbPairs ELSE <<pair>>
        modes == Versions(version)
    IN  FlattenSeq([i \in DOMAIN pairs |-> [j \in DOMAIN modes |-> <<pairs[i], modes[j]>>]])

\* The interfaces the backends of a mode report when they are restricted to pair.
Interfaces(pair, mode) == {i \in Devices : Bus[i].pair = pair /\ mode \in Bus[i].modes}

InterfaceDescriptor(i, mode) == [id |-> Bus[i].serial, pair |-> Bus[i].pair, mode |-> mode]

\* One child process; it is killed after inspect_timeout.
Inspect(request, failed) ==
    IF request \in failed THEN <<>>
    ELSE LET found == InOrder(Interfaces(request[1], request[2]))
         IN  [k \in DOMAIN found |-> InterfaceDescriptor(found[k], request[2])]

\* All that the inspections found, in the order of the requests.
Descriptors(requests, failed) ==
    FlattenSeq([i \in DOMAIN requests |-> Inspect(requests[i], failed)])

\* A probe with a serial number is one probe, whatever interfaces it has.
DescriptorKey(d) == IF d.id # NoSerial THEN <<d.id>> ELSE <<d.pair, d.mode>>

\* Faulty: a later descriptor always replaces an earlier one.
KeepLast(kept, d) ==
    IF \E i \in DOMAIN kept : DescriptorKey(kept[i]) = DescriptorKey(d)
    THEN [i \in DOMAIN kept |->
             IF DescriptorKey(kept[i]) = DescriptorKey(d) THEN d ELSE kept[i]]
    ELSE Append(kept, d)

\* The entry of a key is replaced, where it stands, by a v2 descriptor only.
Keep(kept, d) ==
    IF \E i \in DOMAIN kept : DescriptorKey(kept[i]) = DescriptorKey(d)
    THEN [i \in DOMAIN kept |->
             IF DescriptorKey(kept[i]) = DescriptorKey(d) /\ d.mode = "v2"
             THEN d ELSE kept[i]]
    ELSE Append(kept, d)

Deduplicated(descriptors) ==
    LET kept[n \in 0 .. Len(descriptors)] ==
            IF n = 0 THEN <<>> ELSE Keep(kept[n - 1], descriptors[n])
    IN  kept[Len(descriptors)]

\* Every outcome of _find_probe_descriptors: what is seen when any inspections fail, and
\* what is made of it.
ProbeScans(version, pair) ==
    LET requests == InspectRequests(version, pair)
    IN  {[kind |-> "probes", seen |-> seen, found |-> Deduplicated(seen)] : seen \in
            {Descriptors(requests, failed) : failed \in SUBSET Range(requests)}}

\* _find_probes: the probe asked for, or else only the first one found.  A serial
\* number is listed once, so this is one descriptor at most.
Chosen(descriptors, id) ==
    IF id # NoSerial THEN {d \in Range(descriptors) : d.id = id}
    ELSE {descriptors[k] : k \in DOMAIN descriptors \cap {1}}

\* _restrict_cmsis_dap_backends wraps the functions it finds, so the pair of the
\* first call in a process is the innermost filter and stays in force.
Restricted(bound, pair) == IF bound = NoPair THEN pair ELSE bound

\* Faulty: every interface of the pair is taken for the probe.
EnumerateAny(d, bound) == Interfaces(Restricted(bound, d.pair), d.mode)

\* The devices the worker itself then finds for descriptor d.
EnumerateTargeted(d, bound) ==
    {i \in Interfaces(Restricted(bound, d.pair), d.mode) :
        d.id = NoSerial \/ Bus[i].serial = d.id}

-------------------------------------------------------------------------------
(* Names of USB devices *)

NamesOf(pair) ==
    LET at == InOrder({i \in Devices : Bus[i].pair = pair})
    IN  [k \in DOMAIN at |-> Bus[at[k]].name]

FirstOutside(names, meaningless, default) ==
    LET at == {k \in DOMAIN names : names[k] \notin meaningless}
    IN  IF at = {} THEN default ELSE names[Min(at)]

\* Windows: the first name that says something, or the first that is not empty.
PreferredName(names) ==
    FirstOutside(names, GenericNames, FirstOutside(names, {NoName}, UsbDevice))

\* The table of plug-and-play devices, which opens no device.
WindowsUsbDevices == [p \in Pairs \ {0} |-> PreferredName(NamesOf(p))]

\* Otherwise a child process per pair reads the names of its devices.
InspectedNames(pair, failed) ==
    IF pair \in failed THEN <<UsbDevice>>
    ELSE LET names == NamesOf(pair)
         IN  [k \in DOMAIN names |-> IF names[k] = NoName THEN UsbDevice ELSE names[k]]

\* A name replaces the one before it as long as that is the placeholder.
InspectedUsbDevices(failed) ==
    [p \in Pairs |-> FirstOutside(InspectedNames(p, failed), {UsbDevice}, UsbDevice)]

\* The names listed, and those that were read.
WindowsScan == [kind |-> "table", names |-> WindowsUsbDevices,
                read |-> [p \in Pairs |-> NamesOf(p)]]
InspectedScan(failed) == [kind |-> "inspected", names |-> InspectedUsbDevices(failed),
                          read |-> [p \in Pairs |-> InspectedNames(p, failed)]]

-------------------------------------------------------------------------------
(* What a discovery promises *)

\* Among the descriptors found, a probe that was seen is listed exactly once, and
\* with its v2 interface if that was seen: pyOCD's preference.
ListedOnce(seen, found) ==
    \A i \in DOMAIN seen :
        LET same == {j \in DOMAIN found : DescriptorKey(found[j]) = DescriptorKey(seen[i])}
        IN  /\ Cardinality(same) = 1
            /\ \A j \in same : /\ found[j] \in Range(seen)
                               /\ seen[i].mode = "v2" => found[j].mode = "v2"

\* A pair is listed under a meaningless name only if nothing better was read of it,
\* and under a name that none of its devices has only if they all have none.
NamedIfPossible(names, read, meaningless) ==
    \A p \in DOMAIN names :
        /\ names[p] \in meaningless => Range(read[p]) \subseteq meaningless
        /\ names[p] \in Range(read[p]) \/ Range(read[p]) \subseteq {NoName}
===============================================================================
