--------------------------- MODULE PyocdWorkerProofs ---------------------------
(***************************************************************************)
(* Proofs about PyocdWorker for any bus, any memory with any forbidden     *)
(* ranges, any requests and any number of polling threads.                 *)
(***************************************************************************)
EXTENDS PyocdWorker, FiniteSetTheorems, WellFoundedInduction, TLAPS

(***************************************************************************)
(* The types the other proofs rest on.  A handle belongs to the probe that *)
(* was asked for from the moment it is made, so its type can say so; and a *)
(* thread of start_hss has a variable from the moment it is started.       *)
(***************************************************************************)
AskedDevice(i, id, pair, earlier) ==
    /\ id # NoSerial => Bus[i].serial = id
    /\ pair # NoPair /\ earlier \in {NoPair, pair} => Bus[i].pair = pair

AskedHandle == {h \in Handle : AskedDevice(h.device, h.asked, h.pair, h.earlier)}

ReadingActivity ==
    {a \in Activity : a.pc # "none" => a.kind = "rtt" \/ a.at \in Accesses}

ThreadTypes ==
    /\ thread \in Threads \cup {NoThread} /\ joining \in Threads \cup {NoThread}
    /\ activity \in [Threads -> ReadingActivity]

ProbeTypes ==
    /\ handles \in Seq(AskedHandle)
    /\ session \in Nat /\ local \in Nat
    /\ config \in Accesses
    /\ rtt \in [session : Nat, at : Accesses \cup {NoAccess}]

BoundType == bound \in Nat \cup {NoPair}

WorkerTypes == request \in Request /\ ThreadTypes /\ ProbeTypes /\ BoundType

(***************************************************************************)
(* OneActivity is not inductive: a request begins a stop only while no     *)
(* other is in progress, the new thread starts when none is current, and   *)
(* connect and disconnect begin with a stop.                               *)
(***************************************************************************)
Connecting ==
    \/ pc \in {"release", "close", "find", "open", "attach"}
    \/ pc = "found" /\ request.command = "connect"

Threading ==
    /\ OneActivity
    /\ pc = "join" \/ Connecting => thread = NoThread
    /\ pc # "join" => joining = NoThread

(***************************************************************************)
(* What a request has made sure of before it waits for the old activity.   *)
(***************************************************************************)
Starting ==
    pc = "join" => /\ request.command = "startHss" => request.at \in Accesses
                   /\ request.command = "startRtt" => rtt # NoRtt

(***************************************************************************)
(* What connect has found is of the pair it was asked for.                 *)
(***************************************************************************)
FoundAsked ==
    pc = "found" /\ request.command = "connect"
        => scan \in ProbeScans(request.version, request.pair)

(***************************************************************************)
(* ResourcesFollowSession in two parts, as it speaks of probes and of      *)
(* threads.  The first needs to know where connect and disconnect hold a   *)
(* probe in their local variable, and that they have no session then.      *)
(***************************************************************************)
ProbesFollowSession ==
    /\ \A n \in DOMAIN handles : handles[n].open => n \in {session, local}
    /\ session # 0 => session \in DOMAIN handles /\ (handles[session].open \/ pc = "exited")
    /\ rtt # NoRtt => rtt = [session |-> session, at |-> config]

ThreadsReadSession ==
    \A t \in Threads \ abandoned : Running(t) => activity[t].session = session

Holding == pc \in {"close", "open", "attach"}

Resources ==
    /\ ProbesFollowSession
    /\ rtt # NoRtt => session # 0
    /\ pc \in {"close", "find", "open", "attach"} => session = 0
    /\ pc = "found" /\ request.command = "connect" => session = 0
    /\ Holding => local \in DOMAIN handles
    /\ ~Holding => local = 0
    /\ pc = "open" => ~handles[local].open
    /\ pc = "attach" => handles[local].open

-------------------------------------------------------------------------------
(* Sequences *)

\* The elements of a sequence over a set.
LEMMA SeqElements ==
  ASSUME NEW S, NEW s \in Seq(S)
  PROVE  /\ Len(s) \in Nat /\ DOMAIN s = 1 .. Len(s)
         /\ s \in [1 .. Len(s) -> S]
         /\ \A n \in DOMAIN s : s[n] \in S
OBVIOUS

\* One element is replaced.
LEMMA SeqUpdate ==
  ASSUME NEW S, NEW s \in Seq(S), NEW n, NEW e, n \in DOMAIN s => e \in S
  PROVE  /\ [s EXCEPT ![n] = e] \in Seq(S)
         /\ DOMAIN [s EXCEPT ![n] = e] = DOMAIN s
         /\ \A m \in DOMAIN s : [s EXCEPT ![n] = e][m] = IF m = n THEN e ELSE s[m]
<1> DEFINE u == [s EXCEPT ![n] = e]
<1>1. \A m \in DOMAIN s : u[m] = IF m = n THEN e ELSE s[m]
  OBVIOUS
<1>2. u \in [1 .. Len(s) -> S]
  BY <1>1, SeqElements
<1>3. u \in Seq(S)
  BY <1>2, SeqElements
<1> QED  BY <1>1, <1>3

\* One element is added at the end.
LEMMA SeqAppend ==
  ASSUME NEW S, NEW s \in Seq(S), NEW e \in S
  PROVE  /\ Append(s, e) \in Seq(S)
         /\ DOMAIN Append(s, e) = DOMAIN s \cup {Len(s) + 1}
         /\ Len(s) + 1 \in Nat \ {0} /\ Len(s) + 1 \notin DOMAIN s
         /\ Append(s, e)[Len(s) + 1] = e
         /\ \A m \in DOMAIN s : Append(s, e)[m] = s[m]
OBVIOUS

\* A sequence over a set is one over a larger set.
LEMMA SeqWider ==
  ASSUME NEW S, NEW T, NEW s \in Seq(S), S \subseteq T
  PROVE  s \in Seq(T)
<1>1. s \in [1 .. Len(s) -> T]
  BY SeqElements
<1> QED  BY <1>1, SeqElements

-------------------------------------------------------------------------------
(* Recursive functions, by the least number at which a statement would fail *)

\* Induction over the numbers of a set.
LEMMA AllNumbers ==
  ASSUME NEW S, S \subseteq Nat, 0 \in S, \A n \in S : n + 1 \in S
  PROVE  S = Nat
<1> SUFFICES ASSUME Nat \ S # {} PROVE FALSE
  OBVIOUS
<1>1. PICK m \in Nat \ S : \A j \in Nat \ S : ~ (<<j, m>> \in OpToRel(<, Nat))
  BY WFMin, NatLessThanWellFounded, Zenon
<1>2. \A j \in Nat \ S : ~ (j < m)
  BY <1>1 DEF OpToRel
<1>3. m # 0 /\ m - 1 \in Nat /\ m - 1 < m
  OBVIOUS
<1>4. m - 1 \in S
  BY <1>2, <1>3
<1> QED
  BY <1>3, <1>4

\* What a set has at 0 and keeps from n to n + 1, up to N, it has up to N.
LEMMA UpTo ==
  ASSUME NEW N \in Nat, NEW S, 0 \in S,
         \A n \in 0 .. N - 1 : n \in S => n + 1 \in S
  PROVE  \A n \in 0 .. N : n \in S
<1> DEFINE T == {n \in Nat : n <= N => n \in S}
<1>1. 0 \in T
  OBVIOUS
<1>2. ASSUME NEW n \in T PROVE n + 1 \in T
  OBVIOUS
<1>3. T = Nat
  <2>1. T \subseteq Nat
    OBVIOUS
  <2> HIDE DEF T
  <2> QED
    BY <1>1, <1>2, <2>1, AllNumbers
<1> QED
  BY <1>3

\* A set of numbers has a least one.
LEMMA LeastBelow ==
  ASSUME NEW S, S \subseteq Nat, S # {}
  PROVE  \E m \in S : \A j \in S : m <= j
<1>1. PICK m \in S : \A j \in S : ~ (<<j, m>> \in OpToRel(<, Nat))
  BY WFMin, NatLessThanWellFounded, Zenon
<1>2. \A j \in S : ~ (j < m)
  BY <1>1 DEF OpToRel
<1> QED
  BY <1>2

LEMMA LeastIn ==
  ASSUME NEW S, S \subseteq Nat, S # {}
  PROVE  Min(S) \in S
BY LeastBelow DEF Min

-------------------------------------------------------------------------------
(* The merge of descriptors *)

Kept(s) ==
    CHOOSE f : f = [n \in 0 .. Len(s) |-> IF n = 0 THEN <<>> ELSE Keep(f[n - 1], s[n])]

\* The recursion of Deduplicated has a solution.
LEMMA KeptSteps ==
  ASSUME NEW D, NEW s \in Seq(D)
  PROVE  /\ Deduplicated(s) = Kept(s)[Len(s)]
         /\ Kept(s)[0] = <<>>
         /\ \A n \in 1 .. Len(s) : Kept(s)[n] = Keep(Kept(s)[n - 1], s[n])
<1> DEFINE Is(f, m) ==
               f = [n \in 0 .. m |-> IF n = 0 THEN <<>> ELSE Keep(f[n - 1], s[n])]
           G == {m \in Nat : \E f : Is(f, m)}
<1>1. 0 \in G
  <2> DEFINE f == [n \in 0 .. 0 |-> <<>>]
  <2>1. Is(f, 0)
    OBVIOUS
  <2> QED
    BY <2>1
<1>2. ASSUME NEW m \in G PROVE m + 1 \in G
  <2>1. PICK f : Is(f, m)
    OBVIOUS
  <2> DEFINE g == [n \in 0 .. m + 1 |-> IF n = m + 1 THEN Keep(f[m], s[m + 1]) ELSE f[n]]
  <2>2. Is(g, m + 1)
    BY <2>1
  <2> QED
    BY <2>2
<1>3. G = Nat
  <2>1. G \subseteq Nat
    OBVIOUS
  <2> HIDE DEF G
  <2> QED
    BY <2>1, <1>1, <1>2, AllNumbers
<1>4. \E f : Is(f, Len(s))
  BY <1>3
<1>5. Is(Kept(s), Len(s))
  BY <1>4 DEF Kept
<1>6. Deduplicated(s) = Kept(s)[Len(s)]
  BY DEF Deduplicated, Kept
<1> QED
  BY <1>5, <1>6

\* What was kept of the first n descriptors of s.
Merged(kept, s, n) ==
    /\ kept \in Seq(Range(s))
    /\ \A a, b \in DOMAIN kept : DescriptorKey(kept[a]) = DescriptorKey(kept[b]) => a = b
    /\ \A i \in 1 .. n : \E a \in DOMAIN kept :
          /\ DescriptorKey(kept[a]) = DescriptorKey(s[i])
          /\ s[i].mode = "v2" => kept[a].mode = "v2"

LEMMA KeepMerges ==
  ASSUME NEW D, NEW s \in Seq(D), NEW n \in 0 .. Len(s) - 1, NEW kept, Merged(kept, s, n)
  PROVE  Merged(Keep(kept, s[n + 1]), s, n + 1)
<1> DEFINE d == s[n + 1]
           Key(x) == DescriptorKey(x)
           new == Keep(kept, d)
<1>0. /\ kept \in Seq(Range(s)) /\ n + 1 \in DOMAIN s /\ d \in Range(s)
      /\ \A a, b \in DOMAIN kept : Key(kept[a]) = Key(kept[b]) => a = b
      /\ \A i \in 1 .. n : \E a \in DOMAIN kept :
            /\ Key(kept[a]) = Key(s[i])
            /\ s[i].mode = "v2" => kept[a].mode = "v2"
  BY DEF Merged, Range
<1> SUFFICES /\ new \in Seq(Range(s))
             /\ \A a, b \in DOMAIN new : Key(new[a]) = Key(new[b]) => a = b
             /\ \A i \in 1 .. n + 1 : \E a \in DOMAIN new :
                   /\ Key(new[a]) = Key(s[i])
                   /\ s[i].mode = "v2" => new[a].mode = "v2"
  BY Zenon DEF Merged
<1>1. CASE \E i \in DOMAIN kept : Key(kept[i]) = Key(d)
  <2>1. new = [i \in DOMAIN kept |-> IF Key(kept[i]) = Key(d) /\ d.mode = "v2" THEN d ELSE kept[i]]
    BY <1>1, Zenon DEF Keep
  <2> HIDE DEF new, Key, d
  <2>2. DOMAIN new = DOMAIN kept /\ \A a \in DOMAIN kept : Key(new[a]) = Key(kept[a])
    BY <2>1
  <2>3. \A a \in DOMAIN kept : kept[a].mode = "v2" => new[a].mode = "v2"
    BY <2>1
  <2>4. new \in Seq(Range(s))
    BY <2>1, <1>0, SeqElements
  <2>5. \E a \in DOMAIN new : /\ Key(new[a]) = Key(d)
                              /\ d.mode = "v2" => new[a].mode = "v2"
    BY <1>1, <2>1, <2>2
  <2>6. \A i \in 1 .. n + 1 : i \in 1 .. n \/ s[i] = d
    BY DEF d
  <2> QED
    BY <2>2, <2>3, <2>4, <2>5, <2>6, <1>0
<1>2. CASE ~ \E i \in DOMAIN kept : Key(kept[i]) = Key(d)
  <2>1. new = Append(kept, d)
    BY <1>2, Zenon DEF Keep
  <2> HIDE DEF new, Key, d
  <2>2. /\ new \in Seq(Range(s)) /\ DOMAIN new = 1 .. Len(kept) + 1
        /\ DOMAIN kept = 1 .. Len(kept) /\ Len(kept) \in Nat
        /\ \A a \in DOMAIN kept : new[a] = kept[a]
        /\ new[Len(kept) + 1] = d
    BY <2>1, <1>0
  <2>3. \A i \in 1 .. n + 1 : i \in 1 .. n \/ s[i] = d
    BY DEF d
  <2>4. \A a \in DOMAIN new : a \in DOMAIN kept \/ a = Len(kept) + 1
    BY <2>2
  <2>5. \A a, b \in DOMAIN new : Key(new[a]) = Key(new[b]) => a = b
    BY <2>2, <2>4, <1>0, <1>2
  <2>6. ASSUME NEW i \in 1 .. n + 1
        PROVE  \E a \in DOMAIN new : /\ Key(new[a]) = Key(s[i])
                                     /\ s[i].mode = "v2" => new[a].mode = "v2"
    <3>1. CASE i \in 1 .. n
      <4>1. PICK a \in DOMAIN kept : /\ Key(kept[a]) = Key(s[i])
                                     /\ s[i].mode = "v2" => kept[a].mode = "v2"
        BY <3>1, <1>0
      <4>2. a \in DOMAIN new /\ new[a] = kept[a]
        BY <2>2
      <4> QED
        BY <4>1, <4>2, Zenon
    <3>2. CASE s[i] = d
      BY <3>2, <2>2
    <3> QED
      BY <3>1, <3>2, <2>3
  <2> QED
    BY <2>2, <2>5, <2>6
<1> QED
  BY <1>1, <1>2

LEMMA DeduplicatedMerges ==
  ASSUME NEW D, NEW s \in Seq(D)
  PROVE  Merged(Deduplicated(s), s, Len(s))
<1> DEFINE S == {n \in 0 .. Len(s) : Merged(Kept(s)[n], s, n)}
<1>0. Len(s) \in Nat /\ DOMAIN s = 1 .. Len(s)
  OBVIOUS
<1>1. 0 \in S
  <2>1. Kept(s)[0] = <<>>
    BY KeptSteps
  <2>2. Merged(<<>>, s, 0)
    BY DEF Merged
  <2> QED
    BY <2>1, <2>2, <1>0
<1>2. ASSUME NEW n \in 0 .. Len(s) - 1, n \in S PROVE n + 1 \in S
  <2>1. Merged(Kept(s)[n], s, n)
    BY <1>2
  <2>2. Merged(Keep(Kept(s)[n], s[n + 1]), s, n + 1)
    BY <2>1, KeepMerges
  <2>3. Kept(s)[n + 1] = Keep(Kept(s)[n], s[n + 1])
    <3>1. n + 1 \in 1 .. Len(s) /\ (n + 1) - 1 = n
      BY <1>0
    <3> QED
      BY <3>1, KeptSteps
  <2> QED
    BY <2>2, <2>3, <1>0
<1>3. Len(s) \in S
  <2>1. Len(s) \in 0 .. Len(s)
    BY <1>0
  <2> HIDE DEF S
  <2> QED
    BY <2>1, <1>0, <1>1, <1>2, UpTo
<1> QED
  BY <1>3, KeptSteps

\* The merge lists every probe that was seen once, with its v2 interface if that was seen.
LEMMA DeduplicatedListsOnce ==
  ASSUME NEW D, NEW s \in Seq(D)
  PROVE  ListedOnce(s, Deduplicated(s))
<1> DEFINE found == Deduplicated(s)
<1>0. DOMAIN s = 1 .. Len(s)
  OBVIOUS
<1>4. Merged(found, s, Len(s))
  BY DeduplicatedMerges
<1> HIDE DEF found
<1> SUFFICES ASSUME NEW i \in DOMAIN s
             PROVE  LET same == {j \in DOMAIN found : DescriptorKey(found[j]) = DescriptorKey(s[i])}
                    IN  /\ Cardinality(same) = 1
                        /\ \A j \in same : /\ found[j] \in Range(s)
                                           /\ s[i].mode = "v2" => found[j].mode = "v2"
  BY DEF ListedOnce, found
<1> DEFINE same == {j \in DOMAIN found : DescriptorKey(found[j]) = DescriptorKey(s[i])}
<1>5. PICK a \in DOMAIN found : /\ DescriptorKey(found[a]) = DescriptorKey(s[i])
                                /\ s[i].mode = "v2" => found[a].mode = "v2"
  BY <1>4, <1>0 DEF Merged
<1>6. same = {a}
  BY <1>4, <1>5 DEF Merged
<1>7. Cardinality(same) = 1
  BY <1>6, FS_Singleton
<1>8. found[a] \in Range(s)
  BY <1>4, SeqElements DEF Merged
<1> QED
  BY <1>5, <1>6, <1>7, <1>8

-------------------------------------------------------------------------------
(* What is seen is of the pair selected, and names are preferred as promised *)

\* A sequence of sequences is flattened into a sequence of their elements.
Joined(a, b) == a \o b

LEMMA FlattenSequences ==
  ASSUME NEW D, NEW s \in Seq(Seq(D))
  PROVE  FlattenSeq(s) \in Seq(D)
<1> DEFINE Is(f, m) == f = [i \in 1 .. m |-> IF i = 1 THEN s[i] ELSE Joined(f[i - 1], s[i])]
           G == {m \in Nat : \E f : Is(f, m)}
           flatten == CHOOSE f : Is(f, Len(s))
           S == {m \in 0 .. Len(s) : m > 0 => flatten[m] \in Seq(D)}
<1>0. Len(s) \in Nat /\ DOMAIN s = 1 .. Len(s) /\ \A i \in 1 .. Len(s) : s[i] \in Seq(D)
  OBVIOUS
<1>1. 0 \in G
  <2> DEFINE f == [i \in 1 .. 0 |-> <<>>]
  <2>1. Is(f, 0)
    OBVIOUS
  <2> QED
    BY <2>1
<1>2. ASSUME NEW m \in G PROVE m + 1 \in G
  <2>1. PICK f : Is(f, m)
    OBVIOUS
  <2> DEFINE g == [i \in 1 .. m + 1 |->
                      IF i = m + 1 THEN IF i = 1 THEN s[i] ELSE Joined(f[m], s[i]) ELSE f[i]]
  <2>2. Is(g, m + 1)
    BY <2>1
  <2>3. m + 1 \in Nat
    OBVIOUS
  <2> HIDE DEF g, Is
  <2>4. \E h : Is(h, m + 1)
    BY <2>2, Zenon
  <2> QED
    BY <2>3, <2>4, Zenon
<1>3. G = Nat
  <2>1. G \subseteq Nat
    OBVIOUS
  <2> HIDE DEF G
  <2> QED
    BY <2>1, <1>1, <1>2, AllNumbers
<1>4. Is(flatten, Len(s))
  <2>1. \E f : Is(f, Len(s))
    BY <1>0, <1>3
  <2> QED
    BY <2>1
<1>5. CASE Len(s) = 0
  BY <1>5 DEF FlattenSeq
<1>6. CASE Len(s) # 0
  <2>1. FlattenSeq(s) = flatten[Len(s)]
    BY <1>6 DEF FlattenSeq, Joined
  <2> HIDE DEF flatten
  <2>2. 0 \in S
    BY <1>0
  <2>3. ASSUME NEW m \in 0 .. Len(s) - 1, m \in S PROVE m + 1 \in S
    <3>1. m + 1 \in 1 .. Len(s) /\ (m + 1) - 1 = m /\ s[m + 1] \in Seq(D)
      BY <1>0
    <3>2. flatten[m + 1] = IF m + 1 = 1 THEN s[m + 1] ELSE Joined(flatten[m], s[m + 1])
      BY <1>4, <3>1
    <3>3. flatten[m + 1] \in Seq(D)
      BY <2>3, <3>1, <3>2 DEF Joined
    <3> QED
      BY <3>1, <3>3, <1>0
  <2>4. Len(s) \in S
    <3>1. Len(s) \in 0 .. Len(s)
      BY <1>0
    <3> HIDE DEF S
    <3> QED
      BY <3>1, <1>0, <2>2, <2>3, UpTo
  <2> QED
    BY <2>1, <2>4, <1>6, <1>0
<1> QED
  BY <1>5, <1>6

\* The places of a finite set of numbers in order are 1, 2, ..., its size.
LEMMA OrderedPlaces ==
  ASSUME NEW S, IsFiniteSet(S)
  PROVE  /\ Cardinality(S) \in Nat /\ DOMAIN InOrder(S) = 1 .. Cardinality(S)
<1>1. Cardinality(S) \in Nat
  BY FS_CardinalityType
<1>2. DOMAIN InOrder(S) = 1 .. Cardinality(S)
  BY DEF InOrder
<1> QED
  BY <1>1, <1>2

LEMMA BusPairs == \A i \in Devices : Bus[i].pair \in Nat
<1> DEFINE R == [pair : Nat, modes : SUBSET Modes, serial : STRING, name : STRING]
<1>1. \A r \in R : r.pair \in Nat
  OBVIOUS
<1>2. Bus \in Seq(R)
  BY BusAssumption
<1> HIDE DEF R
<1>3. \A i \in Devices : Bus[i] \in R
  BY <1>2, SeqElements DEF Devices
<1> QED  BY <1>1, <1>3

LEMMA FiniteBus == IsFiniteSet(Devices) /\ IsFiniteSet(Pairs)
<1>1. Len(Bus) \in Nat /\ Devices = 1 .. Len(Bus)
  BY BusAssumption, SeqElements DEF Devices
<1>2. IsFiniteSet(Devices)
  BY <1>1, FS_Interval
<1>3. [i \in Devices |-> Bus[i].pair] \in Surjection(Devices, Pairs)
  BY DEF Surjection, Pairs
<1> QED
  BY <1>2, <1>3, FS_Surjection

\* Every number of a finite set stands at the place that its predecessors leave.
LEMMA OrderedMembers ==
  ASSUME NEW S, IsFiniteSet(S), S \subseteq Nat
  PROVE  InOrder(S) \in Seq(S)
<1> DEFINE Below(i) == {j \in S : j < i}
           N == Cardinality(S)
           Filled(n) == \E i \in S : Cardinality(Below(i)) = n
           T == {n \in Nat : n < N => Filled(n)}
<1>1. N \in Nat
  BY FS_CardinalityType
<1>2. \A i \in S : IsFiniteSet(Below(i))
  BY FS_Subset
<1>3. \A i, j \in S : j \in Below(i) <=> j < i
  OBVIOUS
<1>4. \A i \in S : Below(i) \subseteq S
  OBVIOUS
<1>5. InOrder(S) = [k \in 1 .. N |-> CHOOSE i \in S : Cardinality(Below(i)) = k - 1]
  BY DEF InOrder
<1> HIDE DEF Below, N
<1>6. N > 0 => Filled(0)
  <2> SUFFICES ASSUME N > 0 PROVE Filled(0)
    OBVIOUS
  <2>1. S # {}
    BY FS_EmptySet DEF N
  <2>2. PICK i \in S : \A j \in S : i <= j
    BY <2>1, LeastBelow
  <2>3. Below(i) = {}
    <3> SUFFICES ASSUME NEW j \in Below(i) PROVE FALSE
      OBVIOUS
    <3>1. j \in S /\ i \in Nat /\ j \in Nat
      BY <1>4
    <3>2. j < i /\ i <= j
      BY <1>3, <2>2, <3>1
    <3> QED  BY <3>1, <3>2
  <2>4. Cardinality(Below(i)) = 0
    BY <2>3, FS_EmptySet
  <2> QED  BY <2>4
<1>7. ASSUME NEW n \in Nat, n + 1 < N, Filled(n) PROVE Filled(n + 1)
  <2>1. PICK i \in S : Cardinality(Below(i)) = n
    BY <1>7
  <2> DEFINE upto == Below(i) \cup {i}
  <2>2. i \notin Below(i)
    BY <1>3
  <2>3. Cardinality(upto) = n + 1
    BY <1>2, <2>1, <2>2, FS_AddElement
  <2>4. S \ upto # {}
    <3>1. S # upto
      BY <1>7, <1>1, <2>3 DEF N
    <3> QED  BY <1>4, <3>1
  <2>5. PICK k \in S \ upto : \A j \in S \ upto : k <= j
    <3>1. S \ upto \subseteq Nat
      OBVIOUS
    <3> HIDE DEF upto
    <3> QED  BY <2>4, <3>1, LeastBelow
  <2>6. ASSUME NEW j \in S PROVE j \in Below(k) <=> j \in upto
    <3>1. i \in Nat /\ j \in Nat /\ k \in Nat /\ i < k
      BY <1>3, <2>5
    <3>2. j \in Below(i) <=> j < i
      BY <1>3
    <3>3. j \in Below(k) <=> j < k
      BY <1>3, <2>5
    <3>4. j \notin upto => k <= j
      BY <2>5
    <3> QED  BY <3>1, <3>2, <3>3, <3>4
  <2>7. Below(k) = upto
    BY <1>4, <2>5, <2>6
  <2>8. Cardinality(Below(k)) = n + 1
    BY <2>3, <2>7
  <2> QED  BY <2>5, <2>8
<1> HIDE DEF Filled
<1>8. 0 \in T
  BY <1>6
<1>9. ASSUME NEW n \in T PROVE n + 1 \in T
  BY <1>1, <1>7, <1>9
<1>10. T = Nat
  <2>1. T \subseteq Nat
    OBVIOUS
  <2> HIDE DEF T
  <2> QED  BY <1>8, <1>9, <2>1, AllNumbers
<1>11. ASSUME NEW k \in 1 .. N
       PROVE  (CHOOSE i \in S : Cardinality(Below(i)) = k - 1) \in S
  <2>1. k - 1 \in T /\ k - 1 < N
    BY <1>1, <1>10
  <2>2. Filled(k - 1)
    BY <2>1
  <2> QED  BY <2>2 DEF Filled
<1>12. InOrder(S) \in [1 .. N -> S]
  BY <1>5, <1>11
<1> QED  BY <1>1, <1>12

\* The inspections are of all pairs, or of the pair selected.
AskedPairs(pair) == IF pair = NoPair THEN Pairs ELSE {pair}
AskedModes(version) == Range(Versions(version))

LEMMA RequestsOfPair ==
  ASSUME NEW version, NEW pair
  PROVE  InspectRequests(version, pair) \in Seq(AskedPairs(pair) \X AskedModes(version))
<1> DEFINE D == AskedPairs(pair) \X AskedModes(version)
           pairs == IF pair = NoPair THEN UsbPairs ELSE <<pair>>
           modes == Versions(version)
           At(i) == [j \in DOMAIN modes |-> <<pairs[i], modes[j]>>]
           all == [i \in DOMAIN pairs |-> At(i)]
<1>1. pairs \in Seq(AskedPairs(pair))
  <2>1. Pairs \subseteq Nat
    BY BusPairs DEF Pairs
  <2>2. UsbPairs \in Seq(Pairs)
    BY <2>1, FiniteBus, OrderedMembers DEF UsbPairs
  <2> QED  BY <2>2 DEF AskedPairs
<1>2. modes \in Seq(AskedModes(version))
  <2>1. modes = <<"v2", "v1">> \/ modes = <<version>>
    BY DEF Versions
  <2> QED  BY <2>1 DEF AskedModes, Range
<1> HIDE DEF pairs, modes
<1>3. ASSUME NEW i \in DOMAIN pairs PROVE At(i) \in Seq(D)
  <2>1. pairs[i] \in AskedPairs(pair)
    BY <1>1, SeqElements
  <2>2. Len(modes) \in Nat /\ DOMAIN modes = 1 .. Len(modes)
        /\ \A j \in DOMAIN modes : modes[j] \in AskedModes(version)
    BY <1>2, SeqElements
  <2> QED  BY <2>1, <2>2
<1>4. all \in Seq(Seq(D))
  <2>1. Len(pairs) \in Nat /\ DOMAIN pairs = 1 .. Len(pairs)
    BY <1>1, SeqElements
  <2> HIDE DEF At, D
  <2> QED  BY <1>3, <2>1
<1>5. InspectRequests(version, pair) = FlattenSeq(all)
  BY DEF InspectRequests, pairs, modes
<1> HIDE DEF all, D
<1>6. FlattenSeq(all) \in Seq(D)
  BY <1>4, FlattenSequences
<1> QED  BY <1>5, <1>6 DEF D

\* Whatever is inspected and whatever fails, what was seen is a sequence of
\* descriptors of devices, of the pair selected if there is one.
SeenOf(version, pair) ==
    {InterfaceDescriptor(i, m) : i \in {i \in Devices : pair # NoPair => Bus[i].pair = pair},
                                 m \in AskedModes(version)}

LEMMA SeenOfPair ==
  ASSUME NEW version, NEW pair, NEW failed
  PROVE  Descriptors(InspectRequests(version, pair), failed) \in Seq(SeenOf(version, pair))
<1> DEFINE D == SeenOf(version, pair)
           requested == InspectRequests(version, pair)
           all == [i \in DOMAIN requested |-> Inspect(requested[i], failed)]
<1>1. ASSUME NEW p \in AskedPairs(pair), NEW m \in AskedModes(version)
      PROVE  Inspect(<<p, m>>, failed) \in Seq(D)
  <2> DEFINE S == Interfaces(p, m)
             found == InOrder(S)
             descriptors == [k \in DOMAIN found |-> InterfaceDescriptor(found[k], m)]
  <2>1. S \subseteq Devices /\ \A i \in S : Bus[i].pair = p
    BY DEF Interfaces
  <2>2. IsFiniteSet(S) /\ S \subseteq Nat
    <3>1. Devices \subseteq Nat
      BY BusAssumption DEF Devices
    <3> QED  BY <2>1, <3>1, FiniteBus, FS_Subset
  <2>3. found \in Seq(S)
    BY <2>2, OrderedMembers
  <2> HIDE DEF S, found
  <2>4. ASSUME NEW i \in S PROVE InterfaceDescriptor(i, m) \in D
    BY <2>1 DEF SeenOf, AskedPairs
  <2>5. descriptors \in Seq(D)
    <3>1. Len(found) \in Nat /\ DOMAIN found = 1 .. Len(found)
          /\ \A k \in DOMAIN found : found[k] \in S
      BY <2>3, SeqElements
    <3>2. \A k \in DOMAIN found : InterfaceDescriptor(found[k], m) \in D
      BY <2>4, <3>1
    <3> HIDE DEF D
    <3> QED  BY <3>1, <3>2
  <2>6. Inspect(<<p, m>>, failed) = <<>> \/ Inspect(<<p, m>>, failed) = descriptors
    BY DEF Inspect, S, found
  <2>7. <<>> \in Seq(D)
    OBVIOUS
  <2> HIDE DEF descriptors, D
  <2> QED  BY <2>5, <2>6, <2>7, Zenon
<1>2. requested \in Seq(AskedPairs(pair) \X AskedModes(version))
  BY RequestsOfPair
<1> HIDE DEF requested, D
<1>3. ASSUME NEW i \in DOMAIN requested PROVE Inspect(requested[i], failed) \in Seq(D)
  <2>1. PICK p \in AskedPairs(pair), m \in AskedModes(version) : requested[i] = <<p, m>>
    BY <1>2, SeqElements
  <2> QED  BY <1>1, <2>1
<1>4. all \in Seq(Seq(D))
  <2>1. Len(requested) \in Nat /\ DOMAIN requested = 1 .. Len(requested)
    BY <1>2, SeqElements
  <2> QED  BY <1>3, <2>1
<1>5. Descriptors(InspectRequests(version, pair), failed) = FlattenSeq(all)
  BY DEF Descriptors, requested
<1> HIDE DEF all
<1>6. FlattenSeq(all) \in Seq(D)
  BY <1>4, FlattenSequences
<1> QED  BY <1>5, <1>6 DEF D

\* Any outcome of a discovery, and what it finds.
LEMMA ScanOfPair ==
  ASSUME NEW version, NEW pair, NEW s \in ProbeScans(version, pair)
  PROVE  /\ s.seen \in Seq(SeenOf(version, pair))
         /\ s.found = Deduplicated(s.seen)
         /\ s.found \in Seq(SeenOf(version, pair))
<1>1. PICK failed :
        s = [kind |-> "probes", seen |-> Descriptors(InspectRequests(version, pair), failed),
             found |-> Deduplicated(Descriptors(InspectRequests(version, pair), failed))]
  BY DEF ProbeScans
<1>2. s.seen = Descriptors(InspectRequests(version, pair), failed)
  BY <1>1
<1>3. s.found = Deduplicated(s.seen)
  BY <1>1, <1>2
<1>4. s.seen \in Seq(SeenOf(version, pair))
  BY <1>2, SeenOfPair
<1>5. s.found \in Seq(Range(s.seen))
  BY <1>3, <1>4, DeduplicatedMerges DEF Merged
<1>6. Range(s.seen) \subseteq SeenOf(version, pair)
  BY <1>4, SeqElements DEF Range
<1>7. s.found \in Seq(SeenOf(version, pair))
  BY <1>5, <1>6, SeqWider
<1> QED
  BY <1>3, <1>4, <1>7

\* The first name outside S is one; without any, the default stands.
LEMMA FirstIsOutside ==
  ASSUME NEW names, DOMAIN names \subseteq Nat, NEW S, NEW default
  PROVE  \/ /\ FirstOutside(names, S, default) = default
            /\ Range(names) \subseteq S
         \/ FirstOutside(names, S, default) \in Range(names) \ S
<1> DEFINE at == {k \in DOMAIN names : names[k] \notin S}
<1>1. CASE at = {}
  BY <1>1 DEF FirstOutside, Range
<1>2. CASE at # {}
  <2>1. Min(at) \in at
    <3>1. at \subseteq Nat
      OBVIOUS
    <3> HIDE DEF at
    <3> QED
      BY <1>2, <3>1, LeastIn
  <2>2. FirstOutside(names, S, default) = names[Min(at)]
    BY <1>2 DEF FirstOutside
  <2> QED
    BY <2>1, <2>2 DEF Range
<1> QED
  BY <1>1, <1>2

\* The names of a pair stand at numbers, and a pair on the bus has one at least.
LEMMA NamesOfPair ==
  ASSUME NEW p
  PROVE  DOMAIN NamesOf(p) \subseteq Nat /\ (p \in Pairs => DOMAIN NamesOf(p) # {})
<1> DEFINE S == {i \in Devices : Bus[i].pair = p}
<1>1. IsFiniteSet(S)
  BY FiniteBus, FS_Subset
<1>2. DOMAIN NamesOf(p) = 1 .. Cardinality(S) /\ Cardinality(S) \in Nat
  BY <1>1, OrderedPlaces DEF NamesOf
<1>3. p \in Pairs => S # {}
  BY DEF Pairs
<1>4. S # {} => Cardinality(S) # 0
  BY <1>1, FS_EmptySet
<1> HIDE DEF S
<1> QED
  BY <1>2, <1>3, <1>4

LEMMA TableNamesIfPossible ==
  NamedIfPossible(WindowsScan.names, WindowsScan.read, GenericNames)
<1> DEFINE names == WindowsUsbDevices
           read == [p \in Pairs |-> NamesOf(p)]
<1>1. WindowsScan.names = names /\ WindowsScan.read = read
  BY DEF WindowsScan
<1> SUFFICES ASSUME NEW p \in DOMAIN names
             PROVE  /\ names[p] \in GenericNames => Range(read[p]) \subseteq GenericNames
                    /\ names[p] \in Range(read[p]) \/ Range(read[p]) \subseteq {NoName}
  BY <1>1, Zenon DEF NamedIfPossible
<1> DEFINE of == NamesOf(p)
           some == FirstOutside(of, {NoName}, UsbDevice)
<1>2. p \in Pairs /\ names[p] = FirstOutside(of, GenericNames, some) /\ read[p] = of
  BY DEF WindowsUsbDevices, PreferredName
<1>3. DOMAIN of \subseteq Nat
  BY NamesOfPair
<1> HIDE DEF names, read, of
<1>4. \/ some = UsbDevice /\ Range(of) \subseteq {NoName}
      \/ some \in Range(of) \ {NoName}
  BY <1>3, FirstIsOutside
<1> HIDE DEF some
<1>5. \/ names[p] = some /\ Range(of) \subseteq GenericNames
      \/ names[p] \in Range(of) \ GenericNames
  BY <1>2, <1>3, FirstIsOutside
<1> QED
  BY <1>2, <1>4, <1>5

LEMMA InspectedNamesIfPossible ==
  ASSUME NEW failed
  PROVE  NamedIfPossible(InspectedScan(failed).names, InspectedScan(failed).read, {UsbDevice})
<1> DEFINE names == InspectedUsbDevices(failed)
           read == [p \in Pairs |-> InspectedNames(p, failed)]
<1>1. InspectedScan(failed).names = names /\ InspectedScan(failed).read = read
  BY DEF InspectedScan
<1> SUFFICES ASSUME NEW p \in DOMAIN names
             PROVE  /\ names[p] \in {UsbDevice} => Range(read[p]) \subseteq {UsbDevice}
                    /\ names[p] \in Range(read[p]) \/ Range(read[p]) \subseteq {NoName}
  BY <1>1, Zenon DEF NamedIfPossible
<1> DEFINE of == InspectedNames(p, failed)
<1>2. p \in Pairs /\ names[p] = FirstOutside(of, {UsbDevice}, UsbDevice) /\ read[p] = of
  BY DEF InspectedUsbDevices
<1>3. DOMAIN of \subseteq Nat /\ DOMAIN of # {}
  BY <1>2, NamesOfPair DEF InspectedNames
<1> HIDE DEF names, read, of
<1>4. \/ names[p] = UsbDevice /\ Range(of) \subseteq {UsbDevice}
      \/ names[p] \in Range(of) \ {UsbDevice}
  BY <1>2, <1>3, FirstIsOutside
<1>5. Range(of) # {}
  BY <1>3 DEF Range
<1> QED
  BY <1>2, <1>4, <1>5

\* At most one probe is chosen: a serial number is listed once.
LEMMA ChosenIsOne ==
  ASSUME NEW D, NEW s \in Seq(D), NEW id
  PROVE  \A d, e \in Chosen(Deduplicated(s), id) : d = e
<1> DEFINE found == Deduplicated(s)
<1>1. \A a, b \in DOMAIN found : DescriptorKey(found[a]) = DescriptorKey(found[b]) => a = b
  BY DeduplicatedMerges DEF Merged
<1> HIDE DEF found
<1>2. CASE id = NoSerial
  BY <1>2 DEF Chosen, found
<1>3. CASE id # NoSerial
  <2> SUFFICES ASSUME NEW d \in Range(found), NEW e \in Range(found), d.id = id, e.id = id
               PROVE  d = e
    BY <1>3 DEF Chosen, found
  <2>1. DescriptorKey(d) = DescriptorKey(e)
    BY <1>3 DEF DescriptorKey
  <2>2. PICK a \in DOMAIN found : d = found[a]
    BY DEF Range
  <2>3. PICK b \in DOMAIN found : e = found[b]
    BY DEF Range
  <2> QED
    BY <1>1, <2>1, <2>2, <2>3
<1> QED
  BY <1>2, <1>3

-------------------------------------------------------------------------------
(* Handles *)

\* One handle is opened or closed.
LEMMA HandleSet ==
  ASSUME ProbeTypes, NEW k, NEW o \in BOOLEAN
  PROVE  LET h == [handles EXCEPT ![k].open = o]
         IN  /\ h \in Seq(AskedHandle)
             /\ DOMAIN h = DOMAIN handles
             /\ \A m \in DOMAIN handles :
                   h[m].open = IF m = k THEN o ELSE handles[m].open
<1>1. handles \in Seq(AskedHandle)
  BY DEF ProbeTypes
<1> DEFINE e == [handles[k] EXCEPT !.open = o]
           h == [handles EXCEPT ![k] = e]
<1>2. k \in DOMAIN handles => handles[k] \in AskedHandle
  BY <1>1, SeqElements
<1>3. k \in DOMAIN handles => e \in AskedHandle /\ e.open = o
  BY <1>2 DEF AskedHandle, Handle
<1>4. /\ h \in Seq(AskedHandle)
      /\ DOMAIN h = DOMAIN handles
      /\ \A m \in DOMAIN handles : h[m] = IF m = k THEN e ELSE handles[m]
  <2> HIDE DEF e
  <2> QED  BY <1>1, <1>3, SeqUpdate
<1>5. h = [handles EXCEPT ![k].open = o]
  OBVIOUS
<1>6. \A m \in DOMAIN handles : h[m].open = IF m = k THEN o ELSE handles[m].open
  <2> HIDE DEF e, h
  <2> QED  BY <1>3, <1>4
<1> HIDE DEF h
<1> QED  BY <1>4, <1>5, <1>6

\* The end of the process closes every handle.
LEMMA HandlesClosed ==
  ASSUME ProbeTypes
  PROVE  LET h == [n \in DOMAIN handles |-> [handles[n] EXCEPT !.open = FALSE]]
         IN  /\ h \in Seq(AskedHandle)
             /\ DOMAIN h = DOMAIN handles
             /\ \A m \in DOMAIN handles : h[m].open = FALSE
<1>1. handles \in Seq(AskedHandle)
  BY DEF ProbeTypes
<1> DEFINE h == [n \in DOMAIN handles |-> [handles[n] EXCEPT !.open = FALSE]]
<1>2. ASSUME NEW m \in DOMAIN handles
      PROVE  h[m] \in AskedHandle /\ h[m].open = FALSE
  <2>1. handles[m] \in AskedHandle
    BY <1>1, SeqElements
  <2>2. h[m] = [handles[m] EXCEPT !.open = FALSE]
    OBVIOUS
  <2> HIDE DEF h
  <2> QED  BY <2>1, <2>2 DEF AskedHandle, Handle
<1>3. DOMAIN h = DOMAIN handles
  OBVIOUS
<1>4. h = [n \in DOMAIN handles |-> h[n]]
  OBVIOUS
<1> HIDE DEF h
<1>5. h \in [1 .. Len(handles) -> AskedHandle]
  BY <1>1, <1>2, <1>4, SeqElements
<1>6. h \in Seq(AskedHandle)
  BY <1>1, <1>5, SeqElements
<1> QED  BY <1>2, <1>3, <1>6 DEF h

\* A probe is made, closed at first.
LEMMA HandleMade ==
  ASSUME ProbeTypes, BoundType, NEW d \in Devices,
         request.id \in STRING, request.pair \in Nat \cup {NoPair},
         AskedDevice(d, request.id, request.pair, bound)
  PROVE  LET h == Append(handles, Made(d))
         IN  /\ h \in Seq(AskedHandle)
             /\ DOMAIN h = DOMAIN handles \cup {Len(handles) + 1}
             /\ Len(handles) + 1 \in Nat \ {0}
             /\ h[Len(handles) + 1].open = FALSE
             /\ \A m \in DOMAIN handles : h[m].open = handles[m].open
<1>1. handles \in Seq(AskedHandle)
  BY DEF ProbeTypes
<1> DEFINE e == Made(d)
<1>2. e \in AskedHandle /\ e.open = FALSE
  BY DEF AskedHandle, Handle, Made, BoundType
<1> HIDE DEF e
<1>3. /\ Append(handles, e) \in Seq(AskedHandle)
      /\ DOMAIN Append(handles, e) = DOMAIN handles \cup {Len(handles) + 1}
      /\ Len(handles) + 1 \in Nat \ {0} /\ Len(handles) + 1 \notin DOMAIN handles
      /\ Append(handles, e)[Len(handles) + 1] = e
      /\ \A m \in DOMAIN handles : Append(handles, e)[m] = handles[m]
  BY <1>1, <1>2, SeqAppend
<1> QED  BY <1>2, <1>3 DEF e

-------------------------------------------------------------------------------
(* What a step does to the threads *)

\* The threads are left alone, and no stop begins or ends.
ThreadsKept ==
    /\ pc # "join" /\ pc' # "join"
    /\ UNCHANGED <<thread, joining, activity, abandoned>>

\* A stop begins.
StopBegins ==
    /\ pc = "read" /\ pc' = "join"
    /\ SetStop /\ UNCHANGED <<activity, abandoned>>

\* The process ends.
ThreadsEnd ==
    /\ pc # "join" /\ Exit
    /\ UNCHANGED <<thread, joining>>

\* A polling thread ends or goes on.
ThreadGoesOn ==
    \E t \in Threads :
        /\ Running(t) /\ UNCHANGED <<pc, thread, joining>>
        /\ \/ Ended(t)
           \/ /\ \E p \in {"test", "read"} : activity' = [activity EXCEPT ![t].pc = p]
              /\ UNCHANGED abandoned

LEMMA ReceiveThreads ==
  ASSUME NEW r \in Requests,
         \/ Query(r) \/ ListProbes(r) \/ ListUsbDevices(r) \/ Stop(r) \/ Connect(r)
         \/ ConfigureRtt(r) \/ RttMissing(r) \/ ListRttChannels(r) \/ StartRtt(r) \/ StartHss(r)
         \/ WriteDown(r)
  PROVE  ThreadsKept \/ StopBegins
<1>1. CASE Query(r)
  BY <1>1 DEF Query, Read, Answer, threadVars, ThreadsKept
<1>2. CASE ListProbes(r)
  BY <1>2 DEF ListProbes, Read, Answer, threadVars, ThreadsKept
<1>3. CASE ListUsbDevices(r)
  BY <1>3 DEF ListUsbDevices, Read, threadVars, ThreadsKept
<1>4. CASE Stop(r)
  BY <1>4 DEF Stop, Read, BeginStop, StopBegins
<1>5. CASE Connect(r)
  BY <1>5 DEF Connect, Read, BeginStop, Answer, threadVars, StopBegins, ThreadsKept
<1>6. CASE ConfigureRtt(r)
  BY <1>6 DEF ConfigureRtt, Read, Answer, threadVars, ThreadsKept
<1>7. CASE RttMissing(r)
  BY <1>7 DEF RttMissing, Read, Answer, threadVars, ThreadsKept
<1>8. CASE ListRttChannels(r)
  BY <1>8 DEF ListRttChannels, Read, Answer, threadVars, ThreadsKept
<1>9. CASE StartRtt(r)
  BY <1>9 DEF StartRtt, Read, BeginStop, Answer, threadVars, StopBegins, ThreadsKept
<1>10. CASE StartHss(r)
  BY <1>10 DEF StartHss, Read, BeginStop, Answer, threadVars, StopBegins, ThreadsKept
<1>11. CASE WriteDown(r)
  BY <1>11 DEF WriteDown, Read, Answer, threadVars, ThreadsKept
<1> QED  BY <1>1, <1>2, <1>3, <1>4, <1>5, <1>6, <1>7, <1>8, <1>9, <1>10, <1>11

LEMMA AfterDisconnectThreads ==
  ASSUME NEW f, AfterDisconnect(f), pc # "join", UNCHANGED <<thread, joining>>
  PROVE  ThreadsKept \/ ThreadsEnd
BY DEF AfterDisconnect, Go, Answer, ThreadsKept, ThreadsEnd

LEMMA StepThreads ==
  ASSUME Next
  PROVE  \/ ThreadsKept \/ StopBegins \/ ThreadsEnd \/ ThreadGoesOn
         \/ JoinDone \/ JoinTimesOut
<1>1. CASE InputEnds
  BY <1>1 DEF InputEnds, ThreadsEnd
<1>2. CASE Receive /\ ~InputEnds
  BY <1>2, ReceiveThreads DEF Receive
<1>3. CASE Start
  BY <1>3 DEF Start, Go, threadVars, ThreadsKept
<1>4. CASE Release
  BY <1>4, AfterDisconnectThreads DEF Release, Go, ThreadsKept
<1>5. CASE Close
  BY <1>5, AfterDisconnectThreads DEF Close, Answer, ThreadsKept
<1>6. CASE FindDescriptors
  BY <1>6 DEF FindDescriptors, Go, Answer, threadVars, ThreadsKept
<1>7. CASE ReplyList
  BY <1>7 DEF ReplyList, Answer, threadVars, ThreadsKept
<1>8. CASE ChooseProbe
  <2>1. /\ pc = "found" /\ pc' \in {"open", "read"}
        /\ UNCHANGED threadVars
    BY <1>8 DEF ChooseProbe, Go, Answer
  <2> QED  BY <2>1 DEF threadVars, ThreadsKept
<1>9. CASE Open
  BY <1>9 DEF Open, Go, Answer, threadVars, ThreadsKept
<1>10. CASE Attach \/ AttachFails
  BY <1>10 DEF Attach, AttachFails, Answer, threadVars, ThreadsKept
<1>11. CASE Polling
  <2>1. PICK t \in Threads : TestStop(t) \/ ReadTarget(t) \/ ReadFails(t)
    BY <1>11 DEF Polling
  <2>2. CASE TestStop(t)
    BY <2>2 DEF TestStop, Running, ThreadGoesOn
  <2>3. CASE ReadTarget(t)
    BY <2>3 DEF ReadTarget, Running, ThreadGoesOn
  <2>4. CASE ReadFails(t)
    BY <2>4 DEF ReadFails, Running, ThreadGoesOn
  <2> QED  BY <2>1, <2>2, <2>3, <2>4
<1> QED
  BY <1>1, <1>2, <1>3, <1>4, <1>5, <1>6, <1>7, <1>8, <1>9, <1>10, <1>11
  DEF Next, Continue

-------------------------------------------------------------------------------
(* Types *)

LEMMA NotRunningType == NotRunning \in ReadingActivity
BY DEF NotRunning, ReadingActivity, Activity

LEMMA NoRequestType == NoRequest \in Request
BY DEF NoRequest, Request

LEMMA NoRttType == NoRtt \in [session : Nat, at : Accesses \cup {NoAccess}]
BY DEF NoRtt

\* What the parameters of a request are.
LEMMA RequestFields ==
  ASSUME NEW r \in Request
  PROVE  /\ r.command \in {"configureRtt", "startHss", "down"}
               => r.at \in Accesses \cup {NoAccess}
         /\ r.command = "connect" => r.id \in STRING /\ r.pair \in Nat \cup {NoPair}
BY DEF Request

LEMMA ActivitySet ==
  ASSUME activity \in [Threads -> ReadingActivity], NEW t \in Threads,
         NEW p \in {"test", "read"}, Running(t)
  PROVE  LET a == [activity EXCEPT ![t].pc = p]
         IN  /\ a \in [Threads -> ReadingActivity]
             /\ \A u \in Threads : (a[u].pc # "none") => Running(u)
             /\ \A u \in Threads : a[u].session = activity[u].session
<1> DEFINE e == [activity[t] EXCEPT !.pc = p]
           a == [activity EXCEPT ![t] = e]
<1>1. e \in ReadingActivity /\ e.pc = p /\ e.session = activity[t].session
  BY DEF ReadingActivity, Activity, Running
<1>2. \A u \in Threads : a[u] = IF u = t THEN e ELSE activity[u]
  OBVIOUS
<1>3. a \in [Threads -> ReadingActivity]
  <2> HIDE DEF e
  <2> QED  BY <1>1
<1>4. a = [activity EXCEPT ![t].pc = p]
  OBVIOUS
<1> HIDE DEF e, a
<1>5. \A u \in Threads : (a[u].pc # "none") => Running(u)
  BY <1>1, <1>2 DEF Running
<1>6. \A u \in Threads : a[u].session = activity[u].session
  BY <1>1, <1>2
<1> QED  BY <1>3, <1>4, <1>5, <1>6

\* What start_rtt and start_hss begin.
LEMMA SpawnedType ==
  ASSUME WorkerTypes, Starting, pc = "join"
  PROVE  Spawned \in ReadingActivity
<1>1. session \in Nat /\ rtt \in [session : Nat, at : Accesses \cup {NoAccess}]
  BY DEF WorkerTypes, ProbeTypes
<1>2. request.command = "startHss" => request.at \in Accesses
  BY DEF Starting
<1> QED  BY <1>1, <1>2 DEF Spawned, ReadingActivity, Activity

\* The threads keep their types.
LEMMA ThreadTypesStep ==
  ASSUME WorkerTypes, Starting, Next
  PROVE  ThreadTypes'
<1>1. ThreadTypes
  BY DEF WorkerTypes
<1>2. CASE ThreadsKept
  BY <1>1, <1>2 DEF ThreadTypes, ThreadsKept
<1>3. CASE StopBegins
  BY <1>1, <1>3 DEF ThreadTypes, StopBegins, SetStop
<1>4. CASE ThreadsEnd
  BY <1>1, <1>4, NotRunningType DEF ThreadTypes, ThreadsEnd, Exit
<1>5. CASE ThreadGoesOn
  <2>1. PICK t \in Threads :
           /\ Running(t) /\ UNCHANGED <<pc, thread, joining>>
           /\ \/ Ended(t)
              \/ /\ \E p \in {"test", "read"} : activity' = [activity EXCEPT ![t].pc = p]
                 /\ UNCHANGED abandoned
    BY <1>5 DEF ThreadGoesOn
  <2>2. CASE Ended(t)
    BY <1>1, <2>1, <2>2, NotRunningType DEF ThreadTypes, Ended
  <2>3. CASE \E p \in {"test", "read"} : activity' = [activity EXCEPT ![t].pc = p]
    BY <1>1, <2>1, <2>3, ActivitySet DEF ThreadTypes
  <2> QED  BY <2>1, <2>2, <2>3
<1>6. CASE JoinDone
  BY <1>1, <1>6, SpawnedType DEF ThreadTypes, JoinDone
<1>7. CASE JoinTimesOut
  BY <1>1, <1>7 DEF ThreadTypes, JoinTimesOut
<1> QED  BY <1>2, <1>3, <1>4, <1>5, <1>6, <1>7, StepThreads

-------------------------------------------------------------------------------
(* One activity *)

\* connect and disconnect go on from the end of stop_activity.
LEMMA ConnectingStep ==
  ASSUME Next, Connecting'
  PROVE  Connecting \/ (pc = "join" /\ Disconnecting)
<1>1. CASE Receive
  BY <1>1 DEF Receive, InputEnds, Exit, Answer, BeginStop, Query, ListProbes, ListUsbDevices,
     Stop, Connect, ConfigureRtt, RttMissing, ListRttChannels, StartRtt, StartHss, WriteDown,
     Connecting
<1>2. CASE Start \/ JoinDone \/ JoinTimesOut
  BY <1>2 DEF Start, JoinDone, JoinTimesOut, Go, Answer, Connecting
<1>3. CASE Release \/ Close \/ FindDescriptors \/ Open \/ Attach \/ AttachFails
  BY <1>3 DEF Release, Close, FindDescriptors, Open, Attach, AttachFails, Connecting
<1>4. CASE ReplyList \/ ChooseProbe
  BY <1>4 DEF ReplyList, ChooseProbe, Answer, Connecting
<1>5. CASE Polling
  BY <1>5 DEF Polling, TestStop, ReadTarget, ReadFails, Connecting
<1> QED  BY <1>1, <1>2, <1>3, <1>4, <1>5 DEF Next, Continue

LEMMA ThreadingStep ==
  ASSUME WorkerTypes, Threading, Next
  PROVE  Threading'
<1>0. Connecting' => thread = NoThread /\ (Connecting \/ (pc = "join" /\ Disconnecting))
  BY ConnectingStep DEF Threading
<1>1. NoThread \notin Threads
  BY WorkerAssumption
<1>2. activity \in [Threads -> ReadingActivity] /\ joining \in Threads \cup {NoThread}
  BY DEF WorkerTypes, ThreadTypes
<1>3. CASE ThreadsKept
  BY <1>0, <1>3 DEF Threading, OneActivity, Running, ThreadsKept
<1>4. CASE StopBegins
  BY <1>1, <1>4 DEF Threading, OneActivity, Running, StopBegins, SetStop, Connecting
<1>5. CASE ThreadsEnd
  BY <1>5 DEF Threading, OneActivity, Running, ThreadsEnd, Exit, NotRunning, Connecting
<1>6. CASE ThreadGoesOn
  <2>1. PICK t \in Threads :
           /\ Running(t) /\ UNCHANGED <<pc, thread, joining>>
           /\ \/ Ended(t)
              \/ /\ \E p \in {"test", "read"} : activity' = [activity EXCEPT ![t].pc = p]
                 /\ UNCHANGED abandoned
    BY <1>6 DEF ThreadGoesOn
  <2>2. CASE Ended(t)
    BY <1>0, <1>2, <2>1, <2>2 DEF Threading, OneActivity, Running, Ended, NotRunning
  <2>3. CASE /\ \E p \in {"test", "read"} : activity' = [activity EXCEPT ![t].pc = p]
             /\ UNCHANGED abandoned
    <3>1. \A u \in Threads : (activity'[u].pc # "none") => Running(u)
      BY <1>2, <2>1, <2>3, ActivitySet
    <3>2. UNCHANGED <<pc, thread, joining, abandoned>>
      BY <2>1, <2>3
    <3> QED  BY <1>0, <3>1, <3>2 DEF Threading, OneActivity, Running
  <2> QED  BY <2>1, <2>2, <2>3
<1>7. CASE JoinDone
  <2>1. pc = "join" /\ pc' # "join" /\ joining' = NoThread /\ UNCHANGED abandoned
    BY <1>7 DEF JoinDone, Go, Answer
  <2>2. \A t \in Threads : Running(t) => t \in abandoned
    BY <1>1, <1>7, <2>1 DEF Threading, OneActivity, JoinDone, Stopped
  <2>3. \A t \in Threads : (activity'[t].pc # "none") => Running(t) \/ t = thread'
    BY <1>2, <1>7 DEF JoinDone, Running
  <2>4. Connecting' => thread' = NoThread
    BY <1>0, <1>7, <2>1 DEF JoinDone, Disconnecting, Connecting, Answer
  <2> QED  BY <2>1, <2>2, <2>3, <2>4 DEF Threading, OneActivity, Running
<1>8. CASE JoinTimesOut
  BY <1>0, <1>8 DEF Threading, OneActivity, Running, JoinTimesOut, Go, Answer
<1> QED  BY <1>3, <1>4, <1>5, <1>6, <1>7, <1>8, StepThreads

-------------------------------------------------------------------------------
(* The memory that is accessed *)

\* _check_access suffices: an access it lets pass touches no forbidden byte.
LEMMA AccessStaysOut ==
  ASSUME NEW a \in Nat \X Nat, ~Refused(a)
  PROVE  Bytes(a) \cap Protected = {}
<1>1. ASSUME NEW b \in Bytes(a), b \in Protected
      PROVE  FALSE
  <2>1. b \in Nat /\ a[1] <= b /\ b < a[1] + a[2]
    BY DEF Bytes
  <2>2. PICK r \in Forbidden : b \in r[1] .. r[2] - 1
    BY <1>1 DEF Protected
  <2>3. r[1] \in Nat /\ r[2] \in Nat
    BY WorkerAssumption
  <2>4. r[1] <= b /\ b < r[2]
    BY <2>1, <2>2, <2>3
  <2>5. a[1] < r[2] /\ a[1] + a[2] > r[1]
    BY <2>1, <2>3, <2>4
  <2> QED  BY <2>5 DEF Refused
<1> QED  BY <1>1

LEMMA AccessesStayOut ==
  ASSUME NEW S, S \subseteq Accesses, Access(S), StaysOut
  PROVE  StaysOut'
<1>1. \A a \in S : Bytes(a) \cap Protected = {}
  BY AccessStaysOut, WorkerAssumption DEF Access
<1>2. trespassed' = (trespassed \/ \E a \in S : Bytes(a) \cap Protected # {})
  BY DEF Access
<1> QED  BY <1>1, <1>2, Zenon DEF StaysOut

LEMMA LocatedStaysOut ==
  ASSUME NEW S, S \subseteq Accesses, Located(S), StaysOut, config \in Accesses
  PROVE  StaysOut'
<1>1. S \cup {config} \subseteq Accesses
  OBVIOUS
<1>2. Access(S \cup {config}) \/ Access(S)
  BY DEF Located
<1> QED  BY <1>1, <1>2, AccessesStayOut

LEMMA StaysOutStep ==
  ASSUME WorkerTypes, StaysOut, Next
  PROVE  StaysOut'
<1>1. config \in Accesses
  BY DEF WorkerTypes, ProbeTypes
<1>2. CASE UNCHANGED trespassed
  BY <1>2 DEF StaysOut
<1>3. ASSUME NEW r \in Requests, ListRttChannels(r)
      PROVE  StaysOut'
  BY <1>1, <1>3, LocatedStaysOut DEF ListRttChannels
<1>4. ASSUME NEW r \in Requests, StartRtt(r)
      PROVE  StaysOut'
  BY <1>1, <1>4, LocatedStaysOut DEF StartRtt
<1>5. ASSUME NEW r \in Requests, WriteDown(r)
      PROVE  StaysOut'
  <2>1. CASE Located({})
    BY <1>1, <2>1, LocatedStaysOut
  <2>2. CASE r.at # NoAccess /\ Located({r.at})
    <3>1. r.command = "down" /\ r \in Request
      BY <1>5, WorkerAssumption DEF WriteDown
    <3>2. {r.at} \subseteq Accesses
      BY <2>2, <3>1, RequestFields
    <3> QED  BY <1>1, <2>2, <3>2, LocatedStaysOut
  <2> QED  BY <1>5, <2>1, <2>2 DEF WriteDown
<1>6. ASSUME NEW t \in Threads, ReadTarget(t)
      PROVE  StaysOut'
  <2>1. activity[t].kind = "rtt" \/ activity[t].at \in Accesses
    BY <1>6 DEF WorkerTypes, ThreadTypes, ReadingActivity, ReadTarget
  <2>2. PICK a \in IF activity[t].kind = "rtt" THEN Accesses ELSE {activity[t].at} :
           Access({a})
    BY <1>6 DEF ReadTarget
  <2>3. {a} \subseteq Accesses
    BY <2>1, <2>2
  <2> QED  BY <2>2, <2>3, AccessesStayOut
<1>7. CASE Receive
  BY <1>2, <1>3, <1>4, <1>5, <1>7
  DEF Receive, InputEnds, Query, ListProbes, ListUsbDevices, Stop, Connect,
      ConfigureRtt, RttMissing, StartHss
<1>8. CASE Continue
  BY <1>2, <1>8
  DEF Continue, Start, JoinDone, JoinTimesOut, Release, Close, FindDescriptors,
      ReplyList, ChooseProbe, Open, Attach, AttachFails
<1>9. CASE Polling
  BY <1>2, <1>6, <1>9 DEF Polling, TestStop, ReadFails
<1> QED  BY <1>7, <1>8, <1>9 DEF Next

-------------------------------------------------------------------------------
(* The resources *)

ProbeKept == UNCHANGED <<handles, session, local, config, rtt>>

\* The main thread goes on without the resources.
MainGoesOn ==
    /\ pc # "exited" /\ ~Holding /\ ~Holding' /\ pc' # "find"
    /\ pc' = "found" /\ request'.command = "connect" => session = 0

LEMMA ProbeTypesKept ==
  ASSUME ProbeTypes, ProbeKept
  PROVE  ProbeTypes'
BY DEF ProbeTypes, ProbeKept

LEMMA ResourcesKept ==
  ASSUME Resources, ProbeKept, MainGoesOn \/ UNCHANGED <<pc, request>>
  PROVE  Resources'
BY DEF Resources, ProbesFollowSession, Holding, ProbeKept, MainGoesOn

\* The indices of handles.
LEMMA HandleIndex ==
  ASSUME ProbeTypes
  PROVE  0 \notin DOMAIN handles /\ DOMAIN handles \subseteq Nat
<1>1. handles \in Seq(AskedHandle)
  BY DEF ProbeTypes
<1> QED  BY <1>1, SeqElements

\* Requests that leave the resources alone.
LEMMA IdleRequests ==
  ASSUME NEW r \in Requests,
         \/ Query(r) \/ ListProbes(r) \/ ListUsbDevices(r) \/ Stop(r) \/ Connect(r)
         \/ RttMissing(r) \/ StartHss(r)
  PROVE  ProbeKept /\ MainGoesOn
<1>1. ProbeKept
  BY DEF Query, ListProbes, ListUsbDevices, Stop, Connect, RttMissing, StartHss,
         probeVars, ProbeKept
<1>2. CASE ListProbes(r)
  BY <1>1, <1>2 DEF ListProbes, Read, Answer, MainGoesOn, Holding
<1>3. CASE ListUsbDevices(r)
  BY <1>1, <1>3 DEF ListUsbDevices, Read, MainGoesOn, Holding
<1>4. CASE Query(r) \/ Stop(r) \/ Connect(r) \/ RttMissing(r) \/ StartHss(r)
  BY <1>1, <1>4 DEF Query, Stop, Connect, RttMissing, StartHss, Read, Answer, BeginStop,
              MainGoesOn, Holding
<1> QED  BY <1>1, <1>2, <1>3, <1>4

\* Steps that leave the resources alone.
LEMMA IdleSteps ==
  ASSUME Resources,
         \/ Start \/ JoinDone \/ JoinTimesOut \/ FindDescriptors \/ ReplyList \/ Polling
  PROVE  ProbeKept /\ (MainGoesOn \/ UNCHANGED <<pc, request>>)
<1>1. ProbeKept
  BY DEF Start, JoinDone, JoinTimesOut, FindDescriptors, ReplyList, Polling, TestStop,
         ReadTarget, ReadFails, probeVars, ProbeKept
<1>2. CASE Start
  BY <1>1, <1>2 DEF Start, Go, MainGoesOn, Holding
<1>3. CASE JoinDone \/ JoinTimesOut
  BY <1>1, <1>3 DEF JoinDone, JoinTimesOut, Go, Answer, MainGoesOn, Holding
<1>4. CASE FindDescriptors
  BY <1>1, <1>4 DEF FindDescriptors, Go, Answer, MainGoesOn, Holding, Resources
<1>5. CASE ReplyList
  BY <1>1, <1>5 DEF ReplyList, Answer, MainGoesOn, Holding
<1>6. CASE Polling
  BY <1>1, <1>6 DEF Polling, TestStop, ReadTarget, ReadFails
<1> QED  BY <1>1, <1>2, <1>3, <1>4, <1>5, <1>6

\* The control block is forgotten, or found in the session and the configuration.
LEMMA RttResources ==
  ASSUME ProbeTypes, Resources, UNCHANGED <<handles, session, local>>,
         config' \in Accesses, pc = "read", pc' \in {"read", "join"},
         \/ rtt' = NoRtt
         \/ rtt' = [session |-> session, at |-> config'] /\ session # 0
         \/ UNCHANGED <<config, rtt>>
  PROVE  ProbeTypes' /\ Resources'
<1>1. rtt' \in [session : Nat, at : Accesses \cup {NoAccess}]
  BY NoRttType DEF ProbeTypes
<1>2. ProbeTypes'
  BY <1>1 DEF ProbeTypes
<1>3. rtt' # NoRtt => rtt' = [session |-> session', at |-> config'] /\ session' # 0
  BY DEF Resources, ProbesFollowSession
<1>4. Resources'
  BY <1>3 DEF Resources, ProbesFollowSession, Holding
<1> QED  BY <1>2, <1>4

LEMMA RttRequests ==
  ASSUME NEW r \in Requests, ProbeTypes, Resources,
         ConfigureRtt(r) \/ ListRttChannels(r) \/ StartRtt(r) \/ WriteDown(r)
  PROVE  ProbeTypes' /\ Resources'
<1>1. config \in Accesses
  BY DEF ProbeTypes
<1>2. CASE ConfigureRtt(r)
  <2>1. r.at \in Accesses \cup {NoAccess}
    BY <1>2, WorkerAssumption, RequestFields DEF ConfigureRtt
  <2>2. /\ pc = "read" /\ pc' = "read" /\ UNCHANGED <<handles, session, local>>
        /\ config' \in Accesses /\ (rtt' = NoRtt \/ UNCHANGED <<config, rtt>>)
    BY <1>1, <1>2, <2>1 DEF ConfigureRtt, NewConfig, Read, Answer
  <2> QED  BY <2>2, RttResources
<1>3. CASE ListRttChannels(r) \/ StartRtt(r) \/ WriteDown(r)
  <2>1. /\ pc = "read" /\ pc' \in {"read", "join"}
        /\ UNCHANGED <<handles, session, local, config>>
    BY <1>3 DEF ListRttChannels, StartRtt, WriteDown, Read, Answer, BeginStop
  <2>2. \/ session # 0 /\ rtt' = [session |-> session, at |-> config]
        \/ UNCHANGED rtt
    BY <1>3 DEF ListRttChannels, StartRtt, WriteDown, Located
  <2> QED  BY <1>1, <2>1, <2>2, RttResources
<1> QED  BY <1>2, <1>3

\* The process ends.
LEMMA ExitResources ==
  ASSUME ProbeTypes, Exit, config' = config, local' = 0,
         \/ UNCHANGED <<session, rtt>> /\ Resources
         \/ session' = 0 /\ rtt' = NoRtt
  PROVE  ProbeTypes' /\ Resources'
<1>1. /\ handles' \in Seq(AskedHandle)
      /\ DOMAIN handles' = DOMAIN handles
      /\ \A m \in DOMAIN handles : handles'[m].open = FALSE
  BY HandlesClosed DEF Exit
<1>2. ProbeTypes'
  BY <1>1, NoRttType DEF ProbeTypes
<1>3. pc' = "exited"
  BY DEF Exit
<1>4. Resources'
  BY <1>1, <1>3 DEF Resources, ProbesFollowSession, Holding
<1> QED  BY <1>2, <1>4

\* What follows the end of a session.
LEMMA AfterDisconnectResources ==
  ASSUME ProbeTypes, NEW f, AfterDisconnect(f),
         f \in Seq(AskedHandle),
         \A n \in DOMAIN f : ~f[n].open,
         config' = config, local' = 0, session' = 0, rtt' = NoRtt
  PROVE  ProbeTypes' /\ Resources'
<1>1. CASE Exit
  BY <1>1, ExitResources
<1>2. CASE handles' = f /\ pc' \in {"find", "read"}
  <2>1. ProbeTypes'
    BY <1>2, NoRttType DEF ProbeTypes
  <2>2. Resources'
    BY <1>2 DEF Resources, ProbesFollowSession, Holding
  <2> QED  BY <2>1, <2>2
<1> QED  BY <1>1, <1>2 DEF AfterDisconnect, Go, Answer

LEMMA ReleaseResources ==
  ASSUME ProbeTypes, Resources, Release
  PROVE  ProbeTypes' /\ Resources'
<1>1. /\ pc = "release" /\ session' = 0 /\ rtt' = NoRtt /\ local' = session
      /\ config' = config
  BY DEF Release, DropSession
<1>2. \A n \in DOMAIN handles : handles[n].open => n = session
  BY <1>1, HandleIndex DEF Resources, ProbesFollowSession, Holding
<1>3. CASE session = 0
  <2>1. \A n \in DOMAIN handles : ~handles[n].open
    BY <1>2, <1>3, HandleIndex
  <2>2. handles \in Seq(AskedHandle) /\ AfterDisconnect(handles)
    BY <1>3 DEF Release, ProbeTypes
  <2> QED  BY <1>1, <1>3, <2>1, <2>2, AfterDisconnectResources
<1>4. CASE session # 0
  <2>1. pc' = "close" /\ handles' = handles
    BY <1>4 DEF Release, Go
  <2>2. ProbeTypes'
    BY <1>1, <2>1, NoRttType DEF ProbeTypes
  <2>3. session \in DOMAIN handles
    BY <1>4 DEF Resources, ProbesFollowSession
  <2>4. Resources'
    BY <1>1, <1>2, <2>1, <2>3 DEF Resources, ProbesFollowSession, Holding
  <2> QED  BY <2>2, <2>4
<1> QED  BY <1>3, <1>4

\* Where the main thread holds a probe, nothing but that may be open, and once its
\* transport has been closed, nothing is.
LEMMA HoldingResources ==
  ASSUME ProbeTypes, Resources, Holding
  PROVE  /\ session = 0 /\ rtt = NoRtt /\ local \in DOMAIN handles
         /\ \A n \in DOMAIN handles : handles[n].open => n = local
         /\ Closed \in Seq(AskedHandle)
         /\ DOMAIN Closed = DOMAIN handles
         /\ \A n \in DOMAIN Closed : ~Closed[n].open
<1>1. /\ session = 0 /\ rtt = NoRtt /\ local \in DOMAIN handles
      /\ \A n \in DOMAIN handles : handles[n].open => n \in {session, local}
  BY DEF Resources, ProbesFollowSession, Holding
<1>2. \A n \in DOMAIN handles : handles[n].open => n = local
  BY <1>1, HandleIndex
<1>3. /\ Closed \in Seq(AskedHandle)
      /\ DOMAIN Closed = DOMAIN handles
      /\ \A m \in DOMAIN handles :
            Closed[m].open = IF m = local THEN FALSE ELSE handles[m].open
  BY HandleSet DEF Closed
<1> QED  BY <1>1, <1>2, <1>3

\* The command ends without a session.
LEMMA FailedResources ==
  ASSUME NEW f, f \in Seq(AskedHandle),
         \A n \in DOMAIN f : ~f[n].open,
         ProbeTypes, session' = 0, rtt' = NoRtt, local' = 0, config' = config,
         handles' = f, pc' = "read"
  PROVE  ProbeTypes' /\ Resources'
<1>1. ProbeTypes'
  BY NoRttType DEF ProbeTypes
<1>2. Resources'
  BY DEF Resources, ProbesFollowSession, Holding
<1> QED  BY <1>1, <1>2

LEMMA CloseResources ==
  ASSUME ProbeTypes, Resources, Close
  PROVE  ProbeTypes' /\ Resources'
<1>1. Holding
  BY DEF Close, Holding
<1>2. local' = 0 /\ config' = config /\ session' = 0 /\ rtt' = NoRtt
  BY <1>1, HoldingResources DEF Close
<1>3. CASE Answer /\ handles' = Closed
  BY <1>1, <1>2, <1>3, HoldingResources, FailedResources DEF Answer
<1>4. CASE AfterDisconnect(Closed)
  BY <1>1, <1>2, <1>4, HoldingResources, AfterDisconnectResources
<1> QED  BY <1>3, <1>4 DEF Close

LEMMA OpenResources ==
  ASSUME ProbeTypes, Resources, Open
  PROVE  ProbeTypes' /\ Resources'
<1>1. pc = "open" /\ Holding /\ UNCHANGED <<session, config, rtt>>
  BY DEF Open, Holding
<1>2. /\ session = 0 /\ rtt = NoRtt /\ local \in DOMAIN handles
      /\ \A n \in DOMAIN handles : handles[n].open => n = local
      /\ ~handles[local].open
  BY <1>1, HoldingResources DEF Resources
<1>3. CASE Go("attach") /\ UNCHANGED local /\ handles' = [handles EXCEPT ![local].open = TRUE]
  <2>1. /\ handles' \in Seq(AskedHandle)
        /\ DOMAIN handles' = DOMAIN handles
        /\ \A m \in DOMAIN handles :
              handles'[m].open = IF m = local THEN TRUE ELSE handles[m].open
    BY <1>3, HandleSet
  <2>2. ProbeTypes'
    BY <1>1, <1>3, <2>1 DEF ProbeTypes
  <2>3. pc' = "attach" /\ local' = local
    BY <1>3 DEF Go
  <2>4. Resources'
    BY <1>1, <1>2, <2>1, <2>3 DEF Resources, ProbesFollowSession, Holding
  <2> QED  BY <2>2, <2>4
<1>4. CASE Answer /\ local' = 0 /\ UNCHANGED handles
  <2>1. handles \in Seq(AskedHandle) /\ \A n \in DOMAIN handles : ~handles[n].open
    BY <1>2 DEF ProbeTypes
  <2> QED  BY <1>1, <1>2, <1>4, <2>1, FailedResources DEF Answer
<1> QED  BY <1>3, <1>4 DEF Open

LEMMA AttachResources ==
  ASSUME ProbeTypes, Resources, Attach \/ AttachFails
  PROVE  ProbeTypes' /\ Resources'
<1>1. /\ pc = "attach" /\ pc' = "read" /\ Holding /\ local' = 0
      /\ UNCHANGED <<config, rtt>>
  BY DEF Attach, AttachFails, Answer, Holding
<1>2. /\ session = 0 /\ rtt = NoRtt /\ local \in DOMAIN handles
      /\ \A n \in DOMAIN handles : handles[n].open => n = local
      /\ handles[local].open
  BY <1>1, HoldingResources DEF Resources
<1>3. CASE Attach
  <2>1. session' = local /\ UNCHANGED handles
    BY <1>3 DEF Attach
  <2>2. ProbeTypes'
    BY <1>1, <2>1 DEF ProbeTypes
  <2>3. Resources'
    BY <1>1, <1>2, <2>1 DEF Resources, ProbesFollowSession, Holding
  <2> QED  BY <2>2, <2>3
<1>4. CASE AttachFails
  <2>1. session' = 0 /\ rtt' = NoRtt /\ handles' = Closed /\ config' = config
    BY <1>1, <1>2, <1>4 DEF AttachFails
  <2> QED  BY <1>1, <2>1, HoldingResources, FailedResources
<1> QED  BY <1>3, <1>4

\* The descriptor that connect chooses is of the pair it was asked for.
LEMMA ChosenPair ==
  ASSUME FoundAsked, pc = "found", request.command = "connect",
         NEW d \in Chosen(scan.found, request.id)
  PROVE  d.pair \in Nat /\ (request.pair # NoPair => d.pair = request.pair)
<1>1. scan.found \in Seq(SeenOf(request.version, request.pair))
  BY ScanOfPair DEF FoundAsked
<1>2. d \in SeenOf(request.version, request.pair)
  BY <1>1, SeqElements DEF Chosen, Range
<1>3. PICK i \in Devices, m \in AskedModes(request.version) :
           /\ request.pair # NoPair => Bus[i].pair = request.pair
           /\ d = InterfaceDescriptor(i, m)
  BY <1>2 DEF SeenOf
<1>4. Bus[i].pair \in Nat
  BY BusPairs
<1> QED  BY <1>3, <1>4 DEF InterfaceDescriptor

\* The device that is opened is the one asked for.
LEMMA TargetedDevice ==
  ASSUME NEW descriptors, NEW id \in STRING, NEW pair, NEW d \in Chosen(descriptors, id),
         pair # NoPair => d.pair = pair,
         EnumerateTargeted(d, bound) # {}
  PROVE  LET i == Min(EnumerateTargeted(d, bound))
         IN  i \in Devices /\ AskedDevice(i, id, pair, bound)
<1>1. EnumerateTargeted(d, bound) \subseteq Devices /\ Devices \subseteq Nat
  BY BusAssumption DEF EnumerateTargeted, Interfaces, Devices
<1>2. PICK i : i = Min(EnumerateTargeted(d, bound)) /\ i \in EnumerateTargeted(d, bound)
  BY <1>1, LeastIn
<1>3. id # NoSerial => d.id = id
  BY DEF Chosen
<1>4. Bus[i].pair = Restricted(bound, d.pair)
  BY <1>2 DEF EnumerateTargeted, Interfaces
<1>5. id # NoSerial => Bus[i].serial = id
  BY <1>2, <1>3 DEF EnumerateTargeted
<1> QED  BY <1>1, <1>2, <1>4, <1>5 DEF AskedDevice, Restricted

LEMMA ChooseResources ==
  ASSUME WorkerTypes, Resources, FoundAsked, ChooseProbe
  PROVE  ProbeTypes' /\ Resources'
<1>1. /\ pc = "found" /\ request.command = "connect" /\ ProbeTypes
      /\ BoundType /\ request.id \in STRING /\ request.pair \in Nat \cup {NoPair}
      /\ UNCHANGED <<session, config, rtt>>
  BY RequestFields DEF ChooseProbe, WorkerTypes
<1>2. /\ session = 0 /\ rtt = NoRtt /\ local = 0
      /\ \A n \in DOMAIN handles : ~handles[n].open
  BY <1>1, HandleIndex DEF Resources, ProbesFollowSession, Holding
<1>3. CASE UNCHANGED <<handles, local>> /\ Answer
  <2>1. handles \in Seq(AskedHandle)
    BY <1>1 DEF ProbeTypes
  <2> QED  BY <1>1, <1>2, <1>3, <2>1, FailedResources DEF Answer
<1>4. ASSUME NEW d \in Devices, AskedDevice(d, request.id, request.pair, bound),
             handles' = Append(handles, Made(d)),
             local' = Len(handles) + 1, Go("open")
      PROVE  ProbeTypes' /\ Resources'
  <2>1. /\ handles' \in Seq(AskedHandle)
        /\ DOMAIN handles' = DOMAIN handles \cup {local'}
        /\ local' \in Nat \ {0}
        /\ handles'[local'].open = FALSE
        /\ \A m \in DOMAIN handles : handles'[m].open = handles[m].open
    BY <1>1, <1>4, HandleMade
  <2>2. ProbeTypes'
    BY <1>1, <2>1 DEF ProbeTypes
  <2>3. pc' = "open"
    BY <1>4 DEF Go
  <2>4. Resources'
    BY <1>1, <1>2, <2>1, <2>3 DEF Resources, ProbesFollowSession, Holding
  <2> QED  BY <2>2, <2>4
<1>5. CASE Chosen(scan.found, request.id) = {} /\ Answer /\ UNCHANGED <<handles, local>>
  BY <1>3, <1>5
<1>6. ASSUME NEW d \in Chosen(scan.found, request.id),
             EnumerateTargeted(d, bound) # {},
             handles' = Append(handles, Made(Min(EnumerateTargeted(d, bound)))),
             local' = Len(handles) + 1, Go("open")
      PROVE  ProbeTypes' /\ Resources'
  <2>1. request.pair # NoPair => d.pair = request.pair
    BY <1>1, <1>6, ChosenPair
  <2>2. /\ Min(EnumerateTargeted(d, bound)) \in Devices
        /\ AskedDevice(Min(EnumerateTargeted(d, bound)), request.id, request.pair, bound)
    BY <1>1, <1>6, <2>1, TargetedDevice
  <2> QED  BY <1>4, <1>6, <2>2
<1> QED  BY <1>3, <1>5, <1>6, Zenon DEF ChooseProbe

\* Every step of the worker.
LEMMA ResourcesStep ==
  ASSUME WorkerTypes, Resources, FoundAsked, Next
  PROVE  ProbeTypes' /\ Resources'
<1>1. ProbeTypes
  BY DEF WorkerTypes
<1>2. CASE InputEnds
  <2>1. Exit /\ UNCHANGED <<session, local, config, rtt>> /\ local = 0
    BY <1>2 DEF InputEnds, Resources, Holding
  <2> QED  BY <1>1, <2>1, ExitResources
<1>3. CASE Receive /\ ~InputEnds
  <2>1. PICK r \in Requests :
           \/ Query(r) \/ ListProbes(r) \/ ListUsbDevices(r) \/ Stop(r) \/ Connect(r)
           \/ ConfigureRtt(r) \/ RttMissing(r) \/ ListRttChannels(r) \/ StartRtt(r)
           \/ StartHss(r) \/ WriteDown(r)
    BY <1>3 DEF Receive
  <2>2. CASE ConfigureRtt(r) \/ ListRttChannels(r) \/ StartRtt(r) \/ WriteDown(r)
    BY <1>1, <2>2, RttRequests
  <2>3. CASE \/ Query(r) \/ ListProbes(r) \/ ListUsbDevices(r) \/ Stop(r) \/ Connect(r)
             \/ RttMissing(r) \/ StartHss(r)
    BY <1>1, <2>3, IdleRequests, ProbeTypesKept, ResourcesKept
  <2> QED  BY <2>1, <2>2, <2>3
<1>4. CASE Start \/ JoinDone \/ JoinTimesOut \/ FindDescriptors \/ ReplyList \/ Polling
  BY <1>1, <1>4, IdleSteps, ProbeTypesKept, ResourcesKept
<1>5. CASE Release
  BY <1>1, <1>5, ReleaseResources
<1>6. CASE Close
  BY <1>1, <1>6, CloseResources
<1>7. CASE Open
  BY <1>1, <1>7, OpenResources
<1>8. CASE Attach \/ AttachFails
  BY <1>1, <1>8, AttachResources
<1>9. CASE ChooseProbe
  BY <1>9, ChooseResources
<1> QED  BY <1>2, <1>3, <1>4, <1>5, <1>6, <1>7, <1>8, <1>9 DEF Next, Continue

-------------------------------------------------------------------------------
(* The threads and the session *)

\* The session changes only where no thread runs that may still read.
LEMMA SessionStays ==
  ASSUME Threading, Next, NEW t \in Threads \ abandoned, Running(t)
  PROVE  session' = session
<1>1. ~Connecting
  <2> SUFFICES ASSUME Connecting PROVE FALSE
    OBVIOUS
  <2>1. thread = NoThread /\ joining = NoThread
    BY DEF Threading, Connecting
  <2> QED  BY <2>1, WorkerAssumption DEF Threading, OneActivity
<1>2. CASE Receive
  BY <1>2 DEF Receive, InputEnds, Query, ListProbes, ListUsbDevices, Stop, Connect,
     ConfigureRtt, RttMissing, ListRttChannels, StartRtt, StartHss, WriteDown, probeVars
<1>3. CASE Start \/ JoinDone \/ JoinTimesOut \/ ReplyList
  BY <1>3 DEF Start, JoinDone, JoinTimesOut, ReplyList, probeVars
<1>4. CASE \/ Release \/ Close \/ FindDescriptors \/ ChooseProbe \/ Open \/ Attach
           \/ AttachFails
  BY <1>1, <1>4 DEF Connecting, Release, Close, FindDescriptors, ChooseProbe, Open, Attach,
     AttachFails
<1>5. CASE Polling
  BY <1>5 DEF Polling, TestStop, ReadTarget, ReadFails, probeVars
<1> QED  BY <1>2, <1>3, <1>4, <1>5 DEF Next, Continue

LEMMA ThreadsReadSessionStep ==
  ASSUME WorkerTypes, Threading, Starting, Resources, ThreadsReadSession, Next
  PROVE  ThreadsReadSession'
<1>1. activity \in [Threads -> ReadingActivity]
  BY DEF WorkerTypes, ThreadTypes
<1> DEFINE Goes(u) == /\ u \notin abandoned /\ Running(u)
                      /\ activity'[u].session = activity[u].session
           Good(u) == u \notin abandoned' /\ activity'[u].pc # "none"
                        => activity'[u].session = session'
<1>2. ASSUME NEW u \in Threads,
             u \notin abandoned' /\ activity'[u].pc # "none" => Goes(u)
      PROVE  Good(u)
  BY <1>2, SessionStays DEF ThreadsReadSession
<1>3. SUFFICES ASSUME NEW u \in Threads PROVE Good(u)
  BY DEF ThreadsReadSession, Running
<1>4. CASE ThreadsKept
  BY <1>2, <1>4 DEF ThreadsKept, Running
<1>5. CASE StopBegins
  BY <1>2, <1>5 DEF StopBegins, Running
<1>6. CASE ThreadsEnd
  BY <1>6 DEF ThreadsEnd, Exit, NotRunning
<1>7. CASE ThreadGoesOn
  <2>1. PICK t \in Threads :
           /\ Running(t) /\ UNCHANGED <<pc, thread, joining>>
           /\ \/ Ended(t)
              \/ /\ \E p \in {"test", "read"} : activity' = [activity EXCEPT ![t].pc = p]
                 /\ UNCHANGED abandoned
    BY <1>7 DEF ThreadGoesOn
  <2>2. CASE Ended(t)
    BY <1>1, <1>2, <2>2 DEF Ended, NotRunning, Running
  <2>3. CASE /\ \E p \in {"test", "read"} : activity' = [activity EXCEPT ![t].pc = p]
             /\ UNCHANGED abandoned
    BY <1>1, <1>2, <2>1, <2>3, ActivitySet
  <2> QED  BY <2>1, <2>2, <2>3
<1>8. CASE JoinDone
  <2>1. pc = "join" /\ UNCHANGED <<abandoned, session>>
    BY <1>8 DEF JoinDone, probeVars
  <2>2. \A t \in Threads : Running(t) => t \in abandoned
    BY <1>8, <2>1, WorkerAssumption DEF Threading, OneActivity, JoinDone, Stopped
  <2>3. CASE request.command \in {"startRtt", "startHss"}
    <3>1. PICK t \in Threads : activity' = [activity EXCEPT ![t] = Spawned]
      BY <1>8, <2>3 DEF JoinDone
    <3>2. Spawned.session = session
      BY <2>1, <2>3 DEF Spawned, Starting, Resources, ProbesFollowSession
    <3>3. activity'[u] = IF u = t THEN Spawned ELSE activity[u]
      BY <1>1, <3>1
    <3> QED  BY <2>1, <2>2, <3>2, <3>3 DEF Running
  <2>4. CASE request.command \notin {"startRtt", "startHss"}
    BY <1>8, <2>1, <2>2, <2>4 DEF JoinDone, Running
  <2> QED  BY <2>3, <2>4
<1>9. CASE JoinTimesOut
  BY <1>2, <1>9 DEF JoinTimesOut, Running
<1> QED  BY <1>4, <1>5, <1>6, <1>7, <1>8, <1>9, StepThreads

-------------------------------------------------------------------------------
(* The request and the discovery *)

LEMMA StartingStep ==
  ASSUME WorkerTypes, Starting, Next
  PROVE  Starting'
<1>1. CASE UNCHANGED <<pc, request, rtt>> \/ pc' # "join"
  BY <1>1 DEF Starting
<1>2. ASSUME NEW r \in Requests, StartHss(r) PROVE Starting'
  <2>1. r.command = "startHss" /\ r.at \in Accesses \cup {NoAccess}
    BY <1>2, WorkerAssumption, RequestFields DEF StartHss
  <2> QED  BY <1>2, <2>1 DEF Starting, StartHss, BeginStop, Read, Answer
<1>3. ASSUME NEW r \in Requests, StartRtt(r) PROVE Starting'
  <2>1. r.command = "startRtt" /\ rtt' # NoRtt
    BY <1>3 DEF StartRtt, Located, NoRtt
  <2> QED  BY <1>3, <2>1 DEF Starting, StartRtt, BeginStop, Read, Answer
<1>4. CASE Receive
  BY <1>1, <1>2, <1>3, <1>4 DEF Receive, InputEnds, Exit, Answer, BeginStop, Read, Query,
     ListProbes, ListUsbDevices, Stop, Connect, ConfigureRtt, RttMissing, ListRttChannels,
     WriteDown, Starting
<1>5. CASE Continue
  <2>1. pc' # "join"
    BY <1>5 DEF Continue, Start, JoinDone, JoinTimesOut, Release, Close, AfterDisconnect, Exit,
       FindDescriptors, ReplyList, ChooseProbe, Open, Attach, AttachFails, Go, Answer
  <2> QED  BY <1>1, <2>1
<1>6. CASE Polling
  BY <1>1, <1>6 DEF Polling, TestStop, ReadTarget, ReadFails, probeVars
<1> QED  BY <1>4, <1>5, <1>6 DEF Next

LEMMA FoundAskedStep ==
  ASSUME FoundAsked, Next
  PROVE  FoundAsked'
<1>1. CASE UNCHANGED <<pc, request, scan>>
  BY <1>1, Zenon DEF FoundAsked
<1>2. CASE ~(pc' = "found" /\ request'.command = "connect")
  BY <1>2, Zenon DEF FoundAsked
<1>3. CASE FindDescriptors
  BY <1>2, <1>3 DEF FindDescriptors, Go, Answer, FoundAsked
<1>4. CASE Receive
  BY <1>2, <1>4 DEF Receive, InputEnds, Exit, Answer, BeginStop, Query,
     ListProbes, ListUsbDevices, Stop, Connect, ConfigureRtt, RttMissing, ListRttChannels,
     StartRtt, StartHss, WriteDown
<1>5. CASE Continue /\ ~FindDescriptors
  <2>1. pc' # "found"
    BY <1>5 DEF Continue, Start, JoinDone, JoinTimesOut, Release, Close, AfterDisconnect, Exit,
       ReplyList, ChooseProbe, Open, Attach, AttachFails, Go, Answer
  <2> QED  BY <1>2, <2>1
<1>6. CASE Polling
  BY <1>1, <1>6 DEF Polling, TestStop, ReadTarget, ReadFails
<1> QED  BY <1>3, <1>4, <1>5, <1>6 DEF Next

\* The backends are restricted to the pair of the descriptor chosen.
LEMMA BoundStep ==
  ASSUME WorkerTypes, FoundAsked, Next
  PROVE  BoundType'
<1>1. CASE UNCHANGED bound
  BY <1>1 DEF WorkerTypes, BoundType
<1>2. CASE ChooseProbe
  <2>1. ASSUME NEW d \in Chosen(scan.found, request.id), bound' = Restricted(bound, d.pair)
        PROVE  BoundType'
    <3>1. d.pair \in Nat
      BY <1>2, ChosenPair DEF ChooseProbe
    <3> QED  BY <2>1, <3>1 DEF WorkerTypes, BoundType, Restricted
  <2> QED  BY <1>1, <1>2, <2>1 DEF ChooseProbe
<1>3. CASE Receive
  BY <1>1, <1>3 DEF Receive, InputEnds, Query, ListProbes, ListUsbDevices, Stop, Connect,
     ConfigureRtt, RttMissing, ListRttChannels, StartRtt, StartHss, WriteDown, probeVars
<1>4. CASE Continue /\ ~ChooseProbe
  BY <1>1, <1>4 DEF Continue, Start, JoinDone, JoinTimesOut, Release, Close, FindDescriptors,
     ReplyList, Open, Attach, AttachFails, probeVars
<1>5. CASE Polling
  BY <1>1, <1>5 DEF Polling, TestStop, ReadTarget, ReadFails, probeVars
<1> QED  BY <1>2, <1>3, <1>4, <1>5 DEF Next

-------------------------------------------------------------------------------
(* The invariant *)

\* What the main thread executes is always a request of the host, or none.
LEMMA RequestStep ==
  ASSUME WorkerTypes, Next
  PROVE  request' \in Request
<1>1. request \in Request /\ Requests \subseteq Request
  BY WorkerAssumption DEF WorkerTypes
<1>2. CASE UNCHANGED request \/ request' = NoRequest \/ request' \in Requests
  BY <1>1, <1>2, NoRequestType
<1>3. CASE Receive
  BY <1>2, <1>3
  DEF Receive, InputEnds, Exit, Answer, BeginStop, Query, ListProbes, ListUsbDevices,
      Stop, Connect, ConfigureRtt, RttMissing, ListRttChannels, StartRtt, StartHss, WriteDown
<1>4. CASE ChooseProbe
  <2>1. Go("open") \/ Answer
    BY <1>4 DEF ChooseProbe
  <2> QED  BY <1>2, <2>1 DEF Go, Answer
<1>5. CASE Continue /\ ~ChooseProbe
  BY <1>2, <1>5
  DEF Continue, Go, Answer, Exit, AfterDisconnect, Start, JoinDone, JoinTimesOut,
      Release, Close, FindDescriptors, ReplyList, Open, Attach, AttachFails
<1>6. CASE Polling
  BY <1>2, <1>6 DEF Polling, TestStop, ReadTarget, ReadFails
<1> QED  BY <1>3, <1>4, <1>5, <1>6 DEF Next

\* The rest of TypeOK.
PlainTypes ==
    /\ pc \in {"start", "read", "join", "release", "close", "find", "open",
               "attach", "found", "exited"}
    /\ stop \in BOOLEAN /\ requests \in Nat
    /\ abandoned \subseteq Threads /\ trespassed \in BOOLEAN

LEMMA TrespassType ==
  ASSUME NEW S, Access(S)
  PROVE  trespassed' \in BOOLEAN
BY Zenon DEF Access

LEMMA PlainTypesStep ==
  ASSUME PlainTypes, Next
  PROVE  PlainTypes'
<1>1. ASSUME UNCHANGED trespassed \/ \E S : Access(S) PROVE trespassed' \in BOOLEAN
  BY <1>1, TrespassType DEF PlainTypes
<1>2. CASE InputEnds
  BY <1>2 DEF PlainTypes, InputEnds, Exit
<1>3. CASE Receive /\ ~InputEnds
  <2>1. PICK r \in Requests :
           \/ Query(r) \/ ListProbes(r) \/ ListUsbDevices(r) \/ Stop(r) \/ Connect(r)
           \/ ConfigureRtt(r) \/ RttMissing(r) \/ ListRttChannels(r) \/ StartRtt(r)
           \/ StartHss(r) \/ WriteDown(r)
    BY <1>3 DEF Receive
  <2>2. requests' \in Nat
    BY <2>1 DEF PlainTypes, Read, Query, ListProbes, ListUsbDevices, Stop, Connect,
       ConfigureRtt, RttMissing, ListRttChannels, StartRtt, StartHss, WriteDown
  <2>3. pc' \in {"read", "join", "found"} /\ stop' \in BOOLEAN /\ abandoned' = abandoned
    BY <2>1 DEF PlainTypes, Answer, BeginStop, SetStop, threadVars, Query, ListProbes,
       ListUsbDevices, Stop, Connect, ConfigureRtt, RttMissing, ListRttChannels, StartRtt,
       StartHss, WriteDown
  <2>4. UNCHANGED trespassed \/ \E S : Access(S)
    BY <2>1 DEF Located, Query, ListProbes, ListUsbDevices, Stop, Connect, ConfigureRtt,
       RttMissing, ListRttChannels, StartRtt, StartHss, WriteDown
  <2> QED  BY <1>1, <2>2, <2>3, <2>4 DEF PlainTypes
<1>4. CASE Start \/ FindDescriptors \/ ReplyList \/ ChooseProbe \/ Open \/ Attach \/ AttachFails
  <2>1. pc' \in {"read", "exited", "found", "open", "attach"}
    BY <1>4 DEF Start, FindDescriptors, ReplyList, ChooseProbe, Open, Attach, AttachFails,
       Go, Answer
  <2>2. UNCHANGED <<stop, requests, abandoned, trespassed>>
    BY <1>4 DEF Start, FindDescriptors, ReplyList, ChooseProbe, Open, Attach, AttachFails,
       threadVars
  <2> QED  BY <2>1, <2>2 DEF PlainTypes
<1>5. CASE JoinDone \/ JoinTimesOut
  <2>1. /\ pc' \in {"read", "release"} /\ stop' \in BOOLEAN
        /\ UNCHANGED <<requests, trespassed>>
    BY <1>5 DEF PlainTypes, JoinDone, JoinTimesOut, Go, Answer
  <2>2. abandoned' \subseteq Threads
    BY <1>5 DEF PlainTypes, JoinDone, JoinTimesOut, Stopped
  <2> QED  BY <2>1, <2>2 DEF PlainTypes
<1>6. CASE Release \/ Close
  BY <1>6 DEF PlainTypes, Release, Close, AfterDisconnect, Exit, Go, Answer
<1>7. CASE Polling
  <2>1. PICK t \in Threads : TestStop(t) \/ ReadTarget(t) \/ ReadFails(t)
    BY <1>7 DEF Polling
  <2>2. UNCHANGED <<pc, stop, requests>> /\ abandoned' \subseteq Threads
    BY <2>1 DEF PlainTypes, TestStop, ReadTarget, ReadFails, Ended
  <2>3. UNCHANGED trespassed \/ \E S : Access(S)
    BY <2>1 DEF TestStop, ReadTarget, ReadFails
  <2> QED  BY <1>1, <2>2, <2>3 DEF PlainTypes
<1> QED  BY <1>2, <1>3, <1>4, <1>5, <1>6, <1>7 DEF Next, Continue

WorkerInv ==
    /\ WorkerTypes /\ PlainTypes /\ Threading /\ Starting /\ FoundAsked
    /\ Resources /\ ThreadsReadSession /\ StaysOut

LEMMA InitInv == Init => WorkerInv
<1> SUFFICES ASSUME Init PROVE WorkerInv
  OBVIOUS
<1>1. handles = <<>> /\ session = 0 /\ local = 0 /\ rtt = NoRtt /\ pc = "start"
  BY DEF Init
<1>2. handles \in Seq(AskedHandle)
  BY <1>1
<1>3. ProbeTypes
  BY <1>1, <1>2, NoRttType DEF ProbeTypes, Init
<1>4. WorkerTypes
  BY <1>3, NoRequestType, NotRunningType DEF WorkerTypes, ThreadTypes, BoundType, Init
<1>5. Threading /\ Starting /\ FoundAsked /\ ThreadsReadSession
  BY DEF Threading, OneActivity, Running, NotRunning, Connecting, Starting, FoundAsked,
     ThreadsReadSession, Init
<1>6. Resources
  BY <1>1 DEF Resources, ProbesFollowSession, Holding
<1>7. StaysOut
  BY DEF StaysOut, Init
<1>8. PlainTypes
  BY DEF PlainTypes, Init
<1> QED  BY <1>4, <1>5, <1>6, <1>7, <1>8 DEF WorkerInv

LEMMA StutterInv ==
  ASSUME WorkerInv, UNCHANGED vars
  PROVE  WorkerInv'
<1>1. (WorkerTypes /\ PlainTypes /\ StaysOut)'
  BY DEF WorkerInv, WorkerTypes, ThreadTypes, ProbeTypes, BoundType, PlainTypes, StaysOut,
     vars, threadVars, probeVars
<1>2. (Threading /\ Starting /\ ThreadsReadSession)'
  BY DEF WorkerInv, Threading, OneActivity, Running, Connecting, Starting,
     ThreadsReadSession, vars, threadVars, probeVars
<1>3. Resources'
  BY DEF WorkerInv, Resources, ProbesFollowSession, Holding, vars, threadVars, probeVars
<1>4. FoundAsked'
  BY Zenon DEF WorkerInv, FoundAsked, vars
<1> QED  BY <1>1, <1>2, <1>3, <1>4 DEF WorkerInv

LEMMA StepInv == WorkerInv /\ [Next]_vars => WorkerInv'
<1>1. ASSUME WorkerInv, Next PROVE WorkerInv'
  <2>1. WorkerTypes'
    BY <1>1, RequestStep, ThreadTypesStep, ResourcesStep, BoundStep DEF WorkerInv, WorkerTypes
  <2>2. PlainTypes' /\ Threading' /\ Starting' /\ FoundAsked'
    BY <1>1, PlainTypesStep, ThreadingStep, StartingStep, FoundAskedStep DEF WorkerInv
  <2>3. Resources' /\ ThreadsReadSession' /\ StaysOut'
    BY <1>1, ResourcesStep, ThreadsReadSessionStep, StaysOutStep DEF WorkerInv
  <2> QED  BY <2>1, <2>2, <2>3 DEF WorkerInv
<1> QED  BY <1>1, StutterInv

LEMMA WorkerInvariant == Spec => []WorkerInv
BY InitInv, StepInv, PTL DEF Spec

-------------------------------------------------------------------------------
(* The discoveries *)

(***************************************************************************)
(* What scan holds is always the result of some discovery: this, with the  *)
(* lemmas above, is what DiscoverySound rests on.                          *)
(***************************************************************************)
Discovered(s) ==
    \/ s = NoScan
    \/ \E version, pair : s \in ProbeScans(version, pair)
    \/ s \in {WindowsScan} \cup {InspectedScan(failed) : failed \in SUBSET Pairs}

ScanInv == Discovered(scan)

LEMMA ScanStep == ScanInv /\ [Next]_vars => ScanInv'
<1> SUFFICES ASSUME ScanInv, [Next]_vars PROVE Discovered(scan')
  BY DEF ScanInv
<1>1. CASE UNCHANGED scan
  BY <1>1 DEF ScanInv
<1>2. ASSUME NEW version, NEW pair, scan' \in ProbeScans(version, pair)
      PROVE  Discovered(scan')
  BY <1>2, Zenon DEF Discovered
<1>3. ASSUME NEW r \in Requests, ListProbes(r) PROVE Discovered(scan')
  BY <1>1, <1>2, <1>3 DEF ListProbes
<1>4. ASSUME NEW r \in Requests, ListUsbDevices(r) PROVE Discovered(scan')
  BY <1>4, Zenon DEF ListUsbDevices, Discovered
<1>5. CASE FindDescriptors
  BY <1>1, <1>2, <1>5 DEF FindDescriptors
<1>6. CASE ReplyList \/ ChooseProbe
  BY <1>6, Zenon DEF ReplyList, ChooseProbe, Discovered
<1>7. CASE Receive
  BY <1>1, <1>3, <1>4, <1>7
  DEF Receive, InputEnds, Query, Stop, Connect, ConfigureRtt, RttMissing, ListRttChannels,
      StartRtt, StartHss, WriteDown
<1>8. CASE Continue
  BY <1>1, <1>5, <1>6, <1>8
  DEF Continue, Start, JoinDone, JoinTimesOut, Release, Close, Open, Attach, AttachFails
<1>9. CASE Polling
  BY <1>1, <1>9 DEF Polling, TestStop, ReadTarget, ReadFails
<1>10. CASE UNCHANGED vars
  BY <1>1, <1>10 DEF vars
<1> QED
  BY <1>7, <1>8, <1>9, <1>10 DEF Next

LEMMA ScanInvariant == Spec => []ScanInv
<1>1. Init => ScanInv
  BY DEF Init, ScanInv, Discovered
<1> QED
  BY <1>1, ScanStep, PTL DEF Spec

\* The descriptors seen by a discovery of probes.
LEMMA ProbesSeen ==
  ASSUME Discovered(scan), scan.kind = "probes"
  PROVE  scan.found = Deduplicated(scan.seen) /\ \E D : scan.seen \in Seq(D)
<1>1. PICK version, pair : scan \in ProbeScans(version, pair)
  <2>1. scan # NoScan /\ scan # WindowsScan /\ \A failed : scan # InspectedScan(failed)
    BY DEF NoScan, WindowsScan, InspectedScan
  <2> QED
    BY <2>1, Zenon DEF Discovered
<1> QED
  BY <1>1, ScanOfPair

-------------------------------------------------------------------------------
(* The theorems *)

\* Every variable keeps its type.
THEOREM WorkerTypeCorrect == Spec => []TypeOK
<1>1. WorkerInv => TypeOK
  <2>1. AskedHandle \subseteq Handle /\ ReadingActivity \subseteq Activity
    BY DEF AskedHandle, ReadingActivity
  <2> QED  BY <2>1, SeqWider DEF BoundType, WorkerInv, WorkerTypes, ThreadTypes, ProbeTypes, PlainTypes,
              TypeOK
<1> QED  BY <1>1, WorkerInvariant, PTL

\* The probe that connect opens has the serial number that the request asked for, on
\* any bus and under any earlier restriction to a pair, and is of the pair asked for
\* unless the backends are restricted to another one (_find_probes,
\* _enumerate_targeted_probes, _restrict_cmsis_dap_backends).
THEOREM AskedProbeHolds == Spec => []AskedProbe
<1>1. WorkerInv => AskedProbe
  <2> SUFFICES ASSUME WorkerInv, NEW n \in DOMAIN handles
               PROVE  AskedDevice(handles[n].device, handles[n].asked, handles[n].pair,
                                  handles[n].earlier)
    BY DEF AskedProbe, AskedDevice
  <2>1. handles \in Seq(AskedHandle)
    BY DEF WorkerInv, WorkerTypes, ProbeTypes
  <2>2. handles[n] \in AskedHandle
    BY <2>1, SeqElements
  <2> QED  BY <2>2 DEF AskedHandle
<1> QED  BY <1>1, WorkerInvariant, PTL

\* A polling thread that has not been waited for never runs beside a new activity,
\* however many threads hang in a read of the target (start_activity, stop_activity).
THEOREM OneActivityHolds == Spec => []OneActivity
<1>1. WorkerInv => OneActivity
  BY DEF WorkerInv, Threading
<1> QED  BY <1>1, WorkerInvariant, PTL

\* A transport is open only for the session, or for the connect or disconnect in
\* progress; the control block kept for the next requests never outlives its session
\* and configuration; and a thread whose join has not timed out reads from the session
\* (connect, disconnect, configure_rtt, stop_activity).
THEOREM ResourcesFollowSessionHolds == Spec => []ResourcesFollowSession
<1>1. WorkerInv => ResourcesFollowSession
  BY DEF WorkerInv, Resources, ProbesFollowSession, ThreadsReadSession, ResourcesFollowSession
<1> QED  BY <1>1, WorkerInvariant, PTL

\* No forbidden byte is ever accessed, for any forbidden ranges, whatever requests
\* are made and wherever the target's memory points to (_check_access).
THEOREM StaysOutHolds == Spec => []StaysOut
<1>1. WorkerInv => StaysOut
  BY DEF WorkerInv
<1> QED  BY <1>1, WorkerInvariant, PTL

\* Whatever inspections fail, a probe that was seen is listed once, with its v2
\* interface if that was seen, and no pair loses a name that was read for a
\* meaningless one (_find_probe_descriptors, list_usb_devices).
THEOREM DiscoverySoundHolds == Spec => []DiscoverySound
<1>1. ScanInv => DiscoverySound
  <2> SUFFICES ASSUME Discovered(scan) PROVE DiscoverySound
    BY DEF ScanInv
  <2>1. CASE scan = NoScan
    BY <2>1 DEF NoScan, DiscoverySound
  <2>2. CASE scan.kind = "probes"
    <3>1. ListedOnce(scan.seen, scan.found)
      BY <2>2, ProbesSeen, DeduplicatedListsOnce
    <3> QED
      BY <2>2, <3>1 DEF DiscoverySound
  <2>3. CASE scan = WindowsScan
    <3>1. scan.kind = "table"
      BY <2>3 DEF WindowsScan
    <3> QED
      BY <2>3, <3>1, TableNamesIfPossible DEF DiscoverySound
  <2>4. ASSUME NEW failed, scan = InspectedScan(failed) PROVE DiscoverySound
    <3>1. scan.kind = "inspected"
      BY <2>4 DEF InspectedScan
    <3> QED
      BY <2>4, <3>1, InspectedNamesIfPossible DEF DiscoverySound
  <2>5. ASSUME NEW version, NEW pair, scan \in ProbeScans(version, pair)
        PROVE  scan.kind = "probes"
    BY <2>5 DEF ProbeScans
  <2> QED
    BY <2>1, <2>2, <2>3, <2>4, <2>5 DEF Discovered
<1> QED  BY <1>1, ScanInvariant, PTL

\* connect never has to choose between two probes: what _find_probes returns for a
\* serial number, or for none, is one descriptor at most.
THEOREM OneProbeChosen ==
  Spec => [](scan.kind = "probes" => \A id : \A d, e \in Chosen(scan.found, id) : d = e)
<1> DEFINE One == scan.kind = "probes" => \A id : \A d, e \in Chosen(scan.found, id) : d = e
<1>1. ScanInv => One
  BY ProbesSeen, ChosenIsOne DEF ScanInv
<1> QED  BY <1>1, ScanInvariant, PTL
===============================================================================
