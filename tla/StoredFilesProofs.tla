---------------------------- MODULE StoredFilesProofs ----------------------------
(***************************************************************************)
(* The two promises of MCStoredFiles, for files of every length and any    *)
(* number of saves, crashes and faults: settings that are said to be       *)
(* stored survive, and a transfer that is reported as complete has the     *)
(* whole file.                                                             *)
(***************************************************************************)
EXTENDS Integers, MCStoredFiles, TLAPS

(***************************************************************************)
(* SettingsSurvive is not inductive.  Order: what is in flight is written  *)
(* in the order in which it was saved, and all of it is newer than what is *)
(* promised.  Files: what the files hold at each step of a commit and of a *)
(* repair.  Settled: what flush promises has been stored or refused.       *)
(***************************************************************************)
Queued == {chain[i] : i \in DOMAIN chain}
InFlight == Queued \cup (IF writing.at = "idle" THEN {} ELSE {writing.content})

\* A start of the program finds n, or something newer.
Stands(n) == Store!OnDisk >= n /\ disk["target"] # Store!Damaged

Order ==
    /\ \A i, j \in DOMAIN chain : i < j => chain[i] < chain[j]
    /\ writing.at # "idle" => \A c \in Queued : writing.content < c
    /\ writing.at = "idle" => writing.content = Store!Absent
    /\ \A c \in InFlight : promised < c /\ c <= saves
    /\ pending # Store!Absent => promised < pending /\ \A c \in InFlight : c < pending
    /\ pending <= saves /\ settings <= saves /\ \A f \in DOMAIN disk : disk[f] <= saves
    /\ InFlight # {} \/ pending # Store!Absent => Store!LastOf(Store!Chained) = settings

Loading == {"down", "recover", "read", "restore", "aside", "back", "open", "fill", "clean"}

Idle ==
    pc \in Loading =>
        /\ writing = Store!NotWriting /\ pending = Store!Absent
        /\ chain = <<>> /\ refused = 0

Commit ==
    /\ writing.at \in {"look", "drop", "away", "in"} => disk["part"] = writing.content
    /\ writing.at \in {"drop", "away"} => disk["target"] # Store!Absent
    /\ writing.at \in {"in", "undo"} => disk["target"] = Store!Absent
    /\ writing.moved => writing.at \in {"in", "undo", "discard"}

Repair ==
    /\ pc = "read" => disk["target"] # Store!Absent \/ disk["backup"] = Store!Absent
    /\ pc \in {"restore", "aside", "back", "open", "fill", "clean"} =>
          settings \in Store!Content /\ promised <= settings
    /\ pc \in {"restore", "aside", "back"} => disk["backup"] = settings
    /\ pc \in {"restore", "aside"} => disk["target"] = Store!Damaged
    /\ pc = "back" => disk["target"] = Store!Absent
    /\ pc \in {"open", "fill", "clean"} => disk["target"] = settings

Files ==
    /\ promised > 0 => Store!OnDisk >= promised
    /\ promised > 0 /\ Store!Running => disk["target"] # Store!Damaged
    /\ Store!Running => settings >= promised

Settled ==
    /\ Store!Running /\ InFlight = {} /\ pending = Store!Absent /\ settings > refused =>
          Stands(settings)
    /\ pc = "flushing" =>
          /\ flush.upTo <= settings
          /\ pending # Store!Absent => flush.upTo < pending
          /\ IF \E c \in InFlight : c <= flush.upTo
             THEN {flush.upTo, flush.until} \subseteq InFlight /\ flush.upTo <= flush.until
             ELSE flush.upTo > refused => Stands(flush.upTo)

StoreInv == Store!TypeOK /\ Order /\ Idle /\ Commit /\ Repair /\ Files /\ Settled

-------------------------------------------------------------------------------
(* The start of the program *)

\* While the program is down or starts, nothing is in flight.
LEMMA NothingInFlight ==
  ASSUME Idle, pc \in Loading
  PROVE  /\ InFlight = {} /\ writing = Store!NotWriting /\ pending = Store!Absent /\ chain = <<>>
         /\ refused = 0
BY DEF Idle, InFlight, Queued, Store!NotWriting

\* What is left to show of a step before the program runs.
LEMMA LoadKeeps ==
  ASSUME StoreInv, pc \in Loading, Store!LoadLeaves, Store!TypeOK', Repair', Files',
         settings' <= saves, \A f \in DOMAIN disk' : disk'[f] <= saves,
         pc' \in Loading \cup {"up"},
         pc' = "up" /\ settings' > 0 => Stands(settings)'
  PROVE  StoreInv'
<1>1. /\ InFlight = {} /\ writing = Store!NotWriting /\ pending = Store!Absent /\ chain = <<>>
      /\ refused = 0
  BY NothingInFlight DEF StoreInv
<1>2. /\ InFlight' = {} /\ Queued' = {} /\ writing' = Store!NotWriting /\ pending' = Store!Absent
      /\ chain' = <<>>
      /\ refused' = 0 /\ saves' = saves
  BY <1>1 DEF Store!LoadLeaves, InFlight, Queued
<1>3. Order'
  BY <1>2 DEF StoreInv, Store!TypeOK, Order, Store!NotWriting, Store!Absent
<1>4. Idle' /\ Commit'
  BY <1>2 DEF Idle, Commit, Store!NotWriting
<1>5. Settled'
  BY <1>2 DEF Settled, Store!Running, Loading
<1> QED  BY <1>3, <1>4, <1>5 DEF StoreInv

LEMMA LoadFailsKeeps ==
  ASSUME StoreInv, pc \in Loading, Store!LoadFails, Store!LoadLeaves, Store!TypeOK',
         \A f \in DOMAIN disk' : disk'[f] <= saves
  PROVE  StoreInv'
<1>1. pc' = "up" /\ settings' = 0 /\ promised' = 0
  BY DEF Store!LoadFails, Store!Absent
<1>2. Repair' /\ Files' /\ settings' <= saves
  BY <1>1 DEF Repair, Files, StoreInv, Store!TypeOK
<1> QED  BY <1>1, <1>2, LoadKeeps

LEMMA LoadStep ==
  ASSUME Store!StoreAssumption, StoreInv,
         \/ Store!Boot \/ Store!Recover \/ Store!ReadFile
         \/ Store!Restore \/ Store!RestoreFails
  PROVE  StoreInv'
<1> USE DEF Store!Absent, Store!Damaged
<1>0. MaxSaves \in Nat /\ MaxFailures \in Nat /\ Store!Content \subseteq 0 .. MaxSaves
  BY DEF Store!StoreAssumption, Store!Content
<1>1. CASE Store!Boot
  <2>1. /\ pc = "down" /\ pc' = "recover" /\ UNCHANGED <<disk, settings, promised, failures>>
        /\ Store!LoadLeaves
    BY <1>1 DEF Store!Boot, Store!LoadGoesOn
  <2>2. Store!TypeOK'
    BY <2>1 DEF StoreInv, Store!TypeOK, Store!LoadLeaves
  <2>3. Repair' /\ Files'
    BY <2>1 DEF StoreInv, Repair, Files, Store!OnDisk, Store!Running
  <2> QED  BY <2>1, <2>2, <2>3, LoadKeeps DEF StoreInv, Order, Loading
<1>2. CASE Store!Recover
  <2>1. /\ pc = "recover" /\ Store!LoadLeaves /\ pc' \in {"read", "down"}
        /\ UNCHANGED <<settings, promised>>
    BY <1>2 DEF Store!Recover, Store!LoadGoesOn
  <2>2. Store!TypeOK'
    <3>1. CASE UNCHANGED <<disk, failures>>
      BY <2>1, <3>1 DEF StoreInv, Store!TypeOK, Store!LoadLeaves
    <3>2. CASE Store!Rename("backup", "target") /\ UNCHANGED failures
      BY <2>1, <3>2 DEF StoreInv, Store!TypeOK, Store!LoadLeaves, Store!Rename
    <3>3. CASE Store!Fails
      BY <1>0, <2>1, <3>3 DEF StoreInv, Store!TypeOK, Store!LoadLeaves, Store!Fails
    <3> QED  BY <1>2, <3>1, <3>2, <3>3 DEF Store!Recover, Store!Works
  <2>3. Repair' /\ Files' /\ \A f \in DOMAIN disk' : disk'[f] <= saves
    BY <1>2, <2>1
    DEF StoreInv, Repair, Files, Store!OnDisk, Store!Running, Order, Store!TypeOK, Store!Recover,
        Store!Rename, Store!Fails, Store!LoadGoesOn
  <2> QED  BY <2>1, <2>2, <2>3, LoadKeeps DEF StoreInv, Order, Loading
<1>3. CASE Store!ReadFile
  <2>1. /\ pc = "read" /\ Store!LoadLeaves /\ UNCHANGED <<disk, failures>>
        /\ pc' \in {"up", "restore"}
    BY <1>3 DEF Store!ReadFile, Store!LoadFails
  <2>2. Store!TypeOK'
    <3>1. settings' \in 0 .. MaxSaves /\ promised' \in 0 .. MaxSaves
      <4>1. /\ disk["target"] \in Store!Content \cup {0, -1} /\ 0 \in 0 .. MaxSaves
            /\ settings \in 0 .. MaxSaves /\ promised \in 0 .. MaxSaves
        BY <1>0 DEF StoreInv, Store!TypeOK
      <4> QED  BY <1>0, <1>3, <4>1 DEF Store!ReadFile, Store!LoadFails, Store!LoadGoesOn
    <3> QED  BY <2>1, <3>1 DEF StoreInv, Store!TypeOK, Store!LoadLeaves
  <2>3. /\ \A f \in DOMAIN disk' : disk'[f] <= saves
        /\ disk["target"] <= saves /\ disk["backup"] <= saves
    BY <2>1 DEF StoreInv, Order, Store!TypeOK
  <2>4. CASE Store!LoadFails
    BY <2>1, <2>2, <2>3, <2>4, LoadFailsKeeps DEF Loading
  <2>5. CASE ~Store!LoadFails
    <3>1. /\ promised' = promised /\ settings' <= saves
          /\ \/ pc' = "up" /\ disk["target"] # Store!Damaged /\ settings' = disk["target"]
             \/ /\ pc' = "restore" /\ disk["target"] = Store!Damaged
                /\ disk["backup"] \in Store!Content
                /\ settings' = disk["backup"]
      BY <1>3, <2>3, <2>5 DEF Store!ReadFile
    <3>2. Repair' /\ Files'
      BY <2>1, <3>1 DEF StoreInv, Repair, Files, Store!OnDisk, Store!Running, Store!TypeOK,
          Store!Content
    <3>3. pc' = "up" /\ settings' > 0 => Stands(settings)'
      BY <2>1, <3>1 DEF Stands, Store!OnDisk, Store!Content, StoreInv, Store!TypeOK
    <3> QED  BY <2>1, <2>2, <2>3, <3>1, <3>2, <3>3, LoadKeeps DEF Loading
  <2> QED  BY <2>4, <2>5
<1>4. CASE Store!Restore
  <2>1. /\ pc \in {"restore", "aside", "back", "open", "fill", "clean"}
        /\ Store!LoadLeaves /\ UNCHANGED <<settings, promised, failures>>
        /\ pc' \in {"aside", "back", "open", "fill", "clean", "up"}
    BY <1>4 DEF Store!Restore, Store!LoadGoesOn, Store!Works
  <2>2. settings \in Store!Content /\ promised <= settings /\ settings <= saves /\ settings > 0
    BY <2>1 DEF StoreInv, Repair, Order, Store!Content
  <2>3. Store!TypeOK'
    BY <1>4, <2>1, <2>2
    DEF StoreInv, Store!TypeOK, Store!LoadLeaves, Store!Restore, Store!Delete, Store!Rename,
        Store!Put
  <2>4. \A f \in DOMAIN disk' : disk'[f] <= saves
    <3>1. \A f \in DOMAIN disk : disk[f] <= saves /\ 0 <= saves /\ -1 <= saves
      BY DEF StoreInv, Order, Store!TypeOK
    <3> QED  BY <1>4, <2>2, <3>1 DEF StoreInv, Store!TypeOK, Store!Restore, Store!Delete,
        Store!Rename, Store!Put
  <2>5. Repair' /\ Files' /\ (pc' = "up" => Stands(settings)')
    <3>1. CASE pc = "restore" /\ Store!Delete("invalid") /\ pc' = "aside"
      BY <2>1, <2>2, <3>1 DEF StoreInv, Store!TypeOK, Repair, Files, Store!OnDisk, Store!Running,
          Store!Delete
    <3>2. CASE pc = "aside" /\ Store!Rename("target", "invalid") /\ pc' = "back"
      BY <2>1, <2>2, <3>2 DEF StoreInv, Store!TypeOK, Repair, Files, Store!OnDisk, Store!Running,
          Store!Rename, Store!Content
    <3>3. CASE pc = "back" /\ Store!Rename("backup", "target") /\ pc' = "open"
      BY <2>1, <2>2, <3>3 DEF StoreInv, Store!TypeOK, Repair, Files, Store!OnDisk, Store!Running,
          Store!Rename, Store!Content
    <3>4. CASE \/ pc = "open" /\ Store!Put("backup", Store!Damaged) /\ pc' = "fill"
               \/ pc = "fill" /\ Store!Put("backup", settings) /\ pc' = "clean"
      BY <2>1, <2>2, <3>4 DEF StoreInv, Store!TypeOK, Repair, Files, Store!OnDisk, Store!Running,
          Store!Put, Store!Content
    <3>5. CASE pc = "clean" /\ Store!Delete("invalid") /\ pc' = "up"
      BY <2>1, <2>2, <3>5
      DEF StoreInv, Store!TypeOK, Repair, Files, Store!OnDisk, Store!Running, Store!Delete,
          Store!Content, Stands
    <3> QED  BY <1>4, <3>1, <3>2, <3>3, <3>4, <3>5 DEF Store!Restore, Store!LoadGoesOn
  <2> QED  BY <2>1, <2>2, <2>3, <2>4, <2>5, LoadKeeps DEF Loading
<1>5. CASE Store!RestoreFails
  <2>1. pc \in Loading /\ Store!LoadFails /\ Store!LoadLeaves
    BY <1>5 DEF Store!RestoreFails, Loading
  <2>2. Store!TypeOK'
    <3>1. /\ failures \in 0 .. MaxFailures
          /\ disk \in [{"target", "backup", "part", "invalid"}
                       -> Store!Content \cup {Store!Absent, Store!Damaged}]
      BY DEF StoreInv, Store!TypeOK
    <3>2. failures' \in 0 .. MaxFailures
      BY <1>0, <1>5, <3>1 DEF Store!RestoreFails, Store!Fails
    <3>3. disk' \in [{"target", "backup", "part", "invalid"}
                     -> Store!Content \cup {Store!Absent, Store!Damaged}]
      BY <1>5, <3>1 DEF Store!RestoreFails, Store!Fails, Store!Rename
    <3>4. pc' = "up" /\ settings' = 0 /\ promised' = 0
      BY <2>1 DEF Store!LoadFails
    <3>5. 0 \in 0 .. MaxSaves
      BY <1>0
    <3> QED  BY <2>1, <3>2, <3>3, <3>4, <3>5 DEF StoreInv, Store!TypeOK, Store!LoadLeaves
  <2>3. \A f \in DOMAIN disk' : disk'[f] <= saves
    BY <1>5 DEF StoreInv, Order, Store!TypeOK, Store!RestoreFails, Store!Rename, Store!Fails
  <2> QED  BY <2>1, <2>2, <2>3, LoadFailsKeeps
<1> QED  BY <1>1, <1>2, <1>3, <1>4, <1>5

-------------------------------------------------------------------------------
(* Saves *)

\* While the program runs, nothing is said of its start.
LEMMA RunningKeeps ==
  ASSUME StoreInv, Store!Running, Store!Running'
  PROVE  /\ pc \notin Loading /\ Idle' /\ Repair'
         /\ promised > 0 => Stands(promised)
         /\ promised <= settings /\ settings <= saves
BY DEF StoreInv, Files, Order, Idle, Repair, Store!Running, Loading, Stands

LEMMA FlightContents ==
  ASSUME StoreInv
  PROVE  \A c \in InFlight : c \in Store!Content /\ c \in Nat /\ c # Store!Absent
<1>1. /\ promised \in Nat /\ chain \in Seq(Store!Content)
      /\ writing.content \in Store!Content \cup {Store!Absent}
  BY DEF StoreInv, Store!TypeOK
<1>2. \A c \in InFlight : promised < c /\ c \in Store!Content \cup {Store!Absent}
  BY <1>1 DEF StoreInv, Order, InFlight, Queued
<1> QED  BY <1>1, <1>2 DEF Store!Absent, Store!Content

\* The contents that wait, with the one that is pending.
LEMMA ChainedContents ==
  ASSUME StoreInv
  PROVE  /\ Store!Chained \in Seq(Store!Content)
         /\ {Store!Chained[i] : i \in DOMAIN Store!Chained} =
               Queued \cup (IF pending = Store!Absent THEN {} ELSE {pending})
         /\ \A i, j \in DOMAIN Store!Chained : i < j => Store!Chained[i] < Store!Chained[j]
         /\ Store!Chained # <<>> =>
               Store!LastOf(Store!Chained) = Store!Chained[Len(Store!Chained)] /\ Len(Store!Chained) \in DOMAIN Store!Chained
         /\ Store!Chained = <<>> => Store!LastOf(Store!Chained) = writing.content
<1>1. chain \in Seq(Store!Content) /\ (pending # Store!Absent => pending \in Store!Content)
  BY DEF StoreInv, Store!TypeOK
<1>2. CASE pending = Store!Absent
  BY <1>1, <1>2 DEF Store!Chained, Queued, Store!LastOf, StoreInv, Order
<1>3. CASE pending # Store!Absent
  <2>1. /\ Store!Chained \in Seq(Store!Content) /\ Len(Store!Chained) = Len(chain) + 1
        /\ DOMAIN chain = 1 .. Len(chain) /\ DOMAIN Store!Chained = 1 .. Len(chain) + 1
        /\ \A i \in 1 .. Len(chain) : Store!Chained[i] = chain[i]
        /\ Store!Chained[Len(chain) + 1] = pending
    BY <1>1, <1>3 DEF Store!Chained
  <2>2. {Store!Chained[i] : i \in DOMAIN Store!Chained} = Queued \cup {pending}
    BY <1>1, <2>1 DEF Queued
  <2>3. \A i \in DOMAIN chain : chain[i] < pending
    BY <1>3 DEF StoreInv, Order, InFlight, Queued
  <2>4. \A i, j \in DOMAIN Store!Chained : i < j => Store!Chained[i] < Store!Chained[j]
    BY <1>1, <2>1, <2>3 DEF StoreInv, Order
  <2> QED  BY <1>1, <1>3, <2>1, <2>2, <2>4 DEF Store!LastOf
<1> QED  BY <1>2, <1>3

LEMMA SaveStep ==
  ASSUME Store!StoreAssumption, StoreInv, Store!Save
  PROVE  StoreInv'
<1>1. /\ Store!Running /\ Store!Running' /\ saves' = saves + 1 /\ pending' = saves'
      /\ settings' = saves'
      /\ UNCHANGED <<disk, pc, writing, chain, flush, promised, refused, failures, crashes>>
  BY DEF Store!Save, Store!Running
<1>2. saves \in Nat /\ saves' \in 1 .. MaxSaves /\ saves' \in Store!Content /\ MaxSaves \in Nat
  <2>1. saves \in 0 .. MaxSaves /\ MaxSaves \in Nat /\ saves < MaxSaves
    BY DEF Store!StoreAssumption, StoreInv, Store!TypeOK, Store!Save
  <2> QED  BY <1>1, <2>1 DEF Store!Content
<1>3. Store!TypeOK'
  BY <1>1, <1>2 DEF StoreInv, Store!TypeOK
<1>4. InFlight' = InFlight /\ Queued' = Queued
  BY <1>1 DEF InFlight, Queued
<1>5. promised <= saves /\ settings <= saves
  BY <1>1, RunningKeeps DEF StoreInv, Store!TypeOK
<1>6. Store!LastOf(Store!Chained)' = settings'
  <2>1. chain' \in Seq(Store!Content) /\ Store!Chained' = Append(chain', pending')
    BY <1>1, <1>2, <1>3 DEF Store!Chained, Store!TypeOK, Store!Absent
  <2> QED  BY <1>1, <1>2, <2>1 DEF Store!LastOf
<1>7. \A c \in InFlight : c \in Nat
  BY FlightContents
<1>8. Order'
  <2>1. \A c \in InFlight : promised < c /\ c <= saves
    BY DEF StoreInv, Order
  <2>2. \A f \in DOMAIN disk' : disk'[f] <= saves'
    BY <1>1, <1>2 DEF StoreInv, Order, Store!TypeOK, Store!Content, Store!Absent, Store!Damaged
  <2>3. promised < saves' /\ \A c \in InFlight' : promised < c /\ c < saves'
    BY <1>1, <1>2, <1>3, <1>4, <1>5, <1>7, <2>1 DEF Store!TypeOK
  <2> QED  BY <1>1, <1>2, <1>4, <1>6, <1>7, <2>2, <2>3 DEF StoreInv, Order
<1>9. Files' /\ Commit'
  BY <1>1, <1>2, <1>5 DEF StoreInv, Files, Commit, Store!OnDisk, Store!Running, Store!TypeOK
<1>10. Settled'
  BY <1>1, <1>2, <1>4, <1>5 DEF StoreInv, Settled, Stands, Store!OnDisk, Store!Running,
      Store!TypeOK, Store!Absent
<1> QED  BY <1>1, <1>3, <1>8, <1>9, <1>10, RunningKeeps DEF StoreInv

\* The pending content joins the chain.
LEMMA ChainKeeps ==
  ASSUME StoreInv, Store!Running, Store!Running', chain' = Store!Chained,
         pending' = Store!Absent, flush' \in
           [upTo : 0 .. MaxSaves, until : 0 .. MaxSaves, again : BOOLEAN],
         UNCHANGED <<disk, writing, settings, saves, promised, refused, failures, crashes>>
  PROVE  /\ Store!TypeOK' /\ Order' /\ Idle' /\ Commit' /\ Repair' /\ Files'
         /\ InFlight' = InFlight \cup (IF pending = Store!Absent THEN {} ELSE {pending})
         /\ InFlight' # {} => settings \in InFlight' /\ Store!LastOf(Store!Chained) = settings
         /\ Store!Absent \notin InFlight'
<1>1. /\ Store!Chained \in Seq(Store!Content)
      /\ Queued' = Queued \cup (IF pending = Store!Absent THEN {} ELSE {pending})
      /\ Store!Chained' = Store!Chained
      /\ Store!LastOf(Store!Chained)' = Store!LastOf(Store!Chained)
  BY ChainedContents DEF Queued, Store!Chained, Store!LastOf
<1>2. Store!TypeOK'
  BY <1>1 DEF StoreInv, Store!TypeOK, Store!Running
<1>3. InFlight' = InFlight \cup (IF pending = Store!Absent THEN {} ELSE {pending})
  BY <1>1 DEF InFlight
<1>4. InFlight' # {} => settings \in InFlight' /\ Store!LastOf(Store!Chained) = settings
  <2>1. InFlight' # {} => InFlight # {} \/ pending # Store!Absent
    BY <1>3
  <2>2. InFlight' # {} => Store!LastOf(Store!Chained) = settings
    BY <2>1 DEF StoreInv, Order
  <2>3. Store!Chained # <<>> => Store!LastOf(Store!Chained) \in Queued'
    BY <1>1, ChainedContents DEF Queued
  <2>4. Store!Chained = <<>> => Queued' = {} /\ Store!LastOf(Store!Chained) = writing.content
    BY <1>1, ChainedContents DEF Queued
  <2> QED  BY <2>2, <2>3, <2>4 DEF InFlight
<1>5. Order'
  <2>1. \A i, j \in DOMAIN chain' : i < j => chain'[i] < chain'[j]
    BY ChainedContents
  <2>2. writing'.at # "idle" => \A c \in Queued' : writing'.content < c
    BY <1>1 DEF StoreInv, Order, InFlight
  <2>3. \A c \in InFlight' : promised' < c /\ c <= saves'
    BY <1>3 DEF StoreInv, Order
  <2>4. InFlight' # {} \/ pending' # Store!Absent => Store!LastOf(Store!Chained)' = settings'
    BY <1>1, <1>4
  <2> QED  BY <2>1, <2>2, <2>3, <2>4 DEF StoreInv, Order, Store!TypeOK, Store!Absent
<1>6. Commit' /\ Files'
  BY DEF StoreInv, Commit, Files, Store!OnDisk
<1>7. Store!Absent \notin InFlight'
  BY <1>2, <1>5 DEF Store!TypeOK, Order, Store!Absent
<1> QED  BY <1>2, <1>3, <1>4, <1>5, <1>6, <1>7, RunningKeeps

LEMMA EnqueueSaveStep ==
  ASSUME StoreInv, Store!EnqueueSave
  PROVE  StoreInv'
<1>1. /\ Store!Running /\ Store!Running' /\ pending # Store!Absent /\ chain' = Store!Chained
      /\ pending' = Store!Absent
      /\ UNCHANGED <<disk, pc, writing, flush, settings, saves, promised, refused, failures,
                     crashes>>
      /\ flush \in [upTo : 0 .. MaxSaves, until : 0 .. MaxSaves, again : BOOLEAN]
  BY DEF Store!EnqueueSave, Store!Running, StoreInv, Store!TypeOK
<1>2. /\ Store!TypeOK' /\ Order' /\ Idle' /\ Commit' /\ Repair' /\ Files'
      /\ InFlight' = InFlight \cup {pending}
  BY <1>1, ChainKeeps
<1>3. Settled'
  <2>1. ASSUME pc = "flushing"
        PROVE  (\E c \in InFlight' : c <= flush.upTo) <=> (\E c \in InFlight : c <= flush.upTo)
    <3>1. ~(pending <= flush.upTo)
      BY <1>1, <2>1 DEF StoreInv, Settled, Store!TypeOK, Store!Content
    <3> QED  BY <1>2, <3>1
  <2> QED  BY <1>1, <1>2, <2>1 DEF StoreInv, Settled, Stands, Store!OnDisk, Store!Running
<1> QED  BY <1>2, <1>3 DEF StoreInv

LEMMA BeginWriteStep ==
  ASSUME StoreInv, Store!BeginWrite
  PROVE  StoreInv'
<1>1. /\ Store!Running /\ Store!Running' /\ writing.at = "idle" /\ chain # <<>>
      /\ writing' = [at |-> "clear", content |-> Head(chain), moved |-> FALSE]
      /\ chain' = Tail(chain)
      /\ UNCHANGED <<disk, pc, pending, flush, settings, saves, promised, refused, failures,
                     crashes>>
  BY DEF Store!BeginWrite, Store!WriteLeaves, Store!Running, Store!NotWriting
<1>2. /\ chain \in Seq(Store!Content) /\ Len(chain) \in Nat \ {0}
      /\ DOMAIN chain = 1 .. Len(chain)
      /\ DOMAIN chain' = 1 .. Len(chain) - 1 /\ Len(chain') = Len(chain) - 1
      /\ \A i \in DOMAIN chain' : chain'[i] = chain[i + 1] /\ i + 1 \in DOMAIN chain
      /\ Head(chain) = chain[1] /\ Head(chain) \in Store!Content /\ chain' \in Seq(Store!Content)
  BY <1>1 DEF StoreInv, Store!TypeOK
<1>3. Store!TypeOK'
  BY <1>1, <1>2 DEF StoreInv, Store!TypeOK
<1>4. /\ InFlight = Queued /\ Queued = {chain[1]} \cup Queued'
      /\ InFlight' = InFlight
  <2>1. Queued = {chain[1]} \cup Queued'
    <3>1. \A i \in DOMAIN chain : i = 1 \/ (i - 1 \in DOMAIN chain' /\ chain[i] = chain'[i - 1])
      BY <1>2
    <3> QED  BY <1>2, <3>1 DEF Queued
  <2> QED  BY <1>1, <1>2, <2>1 DEF InFlight
<1>5. /\ \A i, j \in DOMAIN chain' : i < j => chain'[i] < chain'[j]
      /\ \A c \in Queued' : writing'.content < c
  BY <1>1, <1>2 DEF StoreInv, Order, Queued
<1>6. Store!LastOf(Store!Chained)' = Store!LastOf(Store!Chained)
  <2>1. CASE pending # Store!Absent
    <3>1. pending \in Store!Content
      BY <2>1 DEF StoreInv, Store!TypeOK
    <3> QED  BY <1>1, <1>2, <2>1, <3>1 DEF Store!Chained, Store!LastOf
  <2>2. CASE pending = Store!Absent
    <3>1. Store!Chained = chain /\ Store!Chained' = chain'
      BY <1>1, <2>2 DEF Store!Chained
    <3>2. CASE Len(chain) = 1
      <4>1. chain' = <<>>
        BY <1>1, <1>2, <3>2
      <4> QED  BY <1>1, <1>2, <3>1, <3>2, <4>1 DEF Store!LastOf
    <3>3. CASE Len(chain) > 1
      <4>1. chain' # <<>> /\ chain'[Len(chain')] = chain[Len(chain)]
        BY <1>2, <3>3
      <4> QED  BY <1>1, <3>1, <4>1 DEF Store!LastOf
    <3> QED  BY <1>2, <3>2, <3>3
  <2> QED  BY <2>1, <2>2
<1>7. Order'
  BY <1>1, <1>4, <1>5, <1>6 DEF StoreInv, Order
<1>8. Commit' /\ Files'
  BY <1>1 DEF StoreInv, Commit, Files, Store!OnDisk, Store!Running
<1>9. Settled'
  BY <1>1, <1>4 DEF StoreInv, Settled, Stands, Store!OnDisk, Store!Running
<1> QED  BY <1>1, <1>3, <1>7, <1>8, <1>9, RunningKeeps DEF StoreInv

-------------------------------------------------------------------------------
(* A commit *)

\* A step of a commit in which nothing ends and nothing that stands falls.
LEMMA WriteMoves ==
  ASSUME StoreInv, writing.at # "idle", Store!WriteLeaves, UNCHANGED <<chain, promised, refused>>,
         Store!TypeOK', Commit', writing'.at # "idle", writing'.content = writing.content,
         \A f \in DOMAIN disk' : disk'[f] <= saves,
         \A n \in Nat : 0 < n /\ n <= writing.content /\ Stands(n) => Stands(n)'
  PROVE  StoreInv'
<1>1. Store!Running /\ Store!Running'
  BY DEF StoreInv, Store!TypeOK, Idle, Store!Running, Loading, Store!NotWriting, Store!WriteLeaves
<1>2. /\ InFlight' = InFlight /\ Queued' = Queued /\ Store!Chained' = Store!Chained
      /\ Store!LastOf(Store!Chained)' = Store!LastOf(Store!Chained)
  BY DEF InFlight, Queued, Store!Chained, Store!LastOf, Store!WriteLeaves
<1>3. Order'
  BY <1>2 DEF StoreInv, Order, Store!WriteLeaves
<1>4. writing.content \in InFlight /\ writing.content \in Nat /\ promised < writing.content
      /\ promised \in Nat
  <2>1. writing.content \in InFlight
    BY DEF InFlight
  <2> QED  BY <2>1, FlightContents DEF StoreInv, Order, Store!TypeOK
<1>5. Files'
  <2>1. promised > 0 => Stands(promised)'
    BY <1>1, <1>4, RunningKeeps
  <2> QED  BY <1>1, <2>1, RunningKeeps DEF Files, Stands, Store!WriteLeaves
<1>6. Settled'
  <2>1. CASE pc = "flushing"
    <3>1. flush.upTo \in Nat /\ refused \in Nat
      BY DEF StoreInv, Store!TypeOK
    <3>2. ASSUME ~(\E c \in InFlight : c <= flush.upTo), flush.upTo > refused
          PROVE  Stands(flush.upTo)'
      <4>1. Stands(flush.upTo) /\ flush.upTo < writing.content
        BY <1>4, <2>1, <3>1, <3>2 DEF StoreInv, Settled
      <4> QED  BY <1>4, <3>1, <3>2, <4>1 DEF Stands, Store!WriteLeaves
    <3> QED  BY <1>2, <1>4, <2>1, <3>2 DEF StoreInv, Settled, Store!WriteLeaves
  <2>2. CASE pc # "flushing"
    BY <1>2, <1>4, <2>2 DEF Settled, Store!WriteLeaves
  <2> QED  BY <2>1, <2>2
<1> QED  BY <1>1, <1>3, <1>5, <1>6, RunningKeeps DEF StoreInv

\* The end of a commit: its content stands, or it is refused.
LEMMA WriteEnds ==
  ASSUME StoreInv, writing.at # "idle", Store!WriteLeaves, UNCHANGED chain,
         writing' = Store!NotWriting,
         Store!TypeOK', \A f \in DOMAIN disk' : disk'[f] <= saves,
         \/ /\ promised' = writing.content /\ UNCHANGED refused
            /\ disk'["target"] = writing.content
         \/ /\ refused' = Store!Larger(refused, writing.content) /\ UNCHANGED promised
            /\ \A n \in Nat : 0 < n /\ n <= writing.content /\ Stands(n) => Stands(n)'
  PROVE  StoreInv'
<1>1. Store!Running /\ Store!Running'
  BY DEF StoreInv, Store!TypeOK, Idle, Store!Running, Loading, Store!NotWriting, Store!WriteLeaves
<1>2. /\ InFlight = Queued \cup {writing.content} /\ InFlight' = Queued /\ Queued' = Queued
      /\ \A c \in Queued : writing.content < c
      /\ \A c \in InFlight : c \in Nat /\ promised < c /\ c # Store!Absent
      /\ writing.content \in Store!Content /\ writing.content \in Nat
      /\ promised \in Nat /\ refused \in Nat
  <2>1. InFlight = Queued \cup {writing.content} /\ InFlight' = Queued /\ Queued' = Queued
    BY DEF InFlight, Queued, Store!NotWriting
  <2> QED  BY <2>1, FlightContents DEF StoreInv, Order, Store!TypeOK
<1>3. Store!Chained' = Store!Chained
  BY DEF Store!Chained, Store!WriteLeaves
<1>4. Order'
  <2>1. \A c \in InFlight' : promised' < c /\ c <= saves'
    BY <1>2 DEF StoreInv, Order, Store!WriteLeaves
  <2>2. pending' # Store!Absent => promised' < pending' /\ \A c \in InFlight' : c < pending'
    BY <1>2 DEF StoreInv, Order, Store!WriteLeaves
  <2>3. InFlight' # {} \/ pending' # Store!Absent => Store!LastOf(Store!Chained)' = settings'
    <3>1. InFlight' # {} \/ pending' # Store!Absent => Store!Chained # <<>>
      <4>1. Store!Chained = <<>> => {Store!Chained[i] : i \in DOMAIN Store!Chained} = {}
        OBVIOUS
      <4> QED  BY <1>2, <4>1, ChainedContents DEF Store!WriteLeaves
    <3> QED  BY <1>2, <1>3, <3>1 DEF StoreInv, Order, Store!LastOf, Store!WriteLeaves
  <2> QED  BY <1>2, <2>1, <2>2, <2>3 DEF StoreInv, Order, Store!WriteLeaves, Store!NotWriting
<1>5. Commit'
  BY DEF Commit, Store!NotWriting
<1>6. writing.content <= settings
  <2>1. CASE Store!Chained = <<>>
    BY <1>2, <2>1, ChainedContents DEF StoreInv, Order, Store!TypeOK
  <2>2. CASE Store!Chained # <<>>
    <3>1. Store!LastOf(Store!Chained) \in Queued \cup (IF pending = Store!Absent THEN {} ELSE {pending})
      BY <2>2, ChainedContents
    <3>2. Store!LastOf(Store!Chained) = settings
      BY <1>1, <1>2 DEF StoreInv, Order
    <3>3. pending # Store!Absent => writing.content < pending /\ pending \in Nat
      BY <1>2 DEF StoreInv, Order, Store!TypeOK, Store!Content
    <3>4. \A c \in Queued : writing.content <= c
      BY <1>2
    <3> QED  BY <1>2, <3>1, <3>2, <3>3, <3>4
  <2> QED  BY <2>1, <2>2
<1>7. Files'
  <2>1. CASE promised' = writing.content /\ disk'["target"] = writing.content
    BY <1>2, <1>6, <2>1 DEF Files, Store!OnDisk, Store!Content, Store!Damaged, Store!WriteLeaves
  <2>2. CASE UNCHANGED promised /\ \A n \in Nat : 0 < n /\ n <= writing.content /\ Stands(n) => Stands(n)'
    <3>1. promised > 0 => Stands(promised)'
      BY <1>1, <1>2, <2>2, RunningKeeps
    <3> QED  BY <1>1, <2>2, <3>1, RunningKeeps DEF Files, Stands, Store!WriteLeaves
  <2> QED  BY <2>1, <2>2
<1>8. ASSUME NEW n \in Nat, n <= writing.content, n > refused',
             n = writing.content \/ (n < writing.content /\ (n > refused => Stands(n)))
      PROVE  Stands(n)'
  <2>1. CASE disk'["target"] = writing.content
    BY <1>2, <1>8, <2>1 DEF Stands, Store!OnDisk, Store!Content, Store!Damaged
  <2>2. CASE refused' = Store!Larger(refused, writing.content)
    BY <1>2, <1>8, <2>2 DEF Store!Larger
  <2> QED  BY <2>1, <2>2
<1>9. Settled'
  <2>1. ASSUME Store!Running', InFlight' = {}, pending' = Store!Absent, settings' > refused'
        PROVE  Stands(settings)'
    <3>1. settings = writing.content
      BY <1>2, <2>1, ChainedContents DEF StoreInv, Order, Store!WriteLeaves
    <3> QED  BY <1>2, <1>8, <2>1, <3>1 DEF Store!WriteLeaves
  <2>2. ASSUME pc = "flushing"
        PROVE  IF \E c \in InFlight' : c <= flush.upTo
               THEN {flush.upTo, flush.until} \subseteq InFlight' /\ flush.upTo <= flush.until
               ELSE flush.upTo > refused' => Stands(flush.upTo)'
    <3>1. flush.upTo \in Nat /\ flush.until \in Nat
      BY DEF StoreInv, Store!TypeOK
    <3>2. CASE \E c \in InFlight' : c <= flush.upTo
      <4>1. {flush.upTo, flush.until} \subseteq InFlight /\ flush.upTo <= flush.until
        BY <1>2, <2>2, <3>2 DEF StoreInv, Settled
      <4>2. flush.upTo # writing.content /\ flush.until # writing.content
        BY <1>2, <3>1, <3>2, <4>1
      <4> QED  BY <1>2, <3>2, <4>1, <4>2
    <3>3. CASE ~(\E c \in InFlight' : c <= flush.upTo)
      <4>1. CASE writing.content <= flush.upTo
        <5>1. flush.upTo \in InFlight
          BY <1>2, <2>2, <4>1 DEF StoreInv, Settled
        <5>2. flush.upTo = writing.content
          BY <1>2, <3>1, <3>3, <5>1
        <5> QED  BY <1>2, <1>8, <3>1, <5>2 DEF Stands, Store!WriteLeaves
      <4>2. CASE flush.upTo < writing.content
        <5>1. flush.upTo > refused => Stands(flush.upTo)
          BY <1>2, <2>2, <3>1, <3>3, <4>2 DEF StoreInv, Settled
        <5> QED  BY <1>2, <1>8, <3>1, <4>2, <5>1 DEF Stands, Store!WriteLeaves
      <4> QED  BY <1>2, <3>1, <4>1, <4>2
    <3> QED  BY <3>2, <3>3
  <2> QED  BY <2>1, <2>2 DEF StoreInv, Settled, Store!WriteLeaves
<1> QED  BY <1>1, <1>4, <1>5, <1>7, <1>9, RunningKeeps DEF StoreInv

LEMMA WriteStep ==
  ASSUME Store!StoreAssumption, StoreInv, Store!Write \/ Store!WriteFails
  PROVE  StoreInv'
<1> USE DEF Store!Absent, Store!Damaged
<1> DEFINE c == writing.content
<1>1. /\ writing.at # "idle" /\ Store!WriteLeaves
      /\ writing \in [at : {"clear", "open", "fill", "look", "drop", "away", "in", "undo",
                            "discard"}, content : Store!Content \cup {Store!Absent}, moved : BOOLEAN]
  BY DEF Store!Write, Store!WriteFails, StoreInv, Store!TypeOK
<1>2. c \in Store!Content /\ c \in Nat /\ c > 0 /\ c <= saves /\ promised < c
      /\ {saves, promised, refused} \subseteq 0 .. MaxSaves /\ MaxSaves \in Nat
  <2>1. c \in InFlight
    BY <1>1 DEF InFlight
  <2> QED  BY <2>1, FlightContents DEF StoreInv, Order, Store!Content, Store!TypeOK,
      Store!StoreAssumption
<1>3. /\ disk \in [{"target", "backup", "part", "invalid"} -> Store!Content \cup {Store!Absent, Store!Damaged}]
      /\ \A f \in {"target", "backup", "part", "invalid"} : disk[f] <= saves
  BY DEF StoreInv, Store!TypeOK, Order
<1>4. /\ c \in Store!Content \cup {Store!Absent, Store!Damaged}
      /\ Store!Absent \in Store!Content \cup {Store!Absent, Store!Damaged}
      /\ Store!Damaged \in Store!Content \cup {Store!Absent, Store!Damaged}
      /\ Store!Absent <= saves /\ Store!Damaged <= saves
  BY <1>2
<1>5. ASSUME NEW f \in {"target", "backup", "part", "invalid"}, NEW g \in DOMAIN disk,
             \/ Store!Delete(f) \/ Store!Put(f, Store!Damaged) \/ Store!Put(f, c) \/ Store!Rename(f, g) \/ UNCHANGED disk
      PROVE  /\ disk' \in [{"target", "backup", "part", "invalid"} ->
                             Store!Content \cup {Store!Absent, Store!Damaged}]
             /\ \A h \in DOMAIN disk' : disk'[h] <= saves
  BY <1>2, <1>3, <1>4, <1>5 DEF Store!Delete, Store!Put, Store!Rename
<1>6. ASSUME NEW at \in {"clear", "open", "fill", "look", "drop", "away", "in", "undo", "discard"},
             NEW moved \in BOOLEAN, writing' = [writing EXCEPT !.at = at, !.moved = moved],
             failures' \in 0 .. MaxFailures, UNCHANGED <<chain, promised, refused>>,
             disk' \in [{"target", "backup", "part", "invalid"} ->
                             Store!Content \cup {Store!Absent, Store!Damaged}],
             \A f \in DOMAIN disk' : disk'[f] <= saves, Commit',
             \A n \in Nat : 0 < n /\ n <= c /\ Stands(n) => Stands(n)'
      PROVE  StoreInv'
  <2>1. writing'.at = at /\ writing'.content = c
        /\ writing' \in [at : {"idle", "clear", "open", "fill", "look", "drop", "away", "in",
                               "undo", "discard"},
                         content : Store!Content \cup {Store!Absent}, moved : BOOLEAN]
    BY <1>1, <1>6
  <2>2. Store!TypeOK'
    BY <1>1, <1>6, <2>1 DEF StoreInv, Store!TypeOK, Store!WriteLeaves
  <2> QED  BY <1>1, <1>6, <2>1, <2>2, WriteMoves
<1>7. ASSUME writing' = Store!NotWriting, UNCHANGED chain, failures' \in 0 .. MaxFailures,
             disk' \in [{"target", "backup", "part", "invalid"} ->
                             Store!Content \cup {Store!Absent, Store!Damaged}],
             \A f \in DOMAIN disk' : disk'[f] <= saves,
             \/ /\ promised' = c /\ UNCHANGED refused /\ disk'["target"] = c
             \/ /\ refused' = Store!Larger(refused, c) /\ UNCHANGED promised
                /\ \A n \in Nat : 0 < n /\ n <= c /\ Stands(n) => Stands(n)'
      PROVE  StoreInv'
  <2>1. promised' \in 0 .. MaxSaves /\ refused' \in 0 .. MaxSaves
    BY <1>2, <1>7 DEF Store!Larger, Store!Content
  <2>2. Store!TypeOK'
    BY <1>1, <1>7, <2>1 DEF StoreInv, Store!TypeOK, Store!WriteLeaves, Store!NotWriting
  <2> QED  BY <1>1, <1>7, <2>2, WriteEnds
<1>8. CASE Store!Write
  <2>1. UNCHANGED failures /\ failures' \in 0 .. MaxFailures
    BY <1>8 DEF Store!Write, Store!Works, StoreInv, Store!TypeOK
  <2>2. CASE \/ writing.at = "clear" /\ Store!Delete("part") /\ Store!WriteGoesOn("open")
             \/ /\ writing.at = "open" /\ Store!Put("part", Store!Damaged)
                /\ Store!WriteGoesOn("fill")
             \/ writing.at = "fill" /\ Store!Put("part", c) /\ Store!WriteGoesOn("look")
    <3>1. /\ UNCHANGED <<chain, promised, refused>> /\ ~writing.moved
          /\ \E at \in {"open", "fill", "look"} : writing' = [writing EXCEPT !.at = at, !.moved = FALSE]
      BY <1>1, <2>2 DEF Store!WriteGoesOn, StoreInv, Commit
    <3>2. Commit' /\ UNCHANGED <<disk["target"], disk["backup"]>>
      BY <1>1, <1>3, <2>2 DEF Commit, Store!WriteGoesOn, StoreInv, Store!Delete, Store!Put
    <3>3. \A n \in Nat : 0 < n /\ n <= c /\ Stands(n) => Stands(n)'
      BY <3>2 DEF Stands, Store!OnDisk
    <3>4. /\ disk' \in [{"target", "backup", "part", "invalid"} ->
                             Store!Content \cup {Store!Absent, Store!Damaged}]
          /\ \A f \in DOMAIN disk' : disk'[f] <= saves
      BY <1>3, <1>5, <2>2
    <3> QED  BY <1>6, <2>1, <3>1, <3>2, <3>3, <3>4
  <2>3. CASE writing.at = "look" /\ Store!Look
    <3>1. /\ UNCHANGED <<disk, chain, promised, refused>> /\ ~writing.moved
          /\ \E at \in {"in", "drop"} : writing' = [writing EXCEPT !.at = at, !.moved = FALSE]
      BY <1>1, <2>3 DEF Store!Look, Store!WriteGoesOn, StoreInv, Commit
    <3>2. Commit'
      BY <1>1, <2>3 DEF Store!Look, Store!WriteGoesOn, StoreInv, Commit
    <3>3. \A n \in Nat : 0 < n /\ n <= c /\ Stands(n) => Stands(n)'
      BY <3>1 DEF Stands, Store!OnDisk
    <3> QED  BY <1>3, <1>5, <1>6, <2>1, <3>1, <3>2, <3>3
  <2>4. CASE writing.at = "drop" /\ Store!Delete("backup") /\ Store!WriteGoesOn("away")
    <3>1. /\ UNCHANGED <<chain, promised, refused>> /\ ~writing.moved
          /\ writing' = [writing EXCEPT !.at = "away", !.moved = FALSE]
      BY <1>1, <2>4 DEF Store!WriteGoesOn, StoreInv, Commit
    <3>2. Commit' /\ UNCHANGED disk["target"] /\ disk["target"] # Store!Absent
      BY <1>1, <1>3, <2>4, <3>1 DEF Commit, StoreInv, Store!Delete
    <3>3. \A n \in Nat : 0 < n /\ n <= c /\ Stands(n) => Stands(n)'
      BY <1>3, <3>2 DEF Stands, Store!OnDisk
    <3> QED  BY <1>3, <1>5, <1>6, <2>1, <2>4, <3>1, <3>2, <3>3
  <2>5. CASE writing.at = "away" /\ Store!Rename("target", "backup") /\ Store!WriteGoesOn("in")
    <3>1. /\ UNCHANGED <<chain, promised, refused>>
          /\ writing' = [writing EXCEPT !.at = "in", !.moved = TRUE]
      BY <1>1, <2>5 DEF Store!WriteGoesOn
    <3>2. Commit' /\ disk'["backup"] = disk["target"] /\ disk'["target"] = Store!Absent
          /\ disk["target"] # Store!Absent
      BY <1>1, <1>3, <2>5, <3>1 DEF Commit, StoreInv, Store!Rename
    <3>3. \A n \in Nat : 0 < n /\ n <= c /\ Stands(n) => Stands(n)'
      BY <1>3, <3>2 DEF Stands, Store!OnDisk, Store!Content
    <3> QED  BY <1>3, <1>5, <1>6, <2>1, <2>5, <3>1, <3>2, <3>3
  <2>6. CASE writing.at = "in" /\ Store!Rename("part", "target") /\ Store!Stored
    <3>1. disk'["target"] = c
      BY <1>1, <1>3, <2>6 DEF Store!Rename, StoreInv, Commit
    <3>2. writing' = Store!NotWriting /\ UNCHANGED <<chain, refused>> /\ promised' = c
      BY <1>2, <2>6 DEF Store!Stored, Store!Larger
    <3> QED  BY <1>3, <1>5, <1>7, <2>1, <2>6, <3>1, <3>2
  <2>7. CASE /\ writing.at = "undo" /\ Store!Rename("backup", "target")
             /\ Store!WriteGoesOn("discard")
    <3>1. /\ UNCHANGED <<chain, promised, refused>>
          /\ writing' = [writing EXCEPT !.at = "discard", !.moved = writing.moved]
      BY <1>1, <2>7 DEF Store!WriteGoesOn
    <3>2. Commit'
      BY <1>1, <3>1 DEF Commit
    <3>3. \A n \in Nat : 0 < n /\ n <= c /\ Stands(n) => Stands(n)'
      BY <1>1, <1>3, <2>7 DEF Stands, Store!OnDisk, Store!Rename, StoreInv, Commit, Store!Content
    <3> QED  BY <1>1, <1>3, <1>5, <1>6, <2>1, <2>7, <3>1, <3>2, <3>3
  <2>8. CASE writing.at = "discard" /\ Store!Delete("part") /\ Store!Refuse
    <3>1. UNCHANGED <<disk["target"], disk["backup"]>>
      BY <1>3, <2>8 DEF Store!Delete
    <3>2. \A n \in Nat : 0 < n /\ n <= c /\ Stands(n) => Stands(n)'
      BY <3>1 DEF Stands, Store!OnDisk
    <3> QED  BY <1>3, <1>5, <1>7, <2>1, <2>8, <3>2 DEF Store!Refuse
  <2> QED  BY <1>8, <2>2, <2>3, <2>4, <2>5, <2>6, <2>7, <2>8 DEF Store!Write
<1>9. CASE Store!WriteFails
  <2>1. UNCHANGED disk /\ failures' \in 0 .. MaxFailures
    <3>1. MaxFailures \in Nat /\ failures \in 0 .. MaxFailures
      BY DEF StoreInv, Store!TypeOK, Store!StoreAssumption
    <3> QED  BY <1>9, <3>1 DEF Store!WriteFails, Store!Fails
  <2>2. \A n \in Nat : 0 < n /\ n <= c /\ Stands(n) => Stands(n)'
    BY <2>1 DEF Stands, Store!OnDisk
  <2>3. CASE Store!Refuse
    BY <1>3, <1>5, <1>7, <2>1, <2>2, <2>3 DEF Store!Refuse
  <2>4. ASSUME NEW at \in {"undo", "discard"}, writing' = [writing EXCEPT !.at = at],
               writing.at \in {"look", "drop", "away", "in"}, at = "undo" <=> writing.moved,
               UNCHANGED <<chain, promised, refused>>
        PROVE  StoreInv'
    <3>1. writing' = [writing EXCEPT !.at = at, !.moved = writing.moved]
      BY <1>1, <2>4
    <3>2. Commit'
      BY <1>1, <2>1, <2>4 DEF StoreInv, Commit
    <3> QED  BY <1>1, <1>3, <1>5, <1>6, <2>1, <2>2, <2>4, <3>1, <3>2
  <2> QED  BY <1>1, <1>9, <2>3, <2>4 DEF Store!WriteFails
<1> QED  BY <1>8, <1>9

-------------------------------------------------------------------------------
(* The end of the program *)

LEMMA FlushStep ==
  ASSUME Store!StoreAssumption, StoreInv, Store!Flush
  PROVE  StoreInv'
<1>1. /\ Store!Running /\ Store!Running' /\ pc' = "flushing" /\ chain' = Store!Chained
      /\ pending' = Store!Absent
      /\ flush' = [upTo |-> settings, until |-> Store!LastOf(Store!Chained), again |-> FALSE]
      /\ UNCHANGED <<disk, writing, settings, saves, promised, refused, failures, crashes>>
  BY DEF Store!Flush, Store!Running
<1>2. /\ Store!LastOf(Store!Chained) \in 0 .. MaxSaves
      /\ flush' \in [upTo : 0 .. MaxSaves, until : 0 .. MaxSaves, again : BOOLEAN]
  <2>1. Store!Content \cup {Store!Absent} \subseteq 0 .. MaxSaves
    BY DEF Store!Content, Store!Absent, Store!StoreAssumption
  <2>2. Store!LastOf(Store!Chained) \in Store!Content \cup {Store!Absent}
    BY ChainedContents DEF StoreInv, Store!TypeOK
  <2>3. settings \in 0 .. MaxSaves
    BY DEF StoreInv, Store!TypeOK
  <2> QED  BY <1>1, <2>1, <2>2, <2>3
<1>3. /\ Store!TypeOK' /\ Order' /\ Idle' /\ Commit' /\ Repair' /\ Files'
      /\ InFlight' = InFlight \cup (IF pending = Store!Absent THEN {} ELSE {pending})
      /\ InFlight' # {} => settings \in InFlight' /\ Store!LastOf(Store!Chained) = settings
  BY <1>1, <1>2, ChainKeeps
<1>4. settings \in Nat
  BY DEF StoreInv, Store!TypeOK
<1>5. Settled'
  <2>1. InFlight' = {} => InFlight = {} /\ pending = Store!Absent
    BY <1>3
  <2>2. InFlight' = {} /\ settings > refused => Stands(settings)'
    BY <1>1, <2>1 DEF StoreInv, Settled, Stands, Store!OnDisk
  <2> QED  BY <1>1, <1>3, <1>4, <2>2 DEF Settled, Stands
<1> QED  BY <1>3, <1>5 DEF StoreInv

LEMMA FlushAgainStep ==
  ASSUME Store!StoreAssumption, StoreInv, Store!FlushAgain
  PROVE  StoreInv'
<1>1. /\ Store!Running /\ Store!Running' /\ pc = "flushing" /\ chain' = Store!Chained
      /\ pending' = Store!Absent
      /\ pending # Store!Absent
      /\ flush' = [flush EXCEPT !.until = Store!LastOf(Store!Chained), !.again = TRUE]
      /\ UNCHANGED <<disk, pc, writing, settings, saves, promised, refused, failures, crashes>>
  BY DEF Store!FlushAgain, Store!Running
<1>2. /\ Store!LastOf(Store!Chained) = settings /\ settings \in 0 .. MaxSaves
      /\ flush' \in [upTo : 0 .. MaxSaves, until : 0 .. MaxSaves, again : BOOLEAN]
      /\ flush'.upTo = flush.upTo /\ flush'.until = settings
  BY <1>1 DEF StoreInv, Store!TypeOK, Order
<1>3. /\ Store!TypeOK' /\ Order' /\ Idle' /\ Commit' /\ Repair' /\ Files'
      /\ InFlight' = InFlight \cup {pending}
      /\ settings \in InFlight'
  BY <1>1, <1>2, ChainKeeps
<1>4. /\ flush.upTo \in Nat /\ pending \in Nat /\ flush.upTo < pending /\ flush.upTo <= settings
  BY <1>1 DEF StoreInv, Store!TypeOK, Settled, Store!Content, Store!Absent
<1>5. (\E c \in InFlight' : c <= flush.upTo) <=> (\E c \in InFlight : c <= flush.upTo)
  BY <1>3, <1>4
<1>6. Settled'
  BY <1>1, <1>2, <1>3, <1>4, <1>5 DEF StoreInv, Settled, Stands, Store!OnDisk
<1> QED  BY <1>3, <1>6 DEF StoreInv

\* When flush returns, what was saved before it stands or was refused.
LEMMA FlushDoneStep ==
  ASSUME Store!StoreAssumption, StoreInv, Store!FlushDone
  PROVE  StoreInv'
<1>1. /\ Store!Running /\ Store!Running' /\ pc = "flushing" /\ pc' = "flushed"
      /\ flush' = Store!NoFlush
      /\ flush.until = 0 \/ Store!Flushed
      /\ promised' = IF refused < flush.upTo THEN Store!Larger(promised, flush.upTo) ELSE promised
      /\ UNCHANGED <<disk, writing, pending, chain, settings, saves, refused, failures, crashes>>
  BY DEF Store!FlushDone, Store!Running
<1>2. /\ flush.upTo \in 0 .. MaxSaves /\ promised \in 0 .. MaxSaves /\ refused \in Nat
      /\ MaxSaves \in Nat
  BY DEF StoreInv, Store!TypeOK, Store!StoreAssumption
<1>3. Store!TypeOK'
  BY <1>1, <1>2 DEF StoreInv, Store!TypeOK, Store!Larger, Store!NoFlush
<1>4. /\ InFlight' = InFlight /\ Queued' = Queued
      /\ Store!LastOf(Store!Chained)' = Store!LastOf(Store!Chained)
  BY <1>1 DEF InFlight, Queued, Store!LastOf, Store!Chained
<1>5. flush.until \notin InFlight
  <2>1. CASE flush.until = 0
    BY <2>1, FlightContents DEF Store!Absent
  <2>2. CASE Store!Flushed
    BY <2>2 DEF Store!Flushed, InFlight, Queued
  <2> QED  BY <1>1, <2>1, <2>2
<1>6. /\ \A c \in InFlight : ~(c <= flush.upTo)
      /\ flush.upTo > refused => Stands(flush.upTo)
      /\ flush.upTo <= settings /\ (pending # Store!Absent => flush.upTo < pending)
  BY <1>1, <1>5 DEF StoreInv, Settled
<1>7. \A c \in InFlight : flush.upTo < c
  BY <1>2, <1>6, FlightContents
<1>8. Order'
  BY <1>1, <1>2, <1>4, <1>6, <1>7 DEF StoreInv, Order, Store!Larger
<1>9. Files'
  BY <1>1, <1>2, <1>6 DEF StoreInv, Files, Store!Larger, Stands, Store!OnDisk, Store!Running
<1>10. Commit' /\ Settled'
  BY <1>1, <1>4 DEF StoreInv, Commit, Settled, Stands, Store!OnDisk, Store!Running
<1> QED  BY <1>1, <1>3, <1>8, <1>9, <1>10, RunningKeeps DEF StoreInv

\* The end of the program, also by a crash, keeps the files and the history.
LEMMA DownStep ==
  ASSUME Store!StoreAssumption, StoreInv, Store!Leave \/ Store!Crash
  PROVE  StoreInv'
<1>1. /\ pc' = "down" /\ writing' = Store!NotWriting /\ pending' = Store!Absent /\ chain' = <<>>
      /\ flush' = Store!NoFlush /\ refused' = 0
      /\ UNCHANGED <<disk, settings, saves, promised, failures>>
  BY DEF Store!Leave, Store!Crash, Store!GoDown
<1>2. Store!TypeOK'
  <2>1. MaxSaves \in Nat /\ 0 \in 0 .. MaxSaves /\ MaxCrashes \in Nat
    BY DEF Store!StoreAssumption
  <2>2. crashes' \in 0 .. MaxCrashes
    <3>1. crashes \in 0 .. MaxCrashes
      BY DEF StoreInv, Store!TypeOK
    <3> QED  BY <2>1, <3>1 DEF Store!Leave, Store!Crash
  <2> QED  BY <1>1, <2>1, <2>2 DEF StoreInv, Store!TypeOK, Store!NotWriting, Store!NoFlush,
      Store!Absent
<1>3. InFlight' = {} /\ Queued' = {}
  BY <1>1 DEF InFlight, Queued, Store!NotWriting
<1>4. Order'
  BY <1>1, <1>3 DEF StoreInv, Order, Store!TypeOK, Store!NotWriting, Store!Absent
<1>5. Idle' /\ Commit' /\ Repair' /\ Files' /\ Settled'
  BY <1>1 DEF StoreInv, Idle, Commit, Repair, Files, Settled, Store!OnDisk, Store!Running,
      Store!NotWriting
<1> QED  BY <1>2, <1>4, <1>5 DEF StoreInv

LEMMA DamageStep ==
  ASSUME Store!StoreAssumption, StoreInv, Store!Damage
  PROVE  StoreInv'
<1> USE DEF Store!Absent, Store!Damaged
<1>1. /\ pc = "down" /\ disk["target"] \in Store!Content /\ failures' = failures + 1
      /\ failures < MaxFailures
      /\ disk' = [disk EXCEPT !["target"] = Store!Damaged]
      /\ promised' = IF disk["backup"] \notin Store!Content THEN 0
                     ELSE IF disk["backup"] < promised THEN disk["backup"] ELSE promised
      /\ UNCHANGED <<pc, writing, pending, chain, flush, settings, saves, refused, crashes>>
  BY DEF Store!Damage, Store!Put
<1>2. /\ InFlight = {} /\ writing = Store!NotWriting /\ pending = Store!Absent /\ chain = <<>>
      /\ refused = 0
  BY <1>1, NothingInFlight DEF StoreInv, Loading
<1>3. InFlight' = {} /\ Queued' = {}
  BY <1>1, <1>2 DEF InFlight, Queued, Store!NotWriting
<1>4. promised' \in 0 .. MaxSaves /\ promised' <= promised
      /\ (promised' > 0 => disk["backup"] >= promised')
  <2>1. promised \in 0 .. MaxSaves /\ MaxSaves \in Nat
    BY DEF StoreInv, Store!TypeOK, Store!StoreAssumption
  <2> QED  BY <1>1, <2>1 DEF Store!Content
<1>5. failures' \in 0 .. MaxFailures
  <2>1. failures \in 0 .. MaxFailures
    BY DEF StoreInv, Store!TypeOK
  <2>2. MaxFailures \in Nat
    BY DEF Store!StoreAssumption
  <2> QED  BY <1>1, <2>1, <2>2
<1>6. Store!TypeOK'
  BY <1>1, <1>4, <1>5 DEF StoreInv, Store!TypeOK
<1>7. Order'
  <2>1. \A f \in DOMAIN disk' : disk'[f] <= saves'
    BY <1>1 DEF StoreInv, Store!TypeOK, Order
  <2> QED  BY <1>1, <1>2, <1>3, <2>1 DEF StoreInv, Order, Store!NotWriting
<1>8. Files'
  BY <1>1, <1>4 DEF Files, Store!OnDisk, Store!Running, StoreInv, Store!TypeOK, Store!Content
<1>9. Idle' /\ Commit' /\ Repair' /\ Settled'
  BY <1>1, <1>2 DEF StoreInv, Idle, Commit, Repair, Settled, Store!Running, Store!NotWriting
<1> QED  BY <1>6, <1>7, <1>8, <1>9 DEF StoreInv

-------------------------------------------------------------------------------
(* The theorem *)

LEMMA StoreInit ==
  ASSUME Store!StoreAssumption, Store!Init
  PROVE  StoreInv
<1>1. InFlight = {} /\ Queued = {}
  BY DEF Store!Init, InFlight, Queued, Store!NotWriting
<1>2. Store!TypeOK
  BY DEF Store!Init, Store!TypeOK, Store!StoreAssumption, Store!NotWriting, Store!NoFlush,
      Store!Absent
<1>3. Order
  BY <1>1 DEF Store!Init, Order, Store!NotWriting, Store!Absent
<1> QED
  BY <1>2, <1>3
  DEF Store!Init, StoreInv, Idle, Commit, Repair, Files, Settled, Store!Running,
      Store!NotWriting, Store!OnDisk

LEMMA StoreUnchanged ==
  ASSUME StoreInv, UNCHANGED Store!storeVars
  PROVE  StoreInv'
<1>1. Store!TypeOK' /\ Idle' /\ Commit' /\ Repair' /\ Files'
  BY DEF StoreInv, Store!storeVars, Store!TypeOK, Idle, Commit, Repair, Files, Store!OnDisk,
      Store!Running
<1>2. /\ InFlight' = InFlight /\ Queued' = Queued
      /\ Store!LastOf(Store!Chained)' = Store!LastOf(Store!Chained)
  BY DEF Store!storeVars, InFlight, Queued, Store!LastOf, Store!Chained
<1>3. Order'
  BY <1>2 DEF StoreInv, Store!storeVars, Order
<1>4. Settled'
  BY <1>2 DEF StoreInv, Store!storeVars, Settled, Stands, Store!OnDisk, Store!Running
<1> QED  BY <1>1, <1>3, <1>4 DEF StoreInv

LEMMA StoreStep ==
  ASSUME Store!StoreAssumption, StoreInv, [Store!Next]_(Store!storeVars)
  PROVE  StoreInv'
BY LoadStep, SaveStep, EnqueueSaveStep, BeginWriteStep, WriteStep, FlushStep, FlushAgainStep,
   FlushDoneStep, DownStep, DamageStep, StoreUnchanged
DEF Store!Next

\* The files, the queue of writes and the flush that waits for it keep their
\* types across crashes and failing file operations (SettingsStore).
THEOREM SettingsTypeCorrect == Store!Spec => []Store!TypeOK
<1>1. Store!Init => StoreInv
  BY StoreConstants, StoreInit
<1>2. StoreInv /\ [Store!Next]_(Store!storeVars) => StoreInv'
  BY StoreConstants, StoreStep
<1>3. StoreInv => Store!TypeOK
  BY DEF StoreInv
<1> QED  BY <1>1, <1>2, <1>3, PTL DEF Store!Spec

\* Settings of which a save or a flush has said that they are stored are never
\* lost, whatever crashes and fails (AtomicFileStore, SettingsStore): what a start
\* of the program finds is at least as new.
THEOREM SettingsSurviveHolds == Store!Spec => []SettingsSurvive
<1>1. Store!Init => StoreInv
  BY StoreConstants, StoreInit
<1>2. StoreInv /\ [Store!Next]_(Store!storeVars) => StoreInv'
  BY StoreConstants, StoreStep
<1>3. StoreInv => SettingsSurvive
  BY DEF StoreInv, Files, SettingsSurvive, Store!SettingsSurvive
<1> QED  BY <1>1, <1>2, <1>3, PTL DEF Store!Spec

-------------------------------------------------------------------------------
(***************************************************************************)
(* DeliveredIntact is not inductive.  Line: the packets on the line are    *)
(* the one that the receiver needs or, for the strict device alone, the    *)
(* one before.  Behind and Level: the sender either still waits for one    *)
(* acknowledgement of what was taken, or no acknowledgement is on the line *)
(* and it has sent, or is about to send, what is needed.  Between two      *)
(* applications both are false.                                            *)
(***************************************************************************)
\* One end of every transfer is the test device.
DeviceAtOneEnd == \A p \in Pairings : "device" \in {p.sender, p.receiver}

\* The next part the receiver needs: the header, a block, or the end.
Needed == IF receiver.await = "data" THEN receiver.expected ELSE 0

Receiving == receiver.await \in {"idle", "header", "data"}

Packets == {i \in DOMAIN toReceiver : toReceiver[i].kind = "packet"}
Acks == {i \in DOMAIN toSender : toSender[i] = "ACK"}

\* Only the strict device may find a packet twice: it gives up then.
Line ==
    /\ \A i \in Packets :
          LET d == toReceiver[i].data
          IN  /\ d \in 0 .. Blocks /\ toReceiver[i].block = d % BlockMod
              /\ d = Needed \/ (ends.receiver = "device" /\ d + 1 = Needed)
    /\ \A i, j \in Packets : i < j =>
          ends.receiver = "device" /\ toReceiver[i].data <= toReceiver[j].data
    /\ \A i \in DOMAIN toReceiver : toReceiver[i].kind = "EOT" => Needed = End

\* The part that is needed has not been sent.
NotSent == \A i \in DOMAIN toReceiver :
    toReceiver[i].kind # "EOT" /\ (i \in Packets => toReceiver[i].data # Needed)

\* The sender has not seen the acknowledgement of the last part.
Behind ==
    /\ sender.await = "ack" /\ sender.at + 1 = Needed /\ NotSent
    /\ \A i, j \in Acks : i = j

Level ==
    /\ Acks = {}
    /\ \/ sender.await \in {"idle", "request"} /\ Needed = 0 /\ Packets = {}
       \/ sender.await = "data" /\ Needed = 1 /\ NotSent
       \/ sender.await = "ack" /\ sender.at = Needed /\ Needed <= Blocks
       \/ sender.await \in {"eotNak", "eotAck"} /\ Needed = End

Progress == Receiving =>
    /\ Line
    /\ sender.await \in Over \/ Behind \/ Level

SoFar ==
    /\ receiver.await \in {"idle", "header"} => written = <<>> /\ receiver.expected = 1
    /\ receiver.await = "data" => /\ receiver.expected \in 1 .. End
                                  /\ written = [i \in 1 .. receiver.expected - 1 |-> i]
    /\ receiver.await \in {"eot", "end", "completed"} => written = File

TransferInv == TypeOK /\ Progress /\ SoFar

-------------------------------------------------------------------------------
(* The line *)

\* A step takes packets or acknowledgements off the line, at most the first one,
\* and adds none.
FewerPackets == \E k \in {0, 1} : \A i \in DOMAIN toReceiver' :
    \/ toReceiver'[i].kind \in {"CAN", "noise"}
    \/ toReceiver'[i].kind = "EOT" /\ sender.await \in {"eotNak", "eotAck"}
    \/ /\ i + k \in DOMAIN toReceiver
       /\ toReceiver'[i].kind = toReceiver[i + k].kind
       /\ toReceiver'[i].data = toReceiver[i + k].data
       /\ toReceiver'[i].block = toReceiver[i + k].block

FewerAcks == \E k \in {0, 1} : \A i \in DOMAIN toSender' :
    toSender'[i] = "ACK" => i + k \in DOMAIN toSender /\ toSender[i + k] = "ACK"

\* Consecutive blocks have different numbers, also where the number comes round.
LEMMA NextNumberDiffers ==
  ASSUME NEW m \in Nat, m > 1, NEW n \in Nat
  PROVE  n % m # (n + 1) % m
<1> DEFINE q == n \div m
           r == (n + 1) \div m
<1>1. q \in Int /\ r \in Int /\ n = (m * q) + (n % m) /\ n + 1 = (m * r) + ((n + 1) % m)
  OBVIOUS
<1>2. SUFFICES ASSUME n % m = (n + 1) % m PROVE FALSE
  OBVIOUS
<1> HIDE DEF q, r
<1>3. m * r = m * q + 1
  <2>1. m * q \in Int /\ m * r \in Int /\ n % m \in Int
    BY <1>1
  <2> QED  BY <1>1, <1>2, <2>1
<1>4. m * (r - q) = 1
  BY <1>1, <1>3
<1>5. CASE r - q >= 1
  <2>1. m * (r - q) >= m
    BY <1>1, <1>5
  <2> QED  BY <1>4, <2>1
<1>6. CASE r - q <= 0
  <2>1. m * (r - q) <= 0
    BY <1>1, <1>6
  <2> QED  BY <1>4, <2>1
<1> QED  BY <1>1, <1>5, <1>6

LEMMA Numbers ==
  /\ Blocks \in Nat /\ End \in Nat /\ BlockMod \in Nat /\ BlockMod > 2
  /\ \A n \in Nat : n % BlockMod \in 0 .. BlockMod - 1
  /\ 0 % BlockMod = 0
BY YmodemAssumption DEF End

LEMMA PacketType ==
  ASSUME NEW n \in 0 .. End
  PROVE  /\ Packet(n) \in Message /\ Packet(n).kind = "packet" /\ Packet(n).data = n
         /\ n <= Blocks => Packet(n).block = n % BlockMod
BY Numbers DEF Packet, Message, End

LEMMA ByteType ==
  ASSUME NEW k \in {"EOT", "CAN", "noise"}
  PROVE  Byte(k) \in Message /\ Byte(k).kind = k
BY Numbers DEF Byte, Message, End

LEMMA LineTail ==
  ASSUME toReceiver \in Seq(Message), toReceiver # <<>>, toReceiver' = Tail(toReceiver)
  PROVE  /\ toReceiver' \in Seq(Message) /\ FewerPackets
         /\ Head(toReceiver) \in Message /\ 1 \in DOMAIN toReceiver
         /\ Head(toReceiver) = toReceiver[1]
<1>1. /\ toReceiver' \in Seq(Message) /\ Head(toReceiver) \in Message
      /\ 1 \in DOMAIN toReceiver /\ Head(toReceiver) = toReceiver[1]
  OBVIOUS
<1>2. \A i \in DOMAIN toReceiver' :
         i + 1 \in DOMAIN toReceiver /\ toReceiver'[i] = toReceiver[i + 1]
  OBVIOUS
<1> QED  BY <1>1, <1>2 DEF FewerPackets

LEMMA AcksTail ==
  ASSUME toSender \in Seq(Reply), toSender # <<>>, toSender' = Tail(toSender)
  PROVE  /\ toSender' \in Seq(Reply) /\ FewerAcks
         /\ Head(toSender) \in Reply /\ 1 \in DOMAIN toSender /\ Head(toSender) = toSender[1]
         /\ \A i \in DOMAIN toSender' : i + 1 \in DOMAIN toSender /\ toSender'[i] = toSender[i + 1]
<1>1. /\ toSender' \in Seq(Reply) /\ Head(toSender) \in Reply
      /\ 1 \in DOMAIN toSender /\ Head(toSender) = toSender[1]
  OBVIOUS
<1>2. \A i \in DOMAIN toSender' : i + 1 \in DOMAIN toSender /\ toSender'[i] = toSender[i + 1]
  OBVIOUS
<1> QED  BY <1>1, <1>2 DEF FewerAcks

\* Bytes other than ACK are added.
LEMMA OtherBytes ==
  ASSUME toSender \in Seq(Reply), NEW bytes \in Seq(Reply \ {"ACK"}),
         toSender' = toSender \o bytes
  PROVE  toSender' \in Seq(Reply) /\ FewerAcks
<1>1. toSender' \in Seq(Reply)
  OBVIOUS
<1>2. ASSUME NEW i \in DOMAIN toSender', toSender'[i] = "ACK"
      PROVE  i + 0 \in DOMAIN toSender /\ toSender[i + 0] = "ACK"
  <2>1. CASE i <= Len(toSender)
    BY <1>2, <2>1
  <2>2. CASE i > Len(toSender)
    <3>1. i - Len(toSender) \in DOMAIN bytes /\ toSender'[i] = bytes[i - Len(toSender)]
      BY <1>2, <2>2
    <3> QED  BY <1>2, <3>1
  <2> QED  BY <2>1, <2>2
<1> QED  BY <1>1, <1>2 DEF FewerAcks

LEMMA SameLine ==
  /\ toReceiver \in Seq(Message) /\ UNCHANGED toReceiver => FewerPackets
  /\ toSender \in Seq(Reply) /\ UNCHANGED toSender => FewerAcks
<1>1. toReceiver \in Seq(Message) => \A i \in DOMAIN toReceiver : i + 0 = i
  OBVIOUS
<1>2. toSender \in Seq(Reply) => \A i \in DOMAIN toSender : i + 0 = i
  OBVIOUS
<1> QED  BY <1>1, <1>2 DEF FewerPackets, FewerAcks

\* A message comes behind the others.
LEMMA LineLonger ==
  ASSUME toReceiver \in Seq(Message), NEW m \in Message, toReceiver' = Append(toReceiver, m)
  PROVE  /\ toReceiver' \in Seq(Message)
         /\ Len(toReceiver) + 1 \in DOMAIN toReceiver' /\ toReceiver'[Len(toReceiver) + 1] = m
         /\ \A i \in DOMAIN toReceiver :
               i \in DOMAIN toReceiver' /\ i <= Len(toReceiver) /\ toReceiver'[i] = toReceiver[i]
         /\ \A i \in DOMAIN toReceiver' :
               i \in Nat /\ (i \in DOMAIN toReceiver \/ i = Len(toReceiver) + 1)
OBVIOUS

LEMMA NoPacketAdded ==
  ASSUME toReceiver \in Seq(Message), NEW k \in {"EOT", "CAN", "noise"},
         toReceiver' = Append(toReceiver, Byte(k)),
         k = "EOT" => sender.await \in {"eotNak", "eotAck"}
  PROVE  toReceiver' \in Seq(Message) /\ FewerPackets
<1>1. Byte(k) \in Message /\ Byte(k).kind = k
  BY ByteType
<1>2. \A i \in DOMAIN toReceiver : i + 0 = i
  OBVIOUS
<1> QED  BY <1>1, <1>2, LineLonger DEF FewerPackets

\* What is needed, and what the sender waits for, stays the same.
LEMMA ProgressKept ==
  ASSUME toReceiver \in Seq(Message), toReceiver' \in Seq(Message),
         toSender \in Seq(Reply), toSender' \in Seq(Reply),
         Progress, FewerPackets, FewerAcks, UNCHANGED ends,
         Receiving' => Receiving /\ Needed' = Needed,
         \/ sender'.await = sender.await /\ sender'.at = sender.at
         \/ sender'.await \in Over
         \/ {sender.await, sender'.await} \subseteq {"eotNak", "eotAck"}
         \/ {sender.await, sender'.await} \subseteq {"idle", "request"}
  PROVE  Progress'
<1>1. SUFFICES ASSUME Receiving'
               PROVE  Line' /\ (sender'.await \in Over \/ Behind' \/ Level')
  BY DEF Progress
<1>2. PICK k \in {0, 1} : \A i \in DOMAIN toReceiver' :
         \/ toReceiver'[i].kind \in {"CAN", "noise"}
         \/ toReceiver'[i].kind = "EOT" /\ sender.await \in {"eotNak", "eotAck"}
         \/ /\ i + k \in DOMAIN toReceiver
            /\ toReceiver'[i].kind = toReceiver[i + k].kind
            /\ toReceiver'[i].data = toReceiver[i + k].data
            /\ toReceiver'[i].block = toReceiver[i + k].block
  BY DEF FewerPackets
<1>3. PICK n \in {0, 1} : \A i \in DOMAIN toSender' :
         toSender'[i] = "ACK" => i + n \in DOMAIN toSender /\ toSender[i + n] = "ACK"
  BY DEF FewerAcks
<1>4. Receiving /\ Needed' = Needed /\ Line /\ (sender.await \in Over \/ Behind \/ Level)
  BY <1>1 DEF Progress
<1>5. sender.await \in {"eotNak", "eotAck"} => Needed = End
  BY <1>4 DEF Behind, Level, Over
<1>6. \A i \in Packets' : /\ i \in Int /\ i + k \in Packets
                          /\ toReceiver'[i].data = toReceiver[i + k].data
                          /\ toReceiver'[i].block = toReceiver[i + k].block
  BY <1>2 DEF Packets
<1>7. Line'
  <2>1. ASSUME NEW i \in Packets'
        PROVE  /\ toReceiver'[i].data \in 0 .. Blocks
               /\ toReceiver'[i].block = toReceiver'[i].data % BlockMod
               /\ \/ toReceiver'[i].data = Needed'
                  \/ ends'.receiver = "device" /\ toReceiver'[i].data + 1 = Needed'
    BY <1>4, <1>6 DEF Line
  <2>2. ASSUME NEW i \in Packets', NEW j \in Packets', i < j
        PROVE  ends'.receiver = "device" /\ toReceiver'[i].data <= toReceiver'[j].data
    <3>1. i + k < j + k
      BY <1>6, <2>2
    <3> QED  BY <1>4, <1>6, <3>1 DEF Line
  <2>3. ASSUME NEW i \in DOMAIN toReceiver', toReceiver'[i].kind = "EOT"
        PROVE  Needed' = End
    BY <1>2, <1>4, <1>5, <2>3 DEF Line
  <2> QED  BY <2>1, <2>2, <2>3 DEF Line
<1>8. Acks = {} => Acks' = {}
  BY <1>3 DEF Acks
<1>9. Packets = {} => Packets' = {}
  BY <1>6
<1>10. NotSent /\ sender.await \notin {"eotNak", "eotAck"} => NotSent'
  BY <1>2, <1>4, <1>6 DEF NotSent, Packets
<1>11. CASE Behind /\ sender'.await = sender.await /\ sender'.at = sender.at
  <2>1. ASSUME NEW i \in Acks', NEW j \in Acks' PROVE i = j
    <3>1. i + n \in Acks /\ j + n \in Acks /\ i \in Int /\ j \in Int
      BY <1>3 DEF Acks
    <3> QED  BY <1>11, <3>1 DEF Behind
  <2> QED  BY <1>4, <1>7, <1>10, <1>11, <2>1 DEF Behind
<1>12. CASE /\ Behind
            /\ {sender.await, sender'.await} \subseteq {"eotNak", "eotAck", "idle", "request"}
  BY <1>12 DEF Behind
<1>13. CASE Level /\ sender'.await \notin Over
  BY <1>4, <1>7, <1>8, <1>9, <1>10, <1>13 DEF Level, Over
<1> QED  BY <1>4, <1>7, <1>11, <1>12, <1>13 DEF Over

\* A packet with the number that is waited for is the part that is needed.
LEMMA RightPart ==
  ASSUME Line, NEW i \in Packets, Needed \in Nat, toReceiver[i].block = Needed % BlockMod
  PROVE  toReceiver[i].data = Needed /\ Needed <= Blocks
<1> DEFINE d == toReceiver[i].data
<1>1. /\ d \in 0 .. Blocks /\ toReceiver[i].block = d % BlockMod
      /\ d = Needed \/ d + 1 = Needed
  BY DEF Line
<1> HIDE DEF d
<1>2. Blocks \in Nat /\ BlockMod \in Nat /\ BlockMod > 1 /\ d \in Nat
  BY <1>1, Numbers
<1>3. d % BlockMod # (d + 1) % BlockMod
  BY <1>2, NextNumberDiffers
<1>4. d = Needed
  BY <1>1, <1>3
<1> QED  BY <1>1, <1>2, <1>4 DEF d

LEMMA AckAdded ==
  ASSUME toSender \in Seq(Reply), NEW bytes \in {<<"ACK">>, <<"ACK", "C">>},
         toSender' = toSender \o bytes
  PROVE  /\ toSender' \in Seq(Reply)
         /\ \A i \in Acks' : i \in Acks \/ i = Len(toSender) + 1
<1>1. toSender' \in Seq(Reply)
  <2>1. "ACK" \in Reply /\ "C" \in Reply
    BY DEF Reply
  <2>2. <<"ACK">> \in Seq(Reply) /\ <<"ACK", "C">> \in Seq(Reply)
    BY <2>1
  <2> QED  BY <2>2
<1>2. ASSUME NEW i \in Acks', i > Len(toSender)
      PROVE  i = Len(toSender) + 1
  <2>1. CASE bytes = <<"ACK">>
    BY <1>2, <2>1 DEF Acks
  <2>2. CASE bytes = <<"ACK", "C">>
    <3>1. i = Len(toSender) + 1 \/ i = Len(toSender) + 2
      BY <1>2, <2>2 DEF Acks
    <3>2. CASE i = Len(toSender) + 2
      <4>1. toSender'[i] = "C"
        BY <2>2, <3>2
      <4> QED  BY <4>1 DEF Acks
    <3> QED  BY <3>1, <3>2
  <2> QED  BY <2>1, <2>2
<1>3. ASSUME NEW i \in Acks', i <= Len(toSender)
      PROVE  i \in Acks
  BY <1>3 DEF Acks
<1>4. \A i \in Acks' : i \in Int
  BY <1>1 DEF Acks
<1> QED  BY <1>1, <1>2, <1>3, <1>4

\* The receiver takes the part that it needs and acknowledges it.
LEMMA PartTaken ==
  ASSUME toReceiver \in Seq(Message), toSender \in Seq(Reply), Progress, Receiving, Receiving',
         toReceiver # <<>>, toReceiver' = Tail(toReceiver), Head(toReceiver).kind = "packet",
         Needed \in Nat, Head(toReceiver).data = Needed, Needed' = Needed + 1,
         NEW bytes \in {<<"ACK">>, <<"ACK", "C">>}, toSender' = toSender \o bytes,
         UNCHANGED <<ends, sender>>
  PROVE  Progress'
<1>1. /\ 1 \in Packets /\ toReceiver[1].data = Needed
      /\ \A i \in DOMAIN toReceiver' :
            /\ i \in Nat /\ i > 0 /\ i + 1 \in DOMAIN toReceiver
            /\ toReceiver'[i] = toReceiver[i + 1]
  BY LineTail DEF Packets
<1>2. Line /\ (sender.await \in Over \/ Behind \/ Level)
  BY DEF Progress
<1>3. Blocks \in Nat /\ End = Blocks + 1 /\ Needed <= Blocks
  <2>1. toReceiver[1].data \in 0 .. Blocks
    BY <1>1, <1>2 DEF Line
  <2>2. Blocks \in Nat /\ End = Blocks + 1
    BY Numbers DEF End
  <2> QED  BY <1>1, <2>1, <2>2
<1>4. \A i \in DOMAIN toReceiver' : toReceiver'[i].kind # "EOT"
  BY <1>1, <1>2, <1>3 DEF Line
<1>5. ASSUME NEW i \in Packets'
      PROVE  /\ i \in Nat /\ i + 1 \in Packets /\ toReceiver'[i] = toReceiver[i + 1]
             /\ toReceiver'[i].data = Needed /\ ends'.receiver = "device"
  <2>1. i \in Nat /\ i + 1 \in Packets /\ toReceiver'[i] = toReceiver[i + 1] /\ 1 < i + 1
    BY <1>1 DEF Packets
  <2>2. /\ ends.receiver = "device" /\ toReceiver[1].data <= toReceiver[i + 1].data
        /\ toReceiver[i + 1].data \in 0 .. Blocks
        /\ toReceiver[i + 1].data = Needed \/ toReceiver[i + 1].data + 1 = Needed
    BY <1>1, <1>2, <2>1 DEF Line
  <2>3. toReceiver[i + 1].data = Needed
    BY <1>1, <1>3, <2>2
  <2> QED  BY <2>1, <2>2, <2>3
<1>6. Line'
  <2>1. ASSUME NEW i \in Packets'
        PROVE  /\ toReceiver'[i].data \in 0 .. Blocks
               /\ toReceiver'[i].block = toReceiver'[i].data % BlockMod
               /\ ends'.receiver = "device" /\ toReceiver'[i].data + 1 = Needed'
    BY <1>2, <1>5 DEF Line
  <2>2. Needed <= Needed
    OBVIOUS
  <2>3. \A i, j \in Packets' : toReceiver'[i].data <= toReceiver'[j].data
    BY <1>5, <2>2
  <2> QED  BY <1>4, <2>1, <2>3 DEF Line
<1>7. NotSent'
  BY <1>4, <1>5 DEF NotSent
<1>8. CASE sender.await \in Over
  BY <1>6, <1>8 DEF Progress
<1>9. CASE Behind
  BY <1>1, <1>9 DEF Behind, NotSent, Packets
<1>10. CASE Level
  <2>1. sender.await = "ack" /\ sender.at = Needed /\ Acks = {}
    BY <1>1, <1>3, <1>10 DEF Level, NotSent, Packets
  <2>2. \A i, j \in Acks' : i = j
    BY <2>1, AckAdded
  <2>3. Behind'
    BY <1>7, <2>1, <2>2 DEF Behind
  <2> QED  BY <1>6, <2>3 DEF Progress
<1> QED  BY <1>2, <1>8, <1>9, <1>10

\* The sender goes on with the part that the receiver needs.
LEMMA PartSent ==
  ASSUME toReceiver \in Seq(Message), Receiving, Needed \in 0 .. End, Line, NotSent,
         Acks' = {}, EmitBlock(Needed), UNCHANGED <<ends, receiver>>
  PROVE  toReceiver' \in Seq(Message) /\ Progress' /\ sender'.at \in 0 .. End
<1>1. Blocks \in Nat /\ End = Blocks + 1 /\ Needed' = Needed
  BY Numbers DEF End, Needed
<1>2. CASE Needed = End
  <2>1. /\ toReceiver' = Append(toReceiver, Byte("EOT"))
        /\ sender' = [await |-> "eotNak", at |-> Blocks, tries |-> 0]
    BY <1>2 DEF EmitBlock, Emit
  <2>2. Byte("EOT") \in Message /\ Byte("EOT").kind = "EOT"
    BY ByteType
  <2>3. Packets' = Packets /\ \A i \in Packets : toReceiver'[i] = toReceiver[i]
    BY <2>1, <2>2, LineLonger DEF Packets
  <2>4. Line'
    BY <1>1, <1>2, <2>3 DEF Line
  <2>5. Level'
    BY <1>1, <1>2, <2>1 DEF Level
  <2> QED  BY <1>1, <2>1, <2>2, <2>4, <2>5, LineLonger DEF Progress
<1>3. CASE Needed # End
  <2>1. /\ toReceiver' = Append(toReceiver, Packet(Needed))
        /\ sender' = [await |-> "ack", at |-> Needed, tries |-> 0]
    BY <1>3 DEF EmitBlock, Emit
  <2> DEFINE m == Packet(Needed)
             last == Len(toReceiver) + 1
  <2>2. /\ m \in Message /\ m.kind = "packet" /\ m.data = Needed
        /\ m.block = Needed % BlockMod /\ Needed \in 0 .. Blocks
    BY <1>1, <1>3, PacketType
  <2> HIDE DEF m
  <2>3. /\ toReceiver' \in Seq(Message) /\ toReceiver'[last] = m
        /\ \A i \in DOMAIN toReceiver' : i \in Nat /\ (i \in DOMAIN toReceiver \/ i = last)
        /\ \A i \in DOMAIN toReceiver : i < last /\ toReceiver'[i] = toReceiver[i]
    BY <2>1, <2>2, LineLonger DEF m
  <2> HIDE DEF last
  <2>4. \A i \in Packets' : (i \in Packets /\ toReceiver'[i] = toReceiver[i]) \/ i = last
    BY <2>3 DEF Packets
  <2>5. \A i \in Packets : /\ toReceiver[i].data # Needed /\ i < last
                           /\ ends.receiver = "device" /\ toReceiver[i].data + 1 = Needed
                           /\ toReceiver[i].data \in 0 .. Blocks
    BY <2>3 DEF NotSent, Line, Packets
  <2>6. ASSUME NEW i \in Packets', NEW j \in Packets', i < j
        PROVE  ends'.receiver = "device" /\ toReceiver'[i].data <= toReceiver'[j].data
    <3>1. CASE i = last
      BY <2>3, <2>4, <2>5, <2>6, <3>1 DEF Packets
    <3>2. CASE i # last /\ j = last
      BY <1>1, <2>2, <2>3, <2>4, <2>5, <3>2
    <3>3. CASE i # last /\ j # last
      BY <2>4, <2>6, <3>3 DEF Line
    <3> QED  BY <3>1, <3>2, <3>3
  <2>7. ASSUME NEW i \in Packets'
        PROVE  /\ toReceiver'[i].data \in 0 .. Blocks
               /\ toReceiver'[i].block = toReceiver'[i].data % BlockMod
               /\ \/ toReceiver'[i].data = Needed'
                  \/ ends'.receiver = "device" /\ toReceiver'[i].data + 1 = Needed'
    <3>1. CASE i = last
      BY <1>1, <2>2, <2>3, <3>1
    <3>2. CASE i # last
      BY <1>1, <2>4, <3>2 DEF Line
    <3> QED  BY <3>1, <3>2
  <2>8. \A i \in DOMAIN toReceiver' : toReceiver'[i].kind = "EOT" => Needed' = End
    BY <1>1, <2>2, <2>3 DEF Line
  <2>9. Line'
    BY <2>6, <2>7, <2>8 DEF Line
  <2>10. Level'
    BY <1>1, <2>1, <2>2 DEF Level
  <2> QED  BY <1>1, <2>1, <2>2, <2>3, <2>9, <2>10 DEF Progress
<1> QED  BY <1>2, <1>3

\* Only the application sends a packet again, and the strict device finds it.
LEMMA PartSentAgain ==
  ASSUME toReceiver \in Seq(Message), toSender \in Seq(Reply), FewerAcks, Progress, Receiving,
         Needed \in 0 .. End, sender.await = "ack", sender.at \in 0 .. End,
         ends.receiver = "device", toReceiver' = Append(toReceiver, Packet(sender.at)),
         sender'.await = "ack", sender'.at = sender.at, toSender' \in Seq(Reply),
         UNCHANGED <<ends, receiver>>
  PROVE  Progress'
<1> DEFINE m == Packet(sender.at)
           last == Len(toReceiver) + 1
<1>1. /\ Blocks \in Nat /\ End = Blocks + 1 /\ Needed' = Needed
      /\ Line /\ (Behind \/ Level)
  BY Numbers DEF End, Needed, Progress, Over
<1>2. /\ sender.at \in 0 .. Blocks
      /\ \/ Behind /\ sender.at + 1 = Needed
         \/ Level /\ sender.at = Needed /\ Acks = {}
  BY <1>1 DEF Behind, Level
<1>3. /\ m \in Message /\ m.kind = "packet" /\ m.data = sender.at
      /\ m.block = sender.at % BlockMod
  BY <1>1, <1>2, PacketType
<1> HIDE DEF m
<1>4. /\ toReceiver' \in Seq(Message) /\ toReceiver'[last] = m
      /\ \A i \in DOMAIN toReceiver' : i \in Nat /\ (i \in DOMAIN toReceiver \/ i = last)
      /\ \A i \in DOMAIN toReceiver : i < last /\ toReceiver'[i] = toReceiver[i]
  BY <1>3, LineLonger DEF m
<1> HIDE DEF last
<1>5. \A i \in Packets' : (i \in Packets /\ toReceiver'[i] = toReceiver[i]) \/ i = last
  BY <1>4 DEF Packets
<1>6. \A i \in Packets : /\ i < last /\ toReceiver[i].data <= sender.at
                         /\ toReceiver[i].data \in 0 .. Blocks
                         /\ toReceiver[i].block = toReceiver[i].data % BlockMod
                         /\ \/ toReceiver[i].data = Needed
                            \/ toReceiver[i].data + 1 = Needed
  <2>1. ASSUME NEW i \in Packets
        PROVE  /\ toReceiver[i].data \in 0 .. Blocks
               /\ toReceiver[i].block = toReceiver[i].data % BlockMod
               /\ toReceiver[i].data = Needed \/ toReceiver[i].data + 1 = Needed
               /\ i \in DOMAIN toReceiver
    BY <1>1 DEF Line, Packets
  <2>2. ASSUME NEW i \in Packets, Behind
        PROVE  toReceiver[i].data # Needed
    BY <2>2 DEF Behind, NotSent, Packets
  <2>3. ASSUME NEW i \in Packets
        PROVE  toReceiver[i].data <= sender.at
    <3>1. CASE Behind /\ sender.at + 1 = Needed
      BY <1>1, <1>2, <2>1, <2>2, <3>1
    <3>2. CASE sender.at = Needed
      <4>1. \A d, n \in Int : d = n \/ d + 1 = n => d <= n
        OBVIOUS
      <4>2. toReceiver[i].data \in Int /\ Needed \in Int
        BY <1>1, <2>1
      <4> QED  BY <2>1, <3>2, <4>1, <4>2
    <3> QED  BY <1>2, <3>1, <3>2
  <2> QED  BY <1>4, <2>1, <2>3
<1>7. Line'
  <2>1. ASSUME NEW i \in Packets', NEW j \in Packets', i < j
        PROVE  toReceiver'[i].data <= toReceiver'[j].data
    <3>1. CASE i = last
      BY <1>4, <1>5, <1>6, <2>1, <3>1 DEF Packets
    <3>2. CASE i # last /\ j = last
      BY <1>3, <1>4, <1>5, <1>6, <3>2
    <3>3. CASE i # last /\ j # last
      BY <1>1, <1>5, <2>1, <3>3 DEF Line
    <3> QED  BY <3>1, <3>2, <3>3
  <2>2. ASSUME NEW i \in Packets'
        PROVE  /\ toReceiver'[i].data \in 0 .. Blocks
               /\ toReceiver'[i].block = toReceiver'[i].data % BlockMod
               /\ \/ toReceiver'[i].data = Needed'
                  \/ toReceiver'[i].data + 1 = Needed'
    <3>1. CASE i = last
      BY <1>1, <1>2, <1>3, <1>4, <3>1
    <3>2. CASE i # last
      BY <1>1, <1>5, <1>6, <3>2
    <3> QED  BY <3>1, <3>2
  <2>3. \A i \in DOMAIN toReceiver' : toReceiver'[i].kind = "EOT" => Needed' = End
    BY <1>1, <1>3, <1>4 DEF Line
  <2> QED  BY <2>1, <2>2, <2>3 DEF Line
<1>8. PICK n \in {0, 1} : \A i \in DOMAIN toSender' :
         toSender'[i] = "ACK" => i + n \in DOMAIN toSender /\ toSender[i + n] = "ACK"
  BY DEF FewerAcks
<1>9. \A i \in Acks' : i \in Int /\ i + n \in Acks
  BY <1>8 DEF Acks
<1>10. CASE Behind /\ sender.at + 1 = Needed
  <2>1. NotSent'
    <3>1. \A i \in DOMAIN toReceiver' : toReceiver'[i].kind # "EOT"
      BY <1>3, <1>4, <1>10 DEF Behind, NotSent
    <3>2. ASSUME NEW i \in Packets' PROVE toReceiver'[i].data # Needed'
      <4>1. CASE i = last
        <5>1. toReceiver'[i].data = sender.at /\ sender.at # Needed
          BY <1>1, <1>2, <1>3, <1>4, <1>10, <4>1
        <5> QED  BY <1>1, <5>1
      <4>2. CASE i # last
        BY <1>1, <1>5, <1>10, <4>2 DEF Behind, NotSent, Packets
      <4> QED  BY <4>1, <4>2
    <3> QED  BY <3>1, <3>2 DEF NotSent
  <2>2. ASSUME NEW i \in Acks', NEW j \in Acks' PROVE i = j
    BY <1>9, <1>10 DEF Behind
  <2> QED  BY <1>1, <1>7, <1>10, <2>1, <2>2 DEF Behind, Progress
<1>11. CASE Level /\ sender.at = Needed /\ Acks = {}
  BY <1>1, <1>2, <1>7, <1>9, <1>11 DEF Level, Progress
<1> QED  BY <1>2, <1>10, <1>11

-------------------------------------------------------------------------------
(* The sender's steps *)

SenderType == sender \in [await : {"idle", "request", "ack", "data", "eotNak", "eotAck",
                                   "final"} \cup Over,
                          at : 0 .. End, tries : 0 .. MaxRetries]

Typed ==
    /\ ends \in [sender : {"app", "device"}, receiver : {"app", "device"}]
    /\ SenderType /\ sender.at \in 0 .. End /\ Needed \in Nat
    /\ (Receiving => Needed \in 0 .. End)
    /\ toReceiver \in Seq(Message) /\ toSender \in Seq(Reply)

LEMMA TypedInv == TransferInv => Typed
<1> SUFFICES ASSUME TransferInv PROVE Typed
  OBVIOUS
<1>1. Blocks \in Nat /\ End = Blocks + 1
  BY Numbers DEF End
<1>2. /\ ends \in Pairings /\ SenderType /\ sender.at \in 0 .. End
      /\ receiver.expected \in Nat
      /\ toReceiver \in Seq(Message) /\ toSender \in Seq(Reply)
  BY DEF TransferInv, TypeOK, SenderType
<1>3. receiver.await = "data" => receiver.expected \in 1 .. End
  BY DEF TransferInv, SoFar
<1>4. Needed \in Nat /\ (Receiving => Needed \in 0 .. End)
  BY <1>1, <1>2, <1>3 DEF Needed, Receiving
<1> QED  BY <1>2, <1>4, YmodemAssumption DEF Typed

\* An acknowledgement is there only when the sender has not seen the last one.
LEMMA AckMeansBehind ==
  ASSUME Typed, Progress, Receiving, sender.await \notin Over,
         toSender # <<>>, toSender' = Tail(toSender), Head(toSender) = "ACK"
  PROVE  Behind /\ Acks' = {}
<1>1. /\ toSender' \in Seq(Reply) /\ 1 \in Acks
      /\ \A i \in DOMAIN toSender' : i + 1 \in DOMAIN toSender /\ toSender'[i] = toSender[i + 1]
  BY AcksTail DEF Typed, Acks
<1>2. Behind
  BY <1>1 DEF Progress, Level
<1>3. ASSUME NEW i \in Acks' PROVE FALSE
  <2>1. i \in Nat /\ i > 0 /\ i + 1 \in Acks
    BY <1>1, <1>3 DEF Acks
  <2> QED  BY <1>1, <1>2, <2>1 DEF Behind
<1> QED  BY <1>2, <1>3

LEMMA AdvanceKeeps ==
  ASSUME Typed, Progress, SenderWaits, toSender # <<>>, toSender' = Tail(toSender),
         Head(toSender) = Wanted, Advance, UNCHANGED <<ends, receiver>>
  PROVE  Progress'
<1>1. SUFFICES ASSUME Receiving PROVE Progress'
  BY DEF Progress, Receiving
<1>2. /\ toReceiver \in Seq(Message) /\ toSender \in Seq(Reply) /\ toSender' \in Seq(Reply)
      /\ FewerAcks
  BY AcksTail DEF Typed
<1>3. Line /\ (Behind \/ Level) /\ sender.await \notin Over \cup {"idle"}
  BY <1>1 DEF Progress, SenderWaits
<1>4. /\ Blocks \in Nat /\ End = Blocks + 1 /\ Needed \in 0 .. End /\ Needed' = Needed
      /\ sender.at \in 0 .. End
  BY <1>1, Numbers DEF Typed, End, Needed
<1>5. UNCHANGED toReceiver => toReceiver' \in Seq(Message) /\ FewerPackets
  BY <1>2, SameLine
<1>6. Level => Acks' = {}
  BY <1>2 DEF Level, FewerAcks, Acks
<1>7. CASE sender.await = "request"
  <2>1. Needed = 0 /\ Packets = {} /\ Acks' = {}
    BY <1>3, <1>6, <1>7 DEF Behind, Level
  <2>2. NotSent
    BY <1>3, <1>4, <2>1 DEF NotSent, Line
  <2>3. EmitBlock(Needed)
    BY <1>4, <1>7, <2>1 DEF Advance, EmitBlock
  <2> QED  BY <1>1, <1>2, <1>3, <1>4, <2>1, <2>2, <2>3, PartSent
<1>8. CASE sender.await = "ack"
  <2>1. Head(toSender) = "ACK"
    BY <1>8 DEF Wanted
  <2>2. Behind /\ Acks' = {}
    BY <1>1, <1>3, <2>1, AckMeansBehind
  <2>3. NotSent /\ sender.at + 1 = Needed
    BY <2>2 DEF Behind
  <2>4. CASE sender.at = 0
    <3>1. sender'.await = "data" /\ UNCHANGED toReceiver
      BY <1>8, <2>4 DEF Advance
    <3>2. Line' /\ NotSent'
      BY <1>3, <1>4, <2>3, <3>1 DEF Line, NotSent, Packets
    <3> QED  BY <1>4, <2>2, <2>3, <2>4, <3>1, <3>2 DEF Level, Progress
  <2>5. CASE sender.at \in 1 .. Blocks
    <3>1. EmitBlock(Needed)
      BY <1>8, <2>3, <2>5 DEF Advance
    <3> QED  BY <1>1, <1>2, <1>3, <1>4, <2>2, <2>3, <3>1, PartSent
  <2> QED  BY <1>4, <2>3, <2>4, <2>5
<1>9. CASE sender.await = "data"
  <2>1. Needed = 1 /\ NotSent /\ Acks' = {}
    BY <1>3, <1>6, <1>9 DEF Behind, Level
  <2>2. EmitBlock(Needed)
    BY <1>9, <2>1 DEF Advance
  <2> QED  BY <1>1, <1>2, <1>3, <1>4, <2>1, <2>2, PartSent
<1>10. CASE sender.await = "eotNak"
  <2>1. toReceiver' = Append(toReceiver, Byte("EOT")) /\ sender'.await = "eotAck"
    BY <1>10 DEF Advance, Emit
  <2>2. toReceiver' \in Seq(Message) /\ FewerPackets
    BY <1>2, <1>10, <2>1, NoPacketAdded
  <2> QED  BY <1>1, <1>2, <1>4, <1>10, <2>1, <2>2, ProgressKept DEF Receiving
<1>11. CASE sender.await = "eotAck"
  <2>1. Head(toSender) = "ACK"
    BY <1>11 DEF Wanted
  <2>2. Behind
    BY <1>1, <1>3, <2>1, AckMeansBehind
  <2> QED  BY <1>11, <2>2 DEF Behind
<1> QED  BY <1>3, <1>7, <1>8, <1>9, <1>10, <1>11 DEF Behind, Level

LEMMA AgainKeeps ==
  ASSUME Typed, Progress, SenderWaits, Again, ends.receiver = "device",
         toSender' \in Seq(Reply), FewerAcks, UNCHANGED <<ends, receiver>>
  PROVE  Progress'
<1>1. SUFFICES ASSUME Receiving PROVE Progress'
  BY DEF Progress, Receiving
<1>2. /\ toReceiver \in Seq(Message) /\ toSender \in Seq(Reply) /\ Needed \in 0 .. End
      /\ sender.at \in 0 .. End /\ Needed' = Needed /\ Receiving'
  BY <1>1 DEF Typed, Needed, Receiving
<1>3. CASE sender'.await = "failed" /\ UNCHANGED toReceiver
  BY <1>1, <1>2, <1>3, SameLine, ProgressKept DEF Over
<1>4. CASE sender.await = "ack" /\ sender'.await = "ack" /\ sender'.at = sender.at
           /\ toReceiver' = Append(toReceiver, Packet(sender.at))
  BY <1>1, <1>2, <1>4, PartSentAgain
<1>5. CASE /\ sender.await \in {"eotNak", "eotAck"} /\ sender'.await = "eotNak"
           /\ toReceiver' = Append(toReceiver, Byte("EOT"))
  <2>1. toReceiver' \in Seq(Message) /\ FewerPackets
    BY <1>2, <1>5, NoPacketAdded
  <2> QED  BY <1>1, <1>2, <1>5, <2>1, ProgressKept
<1>6. CASE /\ UNCHANGED toReceiver /\ sender'.await = sender.await /\ sender'.at = sender.at
  BY <1>1, <1>2, <1>6, SameLine, ProgressKept
<1>7. CASE sender.tries + 1 >= MaxRetries
  BY <1>3, <1>7 DEF Again, SenderEnds, Typed, SenderType
<1>8. CASE ~(sender.tries + 1 >= MaxRetries)
  BY <1>4, <1>5, <1>6, <1>8 DEF Again, Typed, SenderType
<1> QED  BY <1>7, <1>8

\* Neither the receiver nor its file changes.
LEMMA ReceiverUntouched ==
  ASSUME SoFar, UNCHANGED <<receiver, written>>
  PROVE  SoFar'
BY DEF SoFar

LEMMA AdvanceType ==
  ASSUME SenderType, toReceiver \in Seq(Message), Advance
  PROVE  SenderType' /\ toReceiver' \in Seq(Message)
<1>1. /\ Blocks \in Nat /\ End = Blocks + 1 /\ MaxRetries \in Nat
      /\ \A i \in 0 .. End : Packet(i) \in Message
      /\ \A k \in {"EOT", "CAN", "noise"} : Byte(k) \in Message
  BY Numbers, PacketType, ByteType, YmodemAssumption DEF End
<1>2. ASSUME NEW m \in Message, NEW await \in {"ack", "eotNak", "eotAck"}, NEW at \in 0 .. End,
             Emit(m, await, at)
      PROVE  SenderType' /\ toReceiver' \in Seq(Message)
  BY <1>1, <1>2 DEF Emit, SenderType
<1>3. ASSUME NEW i \in 1 .. End, EmitBlock(i)
      PROVE  SenderType' /\ toReceiver' \in Seq(Message)
  BY <1>1, <1>2, <1>3 DEF EmitBlock
<1>4. CASE sender.await = "ack" /\ sender.at \in 1 .. Blocks
  BY <1>1, <1>3, <1>4 DEF Advance
<1>5. CASE sender.await = "data"
  BY <1>1, <1>3, <1>5 DEF Advance
<1>6. CASE sender.await \in {"request", "eotNak", "final"}
  BY <1>1, <1>2, <1>6 DEF Advance
<1>7. CASE /\ UNCHANGED toReceiver
           /\ \/ sender' = [await |-> "data", at |-> 0, tries |-> 0]
              \/ sender' = [await |-> "final", at |-> Blocks, tries |-> 0]
              \/ sender' = [sender EXCEPT !.await = "completed"]
  BY <1>1, <1>7 DEF SenderType, Over
<1> QED  BY <1>4, <1>5, <1>6, <1>7 DEF Advance, SenderEnds

LEMMA AgainType ==
  ASSUME SenderType, toReceiver \in Seq(Message), Again, SenderWaits
  PROVE  SenderType' /\ toReceiver' \in Seq(Message)
<1>1. /\ Blocks \in Nat /\ End = Blocks + 1 /\ MaxRetries \in Nat /\ sender.at \in 0 .. End
      /\ sender.tries \in Nat /\ Packet(sender.at) \in Message /\ Byte("EOT") \in Message
  BY Numbers, PacketType, ByteType, YmodemAssumption DEF End, SenderType
<1>2. toReceiver' \in Seq(Message)
  <2>1. \/ UNCHANGED toReceiver
        \/ toReceiver' = Append(toReceiver, Packet(sender.at))
        \/ toReceiver' = Append(toReceiver, Byte("EOT"))
    BY DEF Again, SenderEnds
  <2> QED  BY <1>1, <2>1
<1>3. SenderType'
  <2>1. CASE sender.tries + 1 >= MaxRetries
    BY <2>1 DEF Again, SenderEnds, SenderType, Over
  <2>2. CASE ~(sender.tries + 1 >= MaxRetries)
    <3>1. sender.tries + 1 \in 0 .. MaxRetries
      BY <1>1, <2>2
    <3> QED  BY <2>2, <3>1 DEF Again, SenderType
  <2> QED  BY <2>1, <2>2
<1> QED  BY <1>2, <1>3

LEMMA SenderMoves ==
  ASSUME TransferInv, SenderLeaves, SenderType', toReceiver' \in Seq(Message),
         toSender' \in Seq(Reply), Progress'
  PROVE  TransferInv'
<1>1. SoFar'
  BY ReceiverUntouched DEF TransferInv, SenderLeaves
<1>2. TypeOK'
  BY DEF TransferInv, TypeOK, SenderLeaves, SenderType
<1> QED  BY <1>1, <1>2 DEF TransferInv

LEMMA SenderGoesOn ==
  ASSUME TransferInv, SenderLeaves, SenderWaits, toSender # <<>>, toSender' = Tail(toSender),
         Head(toSender) = Wanted, Advance
  PROVE  TransferInv'
<1>1. Typed /\ Progress /\ toSender' \in Seq(Reply)
  BY TypedInv, AcksTail DEF TransferInv, Typed
<1>2. Progress'
  BY <1>1, AdvanceKeeps DEF SenderLeaves
<1>3. SenderType' /\ toReceiver' \in Seq(Message)
  BY <1>1, AdvanceType DEF Typed
<1> QED  BY <1>1, <1>2, <1>3, SenderMoves

\* The sender stops, starts or waits on; it sends no packet.
LEMMA SenderQuiet ==
  ASSUME TransferInv, SenderLeaves, toSender' \in Seq(Reply), FewerAcks, SenderType',
         toReceiver' \in Seq(Message), FewerPackets,
         \/ sender'.await = sender.await /\ sender'.at = sender.at
         \/ sender'.await \in Over
         \/ {sender.await, sender'.await} \subseteq {"eotNak", "eotAck"}
         \/ {sender.await, sender'.await} \subseteq {"idle", "request"}
  PROVE  TransferInv'
<1>1. Typed /\ Progress
  BY TypedInv DEF TransferInv
<1>2. ends' = ends /\ (Receiving' => Receiving /\ Needed' = Needed)
  BY DEF SenderLeaves, Receiving, Needed
<1>3. Progress'
  BY <1>1, <1>2, ProgressKept DEF Typed
<1> QED  BY <1>3, SenderMoves

LEMMA SenderStops ==
  ASSUME TransferInv, SenderLeaves, SenderEnds("failed"), toSender' \in Seq(Reply), FewerAcks
  PROVE  TransferInv'
<1>1. SenderType' /\ toReceiver' \in Seq(Message) /\ sender'.await \in Over /\ FewerPackets
  BY TypedInv, SameLine DEF Typed, SenderEnds, SenderType, Over
<1> QED  BY <1>1, SenderQuiet

LEMMA SenderRepeats ==
  ASSUME DeviceAtOneEnd, TransferInv, SenderLeaves, SenderWaits, ends.sender = "app", Again,
         toSender' \in Seq(Reply), FewerAcks
  PROVE  TransferInv'
<1>1. Typed /\ Progress /\ ends \in Pairings
  BY TypedInv DEF TransferInv, TypeOK
<1>2. ends.receiver = "device"
  BY <1>1 DEF DeviceAtOneEnd
<1>3. Progress'
  BY <1>1, <1>2, AgainKeeps DEF SenderLeaves
<1>4. SenderType' /\ toReceiver' \in Seq(Message)
  BY <1>1, AgainType DEF Typed
<1> QED  BY <1>3, <1>4, SenderMoves

LEMMA DeviceSendsKeeps ==
  ASSUME TransferInv, DeviceSends
  PROVE  TransferInv'
<1>1. SenderLeaves /\ SenderWaits /\ Typed
  BY TypedInv DEF DeviceSends
<1>2. CASE Quiet /\ SenderEnds("failed") /\ UNCHANGED toSender
  BY <1>1, <1>2, SameLine, SenderStops DEF Typed
<1>3. CASE toSender # <<>> /\ DeviceSenderReads(Head(toSender)) /\ toSender' = Tail(toSender)
  <2>1. CASE Head(toSender) = Wanted /\ Advance
    BY <1>1, <1>3, <2>1, SenderGoesOn
  <2>2. CASE SenderEnds("failed")
    BY <1>1, <1>3, <2>2, AcksTail, SenderStops DEF Typed
  <2> QED  BY <1>3, <2>1, <2>2 DEF DeviceSenderReads
<1> QED  BY <1>2, <1>3 DEF DeviceSends

LEMMA AppSendsKeeps ==
  ASSUME DeviceAtOneEnd, TransferInv, AppSends
  PROVE  TransferInv'
<1>1. SenderLeaves /\ SenderWaits /\ Typed /\ Progress /\ ends.sender = "app"
  BY TypedInv DEF AppSends, TransferInv
<1>2. CASE Quiet /\ Again /\ UNCHANGED toSender
  BY <1>1, <1>2, SameLine, SenderRepeats DEF Typed
<1>3. CASE toSender # <<>> /\ AppSenderReads(Head(toSender)) /\ toSender' = Tail(toSender)
  <2>1. toSender' \in Seq(Reply) /\ FewerAcks
    BY <1>1, <1>3, AcksTail DEF Typed
  <2>2. CASE Head(toSender) = Wanted /\ Advance
    BY <1>1, <1>3, <2>2, SenderGoesOn
  <2>3. CASE SenderEnds("failed")
    BY <1>1, <2>1, <2>3, SenderStops
  <2>4. CASE Again
    BY <1>1, <2>1, <2>4, SenderRepeats
  <2>5. CASE /\ sender.await = "eotNak" /\ toReceiver' = Append(toReceiver, Byte("EOT"))
             /\ sender' = [sender EXCEPT !.await = "eotAck"]
    <3>1. toReceiver' \in Seq(Message) /\ FewerPackets
      BY <1>1, <2>5, NoPacketAdded DEF Typed
    <3>2. SenderType' /\ sender'.await = "eotAck"
      BY <1>1, <2>5 DEF Typed, SenderType
    <3> QED  BY <1>1, <2>1, <2>5, <3>1, <3>2, SenderQuiet
  <2>6. CASE /\ Head(toSender) = "ACK" /\ sender.await = "eotNak" /\ UNCHANGED toReceiver
             /\ sender' = [await |-> "final", at |-> Blocks, tries |-> 0]
    <3>1. SenderType'
      BY <2>6, Numbers, YmodemAssumption DEF SenderType, End
    <3>2. ~Receiving
      BY <1>1, <1>3, <2>6, AckMeansBehind DEF Behind, Over
    <3>3. Progress'
      BY <1>1, <3>2 DEF Progress, Receiving, SenderLeaves
    <3> QED  BY <1>1, <2>1, <2>6, <3>1, <3>3, SenderMoves DEF Typed
  <2> QED  BY <1>3, <2>2, <2>3, <2>4, <2>5, <2>6 DEF AppSenderReads
<1> QED  BY <1>2, <1>3 DEF AppSends

LEMMA SenderOtherKeeps ==
  ASSUME TransferInv, StartSending \/ SenderIgnores \/ CancelSending
  PROVE  TransferInv'
<1>1. SenderLeaves /\ Typed
  BY TypedInv DEF StartSending, SenderIgnores, CancelSending
<1>2. CASE StartSending
  <2>1. toSender' = <<>> /\ FewerAcks
    BY <1>2 DEF StartSending, FewerAcks
  <2>2. SenderType' /\ sender'.await = "request" /\ sender.await = "idle"
    BY <1>1, <1>2 DEF StartSending, Typed, SenderType
  <2> QED  BY <1>1, <1>2, <2>1, <2>2, SameLine, SenderQuiet DEF StartSending, Typed
<1>3. CASE SenderIgnores
  BY <1>1, <1>3, SameLine, AcksTail, SenderQuiet DEF SenderIgnores, Typed, SenderType
<1>4. CASE CancelSending
  <2>1. SenderType' /\ sender'.await \in Over
    BY <1>1, <1>4 DEF CancelSending, Typed, SenderType, Over
  <2>2. toReceiver' \in Seq(Message) /\ FewerPackets
    BY <1>1, <1>4, NoPacketAdded DEF CancelSending, Typed
  <2> QED  BY <1>1, <1>4, <2>1, <2>2, SameLine, SenderQuiet DEF CancelSending, Typed
<1> QED  BY <1>2, <1>3, <1>4

-------------------------------------------------------------------------------
(* The receiver's steps *)

ReceiverType == receiver \in [await : {"idle", "header", "data", "eot", "end"} \cup Over,
                              expected : Nat \ {0}, tries : 0 .. MaxRetries + MaxRequests]

Counts == /\ MaxRetries \in Nat /\ MaxRequests \in Nat
          /\ MaxRetries > 0 /\ MaxRequests > 0

\* The receiver stops, asks again or refuses; the file stays as it is.
LEMMA ReceiverQuiet ==
  ASSUME TransferInv, ReceiverLeaves, ReceiverType', UNCHANGED written,
         toReceiver' \in Seq(Message), FewerPackets, toSender' \in Seq(Reply), FewerAcks,
         \/ receiver'.await = receiver.await
         \/ receiver'.await \in {"failed", "cancelled"}
         \/ receiver.await = "idle" /\ receiver'.await = "header",
         receiver'.expected = receiver.expected
  PROVE  TransferInv'
<1>1. Typed /\ Progress /\ SoFar /\ TypeOK
  BY TypedInv DEF TransferInv
<1>2. Receiving' => Receiving /\ Needed' = Needed
  BY DEF Receiving, Needed
<1>3. Progress'
  BY <1>1, <1>2, ProgressKept DEF ReceiverLeaves, Typed
<1>4. SoFar'
  BY <1>1 DEF SoFar
<1>5. TypeOK'
  BY <1>1 DEF TypeOK, ReceiverLeaves, ReceiverType
<1> QED  BY <1>3, <1>4, <1>5 DEF TransferInv

\* The receiver no longer takes blocks.
LEMMA ReceiverBeyond ==
  ASSUME TransferInv, ReceiverLeaves, ReceiverType', UNCHANGED written, written = File,
         toReceiver' \in Seq(Message), toSender' \in Seq(Reply),
         receiver'.await \in {"eot", "end", "completed"}
  PROVE  TransferInv'
<1>1. Progress' /\ SoFar'
  BY DEF Progress, Receiving, SoFar, File
<1>2. TypeOK'
  BY DEF TransferInv, TypeOK, ReceiverLeaves, ReceiverType
<1> QED  BY <1>1, <1>2 DEF TransferInv

LEMMA Answers ==
  ASSUME toSender \in Seq(Reply),
         NEW bytes \in {<<"ACK">>, <<"ACK", "C">>, <<"NAK">>, <<"C">>, <<"NAK", "C">>, <<"CAN">>},
         Answer(bytes)
  PROVE  /\ toSender' \in Seq(Reply)
         /\ bytes \notin {<<"ACK">>, <<"ACK", "C">>} => FewerAcks
<1>1. CASE bytes \in {<<"ACK">>, <<"ACK", "C">>}
  BY <1>1, AckAdded DEF Answer
<1>2. CASE bytes \in {<<"NAK">>, <<"C">>, <<"NAK", "C">>, <<"CAN">>}
  <2> DEFINE others == Reply \ {"ACK"}
  <2>1. "NAK" \in others /\ "C" \in others /\ "CAN" \in others
    BY DEF Reply
  <2> HIDE DEF others
  <2>2. /\ <<"NAK">> \in Seq(others) /\ <<"C">> \in Seq(others) /\ <<"CAN">> \in Seq(others)
        /\ <<"NAK", "C">> \in Seq(others)
    BY <2>1
  <2>3. bytes \in Seq(Reply \ {"ACK"})
    BY <1>2, <2>2 DEF others
  <2> QED  BY <2>3, OtherBytes DEF Answer
<1> QED  BY <1>1, <1>2

LEMMA AcceptKeeps ==
  ASSUME TransferInv, ReceiverLeaves, ReceiverWaits, toReceiver # <<>>,
         toReceiver' = Tail(toReceiver), Acceptable(Head(toReceiver)), Accept
  PROVE  TransferInv'
<1>1. /\ Typed /\ Progress /\ SoFar /\ TypeOK /\ ReceiverType
      /\ Blocks \in Nat /\ End = Blocks + 1
  BY TypedInv, Numbers DEF TransferInv, TypeOK, ReceiverType, End
<1>2. /\ toReceiver' \in Seq(Message) /\ 1 \in DOMAIN toReceiver
      /\ Head(toReceiver) = toReceiver[1]
  BY <1>1, LineTail DEF Typed
<1>3. CASE receiver.await = "header"
  <2>1. /\ receiver' = [receiver EXCEPT !.await = "data"] /\ UNCHANGED written
        /\ toSender' = toSender \o <<"ACK", "C">>
    BY <1>3 DEF Accept, Becomes, Answer
  <2>2. /\ ReceiverType' /\ receiver'.await = "data" /\ receiver'.expected = 1
        /\ receiver.expected = 1 /\ written = <<>>
    BY <1>1, <1>3, <2>1 DEF ReceiverType, SoFar
  <2>3. Needed = 0 /\ Needed' = 1 /\ Receiving /\ Receiving'
    BY <1>3, <2>2 DEF Needed, Receiving
  <2>4. 1 \in Packets /\ toReceiver[1].block = Needed % BlockMod
    BY <1>2, <1>3, <2>3, Numbers DEF Acceptable, Packets
  <2>5. toReceiver[1].data = Needed
    BY <1>1, <2>3, <2>4, RightPart DEF Progress
  <2>6. Progress'
    BY <1>1, <1>2, <2>1, <2>3, <2>4, <2>5, PartTaken DEF Packets, Typed, ReceiverLeaves
  <2>7. SoFar'
    BY <1>1, <2>1, <2>2 DEF SoFar
  <2>8. toSender' \in Seq(Reply)
    BY <1>1, <2>1, AckAdded DEF Typed
  <2> QED  BY <1>1, <1>2, <2>1, <2>2, <2>6, <2>7, <2>8 DEF TransferInv, TypeOK, ReceiverLeaves,
                                                           ReceiverType
<1>4. CASE receiver.await = "data"
  <2>1. /\ receiver' = [receiver EXCEPT !.await = "eot"] /\ UNCHANGED written
        /\ Answer(<<"NAK">>)
    BY <1>4 DEF Accept, Becomes
  <2>2. ReceiverType' /\ receiver'.await = "eot" /\ toSender' \in Seq(Reply)
    BY <1>1, <2>1, Answers DEF ReceiverType, Typed
  <2>3. Needed = End
    BY <1>1, <1>2, <1>4 DEF Acceptable, Progress, Receiving, Line
  <2>4. written = File
    BY <1>1, <1>4, <2>3 DEF SoFar, Needed, File
  <2> QED  BY <1>2, <2>1, <2>2, <2>4, ReceiverBeyond
<1>5. CASE receiver.await \in {"eot", "end"}
  <2>1. /\ \/ receiver' = [receiver EXCEPT !.await = "end"]
           \/ receiver' = [receiver EXCEPT !.await = "completed"]
        /\ UNCHANGED written /\ (Answer(<<"ACK", "C">>) \/ Answer(<<"ACK">>))
    BY <1>5 DEF Accept, Becomes
  <2>2. ReceiverType' /\ receiver'.await \in {"end", "completed"} /\ toSender' \in Seq(Reply)
    BY <1>1, <2>1, Answers DEF ReceiverType, Typed, Over
  <2> QED  BY <1>1, <1>2, <1>5, <2>1, <2>2, ReceiverBeyond DEF SoFar
<1> QED  BY <1>1, <1>3, <1>4, <1>5 DEF ReceiverWaits, ReceiverType

LEMMA WriteKeeps ==
  ASSUME TransferInv, ReceiverLeaves, toReceiver # <<>>, toReceiver' = Tail(toReceiver),
         receiver.await = "data", Expects(Head(toReceiver)), Write(Head(toReceiver))
  PROVE  TransferInv'
<1>1. /\ Typed /\ Progress /\ SoFar /\ TypeOK /\ ReceiverType
      /\ Blocks \in Nat /\ End = Blocks + 1
  BY TypedInv, Numbers DEF TransferInv, TypeOK, ReceiverType, End
<1>2. /\ toReceiver' \in Seq(Message) /\ 1 \in Packets
      /\ Head(toReceiver) = toReceiver[1] /\ toReceiver[1].kind = "packet"
  BY <1>1, LineTail DEF Typed, Expects, Packets
<1>3. /\ receiver' = [receiver EXCEPT !.expected = @ + 1] /\ toSender' = toSender \o <<"ACK">>
      /\ written' = IF Len(written) < Blocks THEN Append(written, toReceiver[1].data) ELSE written
  BY <1>2 DEF Write, Answer
<1> DEFINE n == receiver.expected
<1>4. /\ ReceiverType' /\ receiver'.await = "data" /\ receiver'.expected = n + 1 /\ n \in 1 .. End
      /\ Needed = n /\ Needed' = n + 1 /\ Receiving /\ Receiving'
      /\ written = [i \in 1 .. n - 1 |-> i]
  <2>1. n \in 1 .. End /\ written = [i \in 1 .. n - 1 |-> i]
    BY <1>1 DEF SoFar
  <2>2. ReceiverType' /\ receiver'.await = "data" /\ receiver'.expected = n + 1
    BY <1>1, <1>3, <2>1 DEF ReceiverType
  <2> QED  BY <2>1, <2>2 DEF Needed, Receiving
<1>5. toReceiver[1].data = Needed /\ Needed <= Blocks
  BY <1>1, <1>2, <1>4, RightPart DEF Progress, Expects, Typed
<1> HIDE DEF n
<1>6. Progress'
  BY <1>1, <1>2, <1>3, <1>4, <1>5, PartTaken DEF Typed, ReceiverLeaves
<1>7. written' = [i \in 1 .. n |-> i] /\ written' \in Seq(1 .. Blocks)
  <2>1. n \in 1 .. Blocks /\ Len(written) = n - 1 /\ written' = Append(written, n)
    BY <1>1, <1>3, <1>4, <1>5
  <2> QED  BY <1>1, <1>4, <2>1
<1>8. SoFar'
  BY <1>1, <1>4, <1>5, <1>7 DEF SoFar
<1>9. toSender' \in Seq(Reply)
  BY <1>1, <1>3, AckAdded DEF Typed
<1> QED  BY <1>1, <1>2, <1>4, <1>6, <1>7, <1>8, <1>9 DEF TransferInv, TypeOK, ReceiverLeaves,
                                                         ReceiverType

\* A further attempt at the header, or none.
LEMMA RequestKeeps ==
  ASSUME TransferInv, ReceiverLeaves, receiver.await = "header", toReceiver' \in Seq(Message),
         FewerPackets, NEW bytes \in {<<>>, <<"NAK">>}, NEW attempts \in {MaxRetries, MaxRequests},
         NextRequest(bytes, attempts)
  PROVE  TransferInv'
<1>1. Typed /\ ReceiverType /\ Counts
  BY TypedInv, YmodemAssumption DEF TransferInv, TypeOK, ReceiverType, Counts
<1>2. CASE receiver.tries + 1 >= attempts
  <2>1. receiver' = [receiver EXCEPT !.await = "failed"] /\ UNCHANGED written /\ Answer(bytes)
    BY <1>2 DEF NextRequest, Becomes
  <2>2. toSender' \in Seq(Reply) /\ FewerAcks
    <3>1. CASE bytes = <<>>
      BY <1>1, <2>1, <3>1, SameLine DEF Answer, Typed
    <3>2. CASE bytes = <<"NAK">>
      BY <1>1, <2>1, <3>2, Answers DEF Typed
    <3> QED  BY <3>1, <3>2
  <2>3. ReceiverType' /\ receiver'.await = "failed" /\ receiver'.expected = receiver.expected
    BY <1>1, <2>1 DEF ReceiverType, Over
  <2> QED  BY <2>1, <2>2, <2>3, ReceiverQuiet
<1>3. CASE ~(receiver.tries + 1 >= attempts)
  <2>1. /\ receiver' = [receiver EXCEPT !.tries = @ + 1] /\ UNCHANGED written
        /\ Answer(Append(bytes, "C"))
    BY <1>3 DEF NextRequest
  <2>2. toSender' \in Seq(Reply) /\ FewerAcks
    <3> DEFINE others == Reply \ {"ACK"}
    <3>1. "NAK" \in others /\ "C" \in others
      BY DEF Reply
    <3> HIDE DEF others
    <3>2. <<"NAK">> \in Seq(others) /\ <<>> \in Seq(others)
      BY <3>1
    <3>3. bytes \in Seq(others)
      BY <3>2
    <3>4. Append(bytes, "C") \in Seq(others)
      BY <3>1, <3>3
    <3> QED  BY <1>1, <2>1, <3>4, OtherBytes DEF Answer, Typed, others
  <2>3. ReceiverType' /\ receiver'.await = "header" /\ receiver'.expected = receiver.expected
    <3>1. receiver.tries + 1 \in 0 .. MaxRetries + MaxRequests
      BY <1>1, <1>3 DEF ReceiverType, Counts
    <3> QED  BY <1>1, <2>1, <3>1 DEF ReceiverType
  <2> QED  BY <2>1, <2>2, <2>3, ReceiverQuiet
<1> QED  BY <1>2, <1>3

LEMMA ReceiverStops ==
  ASSUME TransferInv, ReceiverLeaves, toReceiver' \in Seq(Message), FewerPackets, ReceiverFails
  PROVE  TransferInv'
<1>1. Typed /\ ReceiverType
  BY TypedInv DEF TransferInv, TypeOK, ReceiverType
<1>2. receiver' = [receiver EXCEPT !.await = "failed"] /\ UNCHANGED <<written, toSender>>
  BY DEF ReceiverFails, Becomes, Silent
<1>3. ReceiverType' /\ receiver'.await = "failed" /\ receiver'.expected = receiver.expected
  BY <1>1, <1>2 DEF ReceiverType, Over
<1> QED  BY <1>1, <1>2, <1>3, SameLine, ReceiverQuiet DEF Typed

LEMMA RefuseKeeps ==
  ASSUME TransferInv, ReceiverLeaves, toReceiver' \in Seq(Message), FewerPackets,
         receiver.await = "data", NEW ends_ \in BOOLEAN, Refuse(ends_)
  PROVE  TransferInv'
<1>1. Typed /\ ReceiverType /\ Counts
  BY TypedInv, YmodemAssumption DEF TransferInv, TypeOK, ReceiverType, Counts
<1> DEFINE tries == IF receiver.tries < MaxRetries THEN receiver.tries + 1 ELSE MaxRetries
           await == IF ends_ /\ tries = MaxRetries THEN "failed" ELSE receiver.await
<1>2. /\ receiver' = [receiver EXCEPT !.tries = tries, !.await = await]
      /\ UNCHANGED written /\ Answer(<<"NAK">>)
  BY <1>1 DEF Refuse, ReceiverType
<1>3. tries \in 0 .. MaxRetries + MaxRequests /\ await \in {"failed", "data"}
  BY <1>1 DEF ReceiverType, Counts
<1> HIDE DEF tries, await
<1>4. /\ ReceiverType' /\ receiver'.await \in {"failed", receiver.await}
      /\ receiver'.expected = receiver.expected
  BY <1>1, <1>2, <1>3 DEF ReceiverType, Over
<1>5. toSender' \in Seq(Reply) /\ FewerAcks
  <2>1. <<"NAK">> \notin {<<"ACK">>, <<"ACK", "C">>}
    OBVIOUS
  <2> QED  BY <1>1, <1>2, <2>1, Answers DEF Typed
<1> QED  BY <1>2, <1>4, <1>5, ReceiverQuiet

\* The receiver never finds the block before the expected one while it is the
\* application: the strict sender sends nothing twice.
LEMMA NeverPrevious ==
  ASSUME TransferInv, receiver.await = "data", ends.receiver = "app", toReceiver # <<>>,
         Head(toReceiver).kind = "packet"
  PROVE  ~IsPrevious(Head(toReceiver)) /\ Expects(Head(toReceiver))
<1>1. /\ Typed /\ Line /\ Needed = receiver.expected /\ Needed \in 1 .. End
      /\ Blocks \in Nat /\ End = Blocks + 1 /\ BlockMod \in Nat /\ BlockMod > 1
  BY TypedInv, Numbers DEF TransferInv, Progress, SoFar, Receiving, Needed, End
<1>2. 1 \in Packets /\ Head(toReceiver) = toReceiver[1]
  <2>1. 1 \in DOMAIN toReceiver /\ Head(toReceiver) = toReceiver[1]
    BY <1>1 DEF Typed
  <2> QED  BY <2>1 DEF Packets
<1>3. toReceiver[1].data = Needed /\ toReceiver[1].block = Needed % BlockMod
  BY <1>1, <1>2 DEF Line
<1>4. (Needed - 1) % BlockMod # ((Needed - 1) + 1) % BlockMod
  <2>1. Needed - 1 \in Nat
    BY <1>1
  <2> QED  BY <1>1, <2>1, NextNumberDiffers
<1>5. (Needed - 1) + 1 = Needed
  BY <1>1
<1> QED  BY <1>1, <1>2, <1>3, <1>4, <1>5 DEF IsPrevious, Expects

LEMMA DeviceReceivesKeeps ==
  ASSUME TransferInv, DeviceReceives
  PROVE  TransferInv'
<1>1. ReceiverLeaves /\ ReceiverWaits /\ Typed
  BY TypedInv DEF DeviceReceives
<1>2. CASE Quiet /\ UNCHANGED toReceiver
  <2>1. toReceiver' \in Seq(Message) /\ FewerPackets
    BY <1>1, <1>2, SameLine DEF Typed
  <2>2. CASE receiver.await = "header" /\ NextRequest(<<>>, MaxRequests)
    BY <1>1, <2>1, <2>2, RequestKeeps
  <2>3. CASE ReceiverFails
    BY <1>1, <2>1, <2>3, ReceiverStops
  <2> QED  BY <1>2, <2>2, <2>3 DEF DeviceReceives, Quiet
<1>3. CASE /\ toReceiver # <<>> /\ toReceiver' = Tail(toReceiver)
           /\ DeviceReceiverReads(Head(toReceiver))
  <2>1. CASE receiver.await = "data" /\ Expects(Head(toReceiver)) /\ Write(Head(toReceiver))
    BY <1>1, <1>3, <2>1, WriteKeeps
  <2>2. CASE Acceptable(Head(toReceiver)) /\ Accept
    BY <1>1, <1>3, <2>2, AcceptKeeps
  <2>3. CASE ReceiverFails
    BY <1>1, <1>3, <2>3, LineTail, ReceiverStops DEF Typed
  <2> QED  BY <1>3, <2>1, <2>2, <2>3 DEF DeviceReceiverReads
<1> QED  BY <1>2, <1>3 DEF DeviceReceives

LEMMA AppReceivesKeeps ==
  ASSUME TransferInv, AppReceives
  PROVE  TransferInv'
<1>1. ReceiverLeaves /\ ReceiverWaits /\ Typed /\ ends.receiver = "app"
  BY TypedInv DEF AppReceives
<1>2. CASE Quiet /\ UNCHANGED toReceiver
  <2>1. toReceiver' \in Seq(Message) /\ FewerPackets
    BY <1>1, <1>2, SameLine DEF Typed
  <2>2. CASE receiver.await = "header" /\ NextRequest(<<>>, MaxRetries)
    BY <1>1, <2>1, <2>2, RequestKeeps
  <2>3. CASE ReceiverFails
    BY <1>1, <2>1, <2>3, ReceiverStops
  <2> QED  BY <1>2, <2>2, <2>3 DEF AppReceives, Quiet
<1>3. CASE /\ toReceiver # <<>> /\ toReceiver' = Tail(toReceiver)
           /\ AppReceiverReads(Head(toReceiver))
  <2> DEFINE m == Head(toReceiver)
  <2>1. toReceiver' \in Seq(Message) /\ FewerPackets
    BY <1>1, <1>3, LineTail DEF Typed
  <2>2. CASE Acceptable(m) /\ Accept
    BY <1>1, <1>3, <2>2, AcceptKeeps
  <2>3. CASE /\ receiver.await = "header"
             /\ NextRequest(<<"NAK">>, MaxRetries) \/ NextRequest(<<>>, MaxRetries)
    BY <1>1, <2>1, <2>3, RequestKeeps
  <2>4. CASE receiver.await = "data" /\ Refuse(TRUE)
    BY <1>1, <2>1, <2>4, RefuseKeeps
  <2>5. CASE ReceiverFails
    BY <1>1, <2>1, <2>5, ReceiverStops
  <2>6. CASE /\ receiver.await = "data" /\ m.kind = "packet"
             /\ IF IsPrevious(m) THEN Answer(<<"ACK">>) /\ UNCHANGED <<receiver, written>>
                ELSE IF Expects(m) THEN Write(m) ELSE Refuse(FALSE)
    <3>1. Expects(m) /\ Write(m)
      BY <1>1, <1>3, <2>6, NeverPrevious
    <3> QED  BY <1>1, <1>3, <2>6, <3>1, WriteKeeps
  <2> QED  BY <1>3, <2>2, <2>3, <2>4, <2>5, <2>6 DEF AppReceiverReads
<1> QED  BY <1>2, <1>3 DEF AppReceives

LEMMA ReceiverOtherKeeps ==
  ASSUME TransferInv, StartReceiving \/ ReceiverIgnores \/ CancelReceiving
  PROVE  TransferInv'
<1>1. ReceiverLeaves /\ Typed /\ ReceiverType
  BY TypedInv DEF StartReceiving, ReceiverIgnores, CancelReceiving, TransferInv, TypeOK,
                  ReceiverType
<1>2. <<"C">> \notin {<<"ACK">>, <<"ACK", "C">>} /\ <<"CAN">> \notin {<<"ACK">>, <<"ACK", "C">>}
  OBVIOUS
<1>3. CASE StartReceiving
  <2>1. /\ ReceiverType' /\ receiver'.await = "header" /\ receiver.await = "idle"
        /\ receiver'.expected = receiver.expected
    BY <1>1, <1>3 DEF StartReceiving, ReceiverType
  <2>2. toSender' \in Seq(Reply) /\ FewerAcks
    BY <1>1, <1>2, <1>3, Answers DEF StartReceiving, Typed
  <2> QED  BY <1>1, <1>3, <2>1, <2>2, SameLine, ReceiverQuiet DEF StartReceiving, Typed
<1>4. CASE ReceiverIgnores
  BY <1>1, <1>4, SameLine, LineTail, ReceiverQuiet DEF ReceiverIgnores, Typed, ReceiverType
<1>5. CASE CancelReceiving
  <2>1. /\ ReceiverType' /\ receiver'.await = "cancelled"
        /\ receiver'.expected = receiver.expected
    BY <1>1, <1>5 DEF CancelReceiving, Becomes, ReceiverType, Over
  <2>2. toSender' \in Seq(Reply) /\ FewerAcks
    BY <1>1, <1>2, <1>5, Answers DEF CancelReceiving, Typed
  <2> QED  BY <1>1, <1>5, <2>1, <2>2, SameLine, ReceiverQuiet
           DEF CancelReceiving, Becomes, Typed
<1> QED  BY <1>3, <1>4, <1>5

LEMMA FaultKeeps ==
  ASSUME TransferInv, Fault
  PROVE  TransferInv'
<1>1. Typed /\ Progress /\ SoFar /\ TypeOK /\ UNCHANGED <<ends, sender, receiver, written>>
  BY TypedInv DEF TransferInv, Fault
<1>2. /\ toReceiver' \in Seq(Message) /\ FewerPackets
      /\ toSender' \in Seq(Reply) /\ FewerAcks
  <2>1. CASE toReceiver # <<>> /\ toReceiver' = Tail(toReceiver) /\ UNCHANGED toSender
    BY <1>1, <2>1, LineTail, SameLine DEF Typed
  <2>2. CASE /\ toReceiver # <<>> /\ UNCHANGED toSender
             /\ toReceiver' = [toReceiver EXCEPT ![1].good = FALSE]
    <3> DEFINE hurt == [toReceiver[1] EXCEPT !.good = FALSE]
    <3>0. toReceiver \in Seq(Message) /\ 1 \in DOMAIN toReceiver /\ toReceiver[1] \in Message
      BY <1>1, <2>2 DEF Typed
    <3>5. hurt \in Message
      BY <3>0 DEF Message
    <3>6. toReceiver' = [toReceiver EXCEPT ![1] = hurt]
      BY <2>2
    <3> HIDE DEF hurt
    <3>1. toReceiver' \in Seq(Message)
      BY <3>0, <3>5, <3>6
    <3>2. \A i \in DOMAIN toReceiver' :
             /\ i + 0 \in DOMAIN toReceiver
             /\ toReceiver'[i].kind = toReceiver[i + 0].kind
             /\ toReceiver'[i].data = toReceiver[i + 0].data
             /\ toReceiver'[i].block = toReceiver[i + 0].block
      BY <1>1, <2>2 DEF Typed, Message
    <3> QED  BY <1>1, <2>2, <3>1, <3>2, SameLine DEF FewerPackets, Typed
  <2>3. CASE toSender # <<>> /\ toSender' = Tail(toSender) /\ UNCHANGED toReceiver
    BY <1>1, <2>3, AcksTail, SameLine DEF Typed
  <2>4. CASE toReceiver' = Append(toReceiver, Byte("noise")) /\ UNCHANGED toSender
    BY <1>1, <2>4, NoPacketAdded, SameLine DEF Typed
  <2>5. CASE toSender' = Append(toSender, "noise") /\ UNCHANGED toReceiver
    <3>1. toSender \in Seq(Reply) /\ "noise" \in Reply /\ "noise" # "ACK"
      BY <1>1 DEF Typed, Reply
    <3>2. toSender' \in Seq(Reply)
      BY <2>5, <3>1
    <3>3. ASSUME NEW i \in DOMAIN toSender', toSender'[i] = "ACK"
          PROVE  i + 0 \in DOMAIN toSender /\ toSender[i + 0] = "ACK"
      BY <2>5, <3>1, <3>3
    <3> QED  BY <1>1, <2>5, <3>2, <3>3, SameLine DEF FewerAcks, Typed
  <2> QED  BY <2>1, <2>2, <2>3, <2>4, <2>5 DEF Fault
<1>3. Receiving' => Receiving /\ Needed' = Needed
  BY <1>1 DEF Receiving, Needed
<1>4. Progress'
  BY <1>1, <1>2, <1>3, ProgressKept DEF Typed
<1>5. TypeOK'
  <2>1. MaxFaults \in Nat
    BY YmodemAssumption
  <2>2. faults' \in 0 .. MaxFaults
    BY <1>1, <2>1 DEF TypeOK, Fault
  <2> QED  BY <1>1, <1>2, <2>2 DEF TypeOK
<1>6. SoFar'
  BY <1>1, ReceiverUntouched
<1> QED  BY <1>4, <1>5, <1>6 DEF TransferInv

LEMMA TransferInit == Init => TransferInv
<1> SUFFICES ASSUME Init PROVE TransferInv
  OBVIOUS
<1>1. TypeOK
  <2>1. /\ 0 \in 0 .. End /\ 0 \in 0 .. MaxRetries /\ 0 \in 0 .. MaxFaults /\ 1 \in Nat \ {0}
        /\ 0 \in 0 .. MaxRetries + MaxRequests
    BY Numbers, YmodemAssumption DEF End
  <2>2. sender.await \in {"idle", "request"} /\ <<>> \in Seq(1 .. Blocks)
        /\ <<>> \in Seq(Message) /\ <<>> \in Seq(Reply)
    BY DEF Init
  <2>3. sender = [await |-> sender.await, at |-> 0, tries |-> 0]
    BY DEF Init
  <2>4. SenderType
    <3>1. sender.await \in {"idle", "request", "ack", "data", "eotNak", "eotAck",
                           "final"} \cup Over
      BY <2>2
    <3> HIDE DEF SenderType
    <3>2. \A await \in {"idle", "request", "ack", "data", "eotNak", "eotAck", "final"} \cup Over :
            [await |-> await, at |-> 0, tries |-> 0]
              \in [await : {"idle", "request", "ack", "data", "eotNak", "eotAck",
                            "final"} \cup Over,
                   at : 0 .. End, tries : 0 .. MaxRetries]
      BY <2>1
    <3> QED  BY <2>3, <3>1, <3>2 DEF SenderType
  <2>5. receiver = [await |-> "idle", expected |-> 1, tries |-> 0]
    BY DEF Init
  <2>6. ReceiverType
    BY <2>1, <2>5 DEF ReceiverType
  <2> QED  BY <2>1, <2>2, <2>4, <2>6 DEF Init, TypeOK, SenderType, ReceiverType
<1>2. Progress
  BY Numbers DEF Init, Progress, Line, Level, Needed, Packets, Acks
<1>3. SoFar
  BY DEF Init, SoFar
<1> QED  BY <1>1, <1>2, <1>3 DEF TransferInv

LEMMA TransferStep == ASSUME DeviceAtOneEnd PROVE TransferInv /\ [Next]_vars => TransferInv'
<1> SUFFICES ASSUME TransferInv, [Next]_vars PROVE TransferInv'
  OBVIOUS
<1>1. CASE DeviceSends
  BY <1>1, DeviceSendsKeeps
<1>2. CASE AppSends
  BY <1>2, AppSendsKeeps
<1>3. CASE StartSending \/ SenderIgnores \/ CancelSending
  BY <1>3, SenderOtherKeeps
<1>4. CASE DeviceReceives
  BY <1>4, DeviceReceivesKeeps
<1>5. CASE AppReceives
  BY <1>5, AppReceivesKeeps
<1>6. CASE StartReceiving \/ ReceiverIgnores \/ CancelReceiving
  BY <1>6, ReceiverOtherKeeps
<1>7. CASE Fault
  BY <1>7, FaultKeeps
<1>8. CASE UNCHANGED vars
  BY <1>8 DEF vars, TransferInv, TypeOK, Progress, SoFar, Receiving, Needed, Line, Packets,
              Acks, Behind, Level, NotSent
<1> QED  BY <1>1, <1>2, <1>3, <1>4, <1>5, <1>6, <1>7, <1>8 DEF Next

\* Both ends keep their types on a line with faults: no end asks or sends again
\* more often than its limit, and nothing is written but blocks of the file
\* (sendFile, receiveFile, ymodem_send, ymodem_receive).
THEOREM TransferTypeCorrect == ASSUME DeviceAtOneEnd PROVE Spec => []TypeOK
<1>1. TransferInv => TypeOK
  BY DEF TransferInv
<1> QED  BY <1>1, TransferInit, TransferStep, PTL DEF Spec

\* Whatever the line loses, damages or adds, and however long the file is: when
\* one end is the strict test device, a receiver that reports the transfer as
\* complete has each block of the file, once and in order (ymodem_receive,
\* receiveFile).
THEOREM DeliveredIntactHolds == ASSUME DeviceAtOneEnd PROVE Spec => []DeliveredIntact
<1>1. TransferInv => DeliveredIntact
  BY DEF TransferInv, SoFar, DeliveredIntact
<1> QED  BY <1>1, TransferInit, TransferStep, PTL DEF Spec

\* Both promises, for the behaviours that the run stored_files checks.
THEOREM FilesStayWhole ==
  ASSUME DeviceAtOneEnd
  PROVE  MCSpec => [](DeliveredIntact /\ SettingsSurvive)
<1> DEFINE Inv == TransferInv /\ StoreInv
<1>1. MCInit => Inv
  BY TransferInit, StoreConstants, StoreInit DEF MCInit
<1>2. Inv /\ [MCNext]_<<about, vars, storeState>> => Inv'
  <2> SUFFICES ASSUME TransferInv, StoreInv, [MCNext]_<<about, vars, storeState>>
               PROVE  TransferInv' /\ StoreInv'
    OBVIOUS
  <2>1. [Next]_vars /\ [Store!Next]_(Store!storeVars)
    BY DEF MCNext, storeState, Store!storeVars
  <2> QED  BY <2>1, TransferStep, StoreConstants, StoreStep
<1>3. Inv => DeliveredIntact /\ SettingsSurvive
  BY DEF TransferInv, SoFar, DeliveredIntact, StoreInv, Files, SettingsSurvive,
         Store!SettingsSurvive
<1> QED  BY <1>1, <1>2, <1>3, PTL DEF MCSpec
=================================================================================
