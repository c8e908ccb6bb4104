---------------------------- MODULE ServiceProofs ----------------------------
(***************************************************************************)
(* Proofs about eleven of the services, one by one: each keeps variables  *)
(* of its own, and has a specification made of the initial state and the   *)
(* steps that the composition of the services uses.  Three take one call   *)
(* at a time: the keys of the key store survive failing writes and         *)
(* crashes, the downtimes and recoveries of the downtime tracker take      *)
(* turns, and commission changes apply in order.  The calls of three       *)
(* interleave between their locks: the support of protocol versions, what  *)
(* an accepted transaction was checked against, and the entries of the     *)
(* traversal cache.  Five keep a history of what they did, and the         *)
(* theorem says that the history explains their state: the rates of the    *)
(* commission service, the activation records, the key rotations, the      *)
(* slashing events and the upgrades that the voters approved.              *)
(***************************************************************************)
EXTENDS KeyStore, Downtime, CommissionManager, VersionActivation, Compatibility,
        FlowGraphCache, Commission, ValidatorActivation, KeyRotation, Slashing, Upgrade,
        Sums, SequenceTheorems, WellFoundedInduction, TLAPS

(***************************************************************************)
(* The key store: what crashes and failing writes leave of the validator   *)
(* keys, for any number of addresses and rotations.  RotationsSaved is not *)
(* inductive: one has to know as well that the key file names only         *)
(* addresses that were saved, since LoadKeys makes it the current keys and *)
(* that the keys of a rotation under way were, since they become the       *)
(* current ones.                                                           *)
(***************************************************************************)
KeyStoreSpec == KeyStoreInit /\ [][KeyStoreNext]_keyStoreVars

Rotation == [old : Addresses \cup {NoKeys}, new : Addresses]

StoreTypeOK ==
  /\ saved \subseteq Addresses
  /\ history \in Seq(Rotation)
  /\ historyFile \in Seq(Rotation) \cup {Torn}

MemorySaved ==
  /\ currentKeys \in saved \cup {NoKeys}
  /\ rotating \in saved \cup {NoKeys}
  /\ rotating # NoKeys => keyFile = rotating

FileSaved == keyFile \in saved \cup {NoKeys, Torn}

HistorySaved == \A i \in DOMAIN history : history[i].new \in saved

HistoryFileSaved ==
  historyFile # Torn => \A i \in DOMAIN historyFile : historyFile[i].new \in saved

StoreInv == StoreTypeOK /\ MemorySaved /\ FileSaved /\ HistorySaved /\ HistoryFileSaved

-----------------------------------------------------------------------------
(* The initial state, of a machine without files, satisfies the invariant.  *)
LEMMA StoreInitInv == KeyStoreInit => StoreInv
<1> USE KeyStoreAssumption
<1>1. << >> \in Seq(Rotation) /\ DOMAIN << >> = {}
  OBVIOUS
<1> QED
  BY <1>1 DEF KeyStoreInit, StoreInv, StoreTypeOK, MemorySaved, FileSaved, HistorySaved,
              HistoryFileSaved

(* A new rotation keeps a history whose rotations were all saved.           *)
LEMMA AppendRotation ==
  ASSUME NEW h \in Seq(Rotation), NEW r \in Rotation, NEW S,
         \A i \in DOMAIN h : h[i].new \in S, r.new \in S
  PROVE  /\ Append(h, r) \in Seq(Rotation)
         /\ \A i \in DOMAIN Append(h, r) : Append(h, r)[i].new \in S
<1>1. Append(h, r) \in Seq(Rotation)
  OBVIOUS
<1>2. ASSUME NEW i \in DOMAIN Append(h, r)
      PROVE  Append(h, r)[i].new \in S
  <2>1. DOMAIN Append(h, r) = 1..(Len(h) + 1) /\ DOMAIN h = 1..Len(h) /\ Len(h) \in Nat
    OBVIOUS
  <2>2. CASE i = Len(h) + 1
    <3>1. Append(h, r)[i] = r
      BY <2>2
    <3> QED
      BY <3>1
  <2>3. CASE i # Len(h) + 1
    <3>1. i \in DOMAIN h
      BY <2>1, <2>3
    <3>2. Append(h, r)[i] = h[i]
      BY <2>1, <3>1
    <3> QED
      BY <3>1, <3>2
  <2> QED
    BY <2>2, <2>3
<1> QED
  BY <1>1, <1>2

-----------------------------------------------------------------------------
(* Every call, failing write, crash and restart keeps the invariant.        *)
LEMMA StoreNextInv == StoreInv /\ [KeyStoreNext]_keyStoreVars => StoreInv'
<1> SUFFICES ASSUME StoreInv, [KeyStoreNext]_keyStoreVars PROVE StoreInv'
  OBVIOUS
<1> USE KeyStoreAssumption
<1>t. StoreTypeOK /\ MemorySaved /\ FileSaved /\ HistorySaved /\ HistoryFileSaved
  BY DEF StoreInv
<1>1. CASE UNCHANGED keyStoreVars
  BY <1>1, <1>t DEF keyStoreVars, StoreInv, StoreTypeOK, MemorySaved, FileSaved, HistorySaved,
                    HistoryFileSaved
<1>2. CASE Start
  <2>1. StoreTypeOK'
    <3>1. << >> \in Seq(Rotation)
      OBVIOUS
    <3> QED
      BY <1>2, <1>t, <3>1 DEF Start, StoreTypeOK
  <2>2. HistorySaved'
    <3>1. CASE historyFile = Torn
      <4>1. history' = << >> /\ DOMAIN << >> = {}
        BY <1>2, <3>1 DEF Start
      <4> QED
        BY <4>1 DEF HistorySaved
    <3>2. CASE historyFile # Torn
      BY <1>2, <1>t, <3>2 DEF Start, HistorySaved, HistoryFileSaved
    <3> QED
      BY <3>1, <3>2
  <2>3. MemorySaved' /\ FileSaved' /\ HistoryFileSaved'
    BY <1>2, <1>t DEF Start, MemorySaved, FileSaved, HistoryFileSaved
  <2> QED
    BY <2>1, <2>2, <2>3 DEF StoreInv
<1>3. CASE LoadKeys
  <2>1. keyFile \in saved
    BY <1>3, <1>t DEF LoadKeys, FileSaved
  <2> QED
    BY <1>3, <1>t, <2>1 DEF LoadKeys, Ready, StoreInv, StoreTypeOK, MemorySaved, FileSaved,
                            HistorySaved, HistoryFileSaved
<1>4. ASSUME NEW address \in Addresses, SaveKeys(address)
      PROVE  StoreInv'
  <2>1. saved \subseteq saved' /\ saved' \subseteq Addresses /\ FileSaved'
    BY <1>4, <1>t DEF SaveKeys, Written, NotWritten, FileSaved, StoreTypeOK
  <2>2. rotating' = NoKeys
    BY <1>4 DEF SaveKeys, Ready
  <2> QED
    BY <1>4, <1>t, <2>1, <2>2 DEF SaveKeys, StoreInv, StoreTypeOK, MemorySaved, HistorySaved,
                                  HistoryFileSaved
<1>5. ASSUME NEW address \in Addresses, RotateKeys(address)
      PROVE  StoreInv'
  <2>1. CASE Written(address) /\ rotating' = address
             /\ history' = Append(history, [old |-> currentKeys, new |-> address])
    <3>1. saved' = saved \cup {address} /\ keyFile' = address
      BY <2>1 DEF Written
    <3>2. [old |-> currentKeys, new |-> address] \in Rotation
      BY <1>t DEF Rotation, MemorySaved, StoreTypeOK
    <3>3. history' \in Seq(Rotation) /\ HistorySaved'
      <4>1. history \in Seq(Rotation) /\ \A i \in DOMAIN history : history[i].new \in saved'
        BY <1>t, <3>1 DEF StoreTypeOK, HistorySaved
      <4>2. [old |-> currentKeys, new |-> address].new \in saved'
        BY <3>1
      <4> HIDE DEF Rotation
      <4> QED
        BY <2>1, <3>2, <4>1, <4>2, AppendRotation DEF HistorySaved
    <3> QED
      BY <1>5, <1>t, <2>1, <3>1, <3>3 DEF RotateKeys, StoreInv, StoreTypeOK, MemorySaved, FileSaved,
                                          HistoryFileSaved
  <2>2. CASE NotWritten /\ UNCHANGED <<rotating, history>>
    <3>1. rotating' = NoKeys
      BY <1>5, <2>2 DEF RotateKeys, Ready
    <3> QED
      BY <1>5, <1>t, <2>2, <3>1 DEF RotateKeys, NotWritten, StoreInv, StoreTypeOK, MemorySaved,
                                    FileSaved, HistorySaved, HistoryFileSaved
  <2> QED
    BY <1>5, <2>1, <2>2 DEF RotateKeys
<1>6. CASE SaveRotationHistory
  <2>1. historyFile' \in {history, historyFile, Torn} /\ history' = history /\ saved' = saved
    BY <1>6 DEF SaveRotationHistory
  <2>2. StoreTypeOK' /\ HistorySaved' /\ HistoryFileSaved'
    BY <1>t, <2>1 DEF StoreTypeOK, HistorySaved, HistoryFileSaved
  <2>3. MemorySaved' /\ FileSaved'
    BY <1>6, <1>t DEF SaveRotationHistory, MemorySaved, FileSaved
  <2> QED
    BY <2>2, <2>3 DEF StoreInv
<1>7. CASE Crash
  <2>1. << >> \in Seq(Rotation) /\ DOMAIN << >> = {}
    OBVIOUS
  <2>2. /\ history' = << >> /\ saved' = saved /\ currentKeys' = NoKeys /\ rotating' = NoKeys
        /\ historyFile' \in {historyFile, Torn} /\ keyFile' \in {keyFile, Torn}
    BY <1>7 DEF Crash
  <2> QED
    BY <1>t, <2>1, <2>2 DEF StoreInv, StoreTypeOK, MemorySaved, FileSaved, HistorySaved,
                            HistoryFileSaved
<1> QED
  BY <1>1, <1>2, <1>3, <1>4, <1>5, <1>6, <1>7 DEF KeyStoreNext

(* The invariant is strong enough.                                          *)
LEMMA StoreInvSuffices == StoreInv => RotationsSaved
<1> SUFFICES ASSUME StoreInv PROVE RotationsSaved
  OBVIOUS
<1>1. \A r \in Rotations(history) : r.new \in saved
  BY DEF StoreInv, HistorySaved, Rotations
<1>2. \A r \in Rotations(historyFile) : r.new \in saved
  BY DEF StoreInv, HistoryFileSaved, Rotations
<1> QED
  BY <1>1, <1>2 DEF StoreInv, MemorySaved, RotationsSaved

(* Over failing writes, crashes and restarts, no history of rotations and   *)
(* no keys in memory name keys that never reached the key file.             *)
THEOREM KeysSaved == KeyStoreSpec => []RotationsSaved
<1> QED
  BY StoreInitInv, StoreNextInv, StoreInvSuffices, PTL DEF KeyStoreSpec

-----------------------------------------------------------------------------
(***************************************************************************)
(* The downtime tracker, for any validators, thresholds and recovery       *)
(* periods.  RecoveryAlternates needs the types of the records and two     *)
(* facts more to be inductive: a validator without a record has no events  *)
(* and no misses, and the misses of a record come on top of a threshold    *)
(* for each recovery that was left.                                        *)
(***************************************************************************)
DowntimeSpec == DowntimeInit /\ [][DowntimeNext]_downtimeVars

TrackRecord == [total : Nat, missed : Nat, inRecovery : BOOLEAN, recovered : Nat]
Event == {"ThresholdExceeded", "ExitedRecovery"}

Turn(i) == IF i % 2 = 1 THEN "ThresholdExceeded" ELSE "ExitedRecovery"
InTurns(events) == events \in Seq(Event) /\ \A i \in 1..Len(events) : events[i] = Turn(i)

(* A record that agrees with the number of events of its validator, ...     *)
Agrees(record, n) ==
  /\ record \in TrackRecord
  /\ record.inRecovery <=> n % 2 = 1
  /\ record.recovered < RecoveryPeriod
  /\ record.inRecovery => record.missed >= DowntimeThreshold
  /\ record.missed =< record.total

(* ... and with its misses. *)
Counted(record, n, all) == all \in Nat /\ all >= DowntimeThreshold * (n \div 2) + record.missed

DowntimeInv ==
  /\ Tracked \subseteq Validators
  /\ DOMAIN downtimeEvents = Validators
  /\ \A v \in Validators : InTurns(downtimeEvents[v])
  /\ \A v \in Tracked : Agrees(downtime[v], Len(downtimeEvents[v]))
  /\ \A v \in Validators \ Tracked : downtimeEvents[v] = << >>
  /\ DOMAIN misses = Validators
  /\ \A v \in Tracked : Counted(downtime[v], Len(downtimeEvents[v]), misses[v])
  /\ \A v \in Validators \ Tracked : misses[v] = 0

-----------------------------------------------------------------------------
LEMMA Parity ==
  ASSUME NEW n \in Nat
  PROVE  n % 2 = 1 <=> (n + 1) % 2 # 1
OBVIOUS

(* The next event in turn changes whose turn it is.                         *)
LEMMA NextTurn ==
  ASSUME NEW events, InTurns(events), NEW e \in Event, e = Turn(Len(events) + 1)
  PROVE  /\ InTurns(Append(events, e))
         /\ Len(Append(events, e)) = Len(events) + 1
         /\ Len(events) % 2 = 1 <=> (Len(events) + 1) % 2 # 1
<1>1. events \in Seq(Event) /\ Len(events) \in Nat
  BY DEF InTurns
<1>2. /\ Append(events, e) \in Seq(Event) /\ Len(Append(events, e)) = Len(events) + 1
      /\ \A i \in 1..Len(events) : Append(events, e)[i] = events[i]
      /\ Append(events, e)[Len(events) + 1] = e
  BY <1>1
<1>3. ASSUME NEW i \in 1..(Len(events) + 1)
      PROVE  Append(events, e)[i] = Turn(i)
  <2>1. CASE i = Len(events) + 1
    BY <1>2, <2>1
  <2>2. CASE i # Len(events) + 1
    <3>1. i \in 1..Len(events)
      BY <1>1, <2>2
    <3> QED
      BY <1>2, <3>1 DEF InTurns
  <2> QED
    BY <2>1, <2>2
<1>4. Len(events) % 2 = 1 <=> (Len(events) + 1) % 2 # 1
  BY <1>1, Parity
<1> QED
  BY <1>2, <1>3, <1>4 DEF InTurns

(* Entering a recovery leaves the halves as they are, leaving it adds one.  *)
LEMMA Halves ==
  ASSUME NEW n \in Nat
  PROVE  /\ n \div 2 \in Nat
         /\ n % 2 # 1 => (n + 1) \div 2 = n \div 2
         /\ n % 2 = 1 => (n + 1) \div 2 = n \div 2 + 1
OBVIOUS

LEMMA OneMore ==
  ASSUME NEW k \in Nat
  PROVE  DowntimeThreshold * k \in Nat
         /\ DowntimeThreshold * (k + 1) = DowntimeThreshold * k + DowntimeThreshold
BY DowntimeAssumption

LEMMA DowntimeInitInv == DowntimeInit => DowntimeInv
<1>1. << >> \in Seq(Event) /\ Len(<< >>) = 0
  OBVIOUS
<1> QED
  BY <1>1 DEF DowntimeInit, DowntimeInv, Tracked, InTurns

(* A new record agrees with no events, and with those of a validator that   *)
(* is not in recovery.                                                      *)
LEMMA NewRecordAgrees ==
  ASSUME NEW n \in Nat, n % 2 # 1
  PROVE  Agrees(NewRecord, n)
<1>1. NewRecord \in TrackRecord /\ NewRecord.recovered = 0 /\ NewRecord.missed = 0 /\ NewRecord.total = 0
      /\ NewRecord.inRecovery = FALSE
  BY DEF NewRecord, TrackRecord
<1> QED
  BY <1>1, DowntimeAssumption DEF Agrees

LEMMA DowntimeNextInv == DowntimeInv /\ [DowntimeNext]_downtimeVars => DowntimeInv'
<1> SUFFICES ASSUME DowntimeInv, [DowntimeNext]_downtimeVars PROVE DowntimeInv'
  OBVIOUS
<1> USE DowntimeAssumption
<1>1. CASE UNCHANGED downtimeVars
  BY <1>1 DEF downtimeVars, DowntimeInv, Tracked
<1>t. /\ \A v \in Validators : downtimeEvents[v] \in Seq(Event) /\ Len(downtimeEvents[v]) \in Nat
      /\ \A v \in Tracked : v \in Validators /\ downtime[v] \in TrackRecord
  <2>1. ASSUME NEW v \in Validators
        PROVE  downtimeEvents[v] \in Seq(Event) /\ Len(downtimeEvents[v]) \in Nat
    <3>1. downtimeEvents[v] \in Seq(Event)
      BY DEF DowntimeInv, InTurns
    <3> QED
      BY <3>1
  <2>2. \A v \in Tracked : v \in Validators /\ downtime[v] \in TrackRecord
    BY DEF DowntimeInv, Agrees
  <2> QED
    BY <2>1, <2>2
<1>2. ASSUME NEW w \in Validators, NEW participated \in BOOLEAN,
             RecordDowntimeParticipation(w, participated)
      PROVE  DowntimeInv'
  <2> DEFINE old == IF w \in Tracked THEN downtime[w] ELSE NewRecord
             new == [old EXCEPT !.total = @ + 1, !.missed = IF participated THEN @ ELSE @ + 1]
  <2>1. /\ Tracked' = Tracked \cup {w} /\ downtime'[w] = new
        /\ \A v \in Tracked \ {w} : downtime'[v] = downtime[v]
        /\ downtimeEvents' = downtimeEvents
        /\ misses' = IF participated THEN misses ELSE [misses EXCEPT ![w] = @ + 1]
    BY <1>2 DEF RecordDowntimeParticipation, Tracked
  <2>2. Agrees(old, Len(downtimeEvents[w]))
    <3>1. CASE w \in Tracked
      BY <3>1 DEF DowntimeInv
    <3>2. CASE w \notin Tracked
      <4>1. Len(downtimeEvents[w]) = 0 /\ 0 % 2 # 1
        BY <3>2 DEF DowntimeInv
      <4> QED
        BY <3>2, <4>1, NewRecordAgrees
    <3> QED
      BY <3>1, <3>2
  <2>c. Counted(old, Len(downtimeEvents[w]), misses[w])
    <3>1. CASE w \in Tracked
      BY <3>1 DEF DowntimeInv
    <3>2. CASE w \notin Tracked
      <4>1. Len(downtimeEvents[w]) = 0 /\ 0 \div 2 = 0 /\ DowntimeThreshold * 0 = 0
            /\ misses[w] = 0 /\ NewRecord.missed = 0
        BY <3>2 DEF DowntimeInv, NewRecord
      <4> QED
        BY <3>2, <4>1 DEF Counted
    <3> QED
      BY <3>1, <3>2
  <2> HIDE DEF old
  <2>4. Counted(new, Len(downtimeEvents[w]), misses'[w])
    <3>1. old \in TrackRecord /\ misses[w] \in Nat
      BY <2>2, <2>c DEF Agrees, Counted
    <3>2. PICK b \in Nat : b = DowntimeThreshold * (Len(downtimeEvents[w]) \div 2)
      BY <1>t, Halves, OneMore
    <3>3. old.missed \in Nat /\ misses[w] >= b + old.missed
      BY <2>c, <3>1, <3>2 DEF TrackRecord, Counted
    <3>4. CASE participated
      <4>1. new.missed = old.missed /\ misses'[w] = misses[w]
        BY <2>1, <3>1, <3>4 DEF TrackRecord
      <4> QED
        BY <3>1, <3>2, <3>3, <4>1 DEF Counted
    <3>5. CASE ~participated
      <4>1. new.missed = old.missed + 1 /\ misses'[w] = misses[w] + 1
        BY <2>1, <3>1, <3>5 DEF TrackRecord, DowntimeInv
      <4>2. b \in Nat
        BY <3>2
      <4>3. misses[w] + 1 \in Nat /\ misses[w] + 1 >= b + (old.missed + 1)
        BY <3>1, <3>3, <4>2
      <4>4. misses'[w] \in Nat /\ misses'[w] >= b + new.missed
        BY <4>1, <4>3
      <4> QED
        BY <3>2, <4>4 DEF Counted
    <3> QED
      BY <3>4, <3>5
  <2>3. Agrees(new, Len(downtimeEvents[w]))
    <3>1. old \in TrackRecord
      BY <2>2 DEF Agrees
    <3>2. PICK missed \in {old.missed, old.missed + 1} :
            new = [old EXCEPT !.total = @ + 1, !.missed = missed]
      BY <3>1
    <3> HIDE DEF new
    <3>3. old.missed \in Nat /\ old.total \in Nat /\ missed \in Nat
      BY <3>1 DEF TrackRecord
    <3>4. /\ new \in TrackRecord /\ new.inRecovery = old.inRecovery /\ new.recovered = old.recovered
          /\ new.total = old.total + 1 /\ new.missed = missed
      <4>1. new = [total |-> old.total + 1, missed |-> missed, inRecovery |-> old.inRecovery,
                   recovered |-> old.recovered]
        BY <3>1, <3>2 DEF TrackRecord
      <4>2. old.inRecovery \in BOOLEAN /\ old.recovered \in Nat
        BY <3>1 DEF TrackRecord
      <4> QED
        BY <3>3, <4>1, <4>2 DEF TrackRecord
    <3>5. new.missed >= old.missed /\ new.missed =< old.missed + 1
      BY <3>3, <3>4
    <3>6. old.missed =< old.total /\ (old.inRecovery => old.missed >= DowntimeThreshold)
      BY <2>2 DEF Agrees
    <3>7. new.missed =< new.total
      BY <3>3, <3>4, <3>5, <3>6
    <3>8. new.inRecovery => new.missed >= DowntimeThreshold
      BY <3>3, <3>4, <3>5, <3>6
    <3> QED
      BY <2>2, <3>4, <3>7, <3>8 DEF Agrees
  <2>5. DOMAIN misses' = Validators /\ \A v \in Validators \ {w} : misses'[v] = misses[v]
    BY <2>1 DEF DowntimeInv
  <2> HIDE DEF new
  <2> QED
    BY <2>1, <2>3, <2>4, <2>5 DEF DowntimeInv
<1>3. CASE CheckDowntimeViolations
  <2>1. /\ Tracked' = Tracked /\ DOMAIN downtimeEvents' = Validators
        /\ \A v \in Validators : downtimeEvents'[v] =
             IF Violates(v) THEN Append(downtimeEvents[v], "ThresholdExceeded") ELSE downtimeEvents[v]
        /\ \A v \in Tracked : downtime'[v] =
             IF Violates(v) THEN [downtime[v] EXCEPT !.inRecovery = TRUE, !.recovered = 0]
             ELSE downtime[v]
        /\ misses' = misses
    BY <1>3 DEF CheckDowntimeViolations, Tracked
  <2>2. ASSUME NEW v \in Validators, Violates(v)
        PROVE  /\ InTurns(downtimeEvents'[v]) /\ Agrees(downtime'[v], Len(downtimeEvents'[v]))
               /\ Counted(downtime'[v], Len(downtimeEvents'[v]), misses[v])
    <3> DEFINE events == downtimeEvents[v]
               record == [downtime[v] EXCEPT !.inRecovery = TRUE, !.recovered = 0]
    <3>1. /\ v \in Tracked /\ downtime[v].missed >= DowntimeThreshold /\ ~downtime[v].inRecovery
          /\ InTurns(events) /\ Agrees(downtime[v], Len(events)) /\ Len(events) \in Nat
      BY <1>t, <2>2 DEF Violates, DowntimeInv
    <3>2. Len(events) % 2 # 1 /\ Turn(Len(events) + 1) = "ThresholdExceeded"
      <4>1. Len(events) % 2 # 1
        BY <3>1 DEF Agrees
      <4>2. (Len(events) + 1) % 2 = 1
        BY <3>1, <4>1, Parity
      <4> QED
        BY <4>1, <4>2 DEF Turn
    <3>3. /\ record \in TrackRecord /\ record.inRecovery /\ record.recovered = 0
          /\ record.missed = downtime[v].missed /\ record.total = downtime[v].total
      BY <3>1 DEF Agrees, TrackRecord
    <3>4. downtimeEvents'[v] = Append(events, "ThresholdExceeded") /\ downtime'[v] = record
      BY <2>1, <2>2, <3>1
    <3> HIDE DEF record, events
    <3>5. /\ InTurns(Append(events, "ThresholdExceeded"))
          /\ Len(Append(events, "ThresholdExceeded")) % 2 = 1
          /\ Len(Append(events, "ThresholdExceeded")) = Len(events) + 1
      BY <3>1, <3>2, NextTurn DEF Event
    <3>6. Counted(downtime[v], Len(events), misses[v])
      BY <3>1 DEF DowntimeInv, events
    <3>7. (Len(events) + 1) \div 2 = Len(events) \div 2
      BY <3>1, <3>2, Halves
    <3>8. Counted(record, Len(events) + 1, misses[v])
      BY <3>3, <3>6, <3>7 DEF Counted
    <3> QED
      BY <3>1, <3>3, <3>4, <3>5, <3>8 DEF Agrees
  <2>3. ASSUME NEW v \in Validators, ~Violates(v)
        PROVE  /\ InTurns(downtimeEvents'[v])
               /\ v \in Tracked => Agrees(downtime'[v], Len(downtimeEvents'[v]))
               /\ v \in Tracked => Counted(downtime'[v], Len(downtimeEvents'[v]), misses[v])
    BY <2>1, <2>3 DEF DowntimeInv
  <2>4. \A v \in Validators \ Tracked : downtimeEvents'[v] = << >>
    BY <2>1 DEF DowntimeInv, Violates
  <2> QED
    BY <2>1, <2>2, <2>3, <2>4 DEF DowntimeInv
<1>4. CASE ProcessRecovery
  <2>1. /\ Tracked' = Tracked /\ DOMAIN downtimeEvents' = Validators
        /\ \A v \in Validators : downtimeEvents'[v] =
             IF Recovers(v) THEN Append(downtimeEvents[v], "ExitedRecovery") ELSE downtimeEvents[v]
        /\ \A v \in Tracked : downtime'[v] =
             IF Recovers(v)
             THEN [downtime[v] EXCEPT !.inRecovery = FALSE, !.missed = 0, !.recovered = 0]
             ELSE IF downtime[v].inRecovery THEN [downtime[v] EXCEPT !.recovered = @ + 1]
             ELSE downtime[v]
        /\ misses' = misses
    BY <1>4 DEF ProcessRecovery, Tracked
  <2>2. ASSUME NEW v \in Validators, Recovers(v)
        PROVE  /\ InTurns(downtimeEvents'[v]) /\ Agrees(downtime'[v], Len(downtimeEvents'[v]))
               /\ Counted(downtime'[v], Len(downtimeEvents'[v]), misses[v])
    <3> DEFINE events == downtimeEvents[v]
               record == [downtime[v] EXCEPT !.inRecovery = FALSE, !.missed = 0, !.recovered = 0]
    <3>1. /\ v \in Tracked /\ downtime[v].inRecovery
          /\ InTurns(events) /\ Agrees(downtime[v], Len(events)) /\ Len(events) \in Nat
      BY <1>t, <2>2 DEF Recovers, DowntimeInv
    <3>2. Len(events) % 2 = 1 /\ Turn(Len(events) + 1) = "ExitedRecovery"
      <4>1. Len(events) % 2 = 1
        BY <3>1 DEF Agrees
      <4>2. (Len(events) + 1) % 2 # 1
        BY <3>1, <4>1, Parity
      <4> QED
        BY <4>1, <4>2 DEF Turn
    <3>3. /\ record \in TrackRecord /\ ~record.inRecovery /\ record.recovered = 0
          /\ record.missed = 0 /\ record.total \in Nat
      BY <3>1 DEF Agrees, TrackRecord
    <3>4. downtimeEvents'[v] = Append(events, "ExitedRecovery") /\ downtime'[v] = record
      BY <2>1, <2>2, <3>1
    <3> HIDE DEF record, events
    <3>5. /\ InTurns(Append(events, "ExitedRecovery"))
          /\ Len(Append(events, "ExitedRecovery")) % 2 # 1
          /\ Len(Append(events, "ExitedRecovery")) = Len(events) + 1
      BY <3>1, <3>2, NextTurn DEF Event
    <3>6. /\ Counted(downtime[v], Len(events), misses[v])
          /\ downtime[v].missed >= DowntimeThreshold /\ downtime[v].missed \in Nat
      BY <3>1 DEF DowntimeInv, events, Agrees, TrackRecord
    <3>7. PICK k \in Nat : k = Len(events) \div 2 /\ (Len(events) + 1) \div 2 = k + 1
      BY <3>1, <3>2, Halves
    <3>8. PICK b \in Nat : b = DowntimeThreshold * k
                           /\ DowntimeThreshold * (k + 1) = b + DowntimeThreshold
      BY OneMore
    <3>9. misses[v] \in Nat /\ misses[v] >= b + downtime[v].missed
      BY <3>6, <3>7, <3>8 DEF Counted
    <3>10. misses[v] >= (b + DowntimeThreshold) + 0
      BY <3>6, <3>9
    <3>11. Counted(record, Len(events) + 1, misses[v])
      BY <3>3, <3>7, <3>8, <3>9, <3>10 DEF Counted
    <3> QED
      BY <3>1, <3>3, <3>4, <3>5, <3>11 DEF Agrees
  <2>3. ASSUME NEW v \in Validators, ~Recovers(v)
        PROVE  /\ InTurns(downtimeEvents'[v])
               /\ v \in Tracked => Agrees(downtime'[v], Len(downtimeEvents'[v]))
               /\ v \in Tracked => Counted(downtime'[v], Len(downtimeEvents'[v]), misses[v])
    <3>1. downtimeEvents'[v] = downtimeEvents[v] /\ InTurns(downtimeEvents[v])
      BY <2>1, <2>3 DEF DowntimeInv
    <3>2. ASSUME v \in Tracked
          PROVE  Agrees(downtime'[v], Len(downtimeEvents[v]))
      <4>1. Agrees(downtime[v], Len(downtimeEvents[v]))
        BY <3>2 DEF DowntimeInv
      <4>2. CASE downtime[v].inRecovery
        <5> DEFINE record == [downtime[v] EXCEPT !.recovered = @ + 1]
        <5>1. downtime'[v] = record
          BY <2>1, <2>3, <3>2, <4>2
        <5>2. /\ record \in TrackRecord /\ record.inRecovery = downtime[v].inRecovery
              /\ record.missed = downtime[v].missed /\ record.total = downtime[v].total
              /\ record.recovered = downtime[v].recovered + 1 /\ downtime[v].recovered \in Nat
          BY <4>1 DEF Agrees, TrackRecord
        <5> HIDE DEF record
        <5>3. record.recovered < RecoveryPeriod
          BY <2>3, <3>2, <4>2, <5>2 DEF Recovers
        <5> QED
          BY <4>1, <5>1, <5>2, <5>3 DEF Agrees
      <4>3. CASE ~downtime[v].inRecovery
        BY <2>1, <2>3, <3>2, <4>1, <4>3
      <4> QED
        BY <4>2, <4>3
    <3>3. ASSUME v \in Tracked
          PROVE  Counted(downtime'[v], Len(downtimeEvents[v]), misses[v])
      <4>1. Counted(downtime[v], Len(downtimeEvents[v]), misses[v])
        BY <3>3 DEF DowntimeInv
      <4>2. downtime[v] \in TrackRecord
        BY <1>t, <3>3
      <4>3. downtime'[v].missed = downtime[v].missed
        BY <2>1, <2>3, <3>3, <4>2 DEF TrackRecord
      <4> QED
        BY <4>1, <4>3 DEF Counted
    <3> QED
      BY <3>1, <3>2, <3>3
  <2>4. \A v \in Validators \ Tracked : downtimeEvents'[v] = << >>
    BY <2>1 DEF DowntimeInv, Recovers
  <2> QED
    BY <2>1, <2>2, <2>3, <2>4 DEF DowntimeInv
<1>5. CASE AdvanceDowntimeCycle
  <2>1. /\ Tracked' = Tracked /\ downtimeEvents' = downtimeEvents /\ misses' = misses
        /\ \A v \in Tracked : downtime'[v] = IF downtime[v].inRecovery THEN downtime[v] ELSE NewRecord
    BY <1>5 DEF AdvanceDowntimeCycle, Tracked
  <2>2. ASSUME NEW v \in Tracked
        PROVE  /\ Agrees(downtime'[v], Len(downtimeEvents[v]))
               /\ Counted(downtime'[v], Len(downtimeEvents[v]), misses[v])
    <3>1. Agrees(downtime[v], Len(downtimeEvents[v])) /\ Len(downtimeEvents[v]) \in Nat
          /\ Counted(downtime[v], Len(downtimeEvents[v]), misses[v])
      BY <1>t DEF DowntimeInv
    <3>2. CASE ~downtime[v].inRecovery
      <4>1. Len(downtimeEvents[v]) % 2 # 1
        BY <3>1, <3>2 DEF Agrees
      <4>2. PICK b \in Nat : b = DowntimeThreshold * (Len(downtimeEvents[v]) \div 2)
        BY <3>1, Halves, OneMore
      <4>3. downtime'[v] = NewRecord /\ NewRecord.missed = 0 /\ downtime[v].missed \in Nat
        BY <2>1, <1>t, <3>2 DEF NewRecord, TrackRecord
      <4>4. misses[v] \in Nat /\ misses[v] >= b + downtime[v].missed
        BY <3>1, <4>2 DEF Counted
      <4>5. misses[v] >= b + 0
        BY <4>3, <4>4
      <4>6. Counted(downtime'[v], Len(downtimeEvents[v]), misses[v])
        BY <4>2, <4>3, <4>4, <4>5 DEF Counted
      <4> QED
        BY <2>1, <3>1, <3>2, <4>1, <4>6, NewRecordAgrees
    <3> QED
      BY <2>1, <3>1, <3>2
  <2> QED
    BY <2>1, <2>2 DEF DowntimeInv
<1> QED
  BY <1>1, <1>2, <1>3, <1>4, <1>5 DEF DowntimeNext

(* Whatever the thresholds and the order of the calls, a validator's        *)
(* downtimes and recoveries take turns, its record says what its events     *)
(* say, and each of its downtimes has a threshold of misses of its own.     *)
THEOREM TurnsTaken == DowntimeSpec => []RecoveryAlternates
<1>1. ASSUME DowntimeInv, NEW v \in Validators
      PROVE  misses[v] >= DowntimeThreshold * Downtimes(v)
  <2>1. PICK n \in Nat : n = Len(downtimeEvents[v])
    BY <1>1 DEF DowntimeInv, InTurns
  <2>2. PICK k \in Nat : k = n \div 2
    BY Halves
  <2>3. PICK b \in Nat : b = DowntimeThreshold * k
                         /\ DowntimeThreshold * (k + 1) = b + DowntimeThreshold
    BY OneMore
  <2>4. CASE v \notin Tracked
    <3>1. misses[v] = 0 /\ n = 0
      BY <1>1, <2>1, <2>4 DEF DowntimeInv
    <3>2. (0 + 1) \div 2 = 0 /\ DowntimeThreshold * 0 = 0
      BY DowntimeAssumption
    <3> QED
      BY <2>1, <3>1, <3>2 DEF Downtimes
  <2>5. CASE v \in Tracked
    <3>1. /\ misses[v] \in Nat /\ misses[v] >= b + downtime[v].missed /\ downtime[v].missed \in Nat
          /\ n % 2 = 1 => downtime[v].missed >= DowntimeThreshold
      BY <1>1, <2>1, <2>2, <2>3, <2>5 DEF DowntimeInv, Counted, Agrees, TrackRecord
    <3>2. CASE n % 2 = 1
      <4>1. Downtimes(v) = k + 1
        BY <2>1, <2>2, <3>2, Halves DEF Downtimes
      <4>2. misses[v] >= b + DowntimeThreshold
        BY <3>1, <3>2, DowntimeAssumption
      <4> QED
        BY <2>3, <4>1, <4>2
    <3>3. CASE n % 2 # 1
      <4>1. Downtimes(v) = k
        BY <2>1, <2>2, <3>3, Halves DEF Downtimes
      <4>2. misses[v] >= b
        BY <3>1
      <4> QED
        BY <2>3, <4>1, <4>2
    <3> QED
      BY <3>2, <3>3
  <2> QED
    BY <2>4, <2>5
<1>2. DowntimeInv => RecoveryAlternates
  <2> SUFFICES ASSUME DowntimeInv, NEW v \in Validators
               PROVE  /\ \A i \in DOMAIN downtimeEvents[v] : downtimeEvents[v][i] = Turn(i)
                      /\ misses[v] >= DowntimeThreshold * Downtimes(v)
                      /\ v \in Tracked => Agrees(downtime[v], Len(downtimeEvents[v]))
    BY DEF RecoveryAlternates, Agrees, Turn
  <2> QED
    BY <1>1 DEF DowntimeInv, InTurns
<1> QED
  BY <1>2, DowntimeInitInv, DowntimeNextInv, PTL DEF DowntimeSpec

-----------------------------------------------------------------------------
(***************************************************************************)
(* The commission changes of commission_manager.rs, for any validators and *)
(* rates.  AppliedAsAnnounced needs to know that what is pending is always *)
(* the last announcement, and therefore later than all that were applied:  *)
(* an announcement that was replaced or dropped is never pending again.    *)
(***************************************************************************)
ManagerSpec == ManagerInit /\ [][ManagerNext]_managedVars

Announcement == [rate : ManagedRates, over : BOOLEAN]

CommissionInfo ==
  [initial : ManagedRates, rate : ManagedRates, pending : Nat \cup {NoRequest}, history : Seq(Nat)]

LastIsPending(info, all) == info.pending # NoRequest => info.pending = Len(all) /\ Len(all) > 0

HistoryInOrder(info, all) ==
  \A i \in 1..Len(info.history) :
    /\ info.history[i] \in 1..Len(all) /\ all[info.history[i]].over
    /\ info.pending # NoRequest => info.history[i] < info.pending
    /\ i > 1 => info.history[i - 1] < info.history[i]

RateFollows(info, all) ==
  info.rate = IF Len(info.history) = 0 THEN info.initial
              ELSE all[info.history[Len(info.history)]].rate

InfoKept(info, all) ==
  info \in CommissionInfo /\ LastIsPending(info, all) /\ HistoryInOrder(info, all)
    /\ RateFollows(info, all)

ManagedInv ==
  /\ DOMAIN announced = Validators /\ DOMAIN managed \subseteq Validators
  /\ \A v \in Validators : announced[v] \in Seq(Announcement)
  /\ \A v \in DOMAIN managed : InfoKept(managed[v], announced[v])

-----------------------------------------------------------------------------
(* Announcements of which all but the last stay as they were, in number and *)
(* rates, and none is taken back, keep a history in order.                  *)
LEMMA HistoryKept ==
  ASSUME NEW info \in CommissionInfo, NEW all \in Seq(Announcement), NEW more \in Seq(Announcement),
         HistoryInOrder(info, all), RateFollows(info, all), Len(all) =< Len(more),
         \A i \in 1..Len(all) : more[i].rate = all[i].rate /\ (all[i].over => more[i].over)
  PROVE  HistoryInOrder(info, more) /\ RateFollows(info, more)
<1> DEFINE h == info.history
<1>1. h \in Seq(Nat) /\ Len(h) \in Nat /\ Len(all) \in Nat /\ Len(more) \in Nat
  BY DEF CommissionInfo
<1>2. HistoryInOrder(info, more)
  <2> SUFFICES ASSUME NEW i \in 1..Len(h)
               PROVE  /\ h[i] \in 1..Len(more) /\ more[h[i]].over
                      /\ info.pending # NoRequest => h[i] < info.pending
                      /\ i > 1 => h[i - 1] < h[i]
    BY DEF HistoryInOrder
  <2>1. /\ h[i] \in 1..Len(all) /\ all[h[i]].over
        /\ info.pending # NoRequest => h[i] < info.pending
        /\ i > 1 => h[i - 1] < h[i]
    BY DEF HistoryInOrder
  <2> HIDE DEF h
  <2> QED
    BY <1>1, <2>1
<1>3. RateFollows(info, more)
  <2>1. CASE Len(h) = 0
    BY <2>1 DEF RateFollows
  <2>2. CASE Len(h) # 0
    <3>1. h[Len(h)] \in 1..Len(all)
      BY <1>1, <2>2 DEF HistoryInOrder
    <3> QED
      BY <2>2, <3>1 DEF RateFollows
  <2> QED
    BY <2>1, <2>2
<1> QED
  BY <1>2, <1>3

(* A new announcement becomes the pending one.                              *)
LEMMA AnnouncedKept ==
  ASSUME NEW info, NEW all \in Seq(Announcement), InfoKept(info, all),
         NEW a \in Announcement
  PROVE  /\ Append(all, a) \in Seq(Announcement)
         /\ InfoKept([info EXCEPT !.pending = Len(all) + 1], Append(all, a))
<1> DEFINE more == Append(all, a)
           new == [info EXCEPT !.pending = Len(all) + 1]
<1>1. /\ more \in Seq(Announcement) /\ Len(more) = Len(all) + 1 /\ Len(all) \in Nat
      /\ \A i \in 1..Len(all) : more[i] = all[i]
  OBVIOUS
<1> HIDE DEF more
<1>2. info \in CommissionInfo
  BY DEF InfoKept
<1>3. /\ new \in CommissionInfo /\ new.pending = Len(all) + 1 /\ new.history = info.history
      /\ new.rate = info.rate /\ new.initial = info.initial
  BY <1>1, <1>2 DEF CommissionInfo
<1> HIDE DEF new
<1>4. HistoryInOrder(info, more) /\ RateFollows(info, more)
  BY <1>1, <1>2, HistoryKept DEF InfoKept
<1>5. HistoryInOrder(new, more)
  <2> SUFFICES ASSUME NEW i \in 1..Len(new.history)
               PROVE  /\ new.history[i] \in 1..Len(more) /\ more[new.history[i]].over
                      /\ new.history[i] < new.pending
                      /\ i > 1 => new.history[i - 1] < new.history[i]
    BY DEF HistoryInOrder
  <2>1. new.history[i] \in 1..Len(all)
    BY <1>3 DEF InfoKept, HistoryInOrder
  <2>2. /\ more[new.history[i]].over
        /\ i > 1 => new.history[i - 1] < new.history[i]
    BY <1>3, <1>4 DEF HistoryInOrder
  <2>3. Len(more) = Len(all) + 1 /\ new.pending = Len(all) + 1 /\ Len(all) \in Nat
    BY <1>1, <1>3
  <2>4. new.history[i] \in 1..Len(more) /\ new.history[i] < new.pending
    BY <2>1, <2>3
  <2> QED
    BY <2>2, <2>4
<1>6. RateFollows(new, more)
  BY <1>3, <1>4 DEF RateFollows
<1>7. LastIsPending(new, more)
  BY <1>1, <1>3 DEF LastIsPending
<1>8. InfoKept(new, more)
  BY <1>3, <1>5, <1>6, <1>7 DEF InfoKept
<1> QED
  BY <1>1, <1>8 DEF more, new

(* The notice period of the pending announcement ends.                      *)
LEMMA NoticeKept ==
  ASSUME NEW info, NEW all \in Seq(Announcement), InfoKept(info, all), info.pending # NoRequest
  PROVE  /\ [all EXCEPT ![info.pending].over = TRUE] \in Seq(Announcement)
         /\ InfoKept(info, [all EXCEPT ![info.pending].over = TRUE])
<1> DEFINE more == [all EXCEPT ![info.pending].over = TRUE]
<1>1. info.pending = Len(all) /\ Len(all) \in Nat /\ Len(all) > 0
  BY DEF InfoKept, LastIsPending
<1>2. all[Len(all)] \in Announcement
  BY <1>1
<1>3. [all[Len(all)] EXCEPT !.over = TRUE] \in Announcement
  BY <1>2 DEF Announcement
<1>4. more = [all EXCEPT ![Len(all)] = [all[Len(all)] EXCEPT !.over = TRUE]]
  BY <1>1
<1>5. more \in Seq(Announcement) /\ Len(more) = Len(all)
  BY <1>1, <1>3, <1>4
<1>6. ASSUME NEW i \in 1..Len(all)
      PROVE  more[i].rate = all[i].rate /\ (all[i].over => more[i].over)
  <2>1. CASE i = Len(all)
    <3>1. DOMAIN all = 1..Len(all) /\ i \in DOMAIN all
      OBVIOUS
    <3>2. more[i] = [all[Len(all)] EXCEPT !.over = TRUE]
      BY <1>4, <2>1, <3>1
    <3> QED
      BY <1>2, <2>1, <3>2 DEF Announcement
  <2>2. CASE i # Len(all)
    BY <1>4, <2>2
  <2> QED
    BY <2>1, <2>2
<1> HIDE DEF more
<1>7. HistoryInOrder(info, more) /\ RateFollows(info, more)
  BY <1>1, <1>5, <1>6, HistoryKept DEF InfoKept
<1>8. LastIsPending(info, more)
  BY <1>1, <1>5 DEF LastIsPending
<1>9. InfoKept(info, more)
  BY <1>7, <1>8 DEF InfoKept
<1> QED
  BY <1>5, <1>9 DEF more

(* A pending change that is dropped leaves the history as it is.            *)
LEMMA DroppedKept ==
  ASSUME NEW info, NEW all, InfoKept(info, all)
  PROVE  InfoKept([info EXCEPT !.pending = NoRequest], all)
<1> DEFINE new == [info EXCEPT !.pending = NoRequest]
<1>1. /\ new \in CommissionInfo /\ new.pending = NoRequest /\ new.history = info.history
      /\ new.rate = info.rate /\ new.initial = info.initial
  BY DEF InfoKept, CommissionInfo
<1> HIDE DEF new
<1>2. InfoKept(new, all)
  BY <1>1 DEF InfoKept, LastIsPending, HistoryInOrder, RateFollows
<1> QED
  BY <1>2 DEF new

(* A change that is applied after its notice is later than all before it.   *)
LEMMA AppliedKeptInOrder ==
  ASSUME NEW info, NEW all \in Seq(Announcement), InfoKept(info, all),
         info.pending # NoRequest, all[info.pending].over
  PROVE  InfoKept(AppliedChange(info, all), all)
<1> DEFINE new == AppliedChange(info, all)
           h == info.history
           n == Len(h)
<1>1. info.pending = Len(all) /\ Len(all) \in Nat /\ Len(all) > 0 /\ all[Len(all)] \in Announcement
  BY DEF InfoKept, LastIsPending
<1>2. info \in CommissionInfo /\ h \in Seq(Nat) /\ n \in Nat
  BY DEF InfoKept, CommissionInfo
<1>3. /\ Append(h, Len(all)) \in Seq(Nat) /\ Len(Append(h, Len(all))) = n + 1
      /\ \A i \in 1..n : Append(h, Len(all))[i] = h[i]
      /\ Append(h, Len(all))[n + 1] = Len(all)
  BY <1>1, <1>2
<1>4. all[Len(all)].rate \in ManagedRates
  BY <1>1 DEF Announcement
<1>5. new = [info EXCEPT !.rate = all[Len(all)].rate, !.history = Append(h, Len(all)),
                         !.pending = NoRequest]
  BY <1>1 DEF AppliedChange
<1>6. /\ new \in CommissionInfo /\ new.pending = NoRequest /\ new.history = Append(h, Len(all))
      /\ new.rate = all[Len(all)].rate
  BY <1>2, <1>3, <1>4, <1>5 DEF CommissionInfo
<1> HIDE DEF new
<1>7. HistoryInOrder(new, all)
  <2> SUFFICES ASSUME NEW i \in 1..(n + 1)
               PROVE  /\ new.history[i] \in 1..Len(all) /\ all[new.history[i]].over
                      /\ i > 1 => new.history[i - 1] < new.history[i]
    BY <1>3, <1>6 DEF HistoryInOrder
  <2>1. \A j \in 1..n : /\ h[j] \in 1..Len(all) /\ all[h[j]].over /\ h[j] < Len(all)
                        /\ j > 1 => h[j - 1] < h[j]
    BY <1>1 DEF InfoKept, HistoryInOrder
  <2> HIDE DEF h, n
  <2>2. CASE i = n + 1
    <3>1. new.history[i] = Len(all) /\ all[Len(all)].over
      BY <1>1, <1>3, <1>6, <2>2
    <3>2. i > 1 => new.history[i - 1] = h[n] /\ n \in 1..n
      BY <1>2, <1>3, <1>6, <2>2
    <3> QED
      BY <1>1, <2>1, <3>1, <3>2
  <2>3. CASE i # n + 1
    <3>1. i \in 1..n /\ new.history[i] = h[i]
      BY <1>2, <1>3, <1>6, <2>3
    <3>2. i > 1 => new.history[i - 1] = h[i - 1]
      BY <1>2, <1>3, <1>6, <3>1
    <3> QED
      BY <2>1, <3>1, <3>2
  <2> QED
    BY <2>2, <2>3
<1>8. RateFollows(new, all)
  <2>1. Len(new.history) = n + 1 /\ new.history[n + 1] = Len(all)
    BY <1>3, <1>6
  <2>2. n + 1 # 0
    BY <1>2
  <2> HIDE DEF n
  <2> QED
    BY <1>6, <2>1, <2>2 DEF RateFollows
<1>9. LastIsPending(new, all)
  BY <1>6 DEF LastIsPending
<1>10. InfoKept(new, all)
  BY <1>6, <1>7, <1>8, <1>9 DEF InfoKept
<1> QED
  BY <1>10 DEF new

-----------------------------------------------------------------------------
LEMMA ManagerInitInv == ManagerInit => ManagedInv
<1>1. << >> \in Seq(Announcement)
  OBVIOUS
<1> QED
  BY <1>1 DEF ManagerInit, ManagedInv

LEMMA ManagerNextInv == ManagedInv /\ [ManagerNext]_managedVars => ManagedInv'
<1> SUFFICES ASSUME ManagedInv, [ManagerNext]_managedVars PROVE ManagedInv'
  OBVIOUS
<1> USE CommissionManagerAssumption
<1>1. CASE UNCHANGED managedVars
  BY <1>1 DEF managedVars, ManagedInv
<1>2. ASSUME NEW v \in Validators, NEW rate \in ManagedRates, RegisterManaged(v, rate)
      PROVE  ManagedInv'
  <2> DEFINE info == [initial |-> rate, rate |-> rate, pending |-> NoRequest, history |-> << >>]
  <2>1. << >> \in Seq(Announcement) /\ << >> \in Seq(Nat) /\ Len(<< >>) = 0
    OBVIOUS
  <2>2. InfoKept(info, << >>)
    BY <2>1 DEF InfoKept, CommissionInfo, LastIsPending, HistoryInOrder, RateFollows
  <2>3. /\ DOMAIN managed' = DOMAIN managed \cup {v} /\ managed'[v] = info
        /\ \A w \in DOMAIN managed \ {v} : managed'[w] = managed[w]
        /\ DOMAIN announced' = Validators /\ announced'[v] = << >>
        /\ \A w \in Validators \ {v} : announced'[w] = announced[w]
    BY <1>2 DEF RegisterManaged, ManagedInv
  <2> HIDE DEF info
  <2> QED
    BY <2>1, <2>2, <2>3 DEF ManagedInv
<1>3. ASSUME NEW v \in Validators, NEW rate \in ManagedRates, RequestCommissionChange(v, rate)
      PROVE  ManagedInv'
  <2>1. v \in DOMAIN managed /\ announced[v] \in Seq(Announcement) /\ InfoKept(managed[v], announced[v])
    BY <1>3 DEF RequestCommissionChange, ManagedInv
  <2>2. [rate |-> rate, over |-> FALSE] \in Announcement
    BY DEF Announcement
  <2>3. /\ announced'[v] = Append(announced[v], [rate |-> rate, over |-> FALSE])
        /\ managed'[v] = [managed[v] EXCEPT !.pending = Len(announced[v]) + 1]
        /\ DOMAIN managed' = DOMAIN managed /\ DOMAIN announced' = Validators
        /\ \A w \in DOMAIN managed \ {v} : managed'[w] = managed[w]
        /\ \A w \in Validators \ {v} : announced'[w] = announced[w]
    BY <1>3, <2>1 DEF RequestCommissionChange, ManagedInv
  <2>4. announced'[v] \in Seq(Announcement) /\ InfoKept(managed'[v], announced'[v])
    BY <2>1, <2>2, <2>3, AnnouncedKept
  <2> QED
    BY <2>3, <2>4 DEF ManagedInv
<1>4. ASSUME NEW v \in Validators, NoticeEnds(v)
      PROVE  ManagedInv'
  <2>1. /\ v \in DOMAIN managed /\ managed[v].pending # NoRequest
        /\ announced[v] \in Seq(Announcement) /\ InfoKept(managed[v], announced[v])
    BY <1>4 DEF NoticeEnds, HasPending, ManagedInv
  <2>2. /\ announced'[v] = [announced[v] EXCEPT ![managed[v].pending].over = TRUE]
        /\ managed' = managed /\ DOMAIN announced' = Validators
        /\ \A w \in Validators \ {v} : announced'[w] = announced[w]
    BY <1>4, <2>1 DEF NoticeEnds, ManagedInv
  <2>3. announced'[v] \in Seq(Announcement) /\ InfoKept(managed[v], announced'[v])
    BY <2>1, <2>2, NoticeKept
  <2> QED
    BY <2>2, <2>3 DEF ManagedInv
<1>5. ASSUME NEW v \in Validators, ApplyPendingChange(v)
      PROVE  ManagedInv'
  <2>1. /\ v \in DOMAIN managed /\ managed[v].pending # NoRequest
        /\ announced[v] \in Seq(Announcement) /\ InfoKept(managed[v], announced[v])
    BY <1>5 DEF ApplyPendingChange, HasPending, ManagedInv
  <2>2. /\ managed'[v] = IF Effective(v) THEN AppliedChange(managed[v], announced[v])
                        ELSE [managed[v] EXCEPT !.pending = NoRequest]
        /\ DOMAIN managed' = DOMAIN managed /\ announced' = announced
        /\ \A w \in DOMAIN managed \ {v} : managed'[w] = managed[w]
    BY <1>5, <2>1 DEF ApplyPendingChange
  <2>3. InfoKept(managed'[v], announced[v])
    BY <2>1, <2>2, AppliedKeptInOrder, DroppedKept DEF Effective
  <2> QED
    BY <2>2, <2>3 DEF ManagedInv
<1>6. ASSUME NEW v \in Validators, CancelPendingChange(v)
      PROVE  ManagedInv'
  <2>1. v \in DOMAIN managed /\ InfoKept(managed[v], announced[v])
    BY <1>6 DEF CancelPendingChange, HasPending, ManagedInv
  <2>2. /\ managed'[v] = [managed[v] EXCEPT !.pending = NoRequest]
        /\ DOMAIN managed' = DOMAIN managed /\ announced' = announced
        /\ \A w \in DOMAIN managed \ {v} : managed'[w] = managed[w]
    BY <1>6, <2>1 DEF CancelPendingChange
  <2>3. InfoKept(managed'[v], announced[v])
    BY <2>1, <2>2, DroppedKept
  <2> QED
    BY <2>2, <2>3 DEF ManagedInv
<1>7. CASE ApplyPendingChanges
  <2>1. /\ DOMAIN managed' = DOMAIN managed /\ announced' = announced
        /\ \A v \in DOMAIN managed : managed'[v] =
             IF HasPending(v) /\ Effective(v) THEN AppliedChange(managed[v], announced[v])
             ELSE managed[v]
    BY <1>7 DEF ApplyPendingChanges
  <2>2. ASSUME NEW v \in DOMAIN managed
        PROVE  InfoKept(managed'[v], announced[v])
    <3>1. announced[v] \in Seq(Announcement) /\ InfoKept(managed[v], announced[v])
      BY DEF ManagedInv
    <3>2. CASE HasPending(v) /\ Effective(v)
      BY <2>1, <3>1, <3>2, AppliedKeptInOrder DEF HasPending, Effective
    <3> QED
      BY <2>1, <3>1, <3>2
  <2> QED
    BY <2>1, <2>2 DEF ManagedInv
<1> QED
  BY <1>1, <1>2, <1>3, <1>4, <1>5, <1>6, <1>7 DEF ManagerNext

(* Announced commission changes apply at most once, in their order, after   *)
(* their notice, and the rate is that of the last one, whatever was         *)
(* replaced, cancelled or dropped in between.                               *)
THEOREM AppliedInOrder == ManagerSpec => []AppliedAsAnnounced
<1>1. ManagedInv => AppliedAsAnnounced
  <2> SUFFICES ASSUME ManagedInv, NEW v \in DOMAIN managed
               PROVE  /\ \A i \in DOMAIN managed[v].history :
                           /\ announced[v][managed[v].history[i]].over
                           /\ i > 1 => managed[v].history[i - 1] < managed[v].history[i]
                      /\ managed[v].rate = IF managed[v].history = << >> THEN managed[v].initial
                                           ELSE announced[v][Last(managed[v].history)].rate
    BY DEF AppliedAsAnnounced
  <2>1. InfoKept(managed[v], announced[v]) /\ managed[v].history \in Seq(Nat)
    BY DEF ManagedInv, InfoKept, CommissionInfo
  <2>2. DOMAIN managed[v].history = 1..Len(managed[v].history)
        /\ (managed[v].history = << >> <=> Len(managed[v].history) = 0)
    BY <2>1
  <2> QED
    BY <2>1, <2>2 DEF InfoKept, HistoryInOrder, RateFollows, Last
<1> QED
  BY <1>1, ManagerInitInv, ManagerNextInv, PTL DEF ManagerSpec

-----------------------------------------------------------------------------

(***************************************************************************)
(* What takes the support of a protocol version away, for any upgrades, in *)
(* any order and back to earlier versions, any transition period and any   *)
(* number of concurrent calls.  The invariant follows the calls through    *)
(* their sections: at most one is at a boundary and the version it makes   *)
(* active stays the active one until its support is added; a removal under *)
(* way is of an exposed version, which stays exposed if its support is     *)
(* added meanwhile.                                                        *)
(***************************************************************************)
CoordinatorSpec == CoordinatorInit /\ [][CoordinatorNext]_coordinatorVars

BoundarySteps == {"activate", "support", "unschedule", "plan removal"}

BoundaryCalls == [step : BoundarySteps, upgrade : ApprovedUpgrades, old : KnownVersions]

Replaced(v) == v \in DOMAIN superseded

ScheduleInv ==
  \A n \in DOMAIN scheduledActivations : scheduledActivations[n] \in ApprovedUpgrades

(* The record of a call under way. *)
UnderWay(k) ==
  \/ k = NoCoordination
  \/ k \in [step : {"schedule"}, upgrade : ApprovedUpgrades]
  \/ k \in [step : {"stats supported", "stats active"}]
  \/ k \in [step : {"remove"}, version : exposed]
  \/ /\ k \in BoundaryCalls
     /\ k.step = "activate" => k.old = activeVersion
     /\ k.step = "support" => activeVersion = NewVersion(k.upgrade)
     /\ k.step # "activate" => Replaced(k.old) /\ superseded[k.old] = boundary

CallsInv == DOMAIN coordinations = Coordinations /\ \A c \in Coordinations : UnderWay(coordinations[c])

IsAtBoundary(c) == \E step \in BoundarySteps : Does(c, step)

OneAtBoundary ==
  \A c, d \in Coordinations : IsAtBoundary(c) /\ IsAtBoundary(d) => c = d

CoordinatorInv ==
  /\ activeVersion \in KnownVersions
  /\ ScheduleInv /\ CallsInv /\ OneAtBoundary /\ SupportLostOnlyByRemoval

-----------------------------------------------------------------------------
LEMMA CoordinatorInitInv == CoordinatorInit => CoordinatorInv
<1> SUFFICES ASSUME CoordinatorInit PROVE CoordinatorInv
  OBVIOUS
<1>1. ScheduleInv /\ SupportLostOnlyByRemoval /\ activeVersion \in KnownVersions
  BY DEF CoordinatorInit, ScheduleInv, SupportLostOnlyByRemoval, KnownVersions
<1>2. CallsInv
  BY DEF CoordinatorInit, CallsInv, UnderWay
<1>3. OneAtBoundary
  BY DEF CoordinatorInit, OneAtBoundary, IsAtBoundary, Does, Free
<1> QED
  BY <1>1, <1>2, <1>3 DEF CoordinatorInv

(* A step of call c replaces only its record.                               *)
LEMMA OtherCoordinations ==
  ASSUME CallsInv, NEW c \in Coordinations, NEW k, Goes(c, k)
  PROVE  /\ DOMAIN coordinations' = Coordinations
         /\ coordinations'[c] = k
         /\ \A d \in Coordinations \ {c} : coordinations'[d] = coordinations[d]
BY DEF CallsInv, Goes

(* A call that steps but neither begins nor ends a boundary step leaves at  *)
(* most one call at the boundary.                                           *)
LEMMA StillOneAtBoundary ==
  ASSUME OneAtBoundary, NEW c \in Coordinations,
         \A d \in Coordinations \ {c} : coordinations'[d] = coordinations[d],
         IsAtBoundary(c)' => IsAtBoundary(c) \/ \A d \in Coordinations : ~IsAtBoundary(d)
  PROVE  OneAtBoundary'
<1>1. \A d \in Coordinations \ {c} : IsAtBoundary(d)' <=> IsAtBoundary(d)
  BY DEF IsAtBoundary, Does, Free
<1> QED
  BY <1>1 DEF OneAtBoundary

(* The records of the other calls stay right when versions and boundary do  *)
(* not change and no version that is being removed stops being exposed.     *)
LEMMA CallsKept ==
  ASSUME CallsInv, NEW c \in Coordinations, NEW k, Goes(c, k), UnderWay(k)',
         \A d \in Coordinations, v \in exposed : Removing(d, v) => v \in exposed',
         UNCHANGED <<activeVersion, boundary, superseded>>
  PROVE  CallsInv'
<1>1. /\ DOMAIN coordinations' = Coordinations /\ coordinations'[c] = k
      /\ \A d \in Coordinations \ {c} : coordinations'[d] = coordinations[d]
  BY OtherCoordinations
<1>2. ASSUME NEW d \in Coordinations, d # c PROVE UnderWay(coordinations[d])'
  <2>1. UnderWay(coordinations[d]) /\ coordinations'[d] = coordinations[d]
    BY <1>1, <1>2 DEF CallsInv
  <2>2. CASE coordinations[d] \in [step : {"remove"}, version : exposed]
    <3>1. PICK v \in exposed : v = coordinations[d].version /\ coordinations[d].step = "remove"
      BY <2>2
    <3>2. CASE coordinations[d] = NoCoordination
      BY <2>1, <3>2 DEF UnderWay
    <3>3. CASE coordinations[d] # NoCoordination
      <4>1. v \in exposed'
        BY <3>1, <3>3 DEF Removing, Does, Free
      <4>2. coordinations'[d] \in [step : {"remove"}, version : exposed']
        BY <2>1, <2>2, <3>1, <4>1
      <4> QED
        BY <4>2 DEF UnderWay
    <3> QED
      BY <3>2, <3>3
  <2>3. CASE coordinations[d] \notin [step : {"remove"}, version : exposed]
    BY <2>1, <2>3 DEF UnderWay, Replaced
  <2> QED
    BY <2>2, <2>3
<1> QED
  BY <1>1, <1>2 DEF CallsInv

(* Calls other than c plan as before. *)
LEMMA OthersPlan ==
  ASSUME CallsInv, NEW c \in Coordinations, NEW k, Goes(c, k),
         NEW v, Planning(v), ~Planning(v)'
  PROVE  IsAtBoundary(c) /\ ~Free(c) /\ coordinations[c].old = v /\ coordinations[c].step # "activate"
<1>1. PICK d \in Coordinations, step \in {"support", "unschedule", "plan removal"} :
        Does(d, step) /\ coordinations[d].old = v
  BY DEF Planning
<1>2. d # c => coordinations'[d] = coordinations[d]
  BY OtherCoordinations
<1>3. d = c
  BY <1>1, <1>2 DEF Planning, Does, Free
<1> QED
  BY <1>1, <1>3 DEF IsAtBoundary, Does, BoundarySteps

(* A step that leaves the versions and the boundary alone.  What it no      *)
(* longer plans is planned.                                                 *)
LEMMA QuietStep ==
  ASSUME CoordinatorInv, NEW c \in Coordinations, NEW k, Goes(c, k), UnderWay(k)',
         UNCHANGED <<activeVersion, boundary, superseded, supportedVersions>>,
         ~Does(c, "support"), exposed \subseteq exposed',
         k # NoCoordination /\ k.step \in BoundarySteps => IsAtBoundary(c),
         ScheduleInv',
         \A v \in DOMAIN superseded :
           \/ Planning(v)'
           \/ v \in DOMAIN removalSchedule' /\ removalSchedule'[v] = superseded[v] + TransitionPeriod
  PROVE  CoordinatorInv'
<1>1. /\ DOMAIN coordinations' = Coordinations /\ coordinations'[c] = k
      /\ \A d \in Coordinations \ {c} : coordinations'[d] = coordinations[d]
  BY OtherCoordinations DEF CoordinatorInv
<1>2. CallsInv'
  BY CallsKept DEF CoordinatorInv
<1>3. OneAtBoundary'
  <2>1. IsAtBoundary(c)' => IsAtBoundary(c)
    BY <1>1 DEF IsAtBoundary, Does, Free
  <2> QED
    BY <1>1, <2>1, StillOneAtBoundary DEF CoordinatorInv
<1>4. ActiveLocked => ActiveLocked'
  <2>1. ASSUME NEW d \in Coordinations, Does(d, "support")
        PROVE  Does(d, "support")'
    BY <1>1, <2>1 DEF Does, Free
  <2> QED
    BY <2>1 DEF ActiveLocked
<1>5. SupportLostOnlyByRemoval'
  BY <1>4 DEF CoordinatorInv, SupportLostOnlyByRemoval
<1> QED
  BY <1>2, <1>3, <1>5 DEF CoordinatorInv

(* A step of a call that is not at a boundary keeps the plans.              *)
LEMMA PlansKept ==
  ASSUME CoordinatorInv, NEW c \in Coordinations, NEW k, Goes(c, k), ~IsAtBoundary(c),
         UNCHANGED <<superseded, removalSchedule>>
  PROVE  \A v \in DOMAIN superseded :
           \/ Planning(v)'
           \/ v \in DOMAIN removalSchedule' /\ removalSchedule'[v] = superseded[v] + TransitionPeriod
BY OthersPlan DEF CoordinatorInv, SupportLostOnlyByRemoval

(* The record of a call that is at a boundary, or not.                      *)
LEMMA BoundaryCall ==
  ASSUME CallsInv, NEW c \in Coordinations, NEW step \in BoundarySteps, Does(c, step)
  PROVE  /\ coordinations[c] \in BoundaryCalls
         /\ coordinations[c].step = step /\ UnderWay(coordinations[c])
         /\ IsAtBoundary(c) /\ ~Free(c)
BY DEF CallsInv, UnderWay, Does, Free, BoundarySteps, BoundaryCalls, IsAtBoundary

LEMMA ElsewhereCall ==
  ASSUME NEW c \in Coordinations,
         Free(c) \/ \E step \in {"schedule", "remove", "stats supported", "stats active"} : Does(c, step)
  PROVE  ~IsAtBoundary(c) /\ ~Does(c, "support")
BY DEF IsAtBoundary, Does, BoundarySteps

(* schedule_activation, in its two sections.                                *)
LEMMA ScheduleSteps ==
  ASSUME CoordinatorInv, NEW c \in Coordinations,
         (\E u \in ApprovedUpgrades : ScheduleActivation(c, u)) \/ InsertActivation(c)
  PROVE  CoordinatorInv'
<1>1. ASSUME NEW u \in ApprovedUpgrades, ScheduleActivation(c, u)
      PROVE  CoordinatorInv'
  <2>1. PICK k : k = [step |-> "schedule", upgrade |-> u]
    OBVIOUS
  <2>2. /\ Goes(c, k) /\ ~IsAtBoundary(c) /\ ~Does(c, "support")
        /\ UNCHANGED <<activeVersion, supportedVersions, scheduledActivations, removalSchedule,
                       boundary, superseded, exposed>>
    BY <1>1, <2>1, ElsewhereCall DEF ScheduleActivation
  <2>3. UnderWay(k)' /\ k.step \notin BoundarySteps
    BY <2>1 DEF UnderWay, BoundarySteps
  <2>4. ScheduleInv'
    BY <2>2 DEF CoordinatorInv, ScheduleInv
  <2> QED
    BY <2>2, <2>3, <2>4, PlansKept, QuietStep
<1>2. CASE InsertActivation(c)
  <2>1. PICK u : u = coordinations[c].upgrade
    OBVIOUS
  <2>2. /\ Goes(c, NoCoordination) /\ Does(c, "schedule")
        /\ scheduledActivations' = Entry(scheduledActivations, Boundary(u), u)
        /\ UNCHANGED <<activeVersion, supportedVersions, removalSchedule, boundary, superseded, exposed>>
    BY <1>2, <2>1 DEF InsertActivation, Returns
  <2>3. u \in ApprovedUpgrades
    BY <2>1, <2>2 DEF CoordinatorInv, CallsInv, UnderWay, Does, Free, BoundarySteps, BoundaryCalls
  <2>4. ScheduleInv'
    BY <2>2, <2>3 DEF CoordinatorInv, ScheduleInv, Entry
  <2>5. UnderWay(NoCoordination)'
    BY DEF UnderWay
  <2>6. ~IsAtBoundary(c) /\ ~Does(c, "support")
    BY <2>2, ElsewhereCall
  <2> QED
    BY <2>2, <2>4, <2>5, <2>6, PlansKept, QuietStep
<1> QED
  BY <1>1, <1>2

(* process_cycle_boundary: a new boundary, at which nothing is done yet.    *)
LEMMA BoundaryStep ==
  ASSUME CoordinatorInv, NEW c \in Coordinations, ProcessCycleBoundary(c)
  PROVE  CoordinatorInv'
<1>1. /\ Free(c) /\ ~AtBoundary
      /\ UNCHANGED <<activeVersion, supportedVersions, scheduledActivations, removalSchedule,
                     superseded, exposed>>
  BY DEF ProcessCycleBoundary
<1>3. \A d \in Coordinations : ~IsAtBoundary(d)
  BY <1>1 DEF AtBoundary, IsAtBoundary, BoundarySteps
<1>4. PICK k :
        /\ DOMAIN coordinations' = Coordinations /\ coordinations'[c] = k
        /\ \A d \in Coordinations \ {c} : coordinations'[d] = coordinations[d]
        /\ \/ k = coordinations[c]
           \/ \E n \in DOMAIN scheduledActivations :
                k = [step |-> "activate", upgrade |-> scheduledActivations[n], old |-> activeVersion]
  <2>1. CASE boundary + 1 \in DOMAIN scheduledActivations
    BY <1>1, <2>1, OtherCoordinations DEF ProcessCycleBoundary, CoordinatorInv
  <2>2. CASE boundary + 1 \notin DOMAIN scheduledActivations
    BY <2>2 DEF ProcessCycleBoundary, CoordinatorInv, CallsInv
  <2> QED
    BY <2>1, <2>2
<1>5. ScheduleInv' /\ (activeVersion \in KnownVersions)'
  BY <1>1 DEF CoordinatorInv, ScheduleInv
<1>6. CallsInv'
  <2>1. ASSUME NEW d \in Coordinations, coordinations'[d] = coordinations[d]
        PROVE  UnderWay(coordinations[d])'
    <3>1. coordinations[d] \notin BoundaryCalls \/ coordinations[d] = NoCoordination
      BY <1>3 DEF IsAtBoundary, Does, Free, BoundaryCalls
    <3>2. UnderWay(coordinations[d])
      BY DEF CoordinatorInv, CallsInv
    <3> QED
      BY <1>1, <2>1, <3>1, <3>2 DEF UnderWay
  <2>2. ASSUME NEW n \in DOMAIN scheduledActivations,
               k = [step |-> "activate", upgrade |-> scheduledActivations[n], old |-> activeVersion]
        PROVE  UnderWay(coordinations[c])'
    <3>1. k \in BoundaryCalls /\ k.step = "activate" /\ k.old = activeVersion
      BY <2>2 DEF CoordinatorInv, ScheduleInv, BoundaryCalls, BoundarySteps
    <3> QED
      BY <1>1, <1>4, <3>1 DEF UnderWay
  <2> QED
    BY <1>4, <2>1, <2>2 DEF CallsInv
<1>7. OneAtBoundary'
  BY <1>3, <1>4, StillOneAtBoundary DEF CoordinatorInv
<1>8. SupportLostOnlyByRemoval'
  <2>1. ~ActiveLocked
    BY <1>3 DEF ActiveLocked, IsAtBoundary, BoundarySteps
  <2>2. \A v : ~Planning(v)
    BY <1>3 DEF Planning, IsAtBoundary, BoundarySteps
  <2> QED
    BY <1>1, <2>1, <2>2 DEF CoordinatorInv, SupportLostOnlyByRemoval
<1> QED
  BY <1>5, <1>6, <1>7, <1>8 DEF CoordinatorInv

(* The active version is replaced, by a new one or an earlier one.          *)
LEMMA ActivateStep ==
  ASSUME CoordinatorInv, NEW c \in Coordinations, SetActiveVersion(c)
  PROVE  CoordinatorInv'
<1> USE VersionActivationAssumption
<1>a. PICK call : call = coordinations[c]
  OBVIOUS
<1>1. /\ call \in BoundaryCalls /\ call.step = "activate" /\ IsAtBoundary(c) /\ UnderWay(call)
      /\ ~Free(c)
  BY <1>a, BoundaryCall DEF SetActiveVersion, CoordinatorInv, BoundarySteps
<1>2. PICK u \in ApprovedUpgrades : u = call.upgrade /\ call.old = activeVersion
  BY <1>a, <1>1 DEF UnderWay, Free, BoundaryCalls
<1>b. PICK k : k = [call EXCEPT !.step = "support"]
  OBVIOUS
<1>3. /\ activeVersion' = NewVersion(u) /\ superseded' = Entry(superseded, activeVersion, boundary)
      /\ Goes(c, k)
      /\ UNCHANGED <<supportedVersions, scheduledActivations, removalSchedule, boundary, exposed>>
  BY <1>a, <1>b, <1>2 DEF SetActiveVersion, GoesOn
<1>4. /\ k \in BoundaryCalls /\ k.step = "support" /\ k.upgrade = u /\ k.old = activeVersion
  BY <1>1, <1>2, <1>b DEF BoundaryCalls, BoundarySteps
<1>5. k # NoCoordination
  BY <1>4 DEF BoundaryCalls
<1>6. /\ DOMAIN coordinations' = Coordinations /\ coordinations'[c] = k
      /\ \A d \in Coordinations \ {c} : coordinations'[d] = coordinations[d]
  BY <1>3, OtherCoordinations DEF CoordinatorInv
<1>8. /\ DOMAIN superseded' = DOMAIN superseded \cup {activeVersion}
      /\ superseded'[activeVersion] = boundary
      /\ \A v \in DOMAIN superseded : v # activeVersion => superseded'[v] = superseded[v]
  BY <1>3 DEF Entry
<1>11. ScheduleInv' /\ (activeVersion \in KnownVersions)'
  BY <1>3 DEF CoordinatorInv, ScheduleInv, KnownVersions
<1>12. CallsInv'
  <2>1. ASSUME NEW d \in Coordinations, d # c
        PROVE  UnderWay(coordinations[d])'
    <3>1. UnderWay(coordinations[d]) /\ coordinations'[d] = coordinations[d]
      BY <1>6, <2>1 DEF CoordinatorInv, CallsInv
    <3>2. coordinations[d] \notin BoundaryCalls \/ coordinations[d] = NoCoordination
      BY <1>1, <2>1 DEF CoordinatorInv, OneAtBoundary, IsAtBoundary, Does, Free, BoundaryCalls
    <3> QED
      BY <1>3, <3>1, <3>2 DEF UnderWay
  <2>2. UnderWay(coordinations[c])'
    BY <1>3, <1>4, <1>6, <1>8 DEF UnderWay, Replaced
  <2> QED
    BY <1>6, <2>1, <2>2 DEF CallsInv
<1>13. OneAtBoundary'
  BY <1>1, <1>6, StillOneAtBoundary DEF CoordinatorInv
<1>14. SupportLostOnlyByRemoval'
  <2>1. Does(c, "support")' /\ coordinations'[c].old = activeVersion
    BY <1>4, <1>5, <1>6 DEF Does, Free
  <2>2. ActiveLocked'
    BY <2>1 DEF ActiveLocked
  <2>3. activeVersion \in supportedVersions \/ activeVersion \in exposed
    <3>1. ASSUME NEW d \in Coordinations, Does(d, "support") PROVE FALSE
      <4>1. IsAtBoundary(d)
        BY <3>1 DEF IsAtBoundary, BoundarySteps
      <4>2. d = c
        BY <1>1, <4>1 DEF CoordinatorInv, OneAtBoundary
      <4> QED
        BY <1>a, <1>1, <3>1, <4>2 DEF Does
    <3> QED
      BY <3>1 DEF ActiveLocked, CoordinatorInv, SupportLostOnlyByRemoval
  <2>4. DOMAIN superseded' \ exposed' \subseteq supportedVersions'
    BY <1>3, <1>8, <2>3 DEF CoordinatorInv, SupportLostOnlyByRemoval
  <2>5. ASSUME NEW v \in DOMAIN superseded'
        PROVE  \/ Planning(v)'
               \/ v \in DOMAIN removalSchedule' /\ removalSchedule'[v] = superseded'[v] + TransitionPeriod
    <3>1. CASE v = activeVersion
      BY <2>1, <3>1 DEF Planning
    <3>2. CASE v # activeVersion
      <4>1. v \in DOMAIN superseded /\ superseded'[v] = superseded[v]
        BY <1>8, <3>2
      <4>2. Planning(v) => Planning(v)'
        BY <1>a, <1>1, <1>3, OthersPlan DEF CoordinatorInv
      <4> QED
        BY <1>3, <4>1, <4>2 DEF CoordinatorInv, SupportLostOnlyByRemoval
    <3> QED
      BY <3>1, <3>2
  <2> QED
    BY <2>2, <2>4, <2>5 DEF SupportLostOnlyByRemoval
<1> QED
  BY <1>11, <1>12, <1>13, <1>14 DEF CoordinatorInv

(* The new version gets its support, and what was asked for before no       *)
(* longer counts unless a removal of it is under way.                       *)
LEMMA SupportStep ==
  ASSUME CoordinatorInv, NEW c \in Coordinations, AddSupport(c)
  PROVE  CoordinatorInv'
<1>a. PICK call : call = coordinations[c]
  OBVIOUS
<1>1. /\ call \in BoundaryCalls /\ call.step = "support" /\ IsAtBoundary(c) /\ UnderWay(call)
      /\ ~Free(c)
  BY <1>a, BoundaryCall DEF AddSupport, CoordinatorInv, BoundarySteps
<1>2. /\ activeVersion = NewVersion(call.upgrade)
      /\ Replaced(call.old) /\ superseded[call.old] = boundary
  BY <1>a, <1>1 DEF UnderWay, Free, BoundaryCalls
<1>b. PICK k : k = [call EXCEPT !.step = "unschedule"]
  OBVIOUS
<1>3. /\ Goes(c, k) /\ supportedVersions' = supportedVersions \cup {activeVersion}
      /\ UNCHANGED <<activeVersion, scheduledActivations, removalSchedule, boundary, superseded>>
      /\ exposed' = IF \E d \in Coordinations : Removing(d, activeVersion)
                    THEN exposed ELSE exposed \ {activeVersion}
  BY <1>a, <1>b, <1>2 DEF AddSupport, GoesOn
<1>4. /\ k \in BoundaryCalls /\ k.step = "unschedule" /\ k.old = call.old
  BY <1>1, <1>b DEF BoundaryCalls, BoundarySteps
<1>5. UnderWay(k)'
  BY <1>2, <1>3, <1>4 DEF UnderWay, Replaced
<1>6. CallsInv'
  <2>1. \A d \in Coordinations, v \in exposed : Removing(d, v) => v \in exposed'
    BY <1>3
  <2> QED
    BY <1>3, <1>5, <2>1, CallsKept DEF CoordinatorInv
<1>7. /\ coordinations'[c] = k /\ \A d \in Coordinations \ {c} : coordinations'[d] = coordinations[d]
  BY <1>3, OtherCoordinations DEF CoordinatorInv
<1>8. OneAtBoundary'
  BY <1>1, <1>7, StillOneAtBoundary DEF CoordinatorInv
<1>9. ScheduleInv' /\ (activeVersion \in KnownVersions)'
  BY <1>3 DEF CoordinatorInv, ScheduleInv
<1>10. SupportLostOnlyByRemoval'
  <2>1. ASSUME NEW v, Planning(v) PROVE Planning(v)'
    <3>1. k # NoCoordination
      BY <1>4, VersionActivationAssumption DEF BoundaryCalls
    <3>2. v = call.old => Planning(v)'
      BY <1>4, <1>7, <3>1 DEF Planning, Does, Free
    <3> QED
      BY <1>3, <1>a, <2>1, <3>2, OthersPlan DEF CoordinatorInv
  <2> QED
    BY <1>3, <2>1 DEF CoordinatorInv, SupportLostOnlyByRemoval
<1> QED
  BY <1>6, <1>8, <1>9, <1>10 DEF CoordinatorInv

(* The upgrade leaves the schedule, and the old version's support gets its  *)
(* end.                                                                     *)
LEMMA AfterActivationSteps ==
  ASSUME CoordinatorInv, NEW c \in Coordinations, Unschedule(c) \/ ScheduleVersionRemoval(c)
  PROVE  CoordinatorInv'
<1>a. PICK call : call = coordinations[c]
  OBVIOUS
<1>1. /\ call \in BoundaryCalls /\ call.step \in {"unschedule", "plan removal"} /\ IsAtBoundary(c)
      /\ UnderWay(call) /\ ~Free(c)
  BY <1>a, BoundaryCall DEF Unschedule, ScheduleVersionRemoval, CoordinatorInv, BoundarySteps
<1>2. Replaced(call.old) /\ superseded[call.old] = boundary
  BY <1>a, <1>1 DEF UnderWay, Free, BoundaryCalls
<1>3. ~Does(c, "support")
  BY <1>a, <1>1 DEF Does
<1>4. CASE Unschedule(c)
  <2>1. PICK k : k = [call EXCEPT !.step = "plan removal"]
    OBVIOUS
  <2>2. /\ Goes(c, k)
        /\ scheduledActivations' =
             [n \in DOMAIN scheduledActivations \ {boundary} |-> scheduledActivations[n]]
        /\ UNCHANGED <<activeVersion, supportedVersions, removalSchedule, boundary, superseded, exposed>>
    BY <1>4, <1>a, <2>1 DEF Unschedule, GoesOn
  <2>3. k \in BoundaryCalls /\ k.step = "plan removal" /\ k.old = call.old /\ k # NoCoordination
    BY <1>1, <2>1, VersionActivationAssumption DEF BoundaryCalls, BoundarySteps
  <2>4. UnderWay(k)'
    BY <1>2, <2>2, <2>3 DEF UnderWay, Replaced
  <2>5. ScheduleInv'
    BY <2>2 DEF CoordinatorInv, ScheduleInv
  <2>6. ASSUME NEW v \in DOMAIN superseded
        PROVE  \/ Planning(v)'
               \/ v \in DOMAIN removalSchedule' /\ removalSchedule'[v] = superseded[v] + TransitionPeriod
    <3>1. coordinations'[c] = k
      BY <2>2, OtherCoordinations DEF CoordinatorInv
    <3>2. v = call.old => Planning(v)'
      BY <2>3, <3>1 DEF Planning, Does, Free
    <3>3. Planning(v) => Planning(v)'
      BY <1>a, <2>2, <3>2, OthersPlan DEF CoordinatorInv
    <3> QED
      BY <2>2, <3>3 DEF CoordinatorInv, SupportLostOnlyByRemoval
  <2> QED
    BY <1>1, <1>3, <2>2, <2>4, <2>5, <2>6, QuietStep
<1>5. CASE ScheduleVersionRemoval(c)
  <2>1. /\ Goes(c, NoCoordination)
        /\ removalSchedule' = Entry(removalSchedule, call.old, boundary + TransitionPeriod)
        /\ UNCHANGED <<activeVersion, supportedVersions, scheduledActivations, boundary, superseded,
                       exposed>>
    BY <1>5, <1>a DEF ScheduleVersionRemoval, Returns
  <2>2. UnderWay(NoCoordination)'
    BY DEF UnderWay
  <2>3. ScheduleInv'
    BY <2>1 DEF CoordinatorInv, ScheduleInv
  <2>4. ASSUME NEW v \in DOMAIN superseded
        PROVE  \/ Planning(v)'
               \/ v \in DOMAIN removalSchedule' /\ removalSchedule'[v] = superseded[v] + TransitionPeriod
    <3>1. CASE v = call.old
      BY <1>2, <2>1, <3>1 DEF Entry
    <3>2. CASE v # call.old
      <4>1. Planning(v) => Planning(v)'
        BY <1>a, <2>1, <3>2, OthersPlan DEF CoordinatorInv
      <4> QED
        BY <2>1, <3>2, <4>1 DEF CoordinatorInv, SupportLostOnlyByRemoval, Entry
    <3> QED
      BY <3>1, <3>2
  <2> QED
    BY <1>3, <2>1, <2>2, <2>3, <2>4, QuietStep
<1> QED
  BY <1>4, <1>5

(* remove_version_support: what it takes the support from is exposed.       *)
LEMMA RemovalSteps ==
  ASSUME CoordinatorInv, NEW c \in Coordinations,
         (\E v \in KnownVersions : RemoveVersionSupport(c, v)) \/ RemoveSupport(c)
  PROVE  CoordinatorInv'
<1>1. ASSUME NEW v \in KnownVersions, RemoveVersionSupport(c, v)
      PROVE  CoordinatorInv'
  <2>1. PICK k : k = [step |-> "remove", version |-> v]
    OBVIOUS
  <2>2. /\ Goes(c, k) /\ exposed' = exposed \cup {v} /\ ~IsAtBoundary(c) /\ ~Does(c, "support")
        /\ UNCHANGED <<activeVersion, supportedVersions, scheduledActivations, removalSchedule,
                       boundary, superseded>>
    BY <1>1, <2>1, ElsewhereCall DEF RemoveVersionSupport
  <2>3. UnderWay(k)' /\ k.step \notin BoundarySteps
    BY <2>1, <2>2 DEF UnderWay, BoundarySteps
  <2>4. ScheduleInv'
    BY <2>2 DEF CoordinatorInv, ScheduleInv
  <2> QED
    BY <2>2, <2>3, <2>4, PlansKept, QuietStep
<1>2. CASE RemoveSupport(c)
  <2>1. PICK v : v = coordinations[c].version
    OBVIOUS
  <2>2. /\ Goes(c, NoCoordination) /\ Does(c, "remove") /\ ~IsAtBoundary(c)
        /\ supportedVersions' = supportedVersions \ {v}
        /\ UNCHANGED <<activeVersion, scheduledActivations, removalSchedule, boundary, superseded, exposed>>
    BY <1>2, <2>1, ElsewhereCall DEF RemoveSupport, Returns
  <2>3. v \in exposed
    BY <2>1, <2>2 DEF CoordinatorInv, CallsInv, UnderWay, Does, Free, BoundarySteps, BoundaryCalls
  <2>4. CallsInv'
    <3>1. UnderWay(NoCoordination)'
      BY DEF UnderWay
    <3> QED
      BY <2>2, <3>1, CallsKept DEF CoordinatorInv
  <2>5. /\ coordinations'[c] = NoCoordination
        /\ \A d \in Coordinations \ {c} : coordinations'[d] = coordinations[d]
    BY <2>2, OtherCoordinations DEF CoordinatorInv
  <2>6. OneAtBoundary'
    <3>1. ~IsAtBoundary(c)'
      BY <2>5 DEF IsAtBoundary, Does, Free
    <3> QED
      BY <2>5, <3>1, StillOneAtBoundary DEF CoordinatorInv
  <2>7. ScheduleInv' /\ (activeVersion \in KnownVersions)'
    BY <2>2 DEF CoordinatorInv, ScheduleInv
  <2>8. SupportLostOnlyByRemoval'
    <3>1. ActiveLocked => ActiveLocked'
      BY <2>2, <2>5 DEF ActiveLocked, Does, Free
    <3>2. \A w \in DOMAIN superseded :
            \/ Planning(w)'
            \/ w \in DOMAIN removalSchedule' /\ removalSchedule'[w] = superseded[w] + TransitionPeriod
      BY <2>2, PlansKept
    <3> QED
      BY <2>2, <2>3, <3>1, <3>2 DEF CoordinatorInv, SupportLostOnlyByRemoval
  <2> QED
    BY <2>4, <2>6, <2>7, <2>8 DEF CoordinatorInv
<1> QED
  BY <1>1, <1>2

(* get_stats changes nothing.                                               *)
LEMMA StatsStep ==
  ASSUME CoordinatorInv, NEW c \in Coordinations, GetStats(c)
  PROVE  CoordinatorInv'
<1>1. UNCHANGED <<activeVersion, supportedVersions, scheduledActivations, removalSchedule,
                  boundary, superseded, exposed>>
  BY DEF GetStats
<1>2. ScheduleInv'
  BY <1>1 DEF CoordinatorInv, ScheduleInv
<1>3. ASSUME NEW k \in [step : {"stats supported", "stats active"}] \cup {NoCoordination},
             Goes(c, k), ~Does(c, "support"), ~IsAtBoundary(c)
      PROVE  CoordinatorInv'
  <2>1. UnderWay(k)' /\ (k # NoCoordination => k.step \notin BoundarySteps)
    BY DEF UnderWay, BoundarySteps
  <2> QED
    BY <1>1, <1>2, <1>3, <2>1, PlansKept, QuietStep
<1>4. CASE Free(c) /\ Goes(c, [step |-> "stats supported"])
  BY <1>3, <1>4, ElsewhereCall
<1>5. CASE Does(c, "stats supported") /\ GoesOn(c, "stats active")
  <2>1. coordinations[c] \in [step : {"stats supported", "stats active"}]
    BY <1>5 DEF CoordinatorInv, CallsInv, UnderWay, Does, Free, BoundarySteps, BoundaryCalls
  <2>2. [coordinations[c] EXCEPT !.step = "stats active"] \in [step : {"stats supported", "stats active"}]
    BY <2>1
  <2> QED
    BY <1>3, <1>5, <2>2, ElsewhereCall DEF GoesOn
<1>6. CASE Does(c, "stats active") /\ Returns(c)
  BY <1>3, <1>6, ElsewhereCall DEF Returns
<1> QED
  BY <1>4, <1>5, <1>6 DEF GetStats

LEMMA CoordinatorNextInv == CoordinatorInv /\ [CoordinatorNext]_coordinatorVars => CoordinatorInv'
<1> SUFFICES ASSUME CoordinatorInv, [CoordinatorNext]_coordinatorVars PROVE CoordinatorInv'
  OBVIOUS
<1>1. CASE UNCHANGED coordinatorVars
  <2>1. UNCHANGED <<activeVersion, supportedVersions, scheduledActivations, removalSchedule,
                    coordinations, boundary, superseded, exposed>>
    BY <1>1 DEF coordinatorVars
  <2>2. ScheduleInv' /\ (activeVersion \in KnownVersions)'
    BY <2>1 DEF CoordinatorInv, ScheduleInv
  <2>3. CallsInv'
    BY <2>1 DEF CoordinatorInv, CallsInv, UnderWay, Replaced
  <2>4. OneAtBoundary' /\ SupportLostOnlyByRemoval'
    BY <2>1 DEF CoordinatorInv, OneAtBoundary, SupportLostOnlyByRemoval, ActiveLocked, IsAtBoundary,
                Planning, Does, Free
  <2> QED
    BY <2>2, <2>3, <2>4 DEF CoordinatorInv
<1> QED
  BY <1>1, ScheduleSteps, BoundaryStep, ActivateStep, SupportStep, AfterActivationSteps, RemovalSteps,
     StatsStep DEF CoordinatorNext

(* Between the sections of any number of concurrent calls, and whatever     *)
(* removals are asked for and upgrades lead back, the active version        *)
(* and those replaced lose their support only to remove_version_support,    *)
(* and the end of a replaced version's support is planned.                  *)
THEOREM SupportKept == CoordinatorSpec => []SupportLostOnlyByRemoval
<1>1. CoordinatorInv => SupportLostOnlyByRemoval
  BY DEF CoordinatorInv
<1> QED
  BY <1>1, CoordinatorInitInv, CoordinatorNextInv, PTL DEF CoordinatorSpec

-----------------------------------------------------------------------------
(***************************************************************************)
(* What an accepted transaction was checked against, for any versions,     *)
(* features, flags and number of concurrent validations and removals.  The *)
(* inductive invariant follows a validation through its steps: the version *)
(* active now is among those of the validation, its flags among those that *)
(* were enabled, the feature whose flags are looked up belongs to such a   *)
(* version, and what is not left to check was enabled.                     *)
(***************************************************************************)
CheckerSpec == CheckerInit /\ [][CheckerNext]_checkerVars

Validation ==
  [step : {"version", "feature"}, version : Versions, required : SUBSET Features,
   left : SUBSET Features]

FeatureCheck ==
  [step : {"flags", "requirement"}, version : Versions, required : SUBSET Features,
   left : SUBSET Features, feature : Features, active : Versions]

(* What a validation has established, with the versions that were active    *)
(* and the features they enabled.                                           *)
Established(check, active, enabled) ==
  /\ check \in Validation \cup FeatureCheck
  /\ check.required \ check.left \subseteq enabled
  /\ check.step = "flags" => check.active \in active
  /\ check.step = "requirement" => check.feature \in enabled

(* The history has missed no version and no flag.                           *)
Watched(active, enabled) ==
  checkerActive \in active /\ \A v \in active : Flags(v) \subseteq enabled

CheckInv(c) ==
  \/ checks[c] = NoCheck /\ during[c] = {}
  \/ /\ Established(checks[c], during[c], enabledDuring[c])
     /\ Watched(during[c], enabledDuring[c])

ChecksEstablished ==
  /\ DOMAIN checks = Checks /\ DOMAIN during = Checks /\ DOMAIN enabledDuring = Checks
  /\ \A c \in Checks : CheckInv(c)

CheckerInv ==
  checkerActive \in Versions /\ ChecksEstablished /\ AcceptedFeaturesWereActive

-----------------------------------------------------------------------------
LEMMA CheckerInitInv == CheckerInit => CheckerInv
BY CompatibilityAssumption
   DEF CheckerInit, CheckerInv, ChecksEstablished, CheckInv, AcceptedFeaturesWereActive

(* Whoever knows more versions and features has established no less.        *)
LEMMA EstablishedKept ==
  ASSUME NEW check, NEW active, NEW enabled, Established(check, active, enabled),
         NEW moreActive, NEW moreEnabled, active \subseteq moreActive, enabled \subseteq moreEnabled
  PROVE  Established(check, moreActive, moreEnabled)
BY DEF Established

(* A step that only replaces the record of one validation by a sound one.   *)
LEMMA ReplacedCheck ==
  ASSUME CheckerInv, NEW c \in Checks, NEW check, checks[c] # NoCheck,
         Established(check, during[c], enabledDuring[c]), Continue(c, check),
         UNCHANGED <<checkerActive, checkerSupported>>
  PROVE  CheckerInv'
<1>1. /\ DOMAIN checks' = Checks /\ during' = during /\ enabledDuring' = enabledDuring
      /\ accepted' = accepted
      /\ checks'[c] = check /\ \A d \in Checks \ {c} : checks'[d] = checks[d]
  BY DEF Continue, CheckerInv, ChecksEstablished
<1>2. ASSUME NEW d \in Checks PROVE CheckInv(d)'
  <2>1. CheckInv(d) /\ CheckInv(c)
    BY DEF CheckerInv, ChecksEstablished
  <2>2. Watched(during[d], enabledDuring[d]) => Watched(during[d], enabledDuring[d])'
    BY <1>1 DEF Watched, Flags
  <2>3. CASE d # c
    BY <1>1, <2>1, <2>2, <2>3 DEF CheckInv
  <2>4. CASE d = c
    BY <1>1, <2>1, <2>2, <2>4 DEF CheckInv
  <2> QED
    BY <2>3, <2>4
<1> QED
  BY <1>1, <1>2 DEF CheckerInv, ChecksEstablished, AcceptedFeaturesWereActive

(* A validation that is over leaves nothing behind, but what was accepted.  *)
LEMMA OverKeeps ==
  ASSUME CheckerInv, NEW c \in Checks, Over(c), UNCHANGED <<checkerActive, checkerSupported>>,
         AcceptedFeaturesWereActive'
  PROVE  CheckerInv'
<1>1. /\ DOMAIN checks' = Checks /\ DOMAIN during' = Checks /\ DOMAIN enabledDuring' = Checks
      /\ checks'[c] = NoCheck /\ during'[c] = {}
      /\ \A d \in Checks \ {c} : /\ checks'[d] = checks[d] /\ during'[d] = during[d]
                                /\ enabledDuring'[d] = enabledDuring[d]
  BY DEF Over, CheckerInv, ChecksEstablished
<1>2. ASSUME NEW d \in Checks PROVE CheckInv(d)'
  <2>1. CheckInv(d)
    BY DEF CheckerInv, ChecksEstablished
  <2>2. d # c /\ Watched(during[d], enabledDuring[d]) => Watched(during[d], enabledDuring[d])'
    BY <1>1 DEF Watched, Flags
  <2> QED
    BY <1>1, <2>1, <2>2 DEF CheckInv
<1> QED
  BY <1>1, <1>2 DEF CheckerInv, ChecksEstablished

LEMMA RejectKeeps ==
  ASSUME CheckerInv, NEW c \in Checks, Reject(c), UNCHANGED <<checkerActive, checkerSupported>>
  PROVE  CheckerInv'
BY OverKeeps DEF Reject, CheckerInv, AcceptedFeaturesWereActive

(* A validation whose features are all checked is accepted, any other goes  *)
(* on with its features.                                                    *)
LEMMA AcceptOrContinueInv ==
  ASSUME CheckerInv, NEW c \in Checks, checks[c] # NoCheck, NEW check \in Validation,
         check.required = checks[c].required,
         Established(check, during[c], enabledDuring[c]), AcceptOrContinue(c, check),
         UNCHANGED <<checkerActive, checkerSupported>>
  PROVE  CheckerInv'
<1>1. CASE check.left # {}
  <2> DEFINE next == [check EXCEPT !.step = "feature"]
  <2>1. Continue(c, next)
    BY <1>1 DEF AcceptOrContinue
  <2>2. /\ next \in Validation /\ next.required = check.required
        /\ next.left = check.left /\ next.step = "feature"
    BY DEF Validation
  <2> HIDE DEF next
  <2>3. Established(next, during[c], enabledDuring[c])
    BY <2>2 DEF Established
  <2> QED
    BY <2>1, <2>3, ReplacedCheck
<1>2. CASE check.left = {}
  <2>1. /\ accepted' = {[required |-> checks[c].required, enabled |-> enabledDuring[c]]}
        /\ Over(c)
    BY <1>2 DEF AcceptOrContinue, Accept
  <2>2. checks[c].required \subseteq enabledDuring[c]
    BY <1>2 DEF Established
  <2>3. AcceptedFeaturesWereActive'
    BY <2>1, <2>2 DEF AcceptedFeaturesWereActive
  <2> QED
    BY <2>1, <2>3, OverKeeps
<1> QED
  BY <1>1, <1>2

(* The record of a validation that is in one of its steps.                  *)
LEMMA StepOf ==
  ASSUME CheckerInv, NEW c \in Checks, NEW step \in {"version", "feature", "flags", "requirement"},
         Checking(c, step)
  PROVE  /\ checks[c] # NoCheck /\ checks[c].step = step
         /\ Established(checks[c], during[c], enabledDuring[c])
         /\ Watched(during[c], enabledDuring[c])
         /\ step \in {"version", "feature"} => checks[c] \in Validation
         /\ step \in {"flags", "requirement"} => checks[c] \in FeatureCheck
BY DEF CheckerInv, ChecksEstablished, CheckInv, Checking, Established, Validation, FeatureCheck

(* Versions become active and flags are replaced under running validations, *)
(* and versions lose their support.                                         *)
LEMMA VersionsChange ==
  ASSUME CheckerInv,
         \/ \E v \in Versions : UpdateActiveVersion(v)
         \/ \E v \in Versions, flags \in SUBSET Features : AddSupportedVersion(v, flags)
         \/ \E r \in Removals : RemoveCompared(r)
  PROVE  CheckerInv'
<1>1. checks' = checks /\ accepted' = accepted
  BY DEF UpdateActiveVersion, AddSupportedVersion, RemoveCompared
<1>2. ASSUME NEW v \in Versions, UpdateActiveVersion(v)
      PROVE  CheckerInv'
  <2>1. /\ checkerActive' = v /\ checkerSupported' = checkerSupported
        /\ DOMAIN during' = Checks /\ DOMAIN enabledDuring' = Checks
        /\ \A c \in Checks : checks[c] = NoCheck => during'[c] = {}
        /\ \A c \in Checks : checks[c] # NoCheck =>
             during'[c] = during[c] \cup {v} /\ enabledDuring'[c] = enabledDuring[c] \cup Flags(v)
    BY <1>2 DEF UpdateActiveVersion
  <2>2. ASSUME NEW c \in Checks PROVE CheckInv(c)'
    <3>1. CASE checks[c] = NoCheck
      BY <1>1, <2>1, <3>1 DEF CheckInv
    <3>2. CASE checks[c] # NoCheck
      <4>1. Established(checks[c], during[c], enabledDuring[c]) /\ Watched(during[c], enabledDuring[c])
        BY <3>2 DEF CheckerInv, ChecksEstablished, CheckInv
      <4>2. during'[c] = during[c] \cup {v} /\ enabledDuring'[c] = enabledDuring[c] \cup Flags(v)
        BY <2>1, <3>2
      <4>3. Established(checks[c], during'[c], enabledDuring'[c])
        BY <4>1, <4>2, EstablishedKept
      <4>4. Watched(during[c], enabledDuring[c])'
        BY <2>1, <4>1, <4>2 DEF Watched, Flags
      <4> QED
        BY <1>1, <4>3, <4>4 DEF CheckInv
    <3> QED
      BY <3>1, <3>2
  <2> QED
    BY <1>1, <2>1, <2>2 DEF CheckerInv, ChecksEstablished, AcceptedFeaturesWereActive
<1>3. ASSUME UNCHANGED <<checkerActive, during>>, DOMAIN enabledDuring' = Checks,
             \A c \in Checks : /\ enabledDuring[c] \subseteq enabledDuring'[c]
                               /\ \A v \in during[c] : Flags(v)' \subseteq Flags(v) \cup enabledDuring'[c]
      PROVE  CheckerInv'
  <2>2. ASSUME NEW c \in Checks PROVE CheckInv(c)'
    <3>1. CASE checks[c] = NoCheck /\ during[c] = {}
      BY <1>1, <1>3, <3>1 DEF CheckInv
    <3>2. CASE Established(checks[c], during[c], enabledDuring[c]) /\ Watched(during[c], enabledDuring[c])
      <4>1. Established(checks[c], during[c], enabledDuring'[c])
        BY <1>3, <3>2, EstablishedKept
      <4>2. Watched(during[c], enabledDuring[c])'
        BY <1>3, <3>2 DEF Watched
      <4> QED
        BY <1>1, <1>3, <4>1, <4>2 DEF CheckInv
    <3> QED
      BY <3>1, <3>2 DEF CheckerInv, ChecksEstablished, CheckInv
  <2> QED
    BY <1>1, <1>3, <2>2 DEF CheckerInv, ChecksEstablished, AcceptedFeaturesWereActive
<1>4. ASSUME NEW v \in Versions, NEW flags \in SUBSET Features, AddSupportedVersion(v, flags)
      PROVE  CheckerInv'
  <2>1. \A w : Flags(w)' = IF w = v THEN flags ELSE Flags(w)
    BY <1>4 DEF AddSupportedVersion, Flags
  <2>2. /\ UNCHANGED <<checkerActive, during>> /\ DOMAIN enabledDuring' = Checks
        /\ \A c \in Checks :
             /\ enabledDuring[c] \subseteq enabledDuring'[c]
             /\ v \in during[c] => flags \subseteq enabledDuring'[c]
    BY <1>4 DEF AddSupportedVersion
  <2>3. ASSUME NEW c \in Checks, NEW w \in during[c]
        PROVE  Flags(w)' \subseteq Flags(w) \cup enabledDuring'[c]
    <3>1. Flags(w)' = IF w = v THEN flags ELSE Flags(w)
      BY <2>1
    <3>2. CASE w = v
      <4>1. flags \subseteq enabledDuring'[c]
        BY <2>2, <3>2
      <4> QED
        BY <3>1, <3>2, <4>1
    <3>3. CASE w # v
      BY <3>1, <3>3
    <3> QED
      BY <3>2, <3>3
  <2>4. \A c \in Checks :
          /\ enabledDuring[c] \subseteq enabledDuring'[c]
          /\ \A w \in during[c] : Flags(w)' \subseteq Flags(w) \cup enabledDuring'[c]
    BY <2>2, <2>3
  <2> QED
    BY <1>3, <2>2, <2>4
<1>5. ASSUME NEW r \in Removals, RemoveCompared(r)
      PROVE  CheckerInv'
  <2>1. \A w : Flags(w)' \subseteq Flags(w)
    BY <1>5 DEF RemoveCompared, Flags
  <2>2. UNCHANGED <<checkerActive, during, enabledDuring>>
    BY <1>5 DEF RemoveCompared
  <2>3. DOMAIN enabledDuring' = Checks
    BY <2>2 DEF CheckerInv, ChecksEstablished
  <2> QED
    BY <1>3, <2>1, <2>2, <2>3
<1> QED
  BY <1>2, <1>4, <1>5

(* A new validation begins with the version active now and its flags.       *)
LEMMA ValidationBegins ==
  ASSUME CheckerInv, NEW c \in Checks, NEW required \in SUBSET Features,
         ValidateTransaction(c, required)
  PROVE  CheckerInv'
<1> DEFINE check == [step |-> "version", version |-> checkerActive, required |-> required,
                     left |-> required]
<1>1. check \in Validation
  BY DEF Validation, CheckerInv
<1>2. Established(check, {checkerActive}, Flags(checkerActive))
  BY <1>1 DEF Established
<1>3. /\ DOMAIN checks' = Checks /\ DOMAIN during' = Checks /\ DOMAIN enabledDuring' = Checks
      /\ checks'[c] = check /\ during'[c] = {checkerActive}
      /\ enabledDuring'[c] = Flags(checkerActive)
      /\ \A d \in Checks \ {c} : /\ checks'[d] = checks[d] /\ during'[d] = during[d]
                                /\ enabledDuring'[d] = enabledDuring[d]
      /\ accepted' = {} /\ checkerActive' = checkerActive /\ checkerSupported' = checkerSupported
  BY DEF ValidateTransaction, CheckerInv, ChecksEstablished
<1> HIDE DEF check
<1>4. ASSUME NEW d \in Checks PROVE CheckInv(d)'
  <2>1. CASE d = c
    BY <1>2, <1>3, <2>1 DEF CheckInv, Watched, Flags
  <2>2. CASE d # c
    <3>1. CheckInv(d)
      BY DEF CheckerInv, ChecksEstablished
    <3>2. Watched(during[d], enabledDuring[d]) => Watched(during[d], enabledDuring[d])'
      BY <1>3, <2>2 DEF Watched, Flags
    <3> QED
      BY <1>3, <2>2, <3>1, <3>2 DEF CheckInv
  <2> QED
    BY <2>1, <2>2
<1>5. AcceptedFeaturesWereActive'
  BY <1>3 DEF AcceptedFeaturesWereActive
<1> QED
  BY <1>3, <1>4, <1>5 DEF CheckerInv, ChecksEstablished

LEMMA CheckerNextInv == CheckerInv /\ [CheckerNext]_checkerVars => CheckerInv'
<1> SUFFICES ASSUME CheckerInv, [CheckerNext]_checkerVars PROVE CheckerInv'
  OBVIOUS
<1> USE CompatibilityAssumption
<1>1. ASSUME UNCHANGED <<checkerActive, checkerSupported, checks, during, enabledDuring, accepted>>
      PROVE  CheckerInv'
  BY <1>1 DEF CheckerInv, ChecksEstablished, CheckInv, Established, Watched, Flags,
              AcceptedFeaturesWereActive
<1>2. CASE UNCHANGED checkerVars
  BY <1>1, <1>2 DEF checkerVars
<1>3. ASSUME NEW f \in Features, NEW v \in Versions, RegisterFeatureRequirement(f, v)
      PROVE  CheckerInv'
  BY <1>1, <1>3 DEF RegisterFeatureRequirement
<1>4. ASSUME NEW r \in Removals, NEW v \in Versions, RemoveSupportedVersion(r, v)
      PROVE  CheckerInv'
  BY <1>1, <1>4 DEF RemoveSupportedVersion
<1>7. ASSUME NEW c \in Checks, CheckVersion(c)
      PROVE  CheckerInv'
  <2>1. /\ checks[c] # NoCheck /\ checks[c] \in Validation
        /\ Established(checks[c], during[c], enabledDuring[c])
    BY <1>7, StepOf DEF CheckVersion
  <2>2. UNCHANGED <<checkerActive, checkerSupported>> /\ (Reject(c) \/ AcceptOrContinue(c, checks[c]))
    BY <1>7 DEF CheckVersion
  <2> QED
    BY <2>1, <2>2, AcceptOrContinueInv, RejectKeeps
<1>8. ASSUME NEW c \in Checks, NEW f \in Features, ReadActiveVersion(c, f)
      PROVE  CheckerInv'
  <2>1. /\ checks[c] # NoCheck /\ checks[c] \in Validation
        /\ Established(checks[c], during[c], enabledDuring[c])
        /\ Watched(during[c], enabledDuring[c])
    BY <1>8, StepOf DEF ReadActiveVersion
  <2> DEFINE check == [step |-> "flags", version |-> checks[c].version,
                       required |-> checks[c].required, left |-> checks[c].left,
                       feature |-> f, active |-> checkerActive]
  <2>2. check \in FeatureCheck
    BY <2>1 DEF Validation, FeatureCheck, CheckerInv
  <2>3. Established(check, during[c], enabledDuring[c])
    BY <2>1, <2>2 DEF Established, Watched
  <2>4. Continue(c, check) /\ UNCHANGED <<checkerActive, checkerSupported>>
    BY <1>8 DEF ReadActiveVersion
  <2> HIDE DEF check
  <2> QED
    BY <2>1, <2>3, <2>4, ReplacedCheck
<1>9. ASSUME NEW c \in Checks, CheckFlags(c)
      PROVE  CheckerInv'
  <2>1. /\ checks[c] # NoCheck /\ checks[c] \in FeatureCheck /\ checks[c].step = "flags"
        /\ Established(checks[c], during[c], enabledDuring[c])
        /\ Watched(during[c], enabledDuring[c])
    BY <1>9, StepOf DEF CheckFlags
  <2>2. UNCHANGED <<checkerActive, checkerSupported>>
    BY <1>9 DEF CheckFlags
  <2>3. CASE IsEnabled(checks[c].feature, checks[c].active)
    <3> DEFINE check == [checks[c] EXCEPT !.step = "requirement"]
    <3>1. /\ check \in FeatureCheck /\ check.step = "requirement"
          /\ check.required = checks[c].required
          /\ check.left = checks[c].left /\ check.feature = checks[c].feature
      BY <2>1 DEF FeatureCheck
    <3>2. Continue(c, check)
      BY <1>9, <2>3 DEF CheckFlags
    <3>3. checks[c].feature \in enabledDuring[c]
      BY <2>1, <2>3 DEF Established, Watched, IsEnabled
    <3> HIDE DEF check
    <3>4. Established(check, during[c], enabledDuring[c])
      BY <2>1, <3>1, <3>3 DEF Established
    <3> QED
      BY <2>1, <2>2, <3>2, <3>4, ReplacedCheck
  <2>4. CASE ~IsEnabled(checks[c].feature, checks[c].active)
    BY <1>9, <2>2, <2>4, RejectKeeps DEF CheckFlags
  <2> QED
    BY <2>3, <2>4
<1>10. ASSUME NEW c \in Checks, CheckRequirement(c)
       PROVE  CheckerInv'
  <2>1. /\ checks[c] # NoCheck /\ checks[c] \in FeatureCheck /\ checks[c].step = "requirement"
        /\ Established(checks[c], during[c], enabledDuring[c])
    BY <1>10, StepOf DEF CheckRequirement
  <2> DEFINE check == [step |-> "feature", version |-> checks[c].version,
                       required |-> checks[c].required,
                       left |-> checks[c].left \ {checks[c].feature}]
  <2>2. check \in Validation /\ check.required = checks[c].required
    BY <2>1 DEF Validation, FeatureCheck
  <2>3. Established(check, during[c], enabledDuring[c])
    BY <2>1, <2>2 DEF Established
  <2>4. UNCHANGED <<checkerActive, checkerSupported>> /\ (Reject(c) \/ AcceptOrContinue(c, check))
    BY <1>10 DEF CheckRequirement
  <2> HIDE DEF check
  <2> QED
    BY <2>1, <2>2, <2>3, <2>4, AcceptOrContinueInv, RejectKeeps
<1> QED
  BY <1>2, <1>3, <1>4, <1>7, <1>8, <1>9, <1>10, VersionsChange, ValidationBegins DEF CheckerNext

(* Whatever versions become active, with whatever flags, while a            *)
(* transaction is checked: each of its features was enabled meanwhile by    *)
(* the flags of a version that had been active since the check began.       *)
THEOREM AcceptedSoundly == CheckerSpec => []AcceptedFeaturesWereActive
<1>1. CheckerInv => AcceptedFeaturesWereActive
  BY DEF CheckerInv
<1> QED
  BY <1>1, CheckerInitInv, CheckerNextInv, PTL DEF CheckerSpec

(***************************************************************************)
(* Entries of the traversal cache stay within reach of the eviction, for   *)
(* any number of concurrent calls, hashes and any maximum size.            *)
(* CachedIsEvictable is not inductive: a clear that has emptied the map    *)
(* will empty the access order, too, so that until then the access order   *)
(* keeps nothing within reach.                                             *)
(***************************************************************************)
CacheSpec == CacheInit /\ [][CacheNext]_cacheVars

InFlight(hash) ==
  \/ \E c \in CacheCalls : InCall(c, "push") /\ cacheCalls[c].hash = hash
  \/ \E c \in CacheCalls : cacheCalls[c].victim = hash

CallSteps == {"returned", "touch", "full", "pop", "evict", "insert", "push", "clear order"}

CallTypeOK(call) ==
  /\ call \in [at : CallSteps, hash : GraphHashes \cup {NoHash}, victim : GraphHashes \cup {NoHash}]
  /\ call.at \in {"touch", "full", "pop", "evict", "insert", "push"} => call.hash \in GraphHashes
  /\ call.victim # NoHash => call.at = "evict"

CacheTypeOK ==
  /\ cached \subseteq GraphHashes
  /\ accessOrder \in Seq(GraphHashes)
  /\ DOMAIN cacheCalls = CacheCalls
  /\ \A c \in CacheCalls : CallTypeOK(cacheCalls[c])

Reachable ==
  \A hash \in cached \ overtaken :
    InFlight(hash) \/ (~CacheClearing /\ hash \in ToSet(accessOrder))

CacheInv == CacheTypeOK /\ Reachable

-----------------------------------------------------------------------------
(* A set of natural numbers has a least one, and Min is it.                 *)
LEMMA MinOfNats ==
  ASSUME NEW S \in SUBSET Nat, S # {}
  PROVE  Min(S) \in S
<1>1. \E R : IsWellFoundedOn(R, Nat) /\ \A x, y \in Nat : y < x => <<y, x>> \in R
  <2>1. \A x, y \in Nat : y < x => <<y, x>> \in OpToRel(<, Nat)
    BY DEF OpToRel
  <2> QED
    BY <2>1, NatLessThanWellFounded, Zenon
<1>2. PICK Less : IsWellFoundedOn(Less, Nat) /\ \A x, y \in Nat : y < x => <<y, x>> \in Less
  BY <1>1
<1>3. PICK x \in S : \A y \in S : ~ (<<y, x>> \in Less)
  BY <1>2, WFMin
<1>4. ASSUME NEW y \in S PROVE x =< y
  <2>1. y \in Nat /\ x \in Nat
    OBVIOUS
  <2>2. ~ (y < x)
    BY <1>2, <1>3, <2>1, Zenon
  <2> QED
    BY <2>1, <2>2
<1> QED
  BY <1>4 DEF Min

(* Taking an element out of the order and adding it at its end loses none.  *)
LEMMA TouchKeeps ==
  ASSUME NEW s \in Seq(GraphHashes), NEW h \in GraphHashes
  PROVE  /\ Append(RemoveFirst(s, h), h) \in Seq(GraphHashes)
         /\ ToSet(s) \subseteq ToSet(Append(RemoveFirst(s, h), h))
<1> DEFINE t == RemoveFirst(s, h)
<1>1. t \in Seq(GraphHashes) /\ \A i \in 1..Len(s) : s[i] = h \/ \E j \in 1..Len(t) : t[j] = s[i]
  <2>1. CASE ~ \E i \in 1..Len(s) : s[i] = h
    <3>1. t = s
      BY <2>1 DEF RemoveFirst
    <3> QED
      BY <3>1
  <2>2. CASE \E i \in 1..Len(s) : s[i] = h
    <3> DEFINE I == {i \in 1..Len(s) : s[i] = h}
               k == Min(I)
    <3>1. I \in SUBSET Nat /\ I # {}
      BY <2>2
    <3>2. k \in 1..Len(s) /\ s[k] = h
      <4> HIDE DEF k
      <4>1. k \in I
        BY <3>1, MinOfNats DEF k
      <4> QED
        BY <4>1
    <3>3. t = SubSeq(s, 1, k - 1) \o SubSeq(s, k + 1, Len(s))
      BY <2>2, <3>1 DEF RemoveFirst, RemoveAt, SelectInSeq
    <3> HIDE DEF k, I, t
    <3>4. Len(s) \in Nat /\ k \in Nat
      BY <3>2
    <3> DEFINE a == SubSeq(s, 1, k - 1)
               b == SubSeq(s, k + 1, Len(s))
    <3>5. /\ a \in Seq(GraphHashes) /\ Len(a) = k - 1
          /\ \A i \in 1..(k - 1) : a[i] = s[i]
      <4>1. \A i \in 1..(k - 1) : s[i] \in GraphHashes
        BY <3>2, <3>4
      <4> QED
        BY <3>2, <3>4, <4>1
    <3>6. /\ b \in Seq(GraphHashes) /\ Len(b) = Len(s) - k
          /\ \A i \in 1..(Len(s) - k) : b[i] = s[k + i]
      <4>1. \A i \in (k + 1)..Len(s) : s[i] \in GraphHashes
        BY <3>2, <3>4
      <4> QED
        BY <3>2, <3>4, <4>1
    <3> HIDE DEF a, b
    <3>7. t = a \o b
      BY <3>3 DEF a, b
    <3>8. /\ t \in Seq(GraphHashes) /\ Len(t) = Len(s) - 1
          /\ \A i \in 1..(k - 1) : t[i] = s[i]
          /\ \A i \in k..(Len(s) - 1) : t[i] = s[i + 1]
      <4>1. t \in Seq(GraphHashes) /\ Len(t) = Len(a) + Len(b)
        BY <3>5, <3>6, <3>7, ConcatProperties
      <4>2. ASSUME NEW i \in 1..(k - 1) PROVE t[i] = s[i]
        BY <3>4, <3>5, <3>6, <3>7
      <4>3. ASSUME NEW i \in k..(Len(s) - 1) PROVE t[i] = s[i + 1]
        <5>1. t[i] = b[i - Len(a)]
          BY <3>2, <3>4, <3>5, <3>6, <3>7
        <5>2. i - Len(a) \in 1..(Len(s) - k) /\ k + (i - Len(a)) = i + 1
          BY <3>2, <3>4, <3>5
        <5> QED
          BY <5>1, <5>2, <3>6
      <4> QED
        BY <3>4, <3>5, <3>6, <4>1, <4>2, <4>3
    <3>9. ASSUME NEW i \in 1..Len(s), s[i] # h
          PROVE  \E j \in 1..Len(t) : t[j] = s[i]
      <4>1. CASE i < k
        <5>1. i \in 1..(k - 1) /\ i \in 1..Len(t)
          BY <3>2, <3>4, <3>8, <4>1
        <5> QED
          BY <5>1, <3>8
      <4>2. CASE i > k
        <5>1. i - 1 \in k..(Len(s) - 1) /\ i - 1 \in 1..Len(t) /\ (i - 1) + 1 = i
          BY <3>2, <3>4, <3>8, <4>2
        <5> QED
          BY <5>1, <3>8
      <4> QED
        BY <3>2, <3>4, <3>9, <4>1, <4>2
    <3> QED
      BY <3>8, <3>9
  <2> QED
    BY <2>1, <2>2
<1> HIDE DEF t
<1>2. /\ Append(t, h) \in Seq(GraphHashes)
      /\ DOMAIN Append(t, h) = 1..(Len(t) + 1) /\ Len(t) \in Nat
      /\ \A j \in 1..Len(t) : Append(t, h)[j] = t[j]
      /\ Append(t, h)[Len(t) + 1] = h
  BY <1>1
<1>3. ASSUME NEW i \in 1..Len(s)
      PROVE  \E j \in DOMAIN Append(t, h) : Append(t, h)[j] = s[i]
  <2>1. CASE s[i] = h
    BY <2>1, <1>2
  <2>2. CASE s[i] # h
    BY <2>2, <1>1, <1>2
  <2> QED
    BY <2>1, <2>2
<1>4. DOMAIN s = 1..Len(s)
  OBVIOUS
<1> QED
  BY <1>2, <1>3, <1>4 DEF ToSet, t

-----------------------------------------------------------------------------
(* Nothing is cached at the beginning.                                      *)
LEMMA CacheInitInv == CacheInit => CacheInv
<1>1. << >> \in Seq(GraphHashes)
  OBVIOUS
<1> QED
  BY <1>1 DEF CacheInit, CacheInv, CacheTypeOK, CallTypeOK, CallSteps, Reachable, NoCacheCall,
              CacheCall

(* A step of call c replaces only its own record.                           *)
LEMMA OtherCalls ==
  ASSUME CacheTypeOK, NEW c \in CacheCalls, NEW call, CallTypeOK(call),
         cacheCalls' = [cacheCalls EXCEPT ![c] = call]
  PROVE  /\ DOMAIN cacheCalls' = CacheCalls
         /\ cacheCalls'[c] = call
         /\ \A d \in CacheCalls \ {c} : cacheCalls'[d] = cacheCalls[d]
         /\ \A d \in CacheCalls : CallTypeOK(cacheCalls'[d])
BY DEF CacheTypeOK

(* While the call that explains why a hash is not in the order is not the   *)
(* one that steps, it goes on explaining it.                                *)
LEMMA StaysInFlight ==
  ASSUME CacheTypeOK, NEW c \in CacheCalls, NEW hash \in GraphHashes, InFlight(hash),
         DOMAIN cacheCalls' = CacheCalls,
         \A d \in CacheCalls \ {c} : cacheCalls'[d] = cacheCalls[d],
         ~ (cacheCalls[c].at = "push" /\ cacheCalls[c].hash = hash),
         cacheCalls[c].victim # hash
  PROVE  InFlight(hash)'
BY DEF InFlight, InCall

(* A call that is not a clear leaves it open whether one is under way.      *)
LEMMA ClearingKept ==
  ASSUME NEW c \in CacheCalls,
         \A d \in CacheCalls \ {c} : cacheCalls'[d] = cacheCalls[d],
         cacheCalls[c].at # "clear order", cacheCalls'[c].at # "clear order"
  PROVE  CacheClearing' <=> CacheClearing
BY DEF CacheClearing, InCall

(* A hash that was reachable stays so if the step is not the one that made  *)
(* it so.                                                                   *)
LEMMA StaysReachable ==
  ASSUME CacheInv, NEW c \in CacheCalls, NEW hash \in cached \ overtaken,
         DOMAIN cacheCalls' = CacheCalls,
         \A d \in CacheCalls \ {c} : cacheCalls'[d] = cacheCalls[d],
         ~ (cacheCalls[c].at = "push" /\ cacheCalls[c].hash = hash),
         cacheCalls[c].victim # hash,
         cacheCalls[c].at # "clear order", cacheCalls'[c].at # "clear order",
         hash \in ToSet(accessOrder) => hash \in ToSet(accessOrder') \/ InFlight(hash)'
  PROVE  InFlight(hash)' \/ (~CacheClearing' /\ hash \in ToSet(accessOrder'))
<1>1. hash \in GraphHashes
  BY DEF CacheInv, CacheTypeOK
<1>2. CASE InFlight(hash)
  BY <1>1, <1>2, StaysInFlight DEF CacheInv
<1>3. CASE ~InFlight(hash)
  <2>1. ~CacheClearing /\ hash \in ToSet(accessOrder)
    BY <1>3 DEF CacheInv, Reachable
  <2>2. ~CacheClearing'
    BY <2>1, ClearingKept
  <2> QED
    BY <2>1, <2>2
<1> QED
  BY <1>2, <1>3

LEMMA CacheNextInv == CacheInv /\ [CacheNext]_cacheVars => CacheInv'
<1> SUFFICES ASSUME CacheInv, [CacheNext]_cacheVars PROVE CacheInv'
  OBVIOUS
<1> USE CacheAssumption
<1>t. CacheTypeOK /\ Reachable
  BY DEF CacheInv
<1>1. CASE UNCHANGED cacheVars
  <2>1. UNCHANGED <<cached, accessOrder, cacheCalls, overtaken>>
    BY <1>1 DEF cacheVars
  <2>2. CacheTypeOK'
    BY <1>t, <2>1 DEF CacheTypeOK
  <2>3. Reachable'
    BY <1>t, <2>1 DEF Reachable, InFlight, CacheClearing, InCall
  <2> QED
    BY <2>2, <2>3 DEF CacheInv
<1>2. ASSUME NEW c \in CacheCalls, NEW hash \in GraphHashes, GetHit(c, hash) \/ PutHash(c, hash)
      PROVE  CacheInv'
  <2>1. \E at \in {"touch", "full", "insert"} :
          cacheCalls' = [cacheCalls EXCEPT ![c] = CacheCall(at, hash, NoHash)]
    BY <1>2 DEF GetHit, PutHash
  <2>2. PICK at \in {"touch", "full", "insert"} :
          cacheCalls' = [cacheCalls EXCEPT ![c] = CacheCall(at, hash, NoHash)]
    BY <2>1
  <2>3. CallTypeOK(CacheCall(at, hash, NoHash))
    BY DEF CallTypeOK, CallSteps, CacheCall
  <2>4. /\ DOMAIN cacheCalls' = CacheCalls
        /\ cacheCalls'[c] = CacheCall(at, hash, NoHash)
        /\ \A d \in CacheCalls \ {c} : cacheCalls'[d] = cacheCalls[d]
        /\ \A d \in CacheCalls : CallTypeOK(cacheCalls'[d])
    BY <1>t, <2>2, <2>3, OtherCalls
  <2>5. UNCHANGED <<cached, accessOrder, overtaken>> /\ cacheCalls[c].at = "returned"
    BY <1>2 DEF GetHit, PutHash, InCall
  <2>6. CacheTypeOK'
    BY <1>t, <2>4, <2>5 DEF CacheTypeOK
  <2>7. ASSUME NEW h \in cached \ overtaken
        PROVE  InFlight(h)' \/ (~CacheClearing' /\ h \in ToSet(accessOrder'))
    <3>1. cacheCalls[c].victim # h
      BY <1>t, <2>5 DEF CacheTypeOK, CallTypeOK
    <3>2. cacheCalls'[c].at # "clear order"
      <4>1. CacheCall(at, hash, NoHash).at = at
        BY DEF CacheCall
      <4> QED
        BY <2>4, <4>1
    <3> QED
      BY <2>4, <2>5, <3>1, <3>2, StaysReachable
  <2> QED
    BY <2>5, <2>6, <2>7 DEF CacheInv, Reachable
<1>3. ASSUME NEW c \in CacheCalls, TouchHash(c)
      PROVE  CacheInv'
  <2>1. /\ cacheCalls[c].at = "touch" /\ cacheCalls[c].hash \in GraphHashes
        /\ cacheCalls[c].victim = NoHash
    BY <1>3, <1>t DEF TouchHash, InCall, CacheTypeOK, CallTypeOK
  <2>2. cacheCalls' = [cacheCalls EXCEPT ![c] = NoCacheCall] /\ UNCHANGED <<cached, overtaken>>
    BY <1>3 DEF TouchHash, CacheReturns
  <2>3. CallTypeOK(NoCacheCall)
    BY DEF CallTypeOK, CallSteps, NoCacheCall, CacheCall
  <2>4. /\ DOMAIN cacheCalls' = CacheCalls
        /\ cacheCalls'[c] = NoCacheCall
        /\ \A d \in CacheCalls \ {c} : cacheCalls'[d] = cacheCalls[d]
        /\ \A d \in CacheCalls : CallTypeOK(cacheCalls'[d])
    BY <1>t, <2>2, <2>3, OtherCalls
  <2>5. accessOrder' \in Seq(GraphHashes) /\ ToSet(accessOrder) \subseteq ToSet(accessOrder')
    <3>1. accessOrder \in Seq(GraphHashes)
      BY <1>t DEF CacheTypeOK
    <3>2. accessOrder' = Append(RemoveFirst(accessOrder, cacheCalls[c].hash), cacheCalls[c].hash)
      BY <1>3 DEF TouchHash
    <3> QED
      BY <2>1, <3>1, <3>2, TouchKeeps
  <2>6. CacheTypeOK'
    BY <1>t, <2>2, <2>4, <2>5 DEF CacheTypeOK
  <2>7. ASSUME NEW h \in cached \ overtaken
        PROVE  InFlight(h)' \/ (~CacheClearing' /\ h \in ToSet(accessOrder'))
    <3>1. cacheCalls[c].victim # h
      BY <1>t, <2>1 DEF CacheTypeOK
    <3>2. cacheCalls'[c].at # "clear order"
      BY <2>4 DEF NoCacheCall, CacheCall
    <3> QED
      BY <2>1, <2>4, <2>5, <3>1, <3>2, StaysReachable
  <2> QED
    BY <2>2, <2>6, <2>7 DEF CacheInv, Reachable
<1>4. ASSUME NEW c \in CacheCalls, LookForHash(c)
      PROVE  CacheInv'
  <2>1. /\ cacheCalls[c].at = "full" /\ cacheCalls[c].victim = NoHash
        /\ UNCHANGED <<cached, accessOrder, overtaken>>
    BY <1>4, <1>t DEF LookForHash, InCall, CacheTypeOK, CallTypeOK
  <2>2. PICK at \in {"insert", "pop"} :
          cacheCalls' = [cacheCalls EXCEPT ![c] = [cacheCalls[c] EXCEPT !.at = at]]
    BY <1>4 DEF LookForHash, CacheGoes
  <2>3. CallTypeOK([cacheCalls[c] EXCEPT !.at = at])
    BY <1>t, <2>1 DEF CacheTypeOK, CallTypeOK, CallSteps
  <2>4. /\ DOMAIN cacheCalls' = CacheCalls
        /\ cacheCalls'[c] = [cacheCalls[c] EXCEPT !.at = at]
        /\ \A d \in CacheCalls \ {c} : cacheCalls'[d] = cacheCalls[d]
        /\ \A d \in CacheCalls : CallTypeOK(cacheCalls'[d])
    BY <1>t, <2>2, <2>3, OtherCalls
  <2>5. CacheTypeOK'
    BY <1>t, <2>1, <2>4 DEF CacheTypeOK
  <2>6. ASSUME NEW h \in cached \ overtaken
        PROVE  InFlight(h)' \/ (~CacheClearing' /\ h \in ToSet(accessOrder'))
    <3>1. cacheCalls[c].victim # h
      BY <1>t, <2>1 DEF CacheTypeOK
    <3>2. cacheCalls'[c].at # "clear order"
      BY <1>t, <2>4 DEF CacheTypeOK, CallTypeOK
    <3> QED
      BY <2>1, <2>4, <3>1, <3>2, StaysReachable
  <2> QED
    BY <2>1, <2>5, <2>6 DEF CacheInv, Reachable
<1>5. ASSUME NEW c \in CacheCalls, PopOldest(c)
      PROVE  CacheInv'
  <2>1. /\ cacheCalls[c].at = "pop" /\ cacheCalls[c].victim = NoHash
        /\ UNCHANGED <<cached, overtaken>>
    BY <1>5, <1>t DEF PopOldest, InCall, CacheTypeOK, CallTypeOK
  <2>2. /\ Head(accessOrder) \in GraphHashes \/ accessOrder = << >>
        /\ accessOrder' \in Seq(GraphHashes)
        /\ \/ ToSet(accessOrder) \subseteq ToSet(accessOrder')
           \/ /\ accessOrder # << >>
              /\ ToSet(accessOrder) \subseteq ToSet(accessOrder') \cup {Head(accessOrder)}
    <3>1. accessOrder \in Seq(GraphHashes)
      BY <1>t DEF CacheTypeOK
    <3>2. CASE accessOrder = << >>
      BY <1>5, <3>1, <3>2 DEF PopOldest
    <3>3. CASE accessOrder # << >>
      <4>1. accessOrder' = Tail(accessOrder)
        BY <1>5, <3>3 DEF PopOldest
      <4>2. Head(accessOrder) \in GraphHashes /\ Tail(accessOrder) \in Seq(GraphHashes)
        BY <3>1, <3>3
      <4>3. ASSUME NEW i \in DOMAIN accessOrder
            PROVE  accessOrder[i] \in ToSet(Tail(accessOrder)) \cup {Head(accessOrder)}
        <5>1. CASE i = 1
          BY <3>1, <3>3, <5>1
        <5>2. CASE i # 1
          <6>1. i - 1 \in DOMAIN Tail(accessOrder) /\ Tail(accessOrder)[i - 1] = accessOrder[i]
            BY <3>1, <3>3, <5>2
          <6> QED
            BY <6>1 DEF ToSet
        <5> QED
          BY <5>1, <5>2
      <4> QED
        BY <3>3, <4>1, <4>2, <4>3 DEF ToSet
    <3> QED
      BY <3>2, <3>3
  <2>3. PICK call :
          /\ cacheCalls' = [cacheCalls EXCEPT ![c] = call]
          /\ CallTypeOK(call) /\ call.at # "clear order"
          /\ \A h \in ToSet(accessOrder) : h \in ToSet(accessOrder') \/ call.victim = h
    <3>1. CASE accessOrder = << >>
      <4> DEFINE call == [cacheCalls[c] EXCEPT !.at = "insert"]
      <4>1. cacheCalls' = [cacheCalls EXCEPT ![c] = call] /\ accessOrder' = accessOrder
        BY <1>5, <3>1 DEF PopOldest, CacheGoes
      <4>2. CallTypeOK(call) /\ call.at # "clear order"
        BY <1>t, <2>1 DEF CacheTypeOK, CallTypeOK, CallSteps
      <4> QED
        BY <4>1, <4>2
    <3>2. CASE accessOrder # << >>
      <4> DEFINE call == [cacheCalls[c] EXCEPT !.at = "evict", !.victim = Head(accessOrder)]
      <4>1. cacheCalls' = [cacheCalls EXCEPT ![c] = call]
        BY <1>5, <3>2 DEF PopOldest
      <4>2. CallTypeOK(call) /\ call.at # "clear order" /\ call.victim = Head(accessOrder)
        BY <1>t, <2>1, <2>2, <3>2 DEF CacheTypeOK, CallTypeOK, CallSteps
      <4> HIDE DEF call
      <4> QED
        BY <2>2, <4>1, <4>2
    <3> QED
      BY <3>1, <3>2
  <2>4. /\ DOMAIN cacheCalls' = CacheCalls
        /\ cacheCalls'[c] = call
        /\ \A d \in CacheCalls \ {c} : cacheCalls'[d] = cacheCalls[d]
        /\ \A d \in CacheCalls : CallTypeOK(cacheCalls'[d])
    BY <1>t, <2>3, OtherCalls
  <2>5. CacheTypeOK'
    BY <1>t, <2>1, <2>2, <2>4 DEF CacheTypeOK
  <2>6. ASSUME NEW h \in cached \ overtaken
        PROVE  InFlight(h)' \/ (~CacheClearing' /\ h \in ToSet(accessOrder'))
    <3>1. cacheCalls[c].victim # h
      BY <1>t, <2>1 DEF CacheTypeOK
    <3>2. cacheCalls'[c].at # "clear order"
      BY <2>3, <2>4
    <3>3. h \in ToSet(accessOrder) => h \in ToSet(accessOrder') \/ InFlight(h)'
      BY <2>3, <2>4 DEF InFlight
    <3> QED
      BY <2>1, <2>4, <3>1, <3>2, <3>3, StaysReachable
  <2> QED
    BY <2>1, <2>5, <2>6 DEF CacheInv, Reachable
<1>6. ASSUME NEW c \in CacheCalls, EvictHash(c)
      PROVE  CacheInv'
  <2>1. /\ cacheCalls[c].at = "evict" /\ cached' = cached \ {cacheCalls[c].victim}
        /\ UNCHANGED <<accessOrder, overtaken>>
    BY <1>6 DEF EvictHash, InCall
  <2> DEFINE call == [cacheCalls[c] EXCEPT !.at = "insert", !.victim = NoHash]
  <2>2. CallTypeOK(call) /\ call.at # "clear order"
    BY <1>t, <2>1 DEF CacheTypeOK, CallTypeOK, CallSteps
  <2>3. cacheCalls' = [cacheCalls EXCEPT ![c] = call]
    BY <1>6 DEF EvictHash
  <2> HIDE DEF call
  <2>4. /\ DOMAIN cacheCalls' = CacheCalls
        /\ cacheCalls'[c] = call
        /\ \A d \in CacheCalls \ {c} : cacheCalls'[d] = cacheCalls[d]
        /\ \A d \in CacheCalls : CallTypeOK(cacheCalls'[d])
    BY <1>t, <2>2, <2>3, OtherCalls
  <2>5. CacheTypeOK'
    BY <1>t, <2>1, <2>4 DEF CacheTypeOK
  <2>6. ASSUME NEW h \in cached' \ overtaken
        PROVE  InFlight(h)' \/ (~CacheClearing' /\ h \in ToSet(accessOrder'))
    <3>1. cacheCalls[c].victim # h /\ h \in cached \ overtaken
      BY <2>1
    <3> QED
      BY <2>1, <2>2, <2>4, <3>1, StaysReachable
  <2> QED
    BY <2>1, <2>5, <2>6 DEF CacheInv, Reachable
<1>7. ASSUME NEW c \in CacheCalls, InCall(c, "insert") /\ InsertHash(c) /\ CacheGoes(c, "push")
      PROVE  CacheInv'
  <2>1. /\ cacheCalls[c].at = "insert" /\ cacheCalls[c].victim = NoHash
        /\ cacheCalls[c].hash \in GraphHashes
        /\ cached' = cached \cup {cacheCalls[c].hash} /\ UNCHANGED <<accessOrder, overtaken>>
    BY <1>7, <1>t DEF InCall, InsertHash, CacheTypeOK, CallTypeOK
  <2> DEFINE call == [cacheCalls[c] EXCEPT !.at = "push"]
  <2>2. CallTypeOK(call) /\ call.at = "push" /\ call.hash = cacheCalls[c].hash
    BY <1>t, <2>1 DEF CacheTypeOK, CallTypeOK, CallSteps
  <2>3. cacheCalls' = [cacheCalls EXCEPT ![c] = call]
    BY <1>7 DEF CacheGoes
  <2> HIDE DEF call
  <2>4. /\ DOMAIN cacheCalls' = CacheCalls
        /\ cacheCalls'[c] = call
        /\ \A d \in CacheCalls \ {c} : cacheCalls'[d] = cacheCalls[d]
        /\ \A d \in CacheCalls : CallTypeOK(cacheCalls'[d])
    BY <1>t, <2>2, <2>3, OtherCalls
  <2>5. CacheTypeOK'
    BY <1>t, <2>1, <2>4 DEF CacheTypeOK
  <2>6. ASSUME NEW h \in cached' \ overtaken
        PROVE  InFlight(h)' \/ (~CacheClearing' /\ h \in ToSet(accessOrder'))
    <3>1. CASE h = cacheCalls[c].hash
      BY <2>2, <2>4, <3>1 DEF InFlight, InCall
    <3>2. CASE h # cacheCalls[c].hash
      <4>1. h \in cached \ overtaken /\ cacheCalls[c].victim # h
        BY <1>t, <2>1, <3>2 DEF CacheTypeOK
      <4> QED
        BY <2>1, <2>2, <2>4, <4>1, StaysReachable
    <3> QED
      BY <3>1, <3>2
  <2> QED
    BY <2>1, <2>5, <2>6 DEF CacheInv, Reachable
<1>8. ASSUME NEW c \in CacheCalls, InCall(c, "push") /\ PushHash(c) /\ CacheReturns(c)
      PROVE  CacheInv'
  <2> DEFINE hash == cacheCalls[c].hash
  <2>1. /\ cacheCalls[c].at = "push" /\ cacheCalls[c].victim = NoHash /\ hash \in GraphHashes
        /\ UNCHANGED cached /\ accessOrder' = Append(accessOrder, hash)
        /\ overtaken' = IF CacheClearing THEN overtaken \cup {hash} ELSE overtaken \ {hash}
        /\ cacheCalls' = [cacheCalls EXCEPT ![c] = NoCacheCall]
    BY <1>8, <1>t DEF InCall, PushHash, CacheReturns, CacheTypeOK, CallTypeOK
  <2>2. CallTypeOK(NoCacheCall) /\ NoCacheCall.at # "clear order"
    BY DEF CallTypeOK, CallSteps, NoCacheCall, CacheCall
  <2>3. /\ DOMAIN cacheCalls' = CacheCalls
        /\ cacheCalls'[c] = NoCacheCall
        /\ \A d \in CacheCalls \ {c} : cacheCalls'[d] = cacheCalls[d]
        /\ \A d \in CacheCalls : CallTypeOK(cacheCalls'[d])
    BY <1>t, <2>1, <2>2, OtherCalls
  <2>4. /\ accessOrder' \in Seq(GraphHashes) /\ hash \in ToSet(accessOrder')
        /\ ToSet(accessOrder) \subseteq ToSet(accessOrder')
    <3>1. accessOrder \in Seq(GraphHashes)
      BY <1>t DEF CacheTypeOK
    <3> HIDE DEF hash
    <3>2. /\ accessOrder' \in Seq(GraphHashes)
          /\ DOMAIN accessOrder' = 1..(Len(accessOrder) + 1) /\ Len(accessOrder) \in Nat
          /\ \A i \in DOMAIN accessOrder : i \in DOMAIN accessOrder' /\ accessOrder'[i] = accessOrder[i]
          /\ accessOrder'[Len(accessOrder) + 1] = hash
      BY <2>1, <3>1
    <3>3. Len(accessOrder) + 1 \in DOMAIN accessOrder'
      BY <3>2
    <3> QED
      BY <3>2, <3>3 DEF ToSet
  <2>5. CacheTypeOK'
    BY <1>t, <2>1, <2>3, <2>4 DEF CacheTypeOK
  <2>6. ASSUME NEW h \in cached \ overtaken'
        PROVE  InFlight(h)' \/ (~CacheClearing' /\ h \in ToSet(accessOrder'))
    <3>1. CASE h = hash
      <4>1. ~CacheClearing
        BY <2>1, <2>6, <3>1
      <4>2. ~CacheClearing'
        BY <2>1, <2>2, <2>3, <4>1, ClearingKept
      <4> QED
        BY <2>4, <3>1, <4>2
    <3>2. CASE h # hash
      <4>1. h \in cached \ overtaken /\ cacheCalls[c].victim # h
        BY <1>t, <2>1, <3>2 DEF CacheTypeOK
      <4> QED
        BY <2>1, <2>2, <2>3, <2>4, <3>2, <4>1, StaysReachable
    <3> QED
      BY <3>1, <3>2
  <2> QED
    BY <2>1, <2>5, <2>6 DEF CacheInv, Reachable
<1>9. ASSUME NEW c \in CacheCalls, ClearCache(c)
      PROVE  CacheInv'
  <2> DEFINE call == CacheCall("clear order", NoHash, NoHash)
  <2>1. /\ cached' = {} /\ UNCHANGED <<accessOrder, overtaken>>
        /\ cacheCalls' = [cacheCalls EXCEPT ![c] = call]
    BY <1>9 DEF ClearCache
  <2>2. CallTypeOK(call)
    BY DEF CallTypeOK, CallSteps, CacheCall
  <2> HIDE DEF call
  <2>3. DOMAIN cacheCalls' = CacheCalls /\ \A d \in CacheCalls : CallTypeOK(cacheCalls'[d])
    BY <1>t, <2>1, <2>2, OtherCalls
  <2> QED
    BY <1>t, <2>1, <2>3 DEF CacheInv, CacheTypeOK, Reachable
<1>10. ASSUME NEW c \in CacheCalls, ClearOrder(c)
       PROVE  CacheInv'
  <2>1. /\ cacheCalls[c].at = "clear order" /\ cacheCalls[c].victim = NoHash
        /\ UNCHANGED <<cached, overtaken>> /\ accessOrder' = << >>
        /\ cacheCalls' = [cacheCalls EXCEPT ![c] = NoCacheCall]
    BY <1>10, <1>t DEF ClearOrder, InCall, CacheReturns, CacheTypeOK, CallTypeOK
  <2>2. CallTypeOK(NoCacheCall)
    BY DEF CallTypeOK, CallSteps, NoCacheCall, CacheCall
  <2>3. /\ DOMAIN cacheCalls' = CacheCalls
        /\ cacheCalls'[c] = NoCacheCall
        /\ \A d \in CacheCalls \ {c} : cacheCalls'[d] = cacheCalls[d]
        /\ \A d \in CacheCalls : CallTypeOK(cacheCalls'[d])
    BY <1>t, <2>1, <2>2, OtherCalls
  <2>4. CacheTypeOK'
    <3>1. << >> \in Seq(GraphHashes)
      OBVIOUS
    <3> QED
      BY <1>t, <2>1, <2>3, <3>1 DEF CacheTypeOK
  <2>5. ASSUME NEW h \in cached \ overtaken
        PROVE  InFlight(h)'
    <3>1. CacheClearing
      BY <2>1 DEF CacheClearing, InCall
    <3>2. InFlight(h) /\ h \in GraphHashes
      BY <1>t, <3>1 DEF Reachable, CacheTypeOK
    <3>3. cacheCalls[c].victim # h
      BY <2>1, <3>2
    <3> QED
      BY <1>t, <2>1, <2>3, <3>2, <3>3, StaysInFlight
  <2> QED
    BY <2>1, <2>4, <2>5 DEF CacheInv, Reachable
<1> QED
  BY <1>1, <1>2, <1>3, <1>4, <1>5, <1>6, <1>7, <1>8, <1>9, <1>10 DEF CacheNext, StoreHash

(* However puts, hits, evictions and clears interleave, every entry but one *)
(* put in the midst of a clear stays within reach of the eviction.          *)
THEOREM CacheEvictable == CacheSpec => []CachedIsEvictable
<1>1. CacheInv => CachedIsEvictable
  BY DEF CacheInv, Reachable, InFlight, CachedIsEvictable
<1> QED
  BY <1>1, CacheInitInv, CacheNextInv, PTL DEF CacheSpec

(***************************************************************************)
(* The commission manager of commission.rs, for any rates, rewards and     *)
(* number of changes.  The properties of a validator are inductive with    *)
(* its type; the bound on what it earned is kept for every rate that no    *)
(* rate exceeds, since the rate changes between two commissions.           *)
(***************************************************************************)
RatesSpec == CommissionInit /\ [][CommissionNext]_commissionVars

RateStep == [old : Rates, new : Rates]
RateChange == [old : Rates, new : Rates, effective : BOOLEAN]

InfoType == [initial : Rates, rate : Rates, pending : RateChange \cup {NoChange},
             history : Seq(RateStep), earned : Nat]

Preceding(initial, past, i) == IF i = 1 THEN initial ELSE past[i - 1].new

HistoryExplained(initial, past) ==
  \A i \in 1..Len(past) :
    /\ past[i].old = Preceding(initial, past, i)
    /\ past[i].new # past[i].old

Highest(top) == \A r \in Rates : r =< top

EarnedAtMost(earned, rewards) ==
  \A top \in Rates : Highest(top) => earned * 10000 =< top * rewards

InfoExplained(info) ==
  /\ info \in InfoType
  /\ HistoryExplained(info.initial, info.history)
  /\ info.rate = Preceding(info.initial, info.history, Len(info.history) + 1)
  /\ info.pending # NoChange => info.pending.old = info.rate /\ info.pending.new # info.rate

RatesInv ==
  /\ Registered \subseteq Validators
  /\ rewarded \in [Validators -> Nat]
  /\ \A v \in Registered :
       InfoExplained(commissions[v]) /\ EarnedAtMost(commissions[v].earned, rewarded[v])

(* A step that changes what one registered validator has.                   *)
LEMMA InfoChanged ==
  ASSUME RatesInv, NEW v \in Registered, NEW info, InfoExplained(info),
         NEW rewards \in Nat, EarnedAtMost(info.earned, rewards),
         commissions' = [commissions EXCEPT ![v] = info],
         rewarded' = [rewarded EXCEPT ![v] = rewards]
  PROVE  RatesInv'
<1>1. v \in Validators /\ Registered' = Registered
  BY DEF RatesInv, Registered
<1>2. rewarded' \in [Validators -> Nat] /\ rewarded'[v] = rewards
      /\ \A x \in Registered : x # v => rewarded'[x] = rewarded[x]
  BY <1>1 DEF RatesInv
<1>3. commissions'[v] = info /\ \A x \in Registered : x # v => commissions'[x] = commissions[x]
  BY DEF Registered
<1> QED
  BY <1>1, <1>2, <1>3 DEF RatesInv

LEMMA RatesNat == \A r \in Rates : r \in Nat
<1>1. Rates \subseteq 0..10000
  BY CommissionAssumption
<1> QED
  BY <1>1

LEMMA RatesFinite == IsFiniteSet(Rates)
<1>1. Rates \subseteq 0..10000
  BY CommissionAssumption
<1>2. PICK low \in Int, high \in Int : low = 0 /\ high = 10000
  OBVIOUS
<1>3. IsFiniteSet(low..high)
  BY FS_Interval
<1>4. PICK S : S = low..high
  OBVIOUS
<1>5. IsFiniteSet(S)
  BY <1>3, <1>4
<1>6. Rates \subseteq S
  BY <1>1, <1>2, <1>4
<1> QED
  BY <1>5, <1>6, FS_Subset

LEMMA RatesInitInv == CommissionInit => RatesInv
  BY DEF CommissionInit, RatesInv, Registered

LEMMA RegisterExplained ==
  ASSUME RatesInv, NEW v \in Validators, NEW rate \in Rates, RegisterCommission(v, rate)
  PROVE  RatesInv'
<1>1. << >> \in Seq(RateStep) /\ Len(<< >>) = 0
  OBVIOUS
<1>2. PICK none \in Seq(RateStep) : none = << >> /\ Len(none) = 0
  BY <1>1
<1>3. PICK info : info = [initial |-> rate, rate |-> rate, pending |-> NoChange,
                          history |-> none, earned |-> 0]
  OBVIOUS
<1>4. info \in InfoType
  BY <1>3 DEF InfoType
<1>5. InfoExplained(info)
  BY <1>2, <1>3, <1>4 DEF InfoExplained, HistoryExplained, Preceding
<1>6. EarnedAtMost(info.earned, 0)
  <2>1. \A top \in Rates : top \in Nat
    BY RatesNat
  <2> QED
    BY <1>3, <2>1 DEF EarnedAtMost
<1>7. /\ commissions' = [x \in Registered \cup {v} |-> IF x = v THEN info ELSE commissions[x]]
      /\ rewarded' = [rewarded EXCEPT ![v] = 0] /\ v \notin Registered
  BY <1>2, <1>3 DEF RegisterCommission
<1>8. /\ Registered' = Registered \cup {v} /\ commissions'[v] = info
      /\ \A x \in Registered : commissions'[x] = commissions[x]
  BY <1>7 DEF Registered
<1>9. rewarded' \in [Validators -> Nat] /\ rewarded'[v] = 0
      /\ \A x \in Registered : rewarded'[x] = rewarded[x]
  BY <1>7 DEF RatesInv
<1> QED
  BY <1>5, <1>6, <1>8, <1>9 DEF RatesInv

(* A pending change is announced, becomes effective or is cancelled.        *)
LEMMA PendingChanged ==
  ASSUME RatesInv, NEW v \in Registered, NEW pending \in RateChange \cup {NoChange},
         pending # NoChange => /\ pending.old = commissions[v].rate
                               /\ pending.new # commissions[v].rate,
         commissions' = [commissions EXCEPT ![v].pending = pending], UNCHANGED rewarded
  PROVE  RatesInv'
<1>1. PICK old : old = commissions[v] /\ InfoExplained(old) /\ old \in InfoType
  BY DEF RatesInv, InfoExplained
<1>2. PICK info : info = [old EXCEPT !.pending = pending]
  OBVIOUS
<1>3. /\ info.initial = old.initial /\ info.rate = old.rate /\ info.history = old.history
      /\ info.earned = old.earned /\ info.pending = pending /\ info \in InfoType
  BY <1>1, <1>2 DEF InfoType
<1>4. InfoExplained(info)
  BY <1>1, <1>3 DEF InfoExplained
<1>5. commissions' = [commissions EXCEPT ![v] = info]
  BY <1>1, <1>2 DEF Registered
<1>6. PICK rewards \in Nat : rewards = rewarded[v] /\ EarnedAtMost(info.earned, rewards)
  BY <1>1, <1>3 DEF RatesInv
<1>7. rewarded' = [rewarded EXCEPT ![v] = rewards]
  BY <1>6 DEF RatesInv
<1> QED
  BY <1>4, <1>5, <1>6, <1>7, InfoChanged

LEMMA AppliedExplained ==
  ASSUME NEW info, InfoExplained(info)
  PROVE  InfoExplained(Applied(info)) /\ Applied(info).earned = info.earned
<1>0. info \in InfoType
  BY DEF InfoExplained
<1>1. CASE info.pending = NoChange \/ ~info.pending.effective
  BY <1>1 DEF Applied
<1>2. CASE ~(info.pending = NoChange \/ ~info.pending.effective)
  <2>1. PICK old \in Rates, new \in Rates :
          /\ old = info.pending.old /\ new = info.pending.new
          /\ old = info.rate /\ new # old
    BY <1>0, <1>2 DEF InfoExplained, InfoType, RateChange
  <2>2. PICK step \in RateStep : step = [old |-> old, new |-> new]
    BY DEF RateStep
  <2>3. PICK n \in Nat, past \in Seq(RateStep) : past = info.history /\ n = Len(past)
    BY <1>0 DEF InfoType
  <2>4. PICK longer \in Seq(RateStep) : longer = Append(past, step)
    BY AppendProperties
  <2>5. /\ Len(longer) = n + 1 /\ longer[n + 1] = step
        /\ \A i \in 1..n : longer[i] = past[i]
    BY <2>3, <2>4
  <2>6. PICK next : next = [info EXCEPT !.rate = new, !.pending = NoChange, !.history = longer]
    OBVIOUS
  <2>7. Applied(info) = next
    BY <1>2, <2>1, <2>2, <2>3, <2>4, <2>6 DEF Applied
  <2>8. next \in InfoType
    BY <1>0, <2>6 DEF InfoType
  <2>9. /\ next.initial = info.initial /\ next.rate = new /\ next.pending = NoChange
        /\ next.history = longer /\ next.earned = info.earned
    BY <1>0, <2>6 DEF InfoType
  <2>10. PICK initial : initial = info.initial
    OBVIOUS
  <2>11. /\ HistoryExplained(initial, past)
         /\ old = Preceding(initial, past, n + 1)
    BY <2>1, <2>3, <2>10 DEF InfoExplained
  <2>12. \A i \in 1..(n + 1) : Preceding(initial, longer, i) = Preceding(initial, past, i)
    BY <2>5 DEF Preceding
  <2>13. HistoryExplained(initial, longer)
    <3> SUFFICES ASSUME NEW i \in 1..(n + 1)
                 PROVE  /\ longer[i].old = Preceding(initial, longer, i)
                        /\ longer[i].new # longer[i].old
      BY <2>5 DEF HistoryExplained
    <3>1. CASE i = n + 1
      BY <2>1, <2>2, <2>5, <2>11, <2>12, <3>1
    <3>2. CASE i \in 1..n
      BY <2>3, <2>5, <2>11, <2>12, <3>2 DEF HistoryExplained
    <3> QED
      BY <3>1, <3>2
  <2>14. next.rate = Preceding(next.initial, next.history, Len(next.history) + 1)
    <3>1. (n + 1) + 1 # 1 /\ ((n + 1) + 1) - 1 = n + 1
      OBVIOUS
    <3> QED
      BY <2>2, <2>5, <2>9, <3>1 DEF Preceding
  <2> QED
    BY <2>7, <2>8, <2>9, <2>10, <2>13, <2>14 DEF InfoExplained
<1> QED
  BY <1>1, <1>2

LEMMA ProcessExplained ==
  ASSUME RatesInv, ProcessPendingChanges
  PROVE  RatesInv'
<1>1. /\ Registered' = Registered /\ rewarded' = rewarded
      /\ \A v \in Registered : commissions'[v] = Applied(commissions[v])
  BY DEF ProcessPendingChanges, Registered
<1>2. \A v \in Registered : InfoExplained(Applied(commissions[v]))
                             /\ Applied(commissions[v]).earned = commissions[v].earned
  BY AppliedExplained DEF RatesInv
<1> QED
  BY <1>1, <1>2 DEF RatesInv

(* A commission is not more than the highest rate of its rewards.           *)
WithinRate(commission, rewards, top) == commission * 10000 =< top * rewards

LEMMA CommissionBound ==
  ASSUME NEW rate \in Nat, NEW rewards \in Nat, NEW top \in Nat, rate =< top
  PROVE  /\ CommissionOf(rate, rewards) \in Nat
         /\ WithinRate(CommissionOf(rate, rewards), rewards, top)
<1>1. PICK m \in Nat : m = rewards * rate
  OBVIOUS
<1>2. m \div 10000 \in Nat /\ (m \div 10000) * 10000 =< m
  OBVIOUS
<1>3. m =< top * rewards
  <2>1. PICK d \in Nat : top = rate + d
    <3>1. top - rate \in Nat /\ top = rate + (top - rate)
      OBVIOUS
    <3> QED
      BY <3>1
  <2>2. PICK q \in Nat : q = d * rewards
    OBVIOUS
  <2>3. top * rewards = m + q
    BY <1>1, <2>1, <2>2
  <2> QED
    BY <2>3
<1> QED
  BY <1>1, <1>2, <1>3 DEF CommissionOf, WithinRate

LEMMA CalculateExplained ==
  ASSUME RatesInv, NEW v \in Validators, NEW rewards \in TotalRewards, CalculateCommission(v, rewards)
  PROVE  RatesInv'
<1>1. v \in Registered /\ rewards \in Nat
  BY CommissionAssumption DEF CalculateCommission
<1>2. PICK old : old = commissions[v] /\ InfoExplained(old) /\ old \in InfoType
  BY <1>1 DEF RatesInv, InfoExplained
<1>3. PICK before \in Nat : before = rewarded[v] /\ EarnedAtMost(old.earned, before)
  BY <1>1, <1>2 DEF RatesInv
<1>4. PICK rate \in Nat, e \in Nat : rate = old.rate /\ e = old.earned
  BY <1>2, RatesNat DEF InfoType
<1>5. PICK c \in Nat : c = CommissionOf(rate, rewards)
  BY <1>1, CommissionBound
<1>6. PICK earned \in Nat, sum \in Nat : earned = e + c /\ sum = before + rewards
  BY <1>1
<1>7. PICK info : info = [old EXCEPT !.earned = earned]
  OBVIOUS
<1>8. /\ info.initial = old.initial /\ info.rate = old.rate /\ info.history = old.history
      /\ info.earned = earned /\ info.pending = old.pending /\ info \in InfoType
  BY <1>2, <1>7 DEF InfoType
<1>9. InfoExplained(info)
  BY <1>2, <1>8 DEF InfoExplained
<1>10. EarnedAtMost(info.earned, sum)
  <2> SUFFICES ASSUME NEW top \in Rates, Highest(top) PROVE earned * 10000 =< top * sum
    BY <1>8 DEF EarnedAtMost
  <2>1. top \in Nat /\ rate =< top
    BY <1>2, <1>4, RatesNat DEF Highest, InfoType
  <2>2. e * 10000 =< top * before
    BY <1>3, <1>4 DEF EarnedAtMost
  <2>3. c * 10000 =< top * rewards
    <3>1. rewards \in Nat /\ rate \in Nat /\ top \in Nat /\ rate =< top
      BY <1>1, <2>1
    <3>2. WithinRate(CommissionOf(rate, rewards), rewards, top)
      BY <3>1, CommissionBound
    <3> QED
      BY <1>5, <3>2 DEF WithinRate
  <2>4. PICK a \in Nat, b \in Nat : a = top * before /\ b = top * rewards
    BY <1>1, <2>1
  <2>5. top * sum = a + b
    BY <1>1, <1>6, <2>1, <2>4
  <2> QED
    BY <1>6, <2>2, <2>3, <2>4, <2>5
<1>11. commissions' = [commissions EXCEPT ![v] = info]
  BY <1>2, <1>4, <1>5, <1>6, <1>7 DEF CalculateCommission, Registered
<1>12. rewarded' = [rewarded EXCEPT ![v] = sum]
  BY <1>3, <1>6 DEF CalculateCommission
<1> QED
  BY <1>1, <1>9, <1>10, <1>11, <1>12, InfoChanged

LEMMA RatesNextInv == RatesInv /\ [CommissionNext]_commissionVars => RatesInv'
<1> SUFFICES ASSUME RatesInv, [CommissionNext]_commissionVars PROVE RatesInv'
  OBVIOUS
<1>1. ASSUME NEW v \in Validators, NEW rate \in Rates, RegisterCommission(v, rate)
      PROVE  RatesInv'
  BY <1>1, RegisterExplained
<1>2. ASSUME NEW v \in Validators, NEW rate \in Rates, SetCommissionRate(v, rate)
      PROVE  RatesInv'
  <2>1. v \in Registered /\ rate # commissions[v].rate /\ commissions[v].rate \in Rates
    BY <1>2 DEF SetCommissionRate, RatesInv, InfoExplained, InfoType
  <2>2. PICK pending \in RateChange :
          pending = [old |-> commissions[v].rate, new |-> rate, effective |-> FALSE]
    BY <2>1 DEF RateChange
  <2>3. pending.old = commissions[v].rate /\ pending.new # commissions[v].rate
    BY <2>1, <2>2
  <2>4. commissions' = [commissions EXCEPT ![v].pending = pending] /\ UNCHANGED rewarded
    BY <1>2, <2>2 DEF SetCommissionRate
  <2> QED
    BY <2>1, <2>3, <2>4, PendingChanged
<1>3. ASSUME NEW v \in Validators, NoticePeriodEnds(v)
      PROVE  RatesInv'
  <2>1. v \in Registered /\ commissions[v].pending # NoChange
    BY <1>3 DEF NoticePeriodEnds
  <2>2. PICK old \in RateChange :
          old = commissions[v].pending /\ old.old = commissions[v].rate /\ old.new # commissions[v].rate
    BY <2>1 DEF RatesInv, InfoExplained, InfoType
  <2>3. PICK pending \in RateChange : pending = [old EXCEPT !.effective = TRUE]
    BY DEF RateChange
  <2>4. pending.old = commissions[v].rate /\ pending.new # commissions[v].rate
    BY <2>2, <2>3 DEF RateChange
  <2>5. commissions' = [commissions EXCEPT ![v].pending = pending] /\ UNCHANGED rewarded
    BY <1>3, <2>2, <2>3 DEF NoticePeriodEnds
  <2> QED
    BY <2>1, <2>4, <2>5, PendingChanged
<1>4. ASSUME NEW v \in Validators, CancelRateChange(v)
      PROVE  RatesInv'
  <2>1. v \in Registered /\ UNCHANGED rewarded
    BY <1>4 DEF CancelRateChange
  <2>2. commissions' = [commissions EXCEPT ![v].pending = NoChange]
    BY <1>4 DEF CancelRateChange
  <2> QED
    BY <2>1, <2>2, PendingChanged
<1>5. ASSUME NEW v \in Validators, RemoveCommission(v)
      PROVE  RatesInv'
  <2>1. /\ Registered' = Registered \ {v} /\ rewarded' = rewarded
        /\ \A x \in Registered \ {v} : commissions'[x] = commissions[x]
    BY <1>5 DEF RemoveCommission, Registered
  <2> QED
    BY <2>1 DEF RatesInv
<1>6. ASSUME ProcessPendingChanges
      PROVE  RatesInv'
  BY <1>6, ProcessExplained
<1>7. ASSUME NEW v \in Validators, NEW rewards \in TotalRewards, CalculateCommission(v, rewards)
      PROVE  RatesInv'
  BY <1>7, CalculateExplained
<1>8. CASE UNCHANGED commissionVars
  BY <1>8 DEF commissionVars, RatesInv, Registered
<1> QED
  BY <1>1, <1>2, <1>3, <1>4, <1>5, <1>6, <1>7, <1>8 DEF CommissionNext

LEMMA RatesInvSuffices == RatesInv => RatesExplained
<1> SUFFICES ASSUME RatesInv, NEW v \in Registered
             PROVE  LET info == commissions[v]
                        Before(i) == IF i = 1 THEN info.initial ELSE info.history[i - 1].new
                    IN  /\ \A i \in DOMAIN info.history :
                             /\ info.history[i].old = Before(i)
                             /\ info.history[i].new # info.history[i].old
                        /\ info.rate = Before(Len(info.history) + 1)
                        /\ info.pending # NoChange =>
                             info.pending.old = info.rate /\ info.pending.new # info.rate
                        /\ \E top \in Rates : /\ \A r \in Rates : r =< top
                                              /\ info.earned * 10000 =< top * rewarded[v]
  BY DEF RatesExplained
<1>1. PICK info : info = commissions[v] /\ InfoExplained(info) /\ info \in InfoType
  BY DEF RatesInv, InfoExplained
<1>2. \E top \in Rates : (\A r \in Rates : r =< top) /\ info.earned * 10000 =< top * rewarded[v]
  <2>1. \E rate : rate \in Rates
    BY <1>1 DEF InfoType
  <2>2. Rates # {} /\ Rates \in SUBSET Int
    BY <2>1, RatesNat
  <2>3. PICK top \in Rates : top = Max(Rates) /\ \A r \in Rates : top >= r
    BY <2>2, RatesFinite, MaxElement
  <2>4. Highest(top) /\ \A r \in Rates : r =< top
    BY <2>3, RatesNat DEF Highest
  <2> QED
    BY <1>1, <2>4 DEF RatesInv, EarnedAtMost
<1>3. DOMAIN info.history = 1..Len(info.history)
  BY <1>1 DEF InfoType
<1>4. \A i \in DOMAIN info.history :
        /\ info.history[i].old = (IF i = 1 THEN info.initial ELSE info.history[i - 1].new)
        /\ info.history[i].new # info.history[i].old
  BY <1>1, <1>3 DEF InfoExplained, HistoryExplained, Preceding
<1>5. info.rate = (IF Len(info.history) + 1 = 1 THEN info.initial
                   ELSE info.history[(Len(info.history) + 1) - 1].new)
  BY <1>1 DEF InfoExplained, Preceding
<1>6. info.pending # NoChange => info.pending.old = info.rate /\ info.pending.new # info.rate
  BY <1>1 DEF InfoExplained
<1> QED
  BY <1>1, <1>2, <1>4, <1>5, <1>6

(* For any rates, rewards and number of changes the history leads from the*)
(* first rate to the one in force, and no validator earned more than the    *)
(* highest rate of the rewards.                                             *)
THEOREM RatesAreExplained == RatesSpec => []RatesExplained
  BY RatesInitInv, RatesNextInv, RatesInvSuffices, PTL DEF RatesSpec

-----------------------------------------------------------------------------
(***************************************************************************)
(* Activation and deactivation of validators, for any votes and stakes.    *)
(* What the run checks of a record and its events is inductive once the    *)
(* types are known.  Suspensions and removals are steps of the             *)
(* specification and leave the events alone.                               *)
(***************************************************************************)
ActivationSpec == ActivationInit /\ [][ActivationNext]_activationVars

RecordType ==
  [status : {"Pending", "Active", "Deactivated", "Suspended", "Removed"},
   coolsDown : BOOLEAN, activations : Nat, deactivations : Nat]
EventType == {"Activated", "Deactivated"}

PlacesOf(events, event) == {i \in DOMAIN events : events[i] = event}
Count(events, event) == Cardinality(PlacesOf(events, event))

TurnsInOrder(events) ==
  \A i \in DOMAIN events : events[i] = "Deactivated" => i > 1 /\ events[i - 1] = "Activated"

Matches(record, events) ==
  /\ record \in RecordType /\ events \in Seq(EventType)
  /\ Count(events, "Activated") = record.activations
  /\ Count(events, "Deactivated") = record.deactivations
  /\ TurnsInOrder(events)
  /\ record.status = "Active" => /\ ~record.coolsDown
                                 /\ Len(events) > 0 /\ events[Len(events)] = "Activated"
  /\ record.status = "Deactivated" => Len(events) > 0 /\ events[Len(events)] = "Deactivated"

ActivationInv ==
  /\ DOMAIN activationEvents = Validators
  /\ \A v \in Validators : Matches(Record(v), activationEvents[v])

LEMMA CountAppended ==
  ASSUME NEW events \in Seq(EventType), NEW added \in EventType, NEW event
  PROVE  /\ Count(events, event) \in Nat
         /\ added = event => Count(Append(events, added), event) = Count(events, event) + 1
         /\ added # event => Count(Append(events, added), event) = Count(events, event)
<1>a. PICK n \in Nat : n = Len(events)
  OBVIOUS
<1>b. PICK longer \in Seq(EventType) : longer = Append(events, added)
  BY AppendProperties
<1>1. n = Len(events) /\ longer = Append(events, added)
  BY <1>a, <1>b
<1>2. /\ DOMAIN events = 1..n /\ DOMAIN longer = 1..(n + 1) /\ longer[n + 1] = added
      /\ \A i \in 1..n : longer[i] = events[i]
  BY <1>1
<1>3. PICK P, Q : P = PlacesOf(events, event) /\ Q = PlacesOf(longer, event)
  OBVIOUS
<1>4. IsFiniteSet(1..n)
  BY FS_Interval
<1>5. P \in SUBSET (1..n)
  BY <1>2, <1>3 DEF PlacesOf
<1>6. IsFiniteSet(P)
  BY <1>4, <1>5, FS_Subset
<1>7. Cardinality(P) \in Nat
  BY <1>6, FS_CardinalityType
<1>8. ASSUME added = event
      PROVE  Cardinality(Q) = Cardinality(P) + 1
  <2>1. PICK x : x = n + 1
    OBVIOUS
  <2>2. x \notin P
    BY <1>5, <2>1
  <2>3. Q = P \cup {x}
    BY <1>2, <1>3, <1>8, <2>1 DEF PlacesOf
  <2> QED
    BY <1>6, <2>2, <2>3, FS_AddElement
<1>9. ASSUME added # event
      PROVE  Q = P
  BY <1>2, <1>3, <1>9 DEF PlacesOf
<1> QED
  BY <1>1, <1>3, <1>7, <1>8, <1>9 DEF Count

(* A step that changes the record of one validator, and no event.           *)
LEMMA RecordChanged ==
  ASSUME ActivationInv, NEW v \in Validators, NEW record, Matches(record, activationEvents[v]),
         Record(v)' = record, \A x \in Validators : x # v => Record(x)' = Record(x),
         UNCHANGED activationEvents
  PROVE  ActivationInv'
  BY DEF ActivationInv

LEMMA RecordPut ==
  ASSUME NEW v, NEW record, SetRecord(v, record)
  PROVE  Record(v)' = record /\ \A x : x # v => Record(x)' = Record(x)
<1>1. /\ DOMAIN (activation') = DOMAIN activation \cup {v} /\ activation'[v] = record
      /\ \A x \in DOMAIN activation : x # v => activation'[x] = activation[x]
  BY DEF SetRecord
<1>2. Record(v)' = record
  BY <1>1 DEF Record
<1>3. ASSUME NEW x, x # v PROVE Record(x)' = Record(x)
  BY <1>1, <1>3 DEF Record
<1> QED
  BY <1>2, <1>3

LEMMA ActivationInitInv == ActivationInit => ActivationInv
<1> SUFFICES ASSUME ActivationInit PROVE ActivationInv
  OBVIOUS
<1>1. << >> \in Seq(EventType) /\ DOMAIN << >> = {}
  OBVIOUS
<1>2. PICK none \in Seq(EventType) : none = << >> /\ DOMAIN none = {}
  BY <1>1
<1>3. \A event : Count(none, event) = 0
  <2> SUFFICES ASSUME NEW event PROVE Count(none, event) = 0
    OBVIOUS
  <2>1. PlacesOf(none, event) = {}
    BY <1>2 DEF PlacesOf
  <2> QED
    BY <2>1, FS_EmptySet DEF Count
<1>4. Matches(PendingRecord, none)
  BY <1>2, <1>3 DEF Matches, PendingRecord, RecordType, TurnsInOrder
<1>5. \A v \in Validators : Record(v) = PendingRecord /\ activationEvents[v] = none
  BY <1>2 DEF ActivationInit, Record
<1> QED
  BY <1>4, <1>5 DEF ActivationInit, ActivationInv

(* An approved request that the record does not refuse.                     *)
LEMMA ApproveMatches ==
  ASSUME ActivationInv, NEW v \in Validators, NEW type,
         IF type = "Activation" THEN CanActivate(v) ELSE CanDeactivate(v),
         Approve(v, type)
  PROVE  ActivationInv'
<1>1. PICK old \in RecordType, events \in Seq(EventType) :
        old = Record(v) /\ events = activationEvents[v] /\ Matches(old, events)
  BY DEF ActivationInv, Matches
<1>a. PICK event \in EventType :
        event = (IF type = "Activation" THEN "Activated" ELSE "Deactivated")
  BY DEF EventType
<1>2. PICK new :
        /\ new = (IF type = "Activation"
                  THEN [old EXCEPT !.status = "Active", !.coolsDown = FALSE, !.activations = @ + 1]
                  ELSE [old EXCEPT !.status = "Deactivated", !.coolsDown = TRUE,
                                   !.deactivations = @ + 1])
        /\ event = (IF type = "Activation" THEN "Activated" ELSE "Deactivated")
  BY <1>a
<1>b. PICK n \in Nat : n = Len(events)
  OBVIOUS
<1>c. PICK longer \in Seq(EventType) : longer = Append(events, event)
  BY AppendProperties
<1>3. n = Len(events) /\ longer = Append(events, event)
  BY <1>b, <1>c
<1>4. /\ Len(longer) = n + 1 /\ DOMAIN longer = 1..(n + 1) /\ longer[n + 1] = event
      /\ DOMAIN events = 1..n /\ \A i \in 1..n : longer[i] = events[i]
  BY <1>3
<1>5. SetRecord(v, new) /\ activationEvents' = [activationEvents EXCEPT ![v] = longer]
  BY <1>1, <1>2, <1>3 DEF Approve
<1>6. /\ Count(events, "Activated") = old.activations
      /\ Count(events, "Deactivated") = old.deactivations
      /\ TurnsInOrder(events)
  BY <1>1 DEF Matches
<1>7. CASE type = "Activation"
  <2>1. PICK count \in Nat : count = old.activations + 1 /\ count > 0
    BY DEF RecordType
  <2>2. new = [old EXCEPT !.status = "Active", !.coolsDown = FALSE, !.activations = count]
    BY <1>2, <1>7, <2>1
  <2>3. /\ new \in RecordType /\ new.status = "Active" /\ ~new.coolsDown
        /\ new.activations = count /\ new.deactivations = old.deactivations
    BY <2>2 DEF RecordType
  <2>4. event = "Activated" /\ event # "Deactivated"
    BY <1>2, <1>7
  <2>5. Count(longer, "Activated") = count /\ Count(longer, "Deactivated") = old.deactivations
    BY <1>3, <1>6, <2>1, <2>4, CountAppended
  <2>6. TurnsInOrder(longer)
    BY <1>4, <1>6, <2>4 DEF TurnsInOrder
  <2>7. Len(longer) > 0 /\ longer[Len(longer)] = "Activated"
    BY <1>4, <2>4
  <2>8. Matches(new, longer)
    BY <2>1, <2>3, <2>5, <2>6, <2>7 DEF Matches
  <2> QED
    BY <1>5, <2>8, RecordPut DEF ActivationInv
<1>8. CASE type # "Activation"
  <2>1. old.status = "Active"
    BY <1>1, <1>8 DEF CanDeactivate
  <2>2. n > 0 /\ events[n] = "Activated"
    BY <1>1, <1>3, <2>1 DEF Matches
  <2>3. PICK count \in Nat : count = old.deactivations + 1
    BY DEF RecordType
  <2>4. new = [old EXCEPT !.status = "Deactivated", !.coolsDown = TRUE, !.deactivations = count]
    BY <1>2, <1>8, <2>3
  <2>5. /\ new \in RecordType /\ new.status = "Deactivated"
        /\ new.deactivations = count /\ new.activations = old.activations
    BY <2>4 DEF RecordType
  <2>6. event = "Deactivated" /\ event # "Activated"
    BY <1>2, <1>8
  <2>7. Count(longer, "Deactivated") = count /\ Count(longer, "Activated") = old.activations
    BY <1>3, <1>6, <2>3, <2>6, CountAppended
  <2>8. TurnsInOrder(longer)
    <3> SUFFICES ASSUME NEW i \in 1..(n + 1), longer[i] = "Deactivated"
                 PROVE  i > 1 /\ longer[i - 1] = "Activated"
      BY <1>4 DEF TurnsInOrder
    <3>1. CASE i = n + 1
      BY <1>4, <2>2, <3>1
    <3>2. CASE i \in 1..n
      <4>1. i > 1 /\ events[i - 1] = "Activated"
        BY <1>4, <1>6, <3>2 DEF TurnsInOrder
      <4> QED
        BY <1>4, <3>2, <4>1
    <3> QED
      BY <3>1, <3>2
  <2>a. Len(longer) > 0 /\ longer[Len(longer)] = "Deactivated"
    BY <1>4, <2>6
  <2>9. Matches(new, longer)
    BY <2>5, <2>7, <2>8, <2>a DEF Matches
  <2> QED
    BY <1>5, <2>9, RecordPut DEF ActivationInv
<1> QED
  BY <1>7, <1>8

LEMMA ActivationNextInv == ActivationInv /\ [ActivationNext]_activationVars => ActivationInv'
<1> SUFFICES ASSUME ActivationInv, [ActivationNext]_activationVars PROVE ActivationInv'
  OBVIOUS
<1>0. ASSUME UNCHANGED <<activation, activationEvents>>
      PROVE  ActivationInv'
  BY <1>0 DEF ActivationInv, Record
<1>1. ASSUME NEW v \in Validators, NEW type, PutRequest(v, type)
      PROVE  ActivationInv'
  BY <1>0, <1>1 DEF PutRequest
<1>2. ASSUME NEW v \in Validators, NEW inFavor, NEW weight, VoteOnRequest(v, inFavor, weight)
      PROVE  ActivationInv'
  BY <1>0, <1>2 DEF VoteOnRequest
<1>3. ASSUME NEW v \in Validators, NEW stake \in TotalStakes, FinalizeRequest(v, stake)
      PROVE  ActivationInv'
  <2>1. PICK type :
          \/ UNCHANGED <<activation, activationEvents>>
          \/ /\ IF type = "Activation" THEN CanActivate(v) ELSE CanDeactivate(v)
             /\ Approve(v, type)
    BY <1>3 DEF FinalizeRequest
  <2> QED
    BY <1>0, <2>1, ApproveMatches
<1>4. ASSUME NEW v \in Validators, NEW record, Matches(record, activationEvents[v]),
             activation' = [activation EXCEPT ![v] = record], v \in DOMAIN activation,
             UNCHANGED activationEvents
      PROVE  ActivationInv'
  <2>1. Record(v)' = record /\ \A x \in Validators : x # v => Record(x)' = Record(x)
    BY <1>4 DEF Record
  <2> QED
    BY <1>4, <2>1, RecordChanged
<1>5. ASSUME NEW v \in Validators, v \in DOMAIN activation
      PROVE  /\ activation[v] \in RecordType /\ Matches(activation[v], activationEvents[v])
  BY <1>5 DEF ActivationInv, Matches, Record
<1>6. ASSUME NEW v \in Validators, CooldownEnds(v)
      PROVE  ActivationInv'
  <2>1. v \in DOMAIN activation
    BY <1>6 DEF CooldownEnds, Record, PendingRecord
  <2>2. PICK old \in RecordType : old = activation[v] /\ Matches(old, activationEvents[v])
    BY <1>5, <2>1
  <2>3. PICK new : new = [old EXCEPT !.coolsDown = FALSE]
    OBVIOUS
  <2>4. /\ new \in RecordType /\ new.status = old.status /\ ~new.coolsDown
        /\ new.activations = old.activations /\ new.deactivations = old.deactivations
    BY <2>3 DEF RecordType
  <2>5. Matches(new, activationEvents[v])
    BY <2>2, <2>4 DEF Matches
  <2> QED
    BY <1>4, <1>6, <2>1, <2>2, <2>3, <2>5 DEF CooldownEnds
<1>7. ASSUME NEW v \in Validators, NEW status \in {"Suspended", "Removed"}, v \in DOMAIN activation,
             activation' = [activation EXCEPT ![v].status = status], UNCHANGED activationEvents
      PROVE  ActivationInv'
  <2>1. PICK old \in RecordType : old = activation[v] /\ Matches(old, activationEvents[v])
    BY <1>5, <1>7
  <2>2. PICK new : new = [old EXCEPT !.status = status]
    OBVIOUS
  <2>3. /\ new \in RecordType /\ new.status # "Active" /\ new.status # "Deactivated"
        /\ new.activations = old.activations /\ new.deactivations = old.deactivations
    BY <2>2 DEF RecordType
  <2>4. Matches(new, activationEvents[v])
    BY <2>1, <2>3 DEF Matches
  <2> QED
    BY <1>4, <1>7, <2>1, <2>2, <2>4
<1>8. ASSUME NEW v \in Validators, Suspend(v) \/ RemoveRecord(v)
      PROVE  ActivationInv'
  BY <1>7, <1>8 DEF Suspend, RemoveRecord
<1>9. CASE UNCHANGED activationVars
  BY <1>0, <1>9 DEF activationVars
<1> QED
  BY <1>1, <1>2, <1>3, <1>6, <1>8, <1>9 DEF ActivationNext, RequestActivation, RequestDeactivation

(* For any votes and stakes, and through finalizations that are refused and *)
(* tried again, suspensions and removals, a validator's activations and     *)
(* deactivations are audited exactly, and an active or deactivated one's    *)
(* status is what its last event says.                                      *)
THEOREM ActivationsMatch == ActivationSpec => []ActivationsAudited
<1>1. ASSUME ActivationInv, NEW v \in Validators
      PROVE  /\ Matches(Record(v), activationEvents[v])
             /\ Len(activationEvents[v]) > 0 => LastEvent(v) = activationEvents[v][Len(activationEvents[v])]
  <2>1. Matches(Record(v), activationEvents[v]) /\ activationEvents[v] \in Seq(EventType)
    BY <1>1 DEF ActivationInv, Matches
  <2> QED
    BY <2>1 DEF LastEvent
<1>2. ActivationInv => ActivationsAudited
  BY <1>1 DEF Matches, ActivationsAudited, Times, Count, PlacesOf, TurnsInOrder
<1> QED
  BY <1>2, ActivationInitInv, ActivationNextInv, PTL DEF ActivationSpec

-----------------------------------------------------------------------------
(***************************************************************************)
(* Key rotation, for any keys, votes and orders in which transitions end.  *)
(* That the active key is the one of the last settled event is inductive   *)
(* with the types: a validator's keys are finitely many, so that all that  *)
(* are complete can be taken in some order, and only keys that are in use  *)
(* or in transition are ever recorded.                                     *)
(***************************************************************************)
RotationSpec == KeyRotationInit /\ [][KeyRotationNext]_rotationVars

KeyRecordType == [status : {"Active", "Transitioning"}, since : Nat, over : BOOLEAN]

KeyEvent ==
  {"Registered", "RotationRequested", "RotationApproved", "RotationRejected", "TransitionCompleted"}
    \X Keys

SettledAt(events, key, i) ==
  /\ i \in DOMAIN events /\ Settles(events[i]) /\ key = events[i][2]
  /\ \A j \in DOMAIN events : j > i => ~Settles(events[j])

LastSettled(events, key) == \E i \in DOMAIN events : SettledAt(events, key, i)

KeysTyped(records) ==
  /\ DOMAIN records \subseteq Keys /\ IsFiniteSet(DOMAIN records)
  /\ \A k \in DOMAIN records : records[k] \in KeyRecordType

RotationInv ==
  /\ KeyOwners \subseteq Validators /\ DOMAIN keys = KeyOwners
  /\ DOMAIN rotationEvents = Validators
  /\ \A v \in Validators : rotationEvents[v] \in Seq(KeyEvent)
  /\ \A v \in DOMAIN rotationRequests : rotationRequests[v].key \in Keys
  /\ \A v \in KeyOwners :
       /\ KeysTyped(keys[v]) /\ activeKey[v] \in DOMAIN keys[v]
       /\ LastSettled(rotationEvents[v], activeKey[v])

LEMMA EventAppended ==
  ASSUME NEW events \in Seq(KeyEvent), NEW event \in KeyEvent
  PROVE  /\ Append(events, event) \in Seq(KeyEvent)
         /\ Settles(event) => LastSettled(Append(events, event), event[2])
         /\ ~Settles(event) => \A key : LastSettled(events, key) =>
                                          LastSettled(Append(events, event), key)
<1>a. PICK n \in Nat : n = Len(events)
  OBVIOUS
<1>b. PICK longer \in Seq(KeyEvent) : longer = Append(events, event)
  BY AppendProperties
<1>1. /\ DOMAIN events = 1..n /\ DOMAIN longer = 1..(n + 1) /\ longer[n + 1] = event
      /\ \A i \in 1..n : longer[i] = events[i]
  BY <1>a, <1>b
<1>2. ASSUME Settles(event) PROVE LastSettled(longer, event[2])
  <2>1. SettledAt(longer, event[2], n + 1)
    BY <1>1, <1>2 DEF SettledAt
  <2> QED
    BY <1>1, <2>1 DEF LastSettled
<1>3. ASSUME ~Settles(event), NEW key, LastSettled(events, key)
      PROVE  LastSettled(longer, key)
  <2>1. PICK i \in 1..n : SettledAt(events, key, i)
    BY <1>1, <1>3 DEF LastSettled
  <2>2. \A j \in 1..(n + 1) : j > i => ~Settles(longer[j])
    <3> SUFFICES ASSUME NEW j \in 1..(n + 1), j > i PROVE ~Settles(longer[j])
      OBVIOUS
    <3>1. CASE j = n + 1
      BY <1>1, <1>3, <3>1
    <3>2. CASE j \in 1..n
      BY <1>1, <2>1, <3>2 DEF SettledAt
    <3> QED
      BY <3>1, <3>2
  <2>3. SettledAt(longer, key, i)
    BY <1>1, <2>1, <2>2 DEF SettledAt
  <2> QED
    BY <1>1, <2>3 DEF LastSettled
<1> QED
  BY <1>b, <1>2, <1>3

LEMMA FunctionSeq ==
  ASSUME NEW S, NEW n \in Nat, NEW f \in [1..n -> S]
  PROVE  f \in Seq(S) /\ Len(f) = n
  OBVIOUS

(* Transitions that are complete end in some order.                         *)
LEMMA EventsCompleted ==
  ASSUME NEW events \in Seq(KeyEvent), NEW n \in Nat, NEW order \in [1..n -> Keys],
         NEW more, more = [i \in DOMAIN order |-> <<"TransitionCompleted", order[i]>>]
  PROVE  /\ events \o more \in Seq(KeyEvent)
         /\ n = 0 => \A key : LastSettled(events, key) => LastSettled(events \o more, key)
         /\ n > 0 => LastSettled(events \o more, order[n])
<1>1. PICK m \in Nat : m = Len(events)
  OBVIOUS
<1>2. \A i \in 1..n : more[i] = <<"TransitionCompleted", order[i]>> /\ more[i] \in KeyEvent
  BY DEF KeyEvent
<1>3. more \in [1..n -> KeyEvent]
  BY <1>2
<1>4. more \in Seq(KeyEvent) /\ Len(more) = n
  BY <1>3, FunctionSeq
<1>5. PICK longer \in Seq(KeyEvent) : longer = events \o more
  BY <1>4, ConcatProperties
<1>6. /\ DOMAIN events = 1..m /\ DOMAIN longer = 1..(m + n)
      /\ \A i \in 1..m : longer[i] = events[i]
      /\ \A i \in 1..n : longer[m + i] = more[i]
  BY <1>1, <1>4, <1>5
<1>7. ASSUME n = 0, NEW key, LastSettled(events, key)
      PROVE  LastSettled(longer, key)
  <2>1. PICK i \in 1..m : SettledAt(events, key, i)
    BY <1>6, <1>7 DEF LastSettled
  <2>2. DOMAIN longer = 1..m
    BY <1>6, <1>7
  <2>3. SettledAt(longer, key, i)
    BY <1>6, <2>1, <2>2 DEF SettledAt
  <2> QED
    BY <2>2, <2>3 DEF LastSettled
<1>8. ASSUME n > 0
      PROVE  LastSettled(longer, order[n])
  <2>1. longer[m + n] = <<"TransitionCompleted", order[n]>> /\ m + n \in 1..(m + n)
    BY <1>2, <1>6, <1>8
  <2>2. Settles(longer[m + n]) /\ longer[m + n][2] = order[n]
    BY <2>1 DEF Settles
  <2>3. \A j \in 1..(m + n) : ~(j > m + n)
    OBVIOUS
  <2>4. SettledAt(longer, order[n], m + n)
    BY <1>6, <2>1, <2>2, <2>3 DEF SettledAt
  <2> QED
    BY <1>6, <2>1, <2>4 DEF LastSettled
<1> QED
  BY <1>5, <1>7, <1>8

LEMMA RotationInitInv == KeyRotationInit => RotationInv
<1> SUFFICES ASSUME KeyRotationInit PROVE RotationInv
  OBVIOUS
<1>1. << >> \in Seq(KeyEvent)
  OBVIOUS
<1> QED
  BY <1>1 DEF KeyRotationInit, RotationInv, KeyOwners

(* An event that settles nothing.                                           *)
LEMMA Logged ==
  ASSUME RotationInv, NEW v \in Validators, NEW type, NEW k, Log(v, type, k),
         <<type, k>> \in KeyEvent, ~Settles(<<type, k>>)
  PROVE  /\ DOMAIN (rotationEvents') = Validators
         /\ \A x \in Validators : rotationEvents'[x] \in Seq(KeyEvent)
         /\ \A x \in Validators : \A key :
              LastSettled(rotationEvents[x], key) => LastSettled(rotationEvents'[x], key)
<1>1. PICK events \in Seq(KeyEvent) : events = rotationEvents[v]
  BY DEF RotationInv
<1>2. PICK event \in KeyEvent : event = <<type, k>> /\ ~Settles(event)
  OBVIOUS
<1>3. PICK longer \in Seq(KeyEvent) :
        /\ longer = Append(events, event)
        /\ \A key : LastSettled(events, key) => LastSettled(longer, key)
  BY <1>2, EventAppended
<1>4. rotationEvents' = [rotationEvents EXCEPT ![v] = longer]
  BY <1>1, <1>2, <1>3 DEF Log
<1> QED
  BY <1>1, <1>3, <1>4 DEF RotationInv

LEMMA RegisterRotation ==
  ASSUME RotationInv, NEW v \in Validators, NEW k \in Keys, RegisterInitialKey(v, k)
  PROVE  RotationInv'
<1>1. PICK records : records = [y \in {k} |-> KeyRecord("Active", 0)]
  OBVIOUS
<1>2. /\ keys' = [x \in KeyOwners \cup {v} |-> IF x = v THEN records ELSE keys[x]]
      /\ activeKey' = [x \in KeyOwners \cup {v} |-> IF x = v THEN k ELSE activeKey[x]]
      /\ v \notin KeyOwners /\ rotationRequests' = rotationRequests
  BY <1>1 DEF RegisterInitialKey
<1>3. KeysTyped(records) /\ k \in DOMAIN records
  <2>1. DOMAIN records = {k} /\ IsFiniteSet({k})
    BY <1>1, FS_Singleton
  <2>2. KeyRecord("Active", 0) \in KeyRecordType
    BY DEF KeyRecord, KeyRecordType
  <2> QED
    BY <1>1, <2>1, <2>2 DEF KeysTyped
<1>4. PICK events \in Seq(KeyEvent) : events = rotationEvents[v]
  BY DEF RotationInv
<1>5. PICK event \in KeyEvent : event = <<"Registered", k>>
  BY DEF KeyEvent
<1>6. Settles(event) /\ event[2] = k
  BY <1>5 DEF Settles
<1>7. PICK longer \in Seq(KeyEvent) : longer = Append(events, event) /\ LastSettled(longer, k)
  BY <1>6, EventAppended
<1>8. rotationEvents' = [rotationEvents EXCEPT ![v] = longer]
  BY <1>4, <1>5, <1>7 DEF RegisterInitialKey, Log
<1>9. /\ KeyOwners' = KeyOwners \cup {v} /\ DOMAIN (keys') = KeyOwners \cup {v}
      /\ keys'[v] = records /\ activeKey'[v] = k
      /\ \A x \in KeyOwners : keys'[x] = keys[x] /\ activeKey'[x] = activeKey[x]
  BY <1>2 DEF KeyOwners
<1>10. /\ DOMAIN (rotationEvents') = Validators /\ rotationEvents'[v] = longer
       /\ \A x \in Validators : x # v => rotationEvents'[x] = rotationEvents[x]
  BY <1>8 DEF RotationInv
<1> QED
  BY <1>2, <1>3, <1>7, <1>9, <1>10 DEF RotationInv

LEMMA FinalizeKeeps ==
  ASSUME RotationInv, NEW v \in Validators, NEW stake \in RotationStakes, FinalizeRotation(v, stake)
  PROVE  RotationInv'
<1>1. PICK k \in Keys : k = rotationRequests[v].key
  BY DEF FinalizeRotation, RotationInv
<1>2. PICK type \in {"RotationApproved", "RotationRejected"} : Log(v, type, k)
  BY <1>1 DEF FinalizeRotation
<1>3. <<type, k>> \in KeyEvent /\ ~Settles(<<type, k>>)
  BY <1>2 DEF KeyEvent, Settles
<1>4. /\ DOMAIN (rotationEvents') = Validators
      /\ \A x \in Validators : rotationEvents'[x] \in Seq(KeyEvent)
      /\ \A x \in Validators : \A key :
           LastSettled(rotationEvents[x], key) => LastSettled(rotationEvents'[x], key)
  BY <1>2, <1>3, Logged
<1>5. /\ activeKey' = activeKey /\ KeyOwners' = KeyOwners
      /\ \A x \in DOMAIN (rotationRequests') :
           x \in DOMAIN rotationRequests /\ rotationRequests'[x] = rotationRequests[x]
  BY DEF FinalizeRotation, KeyOwners
<1>6. /\ DOMAIN (keys') = DOMAIN keys
      /\ \A x \in DOMAIN keys : x # v => keys'[x] = keys[x]
      /\ v \in DOMAIN keys => KeysTyped(keys'[v]) /\ DOMAIN keys[v] \subseteq DOMAIN keys'[v]
  <2>1. CASE keys' = keys
    BY <2>1 DEF RotationInv
  <2>2. CASE keys' # keys
    <3>1. PICK since \in Nat : since = Len(rotationEvents[v])
      BY DEF RotationInv
    <3>2. PICK record \in KeyRecordType : record = NewKey(since)
      BY DEF NewKey, KeyRecord, KeyRecordType
    <3>3. keys' = [keys EXCEPT ![v] =
                     [x \in DOMAIN @ \cup {k} |-> IF x = k THEN record ELSE @[x]]]
      BY <1>1, <2>2, <3>1, <3>2 DEF FinalizeRotation
    <3>4. ASSUME v \in DOMAIN keys
          PROVE  KeysTyped(keys'[v]) /\ DOMAIN keys[v] \subseteq DOMAIN keys'[v]
      <4>1. PICK old : old = keys[v] /\ KeysTyped(old)
        BY <3>4 DEF RotationInv
      <4>2. keys'[v] = [x \in DOMAIN old \cup {k} |-> IF x = k THEN record ELSE old[x]]
        BY <3>3, <3>4, <4>1
      <4>3. IsFiniteSet(DOMAIN old \cup {k})
        BY <4>1, FS_AddElement DEF KeysTyped
      <4> QED
        BY <4>1, <4>2, <4>3 DEF KeysTyped
    <3> QED
      BY <3>3, <3>4
  <2> QED
    BY <2>1, <2>2
<1> QED
  BY <1>4, <1>5, <1>6 DEF RotationInv

LEMMA TransitionsKeep ==
  ASSUME RotationInv, NEW order, \A v \in KeyOwners : order[v] \in SetToSeqs(Complete(v)),
         ProcessTransitions(order)
  PROVE  RotationInv'
<1>1. /\ KeyOwners' = KeyOwners /\ DOMAIN (keys') = KeyOwners
      /\ rotationRequests' = rotationRequests /\ DOMAIN (rotationEvents') = Validators
      /\ \A v \in Validators \ KeyOwners : rotationEvents'[v] = rotationEvents[v]
  BY DEF ProcessTransitions, KeyOwners
<1>2. ASSUME NEW v \in KeyOwners
      PROVE  /\ rotationEvents'[v] \in Seq(KeyEvent)
             /\ KeysTyped(keys'[v]) /\ activeKey'[v] \in DOMAIN keys'[v]
             /\ LastSettled(rotationEvents'[v], activeKey'[v])
  <2>1. v \in Validators /\ v \in DOMAIN keys
    BY DEF RotationInv
  <2>2. PICK old : old = keys[v] /\ KeysTyped(old) /\ activeKey[v] \in DOMAIN old
    BY DEF RotationInv
  <2>3. PICK done : done = Complete(v) /\ done \in SUBSET (DOMAIN old) /\ done \subseteq Keys
    BY <2>2 DEF Complete, InTransition, KeysTyped
  <2>4. IsFiniteSet(done)
    BY <2>2, <2>3, FS_Subset DEF KeysTyped
  <2>5. PICK n \in Nat : n = Cardinality(done) /\ (n = 0 <=> done = {})
    BY <2>4, FS_CardinalityType, FS_EmptySet
  <2>6. PICK o \in [1..n -> Keys] : o = order[v] /\ \A i \in 1..n : o[i] \in done
    BY <2>3, <2>5 DEF SetToSeqs
  <2>7. /\ keys'[v] = [k \in DOMAIN old |-> IF k \in done THEN KeyRecord("Active", 0) ELSE old[k]]
        /\ activeKey'[v] = IF done = {} THEN activeKey[v] ELSE Last(o)
    BY <2>1, <2>2, <2>3, <2>6 DEF ProcessTransitions
  <2>8. PICK more : more = [i \in DOMAIN o |-> <<"TransitionCompleted", o[i]>>]
    OBVIOUS
  <2>9. PICK events \in Seq(KeyEvent) :
          events = rotationEvents[v] /\ LastSettled(events, activeKey[v])
    BY <2>1 DEF RotationInv
  <2>10. rotationEvents'[v] = events \o more
    BY <2>1, <2>6, <2>8, <2>9 DEF ProcessTransitions
  <2>11. /\ events \o more \in Seq(KeyEvent)
         /\ n = 0 => \A key : LastSettled(events, key) => LastSettled(events \o more, key)
         /\ n > 0 => LastSettled(events \o more, o[n])
    BY <2>8, EventsCompleted
  <2>12. KeysTyped(keys'[v]) /\ DOMAIN (keys'[v]) = DOMAIN old
    <3>1. KeyRecord("Active", 0) \in KeyRecordType
      BY DEF KeyRecord, KeyRecordType
    <3> QED
      BY <2>2, <2>7, <3>1 DEF KeysTyped
  <2>13. Last(o) = o[n]
    BY FunctionSeq DEF Last
  <2>14. CASE n = 0
    BY <2>2, <2>5, <2>7, <2>9, <2>10, <2>11, <2>12, <2>14
  <2>15. CASE n > 0
    <3>1. o[n] \in done /\ done # {} /\ n \in 1..n
      BY <2>5, <2>6, <2>15
    <3>2. activeKey'[v] = o[n]
      BY <2>7, <2>13, <3>1
    <3> QED
      BY <2>3, <2>10, <2>11, <2>12, <2>15, <3>1, <3>2
  <2> QED
    BY <2>14, <2>15
<1> QED
  BY <1>1, <1>2 DEF RotationInv

LEMMA RotationNextInv == RotationInv /\ [KeyRotationNext]_rotationVars => RotationInv'
<1> SUFFICES ASSUME RotationInv, [KeyRotationNext]_rotationVars PROVE RotationInv'
  OBVIOUS
<1>1. ASSUME NEW v \in Validators, NEW k \in Keys, RegisterInitialKey(v, k)
      PROVE  RotationInv'
  BY <1>1, RegisterRotation
<1>2. ASSUME NEW v \in Validators, NEW k \in Keys, RequestKeyRotation(v, k)
      PROVE  RotationInv'
  <2>1. Log(v, "RotationRequested", k) /\ UNCHANGED <<keys, activeKey>>
    BY <1>2 DEF RequestKeyRotation
  <2>2. <<"RotationRequested", k>> \in KeyEvent /\ ~Settles(<<"RotationRequested", k>>)
    BY DEF KeyEvent, Settles
  <2>3. /\ DOMAIN (rotationEvents') = Validators
        /\ \A x \in Validators : rotationEvents'[x] \in Seq(KeyEvent)
        /\ \A x \in Validators : \A key :
             LastSettled(rotationEvents[x], key) => LastSettled(rotationEvents'[x], key)
    BY <2>1, <2>2, Logged
  <2>4. \A x \in DOMAIN (rotationRequests') : rotationRequests'[x].key \in Keys
    BY <1>2 DEF RequestKeyRotation, RotationInv
  <2> QED
    BY <2>1, <2>3, <2>4 DEF RotationInv, KeyOwners
<1>3. ASSUME NEW v \in Validators, NEW k \in Keys, TransitionPeriodEnds(v, k)
      PROVE  RotationInv'
  <2>1. /\ v \in KeyOwners /\ keys' = [keys EXCEPT ![v][k].over = TRUE] /\ k \in DOMAIN keys[v]
        /\ UNCHANGED <<activeKey, rotationRequests, rotationEvents>>
    BY <1>3 DEF TransitionPeriodEnds, InTransition
  <2>2. PICK old : old = keys[v] /\ KeysTyped(old)
    BY <2>1 DEF RotationInv
  <2>3. PICK record \in KeyRecordType : record = [old[k] EXCEPT !.over = TRUE]
    BY <2>1, <2>2 DEF KeysTyped, KeyRecordType
  <2>4. PICK new : new = [old EXCEPT ![k] = record]
    OBVIOUS
  <2>5. KeysTyped(new) /\ DOMAIN new = DOMAIN old
    BY <2>2, <2>4 DEF KeysTyped
  <2>6. DOMAIN (keys') = DOMAIN keys /\ keys'[v] = new
        /\ \A x \in DOMAIN keys : x # v => keys'[x] = keys[x]
    BY <2>1, <2>2, <2>3, <2>4 DEF RotationInv
  <2> QED
    BY <2>1, <2>2, <2>5, <2>6 DEF RotationInv, KeyOwners
<1>4. ASSUME NEW v \in Validators, NEW inFavor \in BOOLEAN, NEW weight \in RotationWeights,
             VoteOnRotation(v, inFavor, weight)
      PROVE  RotationInv'
  <2>1. /\ v \in DOMAIN rotationRequests /\ UNCHANGED <<keys, activeKey, rotationEvents>>
        /\ rotationRequests' = [rotationRequests EXCEPT ![v].total = @ + weight,
                                  ![v].favor = IF inFavor THEN @ + weight ELSE @]
    BY <1>4 DEF VoteOnRotation
  <2>2. /\ DOMAIN (rotationRequests') = DOMAIN rotationRequests
        /\ \A x \in DOMAIN rotationRequests : rotationRequests'[x].key = rotationRequests[x].key
    BY <2>1
  <2> QED
    BY <2>1, <2>2 DEF RotationInv, KeyOwners
<1>5. ASSUME NEW v \in Validators, NEW stake \in RotationStakes, FinalizeRotation(v, stake)
      PROVE  RotationInv'
  BY <1>5, FinalizeKeeps
<1>6. ASSUME NEW order, \A v \in KeyOwners : order[v] \in SetToSeqs(Complete(v)),
             ProcessTransitions(order)
      PROVE  RotationInv'
  BY <1>6, TransitionsKeep
<1>7. CASE UNCHANGED rotationVars
  BY <1>7 DEF rotationVars, RotationInv, KeyOwners
<1> QED
  BY <1>1, <1>2, <1>3, <1>4, <1>5, <1>6, <1>7 DEF KeyRotationNext

(* Whatever is requested, approved and completed in any order, a registered *)
(* validator's active key is valid and that of its last settled event.      *)
THEOREM KeyAlwaysValid == RotationSpec => []AlwaysAValidKey
<1>1. RotationInv => AlwaysAValidKey
  <2> SUFFICES ASSUME RotationInv, NEW v \in KeyOwners
               PROVE  /\ activeKey[v] \in DOMAIN keys[v]
                      /\ keys[v][activeKey[v]].status \in {"Active", "Transitioning"}
                      /\ LastSettled(rotationEvents[v], activeKey[v])
    BY DEF AlwaysAValidKey, LastSettled, SettledAt
  <2> QED
    BY DEF RotationInv, KeysTyped, KeyRecordType
<1> QED
  BY <1>1, RotationInitInv, RotationNextInv, PTL DEF RotationSpec

-----------------------------------------------------------------------------
(***************************************************************************)
(* Slashing, for any stakes, evidence and order of calls.  The properties  *)
(* of a validator are inductive together with the types and with one fact  *)
(* about the evidence: what is remembered is that of the last signing.     *)
(***************************************************************************)
SlashSpec == SlashingInit /\ [][SlashingNext]_slashingVars

Reasons == {"DoubleSigning", "ExcessiveDowntime", "Manual"}
SlashEvent == [validator : Validators, reason : Reasons, amount : Nat,
               evidence : Evidence \cup {NoEvidence}]
JailRecord == [reason : Reasons, amount : Nat, running : BOOLEAN]

SlashTypeOK ==
  /\ slashHistory \in Seq(SlashEvent)
  /\ Jailed \subseteq Validators /\ \A v \in Jailed : jailed[v] \in JailRecord
  /\ releases \in [Validators -> Nat]
  /\ DOMAIN evidenceSeen = Validators

LastEvidenceSeen(v) ==
  \A i \in SigningsOf(v) :
    IsLastOf(i, SigningsOf(v)) => slashHistory[i].evidence = evidenceSeen[v]

SlashInv ==
  /\ SlashTypeOK
  /\ \A v \in Validators : OneSlashPerJail(v) /\ EvidenceNotRepeated(v) /\ LastEvidenceSeen(v)

(* The places of a validator's events when one is appended.                 *)
LEMMA PlacesAppended ==
  ASSUME slashHistory \in Seq(SlashEvent), NEW event \in SlashEvent,
         slashHistory' = Append(slashHistory, event), NEW n \in Nat, n = Len(slashHistory)
  PROVE  /\ slashHistory' \in Seq(SlashEvent) /\ slashHistory'[n + 1] = event
         /\ \A i \in 1..n : slashHistory'[i] = slashHistory[i]
         /\ \A v : /\ EventsOf(v) \in SUBSET (1..n) /\ SigningsOf(v) \in SUBSET (1..n)
                   /\ IsFiniteSet(EventsOf(v)) /\ Cardinality(EventsOf(v)) \in Nat
         /\ \A v : event.validator # v => /\ EventsOf(v)' = EventsOf(v)
                                          /\ SigningsOf(v)' = SigningsOf(v)
         /\ \A v : event.validator = v /\ event.reason # "DoubleSigning" =>
                     SigningsOf(v)' = SigningsOf(v)
         /\ \A v : event.validator = v /\ event.reason = "DoubleSigning" =>
                     SigningsOf(v)' = SigningsOf(v) \cup {n + 1}
         /\ \A v : event.validator = v =>
                     /\ EventsOf(v)' = EventsOf(v) \cup {n + 1}
                     /\ Cardinality(EventsOf(v)') = Cardinality(EventsOf(v)) + 1
<1>1. PICK past, longer : past = slashHistory /\ longer = slashHistory'
  OBVIOUS
<1>2. longer \in Seq(SlashEvent) /\ past \in Seq(SlashEvent)
  BY <1>1, AppendProperties
<1>3. /\ DOMAIN past = 1..n /\ DOMAIN longer = 1..(n + 1) /\ longer[n + 1] = event
      /\ \A i \in 1..n : longer[i] = past[i]
  BY <1>1, <1>2
<1>4. \A v : EventsOf(v) \in SUBSET (1..n) /\ SigningsOf(v) \in SUBSET (1..n)
  BY <1>1, <1>3 DEF EventsOf, SigningsOf
<1>5. IsFiniteSet(1..n)
  BY FS_Interval
<1>6. \A v : IsFiniteSet(EventsOf(v))
  BY <1>4, <1>5, FS_Subset
<1>7. \A v : Cardinality(EventsOf(v)) \in Nat
  BY <1>6, FS_CardinalityType
<1>8. ASSUME NEW v, event.validator # v
      PROVE  EventsOf(v)' = EventsOf(v) /\ SigningsOf(v)' = SigningsOf(v)
  <2>1. EventsOf(v)' = EventsOf(v)
    BY <1>1, <1>3, <1>8 DEF EventsOf
  <2> QED
    BY <1>1, <1>3, <1>4, <2>1 DEF SigningsOf
<1>9. ASSUME NEW v, event.validator = v
      PROVE  EventsOf(v)' = EventsOf(v) \cup {n + 1}
  BY <1>1, <1>3, <1>9 DEF EventsOf
<1>10. ASSUME NEW v, event.validator = v
       PROVE  Cardinality(EventsOf(v)') = Cardinality(EventsOf(v)) + 1
  <2>1. PICK x : x = n + 1
    OBVIOUS
  <2>2. x \notin EventsOf(v)
    BY <1>4, <2>1
  <2>3. EventsOf(v)' = EventsOf(v) \cup {x}
    BY <1>9, <1>10, <2>1
  <2> QED
    BY <1>6, <2>2, <2>3, FS_AddElement
<1>11. ASSUME NEW v, event.validator = v
       PROVE  /\ event.reason # "DoubleSigning" => SigningsOf(v)' = SigningsOf(v)
              /\ event.reason = "DoubleSigning" => SigningsOf(v)' = SigningsOf(v) \cup {n + 1}
  <2>1. SigningsOf(v)' = {i \in EventsOf(v) \cup {n + 1} : longer[i].reason = "DoubleSigning"}
    BY <1>1, <1>9, <1>11 DEF SigningsOf
  <2>2. SigningsOf(v) = {i \in EventsOf(v) : longer[i].reason = "DoubleSigning"}
    BY <1>1, <1>3, <1>4 DEF SigningsOf
  <2> QED
    BY <1>3, <2>1, <2>2
<1> QED
  BY <1>1, <1>2, <1>3, <1>4, <1>6, <1>7, <1>8, <1>9, <1>10, <1>11

(* What a validator keeps when neither its events nor its jail change.      *)
LEMMA OthersSlashed ==
  ASSUME SlashTypeOK, NEW v \in Validators, NEW n \in Nat, n = Len(slashHistory),
         OneSlashPerJail(v), EvidenceNotRepeated(v), LastEvidenceSeen(v),
         \A i \in 1..n : slashHistory'[i] = slashHistory[i],
         EventsOf(v)' = EventsOf(v), SigningsOf(v)' = SigningsOf(v),
         IsJailed(v)' = IsJailed(v), IsJailed(v) => jailed'[v] = jailed[v],
         releases'[v] = releases[v], evidenceSeen'[v] = evidenceSeen[v]
  PROVE  OneSlashPerJail(v)' /\ EvidenceNotRepeated(v)' /\ LastEvidenceSeen(v)'
<1>1. EventsOf(v) \subseteq 1..n /\ SigningsOf(v) \subseteq 1..n
  BY DEF EventsOf, SigningsOf, SlashTypeOK
<1>2. OneSlashPerJail(v)'
  BY <1>1 DEF OneSlashPerJail, IsLastOf
<1>3. EvidenceNotRepeated(v)'
  BY <1>1 DEF EvidenceNotRepeated
<1>4. LastEvidenceSeen(v)'
  BY <1>1 DEF LastEvidenceSeen, IsLastOf
<1> QED
  BY <1>2, <1>3, <1>4

LEMMA JailKeeps ==
  ASSUME SlashInv, NEW v \in Validators, NEW reason \in Reasons, NEW amount \in Nat,
         NEW evidence \in Evidence \cup {NoEvidence},
         ~IsJailed(v), Jail(v, reason, amount, evidence), UNCHANGED releases,
         reason # "DoubleSigning" => UNCHANGED evidenceSeen,
         reason = "DoubleSigning" => /\ evidenceSeen[v] # evidence
                                     /\ evidenceSeen' = [evidenceSeen EXCEPT ![v] = evidence]
  PROVE  SlashInv'
<1>0. SlashTypeOK
  BY DEF SlashInv
<1>1. PICK event \in SlashEvent :
        event = [validator |-> v, reason |-> reason, amount |-> amount, evidence |-> evidence]
  BY DEF SlashEvent
<1>2. event.validator = v /\ event.reason = reason /\ event.amount = amount
      /\ event.evidence = evidence
  BY <1>1
<1>3. PICK n \in Nat : n = Len(slashHistory)
  BY <1>0 DEF SlashTypeOK
<1>4. slashHistory \in Seq(SlashEvent) /\ slashHistory' = Append(slashHistory, event)
  BY <1>0, <1>1 DEF Jail, SlashTypeOK
<1>5. PICK record \in JailRecord : record = [reason |-> reason, amount |-> amount, running |-> TRUE]
  BY DEF JailRecord
<1>6. record.running /\ record.reason = reason /\ record.amount = amount
  BY <1>5
<1>7. jailed' = [x \in Jailed \cup {v} |-> IF x = v THEN record ELSE jailed[x]]
  BY <1>5 DEF Jail
<1>8. /\ Jailed' = Jailed \cup {v} /\ jailed'[v] = record
      /\ \A x \in Jailed : x # v => jailed'[x] = jailed[x]
  BY <1>7 DEF Jailed
<1>9. IsJailed(v)' /\ \A x : x # v => IsJailed(x)' = IsJailed(x)
  BY <1>6, <1>8 DEF IsJailed
<1>10. /\ slashHistory' \in Seq(SlashEvent) /\ slashHistory'[n + 1] = event
       /\ \A i \in 1..n : slashHistory'[i] = slashHistory[i]
  BY <1>3, <1>4, PlacesAppended
<1>11. \A x : x # v => EventsOf(x)' = EventsOf(x) /\ SigningsOf(x)' = SigningsOf(x)
  BY <1>2, <1>3, <1>4, PlacesAppended
<1>12. /\ EventsOf(v) \in SUBSET (1..n) /\ SigningsOf(v) \in SUBSET (1..n)
       /\ Cardinality(EventsOf(v)) \in Nat
       /\ EventsOf(v)' = EventsOf(v) \cup {n + 1}
       /\ Cardinality(EventsOf(v)') = Cardinality(EventsOf(v)) + 1
  BY <1>2, <1>3, <1>4, PlacesAppended
<1>13. /\ reason # "DoubleSigning" => SigningsOf(v)' = SigningsOf(v)
       /\ reason = "DoubleSigning" => SigningsOf(v)' = SigningsOf(v) \cup {n + 1}
  BY <1>2, <1>3, <1>4, PlacesAppended
<1>14. SlashTypeOK'
  <2>1. Jailed' \subseteq Validators /\ \A x \in Jailed' : jailed'[x] \in JailRecord
    BY <1>0, <1>8 DEF SlashTypeOK
  <2>2. DOMAIN (evidenceSeen') = Validators /\ releases' \in [Validators -> Nat]
    BY <1>0 DEF SlashTypeOK
  <2> QED
    BY <1>10, <2>1, <2>2 DEF SlashTypeOK
<1>15. OneSlashPerJail(v)'
  <2>1. Cardinality(EventsOf(v)) = releases[v] /\ releases[v] \in Nat
    BY <1>0 DEF SlashInv, OneSlashPerJail, SlashTypeOK
  <2>2. Cardinality(EventsOf(v)') = releases'[v] + 1
    BY <1>12, <2>1
  <2>3. IsLastOf(n + 1, EventsOf(v)')
    BY <1>12 DEF IsLastOf
  <2>4. IsLastOf(n + 1, EventsOf(v))'
    BY <2>3 DEF IsLastOf
  <2>5. /\ slashHistory'[n + 1].reason = jailed'[v].reason
        /\ slashHistory'[n + 1].amount = jailed'[v].amount
    BY <1>2, <1>6, <1>8, <1>10
  <2>6. n + 1 \in EventsOf(v)'
    BY <1>12
  <2> QED
    BY <1>9, <2>2, <2>4, <2>5, <2>6 DEF OneSlashPerJail
<1>16. EvidenceNotRepeated(v)' /\ LastEvidenceSeen(v)'
  <2>0. EvidenceNotRepeated(v) /\ LastEvidenceSeen(v)
    BY DEF SlashInv
  <2>1. CASE reason # "DoubleSigning"
    <3>1. SigningsOf(v)' = SigningsOf(v) /\ evidenceSeen'[v] = evidenceSeen[v]
      BY <1>13, <2>1
    <3>2. EvidenceNotRepeated(v)'
      BY <1>10, <1>12, <2>0, <3>1 DEF EvidenceNotRepeated
    <3>3. LastEvidenceSeen(v)'
      BY <1>10, <1>12, <2>0, <3>1 DEF LastEvidenceSeen, IsLastOf
    <3> QED
      BY <3>2, <3>3
  <2>2. CASE reason = "DoubleSigning"
    <3>1. PICK S \in SUBSET (1..n) : S = SigningsOf(v) /\ SigningsOf(v)' = S \cup {n + 1}
      BY <1>12, <1>13, <2>2
    <3>2. evidenceSeen[v] # evidence /\ evidenceSeen'[v] = evidence
      BY <1>0, <2>2 DEF SlashTypeOK
    <3>3. ASSUME NEW i \in S \cup {n + 1}, NEW j \in S \cup {n + 1}, i < j,
                 \A k \in S \cup {n + 1} : ~(i < k /\ k < j)
          PROVE  slashHistory'[i].evidence # slashHistory'[j].evidence
      <4>1. i \in S
        BY <3>3
      <4>2. CASE j \in S
        <5>1. \A k \in S : ~(i < k /\ k < j)
          BY <3>3
        <5>2. slashHistory[i].evidence # slashHistory[j].evidence
          BY <2>0, <3>1, <3>3, <4>1, <4>2, <5>1 DEF EvidenceNotRepeated
        <5> QED
          BY <1>10, <4>1, <4>2, <5>2
      <4>3. CASE j = n + 1
        <5>1. \A k \in S : k =< i
          BY <3>3, <4>1, <4>3
        <5>2. slashHistory[i].evidence = evidenceSeen[v]
          BY <2>0, <3>1, <4>1, <5>1 DEF LastEvidenceSeen, IsLastOf
        <5>3. slashHistory'[j].evidence = evidence
          BY <1>2, <1>10, <4>3
        <5>4. slashHistory'[i] = slashHistory[i]
          BY <1>10, <4>1
        <5> QED
          BY <3>2, <5>2, <5>3, <5>4
      <4> QED
        BY <4>2, <4>3
    <3>4. EvidenceNotRepeated(v)'
      BY <3>1, <3>3 DEF EvidenceNotRepeated
    <3>5. LastEvidenceSeen(v)'
      <4>1. ASSUME NEW i \in S \cup {n + 1}, \A j \in S \cup {n + 1} : j =< i
            PROVE  slashHistory'[i].evidence = evidence
        <5>1. i = n + 1
          BY <4>1
        <5> QED
          BY <1>2, <1>10, <5>1
      <4> QED
        BY <3>1, <3>2, <4>1 DEF LastEvidenceSeen, IsLastOf
    <3> QED
      BY <3>4, <3>5
  <2> QED
    BY <2>1, <2>2
<1>17. ASSUME NEW x \in Validators, x # v
       PROVE  OneSlashPerJail(x)' /\ EvidenceNotRepeated(x)' /\ LastEvidenceSeen(x)'
  <2>1. OneSlashPerJail(x) /\ EvidenceNotRepeated(x) /\ LastEvidenceSeen(x)
    BY DEF SlashInv
  <2>2. IsJailed(x)' = IsJailed(x) /\ (IsJailed(x) => jailed'[x] = jailed[x])
    BY <1>8, <1>9, <1>17 DEF IsJailed
  <2>3. releases'[x] = releases[x] /\ evidenceSeen'[x] = evidenceSeen[x]
    BY <1>0, <1>17 DEF SlashTypeOK
  <2>4. EventsOf(x)' = EventsOf(x) /\ SigningsOf(x)' = SigningsOf(x)
    BY <1>11, <1>17
  <2> QED
    BY <1>0, <1>3, <1>10, <2>1, <2>2, <2>3, <2>4, OthersSlashed
<1> QED
  BY <1>14, <1>15, <1>16, <1>17 DEF SlashInv

(* The history stays, and with it all places.                            *)
LEMMA HistoryStays ==
  ASSUME slashHistory' = slashHistory
  PROVE  \A v : EventsOf(v)' = EventsOf(v) /\ SigningsOf(v)' = SigningsOf(v)
  BY DEF EventsOf, SigningsOf

LEMMA JailEndsKeeps ==
  ASSUME SlashInv, NEW v \in Validators, JailEnds(v)
  PROVE  SlashInv'
<1>0. SlashTypeOK
  BY DEF SlashInv
<1>1. /\ v \in Jailed /\ IsJailed(v)
      /\ jailed' = [jailed EXCEPT ![v].running = FALSE]
      /\ releases' = [releases EXCEPT ![v] = @ + 1]
      /\ slashHistory' = slashHistory /\ evidenceSeen' = evidenceSeen
  BY DEF JailEnds, IsJailed
<1>2. PICK old \in JailRecord : old = jailed[v]
  BY <1>0, <1>1 DEF SlashTypeOK
<1>3. PICK record : record = [old EXCEPT !.running = FALSE]
  OBVIOUS
<1>4. record \in JailRecord /\ ~record.running
  BY <1>3 DEF JailRecord
<1>5. /\ Jailed' = Jailed /\ jailed'[v] = record
      /\ \A x \in Jailed : x # v => jailed'[x] = jailed[x]
  BY <1>1, <1>2, <1>3 DEF Jailed
<1>6. ~IsJailed(v)' /\ \A x : x # v => IsJailed(x)' = IsJailed(x)
  BY <1>4, <1>5 DEF IsJailed
<1>7. releases' \in [Validators -> Nat] /\ releases'[v] = releases[v] + 1 /\ releases[v] \in Nat
      /\ \A x \in Validators : x # v => releases'[x] = releases[x]
  BY <1>0, <1>1 DEF SlashTypeOK
<1>8. SlashTypeOK'
  BY <1>0, <1>1, <1>4, <1>5, <1>7 DEF SlashTypeOK
<1>9. \A x : EventsOf(x)' = EventsOf(x) /\ SigningsOf(x)' = SigningsOf(x)
  BY <1>1, HistoryStays
<1>10. OneSlashPerJail(v)' /\ EvidenceNotRepeated(v)' /\ LastEvidenceSeen(v)'
  <2>1. OneSlashPerJail(v) /\ EvidenceNotRepeated(v) /\ LastEvidenceSeen(v)
    BY DEF SlashInv
  <2>2. Cardinality(EventsOf(v)) = releases[v] + 1
    BY <1>1, <2>1 DEF OneSlashPerJail
  <2>3. OneSlashPerJail(v)'
    BY <1>6, <1>7, <1>9, <2>2 DEF OneSlashPerJail
  <2>4. EvidenceNotRepeated(v)'
    BY <1>1, <1>9, <2>1 DEF EvidenceNotRepeated
  <2>5. LastEvidenceSeen(v)'
    BY <1>1, <1>9, <2>1 DEF LastEvidenceSeen, IsLastOf
  <2> QED
    BY <2>3, <2>4, <2>5
<1>11. ASSUME NEW x \in Validators, x # v
       PROVE  OneSlashPerJail(x)' /\ EvidenceNotRepeated(x)' /\ LastEvidenceSeen(x)'
  <2>1. OneSlashPerJail(x) /\ EvidenceNotRepeated(x) /\ LastEvidenceSeen(x)
    BY DEF SlashInv
  <2>2. IsJailed(x)' = IsJailed(x) /\ (IsJailed(x) => jailed'[x] = jailed[x])
    BY <1>5, <1>6, <1>11 DEF IsJailed
  <2>3. releases'[x] = releases[x] /\ evidenceSeen'[x] = evidenceSeen[x]
    BY <1>1, <1>7, <1>11
  <2>4. PICK n \in Nat : n = Len(slashHistory)
    BY <1>0 DEF SlashTypeOK
  <2> QED
    BY <1>0, <1>1, <1>9, <2>1, <2>2, <2>3, <2>4, OthersSlashed
<1> QED
  BY <1>8, <1>10, <1>11 DEF SlashInv

LEMMA ExpiredKeeps ==
  ASSUME SlashInv, ProcessExpiredJails
  PROVE  SlashInv'
<1>0. SlashTypeOK
  BY DEF SlashInv
<1>1. /\ jailed' = [v \in {x \in Jailed : IsJailed(x)} |-> jailed[v]]
      /\ slashHistory' = slashHistory /\ evidenceSeen' = evidenceSeen /\ releases' = releases
  BY DEF ProcessExpiredJails
<1>2. /\ Jailed' = {x \in Jailed : IsJailed(x)}
      /\ \A x \in Jailed : IsJailed(x) => jailed'[x] = jailed[x]
  BY <1>1 DEF Jailed
<1>3. \A x : IsJailed(x)' = IsJailed(x) /\ (IsJailed(x) => jailed'[x] = jailed[x])
  BY <1>2 DEF IsJailed
<1>4. SlashTypeOK'
  BY <1>0, <1>1, <1>2 DEF SlashTypeOK
<1>5. \A x : EventsOf(x)' = EventsOf(x) /\ SigningsOf(x)' = SigningsOf(x)
  BY <1>1, HistoryStays
<1>6. ASSUME NEW x \in Validators
      PROVE  OneSlashPerJail(x)' /\ EvidenceNotRepeated(x)' /\ LastEvidenceSeen(x)'
  <2>1. OneSlashPerJail(x) /\ EvidenceNotRepeated(x) /\ LastEvidenceSeen(x)
    BY DEF SlashInv
  <2>2. PICK n \in Nat : n = Len(slashHistory)
    BY <1>0 DEF SlashTypeOK
  <2> QED
    BY <1>0, <1>1, <1>3, <1>5, <2>1, <2>2, OthersSlashed
<1> QED
  BY <1>4, <1>6 DEF SlashInv

LEMMA SlashInitInv == SlashingInit => SlashInv
<1> SUFFICES ASSUME SlashingInit PROVE SlashInv
  OBVIOUS
<1>1. << >> \in Seq(SlashEvent) /\ DOMAIN << >> = {}
  OBVIOUS
<1>2. PICK none \in Seq(SlashEvent) : none = << >> /\ DOMAIN none = {}
  BY <1>1
<1>3. /\ jailed = << >> /\ slashHistory = none
      /\ DOMAIN evidenceSeen = Validators
      /\ releases = [v \in Validators |-> 0]
  BY <1>2 DEF SlashingInit
<1>4. Jailed = {}
  BY <1>2, <1>3 DEF Jailed
<1>5. \A v : EventsOf(v) = {} /\ SigningsOf(v) = {} /\ ~IsJailed(v)
  BY <1>2, <1>3, <1>4 DEF EventsOf, SigningsOf, IsJailed
<1>6. Cardinality({}) = 0
  BY FS_EmptySet
<1>7. ASSUME NEW v \in Validators
      PROVE  OneSlashPerJail(v) /\ EvidenceNotRepeated(v) /\ LastEvidenceSeen(v)
  <2>1. releases[v] = 0 /\ Cardinality(EventsOf(v)) = 0 /\ ~IsJailed(v)
    BY <1>3, <1>5, <1>6
  <2>2. OneSlashPerJail(v)
    BY <2>1 DEF OneSlashPerJail
  <2>3. EvidenceNotRepeated(v)
    BY <1>5 DEF EvidenceNotRepeated
  <2>4. LastEvidenceSeen(v)
    BY <1>5 DEF LastEvidenceSeen
  <2> QED
    BY <2>2, <2>3, <2>4
<1>8. SlashTypeOK
  BY <1>3, <1>4 DEF SlashTypeOK
<1> QED
  BY <1>7, <1>8 DEF SlashInv

LEMMA SlashNextInv == SlashInv /\ [SlashingNext]_slashingVars => SlashInv'
<1> SUFFICES ASSUME SlashInv, [SlashingNext]_slashingVars PROVE SlashInv'
  OBVIOUS
<1>p. \A stake \in Nat, rate \in 0..100 : (stake * rate) \div 100 \in Nat
  <2> SUFFICES ASSUME NEW stake \in Nat, NEW rate \in 0..100 PROVE (stake * rate) \div 100 \in Nat
    OBVIOUS
  <2>1. PICK m \in Nat : m = stake * rate
    OBVIOUS
  <2>2. m \div 100 \in Nat
    OBVIOUS
  <2> QED
    BY <2>1, <2>2
<1>1. ASSUME NEW v \in Validators, NEW stake \in SlashedStakes, NEW evidence \in Evidence,
             SlashForDoubleSigning(v, stake, evidence)
      PROVE  SlashInv'
  <2>1. PICK amount \in Nat : amount = (stake * SlashDoubleSigning) \div 100
    BY <1>p, SlashingAssumption
  <2>2. /\ evidenceSeen[v] # evidence /\ ~IsJailed(v)
        /\ Jail(v, "DoubleSigning", amount, evidence)
        /\ evidenceSeen' = [evidenceSeen EXCEPT ![v] = evidence] /\ UNCHANGED releases
    BY <1>1, <2>1 DEF SlashForDoubleSigning
  <2>3. "DoubleSigning" \in Reasons /\ evidence \in Evidence \cup {NoEvidence}
    BY DEF Reasons
  <2> QED
    BY <2>2, <2>3, JailKeeps
<1>2. ASSUME NEW v \in Validators, NEW stake \in SlashedStakes, NEW missed \in MissedSnapshots,
             SlashForDowntime(v, stake, missed)
      PROVE  SlashInv'
  <2>1. PICK amount \in Nat : amount = (stake * SlashDowntime) \div 100
    BY <1>p, SlashingAssumption
  <2>2. /\ ~IsJailed(v) /\ Jail(v, "ExcessiveDowntime", amount, NoEvidence)
        /\ UNCHANGED evidenceSeen /\ UNCHANGED releases
    BY <1>2, <2>1 DEF SlashForDowntime
  <2>3. /\ "ExcessiveDowntime" \in Reasons /\ "ExcessiveDowntime" # "DoubleSigning"
        /\ NoEvidence \in Evidence \cup {NoEvidence}
    BY DEF Reasons
  <2> QED
    BY <2>2, <2>3, JailKeeps
<1>3. ASSUME NEW v \in Validators, JailValidatorManual(v)
      PROVE  SlashInv'
  <2>1. /\ ~IsJailed(v) /\ Jail(v, "Manual", 0, NoEvidence)
        /\ UNCHANGED evidenceSeen /\ UNCHANGED releases
    BY <1>3 DEF JailValidatorManual
  <2>2. /\ "Manual" \in Reasons /\ "Manual" # "DoubleSigning" /\ 0 \in Nat
        /\ NoEvidence \in Evidence \cup {NoEvidence}
    BY DEF Reasons
  <2> QED
    BY <2>1, <2>2, JailKeeps
<1>4. ASSUME NEW v \in Validators, JailEnds(v)
      PROVE  SlashInv'
  BY <1>4, JailEndsKeeps
<1>5. ASSUME ProcessExpiredJails
      PROVE  SlashInv'
  BY <1>5, ExpiredKeeps
<1>6. CASE UNCHANGED slashingVars
  <2>0. SlashTypeOK
    BY DEF SlashInv
  <2>1. /\ jailed' = jailed /\ slashHistory' = slashHistory
        /\ evidenceSeen' = evidenceSeen /\ releases' = releases
    BY <1>6 DEF slashingVars
  <2>2. SlashTypeOK'
    BY <2>0, <2>1 DEF SlashTypeOK, Jailed
  <2>3. \A x : IsJailed(x)' = IsJailed(x)
    BY <2>1 DEF IsJailed, Jailed
  <2>4. \A x : EventsOf(x)' = EventsOf(x) /\ SigningsOf(x)' = SigningsOf(x)
    BY <2>1, HistoryStays
  <2>5. ASSUME NEW x \in Validators
        PROVE  OneSlashPerJail(x)' /\ EvidenceNotRepeated(x)' /\ LastEvidenceSeen(x)'
    <3>1. OneSlashPerJail(x) /\ EvidenceNotRepeated(x) /\ LastEvidenceSeen(x)
      BY DEF SlashInv
    <3>2. PICK n \in Nat : n = Len(slashHistory)
      BY <2>0 DEF SlashTypeOK
    <3> QED
      BY <2>0, <2>1, <2>3, <2>4, <3>1, <3>2, OthersSlashed
  <2> QED
    BY <2>2, <2>5 DEF SlashInv
<1> QED
  BY <1>1, <1>2, <1>3, <1>4, <1>5, <1>6 DEF SlashingNext

(* For any stakes and evidence nobody is slashed twice for one jail, and no *)
(* evidence twice before other evidence came.                               *)
THEOREM SlashedJustly == SlashSpec => []SlashesJustified
<1>1. SlashInv => SlashesJustified
  BY DEF SlashInv, SlashesJustified
<1> QED
  BY <1>1, SlashInitInv, SlashNextInv, PTL DEF SlashSpec

-----------------------------------------------------------------------------
(***************************************************************************)
(* Protocol upgrades, for any voters, stakes and proposals and any number  *)
(* of calls under way.  What is approved is a copy of the results of a     *)
(* vote, so the invariant says of every copy, wherever a call has it, that *)
(* its approvals were cast; what is active, and what is about to be, has   *)
(* the approval of a quorum of all votes that were cast since.             *)
(***************************************************************************)
UpgradeSpec == UpgradeInit /\ [][UpgradeNext]_upgradeVars

ActivationSteps == {"version", "flags", "clear"}
Submissions == [step : {"insert", "initialize"}, proposal : Proposals]
Activations == [step : ActivationSteps, proposal : Proposals, at : Nat]
Ballots == UNION {[D -> BOOLEAN] : D \in SUBSET Voters}

SoundResults(p, voted) ==
  {r \in [votes : Ballots, total : UpgradeStakes] :
     \A v \in Approvals(r) : <<p, v, TRUE>> \in voted}

ApprovedSoundly(a, voted) ==
  /\ a.proposal \in Proposals
  /\ a.results \in SoundResults(a.proposal, voted) /\ Reached(a.results)

Backed(p, voted) ==
  \E stake \in UpgradeStakes :
    MapThenSumSet(VoteWeight, {v \in Voters : <<p, v, TRUE>> \in voted}) * 3 > stake * 2

CallSound(call, version, voted) ==
  call # Idle =>
    /\ call.proposal \in Proposals
    /\ call.step \in {"insert", "initialize"} => call \in Submissions
    /\ call.step = "votes" => call.total \in UpgradeStakes
    /\ call.step = "add" => /\ call.voter \in Voters /\ call.approve \in BOOLEAN
                            /\ call.approve => <<call.proposal, call.voter, TRUE>> \in voted
    /\ call.step = "approve" => ApprovedSoundly(call, voted)
    /\ call.step \in ActivationSteps => call \in Activations /\ Backed(call.proposal, voted)
    /\ call.step = "flags" => version = call.proposal

Activates(call) == call # Idle /\ call.step \in ActivationSteps
FlagsNext(call) == call # Idle /\ call.step = "flags"

VotesSound == \A p \in DOMAIN votingResults : votingResults[p] \in SoundResults(p, cast)
ApprovalsSound == \A n \in DOMAIN approvedUpgrades : ApprovedSoundly(approvedUpgrades[n], cast)
CallsSound ==
  /\ DOMAIN calls = Calls
  /\ \A c \in Calls : CallSound(calls[c], protocolVersion, cast)
  /\ \A c, d \in Calls : Activates(calls[c]) /\ Activates(calls[d]) => c = d
VersionBacked == protocolVersion # Genesis => Backed(protocolVersion, cast)
FlagsFollow == protocolVersion = featureFlags \/ \E c \in Calls : FlagsNext(calls[c])

UpgradeInv ==
  /\ totalStake \in UpgradeStakes /\ cycle \in Nat
  /\ VotesSound /\ ApprovalsSound /\ CallsSound /\ VersionBacked /\ FlagsFollow

VotesOf == [v \in Voters |-> VoteWeight(v)]

(* The weight of voters, as a sum of the votes.                             *)
LEMMA WeightIsTotal ==
  ASSUME NEW S \in SUBSET Voters
  PROVE  MapThenSumSet(VoteWeight, S) = Total(VotesOf, S)
<1> DEFINE body(it) == [s \in SUBSET S |->
                          IF s = {} THEN 0
                          ELSE LET x == CHOOSE x \in s : TRUE IN VoteWeight(x) + it[s \ {x}]]
           body2(it) == [s \in SUBSET S |->
                           IF s = {} THEN 0
                           ELSE LET x == CHOOSE x \in s : TRUE IN VotesOf[x] + it[s \ {x}]]
<1>1. MapThenSumSet(VoteWeight, S) = (CHOOSE it : it = body(it))[S]
  BY DEF MapThenSumSet, MapThenFoldSet
<1>2. Total(VotesOf, S) = (CHOOSE it : it = body2(it))[S]
  BY DEF Total, MapThenSumSet, MapThenFoldSet
<1>3. \A it : body(it) = body2(it)
  <2> SUFFICES ASSUME NEW it, NEW s \in SUBSET S, s # {}
               PROVE  VoteWeight(CHOOSE x \in s : TRUE) = VotesOf[CHOOSE x \in s : TRUE]
    OBVIOUS
  <2>1. (CHOOSE x \in s : TRUE) \in Voters
    OBVIOUS
  <2> QED
    BY <2>1 DEF VotesOf
<1> HIDE DEF body, body2
<1> QED
  BY <1>1, <1>2, <1>3

LEMMA MoreVotesWeighMore ==
  ASSUME NEW T \in SUBSET Voters, NEW S \in SUBSET T
  PROVE  /\ MapThenSumSet(VoteWeight, S) \in Nat /\ MapThenSumSet(VoteWeight, T) \in Nat
         /\ MapThenSumSet(VoteWeight, S) =< MapThenSumSet(VoteWeight, T)
<1>1. IsFiniteSet(T)
  BY UpgradeAssumption, FS_Subset
<1>2. NatOn(VotesOf, T)
  BY UpgradeAssumption DEF NatOn, VotesOf
<1>3. Total(VotesOf, S) \in Nat /\ Total(VotesOf, T) \in Nat /\ Total(VotesOf, S) =< Total(VotesOf, T)
  BY <1>1, <1>2, TotalMonotone
<1> QED
  BY <1>3, WeightIsTotal

(* Results that reach the quorum show that those who approved suffice.      *)
LEMMA ReachedBacks ==
  ASSUME NEW p, NEW voted, NEW r \in SoundResults(p, voted), Reached(r)
  PROVE  Backed(p, voted)
<1>1. r \in [votes : Ballots, total : UpgradeStakes]
  BY DEF SoundResults
<1>2. r.total \in UpgradeStakes /\ r.total \in Nat
  BY <1>1, UpgradeAssumption
<1>3. Approvals(r) \subseteq Voters
  BY <1>1 DEF Approvals, Ballots
<1>4. PICK T \in SUBSET Voters : T = {v \in Voters : <<p, v, TRUE>> \in voted}
  OBVIOUS
<1>5. PICK S \in SUBSET T : S = Approvals(r)
  BY <1>3, <1>4 DEF SoundResults
<1>6. PICK few \in Nat, many \in Nat : /\ few = MapThenSumSet(VoteWeight, S)
                                       /\ many = MapThenSumSet(VoteWeight, T) /\ few =< many
  BY MoreVotesWeighMore
<1>7. few * 3 > r.total * 2
  BY <1>5, <1>6 DEF Reached
<1>8. many * 3 > r.total * 2
  BY <1>2, <1>6, <1>7
<1> QED
  BY <1>2, <1>4, <1>6, <1>8 DEF Backed

(* A vote more disturbs nothing.                                            *)
LEMMA BackedGrows ==
  ASSUME NEW p, NEW voted, NEW more, voted \subseteq more, Backed(p, voted)
  PROVE  Backed(p, more)
<1>1. PICK stake \in UpgradeStakes :
        MapThenSumSet(VoteWeight, {v \in Voters : <<p, v, TRUE>> \in voted}) * 3 > stake * 2
  BY DEF Backed
<1>2. PICK T \in SUBSET Voters : T = {v \in Voters : <<p, v, TRUE>> \in more}
  OBVIOUS
<1>3. PICK S \in SUBSET T : S = {v \in Voters : <<p, v, TRUE>> \in voted}
  BY <1>2
<1>4. PICK few \in Nat, many \in Nat : /\ few = MapThenSumSet(VoteWeight, S)
                                       /\ many = MapThenSumSet(VoteWeight, T) /\ few =< many
  BY MoreVotesWeighMore
<1>5. many * 3 > stake * 2
  BY <1>1, <1>3, <1>4, UpgradeAssumption
<1> QED
  BY <1>2, <1>4, <1>5 DEF Backed

LEMMA SoundGrows ==
  ASSUME NEW voted, NEW more, voted \subseteq more
  PROVE  /\ \A p : SoundResults(p, voted) \subseteq SoundResults(p, more)
         /\ \A a : ApprovedSoundly(a, voted) => ApprovedSoundly(a, more)
         /\ \A call, version : CallSound(call, version, voted) => CallSound(call, version, more)
<1>1. \A p : SoundResults(p, voted) \subseteq SoundResults(p, more)
  BY DEF SoundResults
<1>2. \A a : ApprovedSoundly(a, voted) => ApprovedSoundly(a, more)
  BY <1>1 DEF ApprovedSoundly
<1>3. \A p : Backed(p, voted) => Backed(p, more)
  BY BackedGrows
<1>4. \A call, version : CallSound(call, version, voted) => CallSound(call, version, more)
  BY <1>2, <1>3 DEF CallSound
<1> QED
  BY <1>1, <1>2, <1>4

(* A call takes a step: the others are as sound as before.                  *)
LEMMA UpgradeCallSteps ==
  ASSUME CallsSound, NEW c \in Calls, NEW call, To(c, call), cast \subseteq cast',
         CallSound(call, protocolVersion', cast'),
         Activates(call) => Activates(calls[c]) \/ ~Activating,
         protocolVersion' = protocolVersion \/ Activates(calls[c])
  PROVE  CallsSound'
<1>1. /\ DOMAIN (calls') = Calls /\ calls'[c] = call
      /\ \A d \in Calls : d # c => calls'[d] = calls[d]
  BY DEF CallsSound, To
<1>2. \A d \in Calls : Activates(calls[d]) => Activating
  BY DEF Activates, Activating, At, ActivationSteps
<1>3. ASSUME NEW d \in Calls, d # c
      PROVE  CallSound(calls'[d], protocolVersion', cast')
  <2>1. CallSound(calls[d], protocolVersion, cast')
    BY SoundGrows DEF CallsSound
  <2>2. protocolVersion' = protocolVersion \/ ~Activates(calls[d])
    BY <1>3 DEF CallsSound
  <2>3. CallSound(calls[d], protocolVersion', cast')
    BY <2>1, <2>2 DEF CallSound, Activates, ActivationSteps
  <2> QED
    BY <1>1, <1>3, <2>3
<1>4. \A d \in Calls : CallSound(calls'[d], protocolVersion', cast')
  BY <1>1, <1>3
<1>5. \A d, e \in Calls : Activates(calls'[d]) /\ Activates(calls'[e]) => d = e
  BY <1>1, <1>2 DEF CallsSound
<1>6. \A d \in Calls : Activates(calls[d])' <=> Activates(calls'[d])
  BY DEF Activates
<1> QED
  BY <1>1, <1>4, <1>5 DEF CallsSound, Activates, CallSound

LEMMA FlagsKeep ==
  ASSUME FlagsFollow, CallsSound, NEW c \in Calls, NEW call, To(c, call),
         ~FlagsNext(calls[c]), protocolVersion' = protocolVersion, featureFlags' = featureFlags
  PROVE  FlagsFollow'
<1>1. \A d \in Calls : d # c => calls'[d] = calls[d]
  BY DEF CallsSound, To
<1> QED
  BY <1>1 DEF FlagsFollow, FlagsNext

(* A step of a call that leaves results, approvals, version and flags, or   *)
(* replaces results and approvals by sound ones.                            *)
LEMMA QuietUpgradeStep ==
  ASSUME UpgradeInv, NEW c \in Calls, NEW call, To(c, call), cast \subseteq cast',
         CallSound(call, protocolVersion, cast'), ~FlagsNext(calls[c]),
         Activates(call) => Activates(calls[c]) \/ ~Activating,
         VotesSound', ApprovalsSound', protocolVersion' = protocolVersion,
         featureFlags' = featureFlags, totalStake' = totalStake, cycle' = cycle
  PROVE  UpgradeInv'
<1>1. CallsSound' /\ FlagsFollow'
  BY UpgradeCallSteps, FlagsKeep DEF UpgradeInv
<1>2. VersionBacked'
  BY SoundGrows, BackedGrows DEF UpgradeInv, VersionBacked
<1> QED
  BY <1>1, <1>2 DEF UpgradeInv

LEMMA TablesKept ==
  ASSUME UpgradeInv, cast \subseteq cast'
  PROVE  /\ votingResults' = votingResults => VotesSound'
         /\ approvedUpgrades' = approvedUpgrades => ApprovalsSound'
<1>1. votingResults' = votingResults => VotesSound'
  BY SoundGrows DEF UpgradeInv, VotesSound
<1>2. ApprovalsSound /\ \A a : ApprovedSoundly(a, cast) => ApprovedSoundly(a, cast')
  BY SoundGrows DEF UpgradeInv
<1>3. ASSUME approvedUpgrades' = approvedUpgrades
      PROVE  ApprovalsSound'
  BY <1>2, <1>3 DEF ApprovalsSound, ApprovedSoundly
<1> QED
  BY <1>1, <1>3

(* What an idle or finished call says.                                      *)
LEMMA IdleSound == \A version, voted : CallSound(Idle, version, voted) /\ ~Activates(Idle)
  BY DEF CallSound, Activates

LEMMA CallOf ==
  ASSUME UpgradeInv, NEW c \in Calls
  PROVE  CallSound(calls[c], protocolVersion, cast)
  BY DEF UpgradeInv, CallsSound

(* A vote is added to the results of its proposal.                          *)
LEMMA VoteAdded ==
  ASSUME NEW p, NEW voted, NEW r \in SoundResults(p, voted), NEW v \in Voters,
         NEW approve \in BOOLEAN, approve => <<p, v, TRUE>> \in voted
  PROVE  WithVote(r, v, approve) \in SoundResults(p, voted)
<1>1. CASE v \in DOMAIN r.votes
  BY <1>1 DEF WithVote
<1>2. CASE v \notin DOMAIN r.votes
  <2>1. r \in [votes : Ballots, total : UpgradeStakes]
    BY DEF SoundResults
  <2>2. PICK ballot, total : r.votes = ballot /\ r.total = total
    OBVIOUS
  <2>3. PICK D \in SUBSET Voters : ballot \in [D -> BOOLEAN]
    BY <2>1, <2>2 DEF Ballots
  <2>4. PICK more : more = With(ballot, v, approve)
    OBVIOUS
  <2>5. more \in [D \cup {v} -> BOOLEAN]
    BY <2>3, <2>4 DEF With
  <2>6. more \in Ballots
    BY <2>5 DEF Ballots
  <2>7. /\ WithVote(r, v, approve) \in [votes : Ballots, total : UpgradeStakes]
        /\ WithVote(r, v, approve).votes = more
    BY <1>2, <2>1, <2>2, <2>4, <2>6 DEF WithVote
  <2>8. \A x \in Approvals(WithVote(r, v, approve)) : <<p, x, TRUE>> \in voted
    <3> SUFFICES ASSUME NEW x \in D \cup {v}, more[x] PROVE <<p, x, TRUE>> \in voted
      BY <2>5, <2>7 DEF Approvals
    <3>1. CASE x = v
      BY <2>3, <2>4, <3>1 DEF With
    <3>2. CASE x # v
      BY <2>2, <2>3, <2>4, <3>2 DEF With, SoundResults, Approvals
    <3> QED
      BY <3>1, <3>2
  <2> QED
    BY <2>7, <2>8 DEF SoundResults
<1> QED
  BY <1>1, <1>2

LEMMA NoVotes ==
  ASSUME NEW p, NEW voted, NEW total \in UpgradeStakes
  PROVE  [votes |-> << >>, total |-> total] \in SoundResults(p, voted)
<1>1. << >> \in [{} -> BOOLEAN]
  OBVIOUS
<1>2. PICK none : none = << >> /\ none \in [{} -> BOOLEAN]
  BY <1>1
<1>3. none \in Ballots
  BY <1>2 DEF Ballots
<1>4. Approvals([votes |-> none, total |-> total]) = {}
  BY <1>2 DEF Approvals
<1> QED
  BY <1>2, <1>3, <1>4 DEF SoundResults

LEMMA UpgradeInitInv == UpgradeInit => UpgradeInv
<1> SUFFICES ASSUME UpgradeInit PROVE UpgradeInv
  OBVIOUS
<1>1. DOMAIN << >> = {}
  OBVIOUS
<1>2. PICK none : none = << >> /\ DOMAIN none = {}
  BY <1>1
<1>3. VotesSound /\ ApprovalsSound
  BY <1>2 DEF UpgradeInit, VotesSound, ApprovalsSound
<1>4. CallsSound
  BY IdleSound DEF UpgradeInit, CallsSound
<1> QED
  BY <1>3, <1>4 DEF UpgradeInit, UpgradeInv, VersionBacked, FlagsFollow

(* Sections of a submission, of a vote and of a finalization.               *)
LEMMA SubmissionKeeps ==
  ASSUME UpgradeInv, NEW c \in Calls,
         \/ (\E p \in Proposals : SubmitProposal(c, p)) \/ InsertProposal(c)
         \/ ReadTotalStake(c) \/ InitializeVotes(c)
  PROVE  UpgradeInv'
<1>1. cast \subseteq cast' /\ cast' = cast
  BY DEF SubmitProposal, InsertProposal, ReadTotalStake, InitializeVotes
<1>2. ASSUME NEW p \in Proposals, SubmitProposal(c, p)
      PROVE  UpgradeInv'
  <2>1. PICK call : call = [step |-> "insert", proposal |-> p]
    OBVIOUS
  <2>2. call \in Submissions /\ call.step = "insert" /\ call.proposal \in Proposals
    BY <2>1 DEF Submissions
  <2>3. CallSound(call, protocolVersion, cast) /\ ~Activates(call) /\ ~FlagsNext(calls[c])
    BY <1>2, <2>2 DEF CallSound, Activates, ActivationSteps, FlagsNext, SubmitProposal
  <2>4. /\ To(c, call) /\ votingResults' = votingResults /\ approvedUpgrades' = approvedUpgrades
        /\ protocolVersion' = protocolVersion /\ featureFlags' = featureFlags
        /\ totalStake' = totalStake /\ cycle' = cycle
    BY <1>2, <2>1 DEF SubmitProposal
  <2> QED
    BY <1>1, <2>3, <2>4, TablesKept, QuietUpgradeStep
<1>3. CASE InsertProposal(c)
  <2>1. calls[c] # Idle /\ calls[c].step = "insert"
    BY <1>3 DEF InsertProposal, At
  <2>2. PICK old \in Submissions : old = calls[c]
    BY <2>1, CallOf DEF CallSound
  <2>3. PICK call : call = [old EXCEPT !.step = "initialize"]
    OBVIOUS
  <2>4. call \in Submissions /\ call.step = "initialize" /\ call.proposal \in Proposals
    BY <2>3 DEF Submissions
  <2>5. CallSound(call, protocolVersion, cast) /\ ~Activates(call) /\ ~FlagsNext(calls[c])
    BY <2>1, <2>4 DEF CallSound, Activates, ActivationSteps, FlagsNext
  <2>6. /\ To(c, call) /\ votingResults' = votingResults /\ approvedUpgrades' = approvedUpgrades
        /\ protocolVersion' = protocolVersion /\ featureFlags' = featureFlags
        /\ totalStake' = totalStake /\ cycle' = cycle
    BY <1>3, <2>2, <2>3 DEF InsertProposal, Step
  <2> QED
    BY <1>1, <2>5, <2>6, TablesKept, QuietUpgradeStep
<1>4. CASE ReadTotalStake(c)
  <2>1. calls[c] # Idle /\ calls[c].step = "initialize"
    BY <1>4 DEF ReadTotalStake, At
  <2>2. PICK call : call = [step |-> "votes", proposal |-> calls[c].proposal, total |-> totalStake]
    OBVIOUS
  <2>3. call.step = "votes" /\ call.proposal \in Proposals /\ call.total \in UpgradeStakes
    BY <2>1, <2>2, CallOf DEF CallSound, UpgradeInv
  <2>4. CallSound(call, protocolVersion, cast) /\ ~Activates(call) /\ ~FlagsNext(calls[c])
    BY <2>1, <2>3 DEF CallSound, Activates, ActivationSteps, FlagsNext
  <2>5. /\ To(c, call) /\ votingResults' = votingResults /\ approvedUpgrades' = approvedUpgrades
        /\ protocolVersion' = protocolVersion /\ featureFlags' = featureFlags
        /\ totalStake' = totalStake /\ cycle' = cycle
    BY <1>4, <2>2 DEF ReadTotalStake
  <2> QED
    BY <1>1, <2>4, <2>5, TablesKept, QuietUpgradeStep
<1>5. CASE InitializeVotes(c)
  <2>1. calls[c] # Idle /\ calls[c].step = "votes"
    BY <1>5 DEF InitializeVotes, At
  <2>2. ~FlagsNext(calls[c])
    BY <2>1 DEF FlagsNext
  <2>3. PICK p0 : p0 = calls[c].proposal
    OBVIOUS
  <2>4. PICK r : r = [votes |-> << >>, total |-> calls[c].total]
    OBVIOUS
  <2>a. calls[c].total \in UpgradeStakes
    BY <2>1, CallOf DEF CallSound
  <2>5. r \in SoundResults(p0, cast)
    BY <2>4, <2>a, NoVotes
  <2>6. votingResults' = With(votingResults, p0, r)
    BY <1>5, <2>3, <2>4 DEF InitializeVotes
  <2>7. VotesSound'
    BY <1>1, <2>5, <2>6 DEF VotesSound, With, UpgradeInv
  <2>8. /\ To(c, Idle) /\ approvedUpgrades' = approvedUpgrades
        /\ protocolVersion' = protocolVersion /\ featureFlags' = featureFlags
        /\ totalStake' = totalStake /\ cycle' = cycle
    BY <1>5 DEF InitializeVotes, Done
  <2> QED
    BY <1>1, <2>2, <2>7, <2>8, TablesKept, QuietUpgradeStep, IdleSound
<1> QED
  BY <1>2, <1>3, <1>4, <1>5

LEMMA VotingKeeps ==
  ASSUME UpgradeInv, NEW c \in Calls,
         (\E p \in Proposals, v \in Voters, approve \in BOOLEAN : CastVote(c, p, v, approve))
           \/ AddVote(c)
  PROVE  UpgradeInv'
<1>1. ASSUME NEW p \in Proposals, NEW v \in Voters, NEW approve \in BOOLEAN,
             CastVote(c, p, v, approve)
      PROVE  UpgradeInv'
  <2>1. PICK call : call = [step |-> "add", proposal |-> p, voter |-> v, approve |-> approve]
    OBVIOUS
  <2>2. call.step = "add" /\ call.proposal = p /\ call.voter = v /\ call.approve = approve
    BY <2>1
  <2>3. cast' = cast \cup {<<p, v, approve>>}
    BY <1>1 DEF CastVote
  <2>4. cast \subseteq cast' /\ (approve => <<p, v, TRUE>> \in cast')
    BY <2>3
  <2>5. CallSound(call, protocolVersion, cast') /\ ~Activates(call) /\ ~FlagsNext(calls[c])
    BY <1>1, <2>2, <2>4 DEF CallSound, Activates, ActivationSteps, FlagsNext, CastVote
  <2>6. /\ To(c, call) /\ votingResults' = votingResults /\ approvedUpgrades' = approvedUpgrades
        /\ protocolVersion' = protocolVersion /\ featureFlags' = featureFlags
        /\ totalStake' = totalStake /\ cycle' = cycle
    BY <1>1, <2>1 DEF CastVote
  <2> QED
    BY <2>4, <2>5, <2>6, TablesKept, QuietUpgradeStep
<1>2. CASE AddVote(c)
  <2>1. /\ calls[c] # Idle /\ calls[c].step = "add" /\ cast' = cast /\ cast \subseteq cast'
    BY <1>2 DEF AddVote, At
  <2>2. ~FlagsNext(calls[c])
    BY <2>1 DEF FlagsNext
  <2>3. PICK p0, w, yes : p0 = calls[c].proposal /\ w = calls[c].voter /\ yes = calls[c].approve
    OBVIOUS
  <2>4. w \in Voters /\ yes \in BOOLEAN /\ (yes => <<p0, w, TRUE>> \in cast)
    BY <2>1, <2>3, CallOf DEF CallSound
  <2>5. IF p0 \in DOMAIN votingResults
        THEN votingResults' = [votingResults EXCEPT ![p0] = WithVote(@, w, yes)]
        ELSE votingResults' = votingResults
    BY <1>2, <2>3 DEF AddVote
  <2>6. VotesSound
    BY DEF UpgradeInv
  <2>7. ASSUME NEW q \in DOMAIN (votingResults')
        PROVE  votingResults'[q] \in SoundResults(q, cast)
    <3>1. DOMAIN (votingResults') = DOMAIN votingResults
      BY <2>5
    <3>2. votingResults[q] \in SoundResults(q, cast)
      BY <2>6, <3>1 DEF VotesSound
    <3>3. CASE q = p0
      <4>1. votingResults'[q] = WithVote(votingResults[q], w, yes)
        BY <2>5, <3>1, <3>3
      <4> QED
        BY <2>4, <3>2, <3>3, <4>1, VoteAdded
    <3>4. CASE q # p0
      BY <2>5, <3>1, <3>2, <3>4
    <3> QED
      BY <3>3, <3>4
  <2>8. VotesSound'
    BY <2>1, <2>7 DEF VotesSound
  <2>9. /\ To(c, Idle) /\ approvedUpgrades' = approvedUpgrades
        /\ protocolVersion' = protocolVersion /\ featureFlags' = featureFlags
        /\ totalStake' = totalStake /\ cycle' = cycle
    BY <1>2 DEF AddVote, Done
  <2> QED
    BY <2>1, <2>2, <2>8, <2>9, TablesKept, QuietUpgradeStep, IdleSound
<1> QED
  BY <1>1, <1>2

LEMMA FinalizationKeeps ==
  ASSUME UpgradeInv, NEW c \in Calls,
         (\E p \in Proposals : FinalizeVoting(c, p)) \/ CopyResults(c) \/ ApproveUpgrade(c) \/ RemoveProposal(c)
  PROVE  UpgradeInv'
<1>1. cast \subseteq cast' /\ cast' = cast
  BY DEF FinalizeVoting, CopyResults, ApproveUpgrade, RemoveProposal
<1>2. ASSUME NEW call, call.step \in {"results", "remove"}, call.proposal \in Proposals
      PROVE  CallSound(call, protocolVersion, cast) /\ ~Activates(call)
  BY <1>2 DEF CallSound, Activates, ActivationSteps
<1>3. ASSUME NEW p \in Proposals, FinalizeVoting(c, p)
      PROVE  UpgradeInv'
  <2>1. PICK call : call = [step |-> "results", proposal |-> p]
    OBVIOUS
  <2>2. call.step = "results" /\ call.proposal = p /\ ~FlagsNext(calls[c])
    BY <1>3, <2>1 DEF FinalizeVoting, FlagsNext
  <2>3. /\ To(c, call) /\ votingResults' = votingResults /\ approvedUpgrades' = approvedUpgrades
        /\ protocolVersion' = protocolVersion /\ featureFlags' = featureFlags
        /\ totalStake' = totalStake /\ cycle' = cycle
    BY <1>3, <2>1 DEF FinalizeVoting
  <2> QED
    BY <1>1, <1>2, <2>2, <2>3, TablesKept, QuietUpgradeStep
<1>4. CASE CopyResults(c)
  <2>1. calls[c] # Idle /\ calls[c].step = "results"
    BY <1>4 DEF CopyResults, At
  <2>2. ~FlagsNext(calls[c])
    BY <2>1 DEF FlagsNext
  <2>3. PICK p0 \in Proposals : p0 = calls[c].proposal
    BY <2>1, CallOf DEF CallSound
  <2>4. /\ votingResults' = votingResults /\ approvedUpgrades' = approvedUpgrades
        /\ protocolVersion' = protocolVersion /\ featureFlags' = featureFlags
        /\ totalStake' = totalStake /\ cycle' = cycle
    BY <1>4 DEF CopyResults
  <2>5. CASE p0 \notin DOMAIN votingResults
    <3>1. To(c, Idle)
      BY <1>4, <2>3, <2>5 DEF CopyResults, Done
    <3> QED
      BY <1>1, <2>2, <2>4, <3>1, TablesKept, QuietUpgradeStep, IdleSound
  <2>6. CASE p0 \in DOMAIN votingResults /\ Reached(votingResults[p0])
    <3>1. PICK r : r = votingResults[p0]
      OBVIOUS
    <3>2. r \in SoundResults(p0, cast) /\ Reached(r)
      BY <2>6, <3>1 DEF UpgradeInv, VotesSound
    <3>3. PICK call : call = [step |-> "approve", proposal |-> p0, results |-> r]
      OBVIOUS
    <3>4. call.step = "approve" /\ call.proposal = p0 /\ call.results = r
      BY <3>3
    <3>5. CallSound(call, protocolVersion, cast) /\ ~Activates(call)
      BY <3>2, <3>4 DEF CallSound, Activates, ActivationSteps, ApprovedSoundly
    <3>6. To(c, call)
      BY <1>4, <2>3, <2>6, <3>1, <3>3 DEF CopyResults
    <3> QED
      BY <1>1, <2>2, <2>4, <3>5, <3>6, TablesKept, QuietUpgradeStep
  <2>7. CASE p0 \in DOMAIN votingResults /\ ~Reached(votingResults[p0])
    <3>1. PICK call : call = [step |-> "remove", proposal |-> p0]
      OBVIOUS
    <3>2. call.step = "remove" /\ call.proposal \in Proposals
      BY <3>1
    <3>3. To(c, call)
      BY <1>4, <2>3, <2>7, <3>1 DEF CopyResults
    <3> QED
      BY <1>1, <1>2, <2>2, <2>4, <3>2, <3>3, TablesKept, QuietUpgradeStep
  <2> QED
    BY <2>5, <2>6, <2>7
<1>5. CASE ApproveUpgrade(c)
  <2>1. calls[c] # Idle /\ calls[c].step = "approve"
    BY <1>5 DEF ApproveUpgrade, At
  <2>2. ~FlagsNext(calls[c])
    BY <2>1 DEF FlagsNext
  <2>3. PICK p0, r, n : p0 = calls[c].proposal /\ r = calls[c].results /\ n = ActivationCycle(p0)
    OBVIOUS
  <2>4. ApprovedSoundly(calls[c], cast)
    BY <2>1, CallOf DEF CallSound
  <2>5. PICK a : a = [proposal |-> p0, results |-> r]
    OBVIOUS
  <2>6. ApprovedSoundly(a, cast)
    BY <2>3, <2>4, <2>5 DEF ApprovedSoundly
  <2>7. approvedUpgrades' = With(approvedUpgrades, n, a)
    BY <1>5, <2>3, <2>5 DEF ApproveUpgrade
  <2>8. ASSUME NEW m \in DOMAIN (approvedUpgrades')
        PROVE  ApprovedSoundly(approvedUpgrades'[m], cast)
    <3>1. m = n \/ m \in DOMAIN approvedUpgrades
      BY <2>7 DEF With
    <3>2. CASE m = n
      BY <2>6, <2>7, <3>2 DEF With
    <3>3. CASE m # n
      <4>1. approvedUpgrades'[m] = approvedUpgrades[m]
        BY <2>7, <3>1, <3>3 DEF With
      <4> QED
        BY <3>1, <3>3, <4>1 DEF UpgradeInv, ApprovalsSound
    <3> QED
      BY <3>2, <3>3
  <2>9. ApprovalsSound'
    BY <1>1, <2>8 DEF ApprovalsSound, ApprovedSoundly
  <2>10. PICK call : call = [step |-> "remove", proposal |-> p0]
    OBVIOUS
  <2>11. call.step = "remove" /\ call.proposal \in Proposals
    BY <2>3, <2>4, <2>10 DEF ApprovedSoundly
  <2>12. /\ To(c, call) /\ votingResults' = votingResults
         /\ protocolVersion' = protocolVersion /\ featureFlags' = featureFlags
         /\ totalStake' = totalStake /\ cycle' = cycle
    BY <1>5, <2>3, <2>10 DEF ApproveUpgrade
  <2> QED
    BY <1>1, <1>2, <2>2, <2>9, <2>11, <2>12, TablesKept, QuietUpgradeStep
<1>6. CASE RemoveProposal(c)
  <2>1. calls[c] # Idle /\ calls[c].step = "remove"
    BY <1>6 DEF RemoveProposal, At
  <2>2. ~FlagsNext(calls[c])
    BY <2>1 DEF FlagsNext
  <2>3. /\ To(c, Idle) /\ votingResults' = votingResults /\ approvedUpgrades' = approvedUpgrades
        /\ protocolVersion' = protocolVersion /\ featureFlags' = featureFlags
        /\ totalStake' = totalStake /\ cycle' = cycle
    BY <1>6 DEF RemoveProposal, Done
  <2> QED
    BY <1>1, <2>2, <2>3, TablesKept, QuietUpgradeStep, IdleSound
<1> QED
  BY <1>3, <1>4, <1>5, <1>6

LEMMA ActivationKeeps ==
  ASSUME UpgradeInv, NEW c \in Calls,
         ActivateUpgrade(c) \/ SetVersion(c) \/ SetFlags(c) \/ ClearApproved(c)
  PROVE  UpgradeInv'
<1>1. /\ cast \subseteq cast' /\ cast' = cast /\ votingResults' = votingResults
      /\ totalStake' = totalStake /\ cycle' = cycle
  BY DEF ActivateUpgrade, SetVersion, SetFlags, ClearApproved
<1>2. CASE ActivateUpgrade(c)
  <2>1. calls[c] = Idle /\ ~Activating /\ cycle \in DOMAIN approvedUpgrades
    BY <1>2 DEF ActivateUpgrade
  <2>2. ~FlagsNext(calls[c])
    BY <2>1 DEF FlagsNext
  <2>3. PICK p : p = approvedUpgrades[cycle].proposal
    OBVIOUS
  <2>4. PICK a : a = approvedUpgrades[cycle]
    OBVIOUS
  <2>5. ApprovedSoundly(a, cast) /\ a.proposal = p
    BY <2>1, <2>3, <2>4 DEF UpgradeInv, ApprovalsSound
  <2>6. p \in Proposals /\ Backed(p, cast)
    BY <2>5, ReachedBacks DEF ApprovedSoundly
  <2>7. PICK call : call = [step |-> "version", proposal |-> p, at |-> cycle]
    OBVIOUS
  <2>8. call \in Activations /\ call.step = "version" /\ call.proposal = p
    BY <2>6, <2>7 DEF Activations, ActivationSteps, UpgradeInv
  <2>9. CallSound(call, protocolVersion, cast)
    BY <2>6, <2>8 DEF CallSound
  <2>10. /\ To(c, call) /\ approvedUpgrades' = approvedUpgrades
         /\ protocolVersion' = protocolVersion /\ featureFlags' = featureFlags
    BY <1>2, <2>3, <2>7 DEF ActivateUpgrade
  <2> QED
    BY <1>1, <2>1, <2>2, <2>9, <2>10, TablesKept, QuietUpgradeStep
<1>3. CASE SetVersion(c)
  <2>1. calls[c] # Idle /\ calls[c].step = "version"
    BY <1>3 DEF SetVersion, At
  <2>2. PICK old \in Activations : old = calls[c]
    BY <2>1, CallOf DEF CallSound, ActivationSteps
  <2>3. Backed(old.proposal, cast) /\ Activates(calls[c])
    BY <2>1, <2>2, CallOf DEF CallSound, ActivationSteps, Activates
  <2>4. PICK call : call = [old EXCEPT !.step = "flags"]
    OBVIOUS
  <2>5. call \in Activations /\ call.step = "flags"
        /\ call.proposal = old.proposal /\ call.proposal \in Proposals
    BY <2>4 DEF Activations, ActivationSteps
  <2>6. /\ To(c, call) /\ protocolVersion' = old.proposal /\ featureFlags' = featureFlags
        /\ approvedUpgrades' = approvedUpgrades
    BY <1>3, <2>2, <2>4 DEF SetVersion, Step
  <2>7. CallSound(call, protocolVersion', cast')
    BY <1>1, <2>3, <2>5, <2>6 DEF CallSound
  <2>8. CallsSound'
    BY <1>1, <2>3, <2>6, <2>7, UpgradeCallSteps DEF UpgradeInv
  <2>9. call # Idle
    <3>1. call \in [step : {"version", "flags", "clear"}, proposal : Proposals, at : Nat]
      BY <2>5 DEF Activations, ActivationSteps
    <3> QED
      BY <3>1, UpgradeAssumption
  <2>10. FlagsFollow'
    <3>1. calls'[c] = call
      BY <2>6 DEF To, UpgradeInv, CallsSound
    <3> QED
      BY <2>5, <2>9, <3>1 DEF FlagsFollow, FlagsNext
  <2>11. VersionBacked'
    BY <1>1, <2>3, <2>6 DEF VersionBacked, Backed
  <2>12. VotesSound' /\ ApprovalsSound'
    BY <1>1, <2>6, TablesKept
  <2> QED
    BY <1>1, <2>8, <2>10, <2>11, <2>12 DEF UpgradeInv
<1>4. CASE SetFlags(c)
  <2>1. calls[c] # Idle /\ calls[c].step = "flags"
    BY <1>4 DEF SetFlags, At
  <2>2. PICK old \in Activations : old = calls[c]
    BY <2>1, CallOf DEF CallSound, ActivationSteps
  <2>3. Backed(old.proposal, cast) /\ Activates(calls[c]) /\ protocolVersion = old.proposal
    BY <2>1, <2>2, CallOf DEF CallSound, ActivationSteps, Activates
  <2>4. PICK call : call = [old EXCEPT !.step = "clear"]
    OBVIOUS
  <2>5. call \in Activations /\ call.step = "clear"
        /\ call.proposal = old.proposal /\ call.proposal \in Proposals
    BY <2>4 DEF Activations, ActivationSteps
  <2>6. /\ To(c, call) /\ protocolVersion' = protocolVersion /\ featureFlags' = old.proposal
        /\ approvedUpgrades' = approvedUpgrades
    BY <1>4, <2>2, <2>4 DEF SetFlags, Step
  <2>7. CallSound(call, protocolVersion', cast')
    BY <1>1, <2>3, <2>5 DEF CallSound
  <2>8. CallsSound'
    BY <1>1, <2>3, <2>6, <2>7, UpgradeCallSteps DEF UpgradeInv
  <2>9. FlagsFollow'
    BY <2>3, <2>6 DEF FlagsFollow
  <2>10. VersionBacked'
    BY <1>1, <2>6 DEF VersionBacked, Backed, UpgradeInv
  <2>11. VotesSound' /\ ApprovalsSound'
    BY <1>1, <2>6, TablesKept
  <2> QED
    BY <1>1, <2>8, <2>9, <2>10, <2>11 DEF UpgradeInv
<1>5. CASE ClearApproved(c)
  <2>1. calls[c] # Idle /\ calls[c].step = "clear"
    BY <1>5 DEF ClearApproved, At
  <2>2. ~FlagsNext(calls[c])
    BY <2>1 DEF FlagsNext
  <2>3. approvedUpgrades' = [n \in DOMAIN approvedUpgrades \ {calls[c].at} |-> approvedUpgrades[n]]
    BY <1>5 DEF ClearApproved
  <2>4. ApprovalsSound
    BY DEF UpgradeInv
  <2>5. \A n \in DOMAIN (approvedUpgrades') : ApprovedSoundly(approvedUpgrades'[n], cast)
    BY <2>3, <2>4 DEF ApprovalsSound
  <2>6. ApprovalsSound'
    BY <1>1, <2>5 DEF ApprovalsSound, ApprovedSoundly
  <2>7. To(c, Idle) /\ protocolVersion' = protocolVersion /\ featureFlags' = featureFlags
    BY <1>5 DEF ClearApproved, Done
  <2> QED
    BY <1>1, <2>2, <2>6, <2>7, TablesKept, QuietUpgradeStep, IdleSound
<1> QED
  BY <1>2, <1>3, <1>4, <1>5

LEMMA UpgradeNextInv == UpgradeInv /\ [UpgradeNext]_upgradeVars => UpgradeInv'
<1> SUFFICES ASSUME UpgradeInv, [UpgradeNext]_upgradeVars PROVE UpgradeInv'
  OBVIOUS
<1>1. ASSUME calls' = calls, cast' = cast, votingResults' = votingResults,
             approvedUpgrades' = approvedUpgrades, protocolVersion' = protocolVersion,
             featureFlags' = featureFlags, totalStake' \in UpgradeStakes, cycle' \in Nat
      PROVE  UpgradeInv'
  <2>1. VotesSound' /\ ApprovalsSound'
    BY <1>1, TablesKept
  <2>2. CallsSound'
    BY <1>1 DEF UpgradeInv, CallsSound, Activates
  <2>3. VersionBacked' /\ FlagsFollow'
    BY <1>1 DEF UpgradeInv, VersionBacked, FlagsFollow, FlagsNext, Backed
  <2> QED
    BY <1>1, <2>1, <2>2, <2>3 DEF UpgradeInv
<1>2. ASSUME NEW stake \in UpgradeStakes, UpdateTotalStake(stake)
      PROVE  UpgradeInv'
  BY <1>1, <1>2 DEF UpdateTotalStake, UpgradeInv
<1>3. CASE NextCycle
  BY <1>1, <1>3 DEF NextCycle, UpgradeInv
<1>4. CASE UNCHANGED upgradeVars
  BY <1>1, <1>4 DEF upgradeVars, UpgradeInv
<1>5. ASSUME NEW c \in Calls,
             \/ \E p \in Proposals : SubmitProposal(c, p)
             \/ InsertProposal(c) \/ ReadTotalStake(c) \/ InitializeVotes(c)
      PROVE  UpgradeInv'
  BY <1>5, SubmissionKeeps
<1>6. ASSUME NEW c \in Calls,
             \/ \E p \in Proposals, v \in Voters, approve \in BOOLEAN : CastVote(c, p, v, approve)
             \/ AddVote(c)
      PROVE  UpgradeInv'
  BY <1>6, VotingKeeps
<1>7. ASSUME NEW c \in Calls,
             \/ \E p \in Proposals : FinalizeVoting(c, p)
             \/ CopyResults(c) \/ ApproveUpgrade(c) \/ RemoveProposal(c)
      PROVE  UpgradeInv'
  BY <1>7, FinalizationKeeps
<1> QED
  BY <1>2, <1>3, <1>4, <1>5, <1>6, <1>7, ActivationKeeps DEF UpgradeNext

(* With any voters and stakes, and calls between the sections of others, an *)
(* upgrade that is approved or active has the votes of a quorum of          *)
(* different voters, cast while voting on it was open, and but during an    *)
(* activation version and flags agree.                                      *)
THEOREM UpgradesAreApproved == UpgradeSpec => []UpgradesApproved
<1>1. ASSUME UpgradeInv PROVE UpgradesApproved
  <2>1. \A n \in DOMAIN approvedUpgrades :
          /\ Reached(approvedUpgrades[n].results)
          /\ \A v \in Approvals(approvedUpgrades[n].results) :
               <<approvedUpgrades[n].proposal, v, TRUE>> \in cast
    BY <1>1 DEF UpgradeInv, ApprovalsSound, ApprovedSoundly, SoundResults
  <2>2. ~Activating => protocolVersion = featureFlags
    BY <1>1 DEF UpgradeInv, FlagsFollow, FlagsNext, Activating, At
  <2>3. protocolVersion # Genesis => Backed(protocolVersion, cast)
    BY <1>1 DEF UpgradeInv, VersionBacked
  <2> QED
    BY <2>1, <2>2, <2>3 DEF UpgradesApproved, Backed
<1> QED
  BY <1>1, UpgradeInitInv, UpgradeNextInv, PTL DEF UpgradeSpec
=============================================================================
