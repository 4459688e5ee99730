--------------------------- MODULE ReplicasProofs ---------------------------
(***************************************************************************)
(* Convergence of the replicated vault, what a deletion resists and when a *)
(* local write takes effect, for any devices, records, fields, shares and  *)
(* number of writes.                                                       *)
(*                                                                         *)
(* StrongConvergence is not inductive: it says nothing of devices that     *)
(* have folded different sets.  The inductive invariant says what a state  *)
(* is, the join of the folded snapshots, and why that join is unique: a    *)
(* clock names one write, because a device's counter is at or past every   *)
(* clock it has ever written.                                              *)
(*                                                                         *)
(* LamportCoversState is not inductive either: a replay shows again what   *)
(* only the log remembers.  ReadInv speaks of the log and of the keys.     *)
(*                                                                         *)
(* Replicas delivers in any order; the last two parts say what the order   *)
(* of Transport adds: the counter of a reader then covers the fields, too, *)
(* since the snapshots they were written in are in its log.                *)
(***************************************************************************)
EXTENDS Replicas, MergeProofs

\* The snapshots of record i a device has folded.
FoldedOf(d, i) == {r \in folded[d] : r.id = i}

\* The writing device has counted up to the clock.
Counted(c) == c.lamport <= lamport[c.device]

\* Every clock of every snapshot has been counted by its device.
ClocksCounted ==
  \A r \in entries :
    /\ Counted(r.clock)
    /\ \A n \in Names : r.fields[n] # None => Counted(r.fields[n].clock)

\* The state of a device is the join of what it folded, record by record.
StateIsJoin ==
  \A d \in Devices, i \in Ids :
    IF FoldedOf(d, i) = {} THEN state[d][i] = None
    ELSE IsJoin(state[d][i], FoldedOf(d, i))

IInv == TypeOK /\ ClocksCounted /\ ClockNamesOneWrite /\ StateIsJoin

----------------------------------------------------------------------------
(* Folding one more snapshot keeps the state a join *)

\* Folding one more snapshot (append, apply_remote_entry, replay_log) keeps
\* the state the join of what was folded.
LEMMA FoldStep ==
  ASSUME TypeOK, StateIsJoin, NEW d \in Devices, NEW r \in Record,
         folded' = [folded EXCEPT ![d] = @ \cup {r}],
         state' = [state EXCEPT ![d][r.id] = MergeInto(@, r)]
  PROVE  StateIsJoin' /\ state' \in [Devices -> [Ids -> Record \cup {None}]]
  <1>0. r.id \in Ids
    BY DEF Record
  <1>1. ASSUME NEW e \in Devices, NEW i \in Ids, e # d \/ i # r.id
        PROVE  FoldedOf(e, i)' = FoldedOf(e, i) /\ state'[e][i] = state[e][i]
    BY <1>1 DEF FoldedOf, TypeOK
  <1>2. FoldedOf(d, r.id)' = FoldedOf(d, r.id) \cup {r}
    BY DEF FoldedOf, TypeOK
  <1>3. state'[d][r.id] = MergeInto(state[d][r.id], r)
    BY <1>0 DEF TypeOK
  <1>4. FoldedOf(d, r.id) \in SUBSET Record
    BY DEF FoldedOf, TypeOK
  <1>5. IsJoin(state'[d][r.id], FoldedOf(d, r.id)')
    <2>1. CASE FoldedOf(d, r.id) = {}
      <3>1. state[d][r.id] = None
        BY <2>1, <1>0 DEF StateIsJoin
      <3>2. FoldedOf(d, r.id)' = {r}
        BY <1>2, <2>1
      <3> QED BY <3>1, <3>2, <1>3, JoinSingle DEF MergeInto
    <2>2. CASE FoldedOf(d, r.id) # {}
      <3>1. IsJoin(state[d][r.id], FoldedOf(d, r.id))
        BY <2>2, <1>0 DEF StateIsJoin
      <3>2. state[d][r.id] # None
        BY <3>1, NoneAssumption DEF IsJoin
      <3>3. r.id = state[d][r.id].id
        BY <3>1, <2>2 DEF IsJoin, FoldedOf
      <3>4. IsJoin(Merge(state[d][r.id], r), FoldedOf(d, r.id) \cup {r})
        BY <3>1, <3>3, <1>4, JoinMerge
      <3> QED BY <3>2, <3>4, <1>2, <1>3 DEF MergeInto
    <2> QED BY <2>1, <2>2
  <1>6. FoldedOf(d, r.id)' # {}
    BY <1>2
  <1>7. StateIsJoin'
    <2> SUFFICES ASSUME NEW e \in Devices, NEW i \in Ids
                 PROVE  IF FoldedOf(e, i)' = {} THEN state'[e][i] = None
                        ELSE IsJoin(state'[e][i], FoldedOf(e, i)')
      BY DEF StateIsJoin
    <2>1. CASE e = d /\ i = r.id
      BY <2>1, <1>5, <1>6
    <2>2. CASE e # d \/ i # r.id
      <3>1. IF FoldedOf(e, i) = {} THEN state[e][i] = None
            ELSE IsJoin(state[e][i], FoldedOf(e, i))
        BY DEF StateIsJoin
      <3> QED BY <3>1, <2>2, <1>1
    <2> QED BY <2>1, <2>2
  <1>8. state'[d][r.id] \in Record
    BY <1>5 DEF IsJoin
  <1>9. MergeInto(state[d][r.id], r) \in Record
    BY <1>3, <1>8
  <1>10. state' \in [Devices -> [Ids -> Record \cup {None}]]
    BY <1>9, <1>0 DEF TypeOK
  <1> QED BY <1>7, <1>10

----------------------------------------------------------------------------
(* Appending a local snapshot *)

\* next_clock returns a clock that no snapshot and no field carries yet.
LEMMA NextClockFresh ==
  ASSUME TypeOK, NEW d \in Devices
  PROVE  /\ NextClock(d) \in Clock
         /\ \A c \in Clock : Counted(c) => c # NextClock(d)
  BY DEF TypeOK, NextClock, Clock, Counted

\* What the snapshot of a mutation looks like: it has the next clock, and every
\* field either has that clock too or is carried over from the record as the
\* device shows it; a tombstone has no fields and deletes at the next clock.
Wrote(d, r) ==
  /\ r.clock = NextClock(d)
  /\ \A n \in Names : r.fields[n] # None =>
       \/ r.fields[n].clock = NextClock(d)
       \/ state[d][r.id] # None /\ r.fields[n] = state[d][r.id].fields[n]
  /\ r.kind = Tombstone =>
       r.deleted_at = NextClock(d) /\ \A n \in Names : r.fields[n] = None
  /\ Append(d, r)

\* A record the state shows comes, field by field, from snapshots of that record
\* that were written.
LEMMA FoldedType ==
  ASSUME IInv, NEW d \in Devices, NEW i \in Ids, state[d][i] # None
  PROVE  /\ state[d][i] \in Record
         /\ state[d][i].id = i
         /\ \A n \in Names : \E s \in entries :
              s.id = i /\ s.fields[n] = state[d][i].fields[n]
  <1>1. FoldedOf(d, i) # {} /\ IsJoin(state[d][i], FoldedOf(d, i))
    BY DEF IInv, StateIsJoin
  <1>2. FoldedOf(d, i) \subseteq entries /\ \A s \in FoldedOf(d, i) : s.id = i
    BY DEF FoldedOf, IInv, TypeOK
  <1> QED BY <1>1, <1>2 DEF IsJoin

\* A mutation preserves the inductive invariant: its own clock is new, and a
\* field it carries over keeps the clock of the very write it carries.
LEMMA AppendStep ==
  ASSUME IInv, NEW d \in Devices, NEW r \in Record, Wrote(d, r)
  PROVE  IInv'
  <1>a. /\ r.clock = NextClock(d) /\ Append(d, r)
        /\ \A n \in Names : r.fields[n] # None =>
             \/ r.fields[n].clock = NextClock(d)
             \/ \E s \in entries : s.id = r.id /\ s.fields[n] = r.fields[n]
    <2>1. r.id \in Ids
      BY DEF Record
    <2> QED BY <2>1, FoldedType DEF Wrote
  <1> USE <1>a DEF IInv
  <1>0. lamport' = [lamport EXCEPT ![d] = lamport[d] + 1]
    BY DEF Append, NextClock
  <1>1. StateIsJoin' /\ state' \in [Devices -> [Ids -> Record \cup {None}]]
    BY FoldStep DEF Append
  <1>2. TypeOK'
    BY <1>0, <1>1 DEF TypeOK, Append
  <1>3. \A s \in Record :
          /\ s.clock \in Clock
          /\ \A n \in Names : s.fields[n] # None => s.fields[n].clock \in Clock
    BY DEF Record, FieldMap, Field
  <1>4. \A c \in Clock : c.lamport <= lamport[c.device] => c.lamport <= lamport'[c.device]
    BY <1>0 DEF TypeOK, Clock
  <1>5. Counted(r.clock)'
    <2>1. lamport'[d] = lamport[d] + 1 /\ lamport[d] \in Nat
      BY <1>0 DEF TypeOK
    <2>2. r.clock.lamport = lamport[d] + 1 /\ r.clock.device = d
      BY DEF NextClock
    <2> QED BY <2>1, <2>2 DEF Counted
  <1>6. entries' = entries \cup {r} /\ entries \subseteq Record
    BY DEF Append, TypeOK
  <1>7. ClocksCounted'
    <2> SUFFICES ASSUME NEW s \in entries'
                 PROVE  /\ Counted(s.clock)'
                        /\ \A n \in Names : s.fields[n] # None => Counted(s.fields[n].clock)'
      BY DEF ClocksCounted
    <2>1. CASE s \in entries
      BY <2>1, <1>3, <1>4, <1>6 DEF ClocksCounted, Counted
    <2>2. CASE s = r
      <3>1. ASSUME NEW n \in Names, r.fields[n] # None
            PROVE  Counted(r.fields[n].clock)'
        <4>1. CASE r.fields[n].clock = NextClock(d)
          BY <4>1, <1>5
        <4>2. CASE \E t \in entries : t.id = r.id /\ t.fields[n] = r.fields[n]
          BY <4>2, <3>1, <1>3, <1>4, <1>6 DEF ClocksCounted, Counted
        <4> QED BY <3>1, <4>1, <4>2
      <3> QED BY <2>2, <3>1, <1>5
    <2> QED BY <2>1, <2>2, <1>6
  <1>8. ASSUME NEW s \in entries
        PROVE  /\ r.clock # s.clock
               /\ r.id = s.id =>
                    \A n \in Keys(r.fields) \cap Keys(s.fields) :
                      r.fields[n].clock = s.fields[n].clock => r.fields[n] = s.fields[n]
    <2>0. s \in Record
      BY <1>6
    <2>1. r.clock # s.clock
      BY <2>0, <1>3, NextClockFresh DEF ClocksCounted, Record
    <2>2. ASSUME r.id = s.id, NEW n \in Keys(r.fields) \cap Keys(s.fields),
                 r.fields[n].clock = s.fields[n].clock
          PROVE  r.fields[n] = s.fields[n]
      <3>0. n \in Names /\ r.fields[n] # None /\ s.fields[n] # None
        BY DEF Keys
      <3>1. Counted(s.fields[n].clock) /\ s.fields[n].clock \in Clock
        BY <3>0, <2>0, <1>3 DEF ClocksCounted
      <3>2. PICK t \in entries : t.id = r.id /\ t.fields[n] = r.fields[n]
        BY <3>0, <3>1, <2>2, NextClockFresh
      <3>3. n \in Keys(t.fields) \cap Keys(s.fields)
        BY <3>0, <3>2 DEF Keys
      <3> QED BY <2>2, <3>2, <3>3 DEF ClockNamesOneWrite
    <2> QED BY <2>1, <2>2
  <1>9. ClockNamesOneWrite'
    <2> SUFFICES ASSUME NEW a \in entries', NEW b \in entries'
                 PROVE  /\ a.clock = b.clock => a = b
                        /\ a.id = b.id =>
                             \A n \in Keys(a.fields) \cap Keys(b.fields) :
                               a.fields[n].clock = b.fields[n].clock => a.fields[n] = b.fields[n]
      BY DEF ClockNamesOneWrite
    <2>1. CASE a \in entries /\ b \in entries
      BY <2>1 DEF ClockNamesOneWrite
    <2>2. CASE a = r /\ b \in entries
      BY <2>2, <1>8
    <2>3. CASE a \in entries /\ b = r
      BY <2>3, <1>8
    <2>4. CASE a = r /\ b = r
      BY <2>4
    <2> QED BY <2>1, <2>2, <2>3, <2>4, <1>6
  <1> QED BY <1>1, <1>2, <1>7, <1>9

----------------------------------------------------------------------------
(* The actions *)

\* add_in writes a record the device knows nothing of.
LEMMA AddInWrites ==
  ASSUME IInv, NEW d \in Devices, NEW id \in Ids, NEW kind \in AddKinds,
         NEW payload \in Payloads, NEW share \in Shares,
         AddIn(d, id, kind, payload, share)
  PROVE  \E r \in Record : Wrote(d, r)
  <1> DEFINE r == NewRecord(d, id, kind, payload, share)
  <1>1. NextClock(d) \in Clock
    BY NextClockFresh DEF IInv
  <1>2. FieldsFromPayload(payload, NextClock(d)) \in FieldMap
    BY <1>1 DEF FieldsFromPayload, FieldMap, Field, Payloads
  <1>3. r \in Record
    BY <1>1, <1>2, ReplicasAssumption DEF NewRecord, Record
  <1>4. \A n \in Names : r.fields[n] # None => r.fields[n].clock = NextClock(d)
    BY DEF NewRecord, FieldsFromPayload
  <1>5. r.clock = NextClock(d) /\ Append(d, r)
    BY DEF NewRecord, AddIn
  <1>6. r.kind # Tombstone
    BY ReplicasAssumption DEF NewRecord
  <1> HIDE DEF r
  <1> QED BY <1>3, <1>4, <1>5, <1>6 DEF Wrote

\* edit carries the fields it does not change over, clocks included.
LEMMA EditWrites ==
  ASSUME IInv, NEW d \in Devices, NEW id \in Ids, NEW changes \in Payloads,
         Edit(d, id, changes)
  PROVE  \E r \in Record : Wrote(d, r)
  <1> DEFINE old == state[d][id]
             payload == [n \in Names |->
                           IF changes[n] # None THEN changes[n] ELSE Payload(old)[n]]
             r == EditedRecord(d, old, payload)
  <1>0. old # None
    BY DEF Edit, Find
  <1>1. old \in Record /\ old.id = id
    BY <1>0, FoldedType
  <1>2. NextClock(d) \in Clock
    BY NextClockFresh DEF IInv
  <1>3. payload \in Payloads
    BY <1>1 DEF Payloads, Payload, Record, FieldMap, Field
  <1>4. r.fields \in FieldMap
    <2>1. FieldsFromPayload(payload, NextClock(d)) \in FieldMap
      BY <1>2, <1>3 DEF FieldsFromPayload, FieldMap, Field, Payloads
    <2> HIDE DEF payload, old
    <2>2. old.fields \in FieldMap
      BY <1>1 DEF Record
    <2> QED BY <2>1, <2>2 DEF EditedRecord, FieldMap
  <1>5. r.clock = NextClock(d) /\ Append(d, r)
    BY DEF EditedRecord, Edit
  <1>6. r \in Record
    BY <1>1, <1>2, <1>4 DEF EditedRecord, Record
  <1>7. r.id = id
    BY <1>1 DEF EditedRecord
  <1>8. ASSUME NEW n \in Names, r.fields[n] # None
        PROVE  \/ r.fields[n].clock = NextClock(d)
               \/ r.fields[n] = old.fields[n]
    <2> HIDE DEF payload, old
    <2>1. \/ r.fields[n] = old.fields[n]
          \/ r.fields[n] = FieldsFromPayload(payload, NextClock(d))[n]
      BY DEF EditedRecord
    <2>2. CASE r.fields[n] = FieldsFromPayload(payload, NextClock(d))[n]
      BY <2>2, <1>8 DEF FieldsFromPayload
    <2> QED BY <2>1, <2>2
  <1>9. r.kind # Tombstone
    BY ReplicasAssumption DEF EditedRecord, Edit, Find
  <1> HIDE DEF r
  <1> QED BY <1>0, <1>5, <1>6, <1>7, <1>8, <1>9 DEF Wrote

\* remove writes a tombstone.
LEMMA RemoveWrites ==
  ASSUME IInv, NEW d \in Devices, NEW id \in Ids, Remove(d, id)
  PROVE  \E r \in Record : Wrote(d, r)
  <1> DEFINE old == state[d][id]
             r == TombstoneRecord(d, old)
  <1>0. old # None
    BY DEF Remove, Find
  <1>1. old \in Record
    BY <1>0, FoldedType
  <1>2. NextClock(d) \in Clock
    BY NextClockFresh DEF IInv
  <1>3. r \in Record
    BY <1>1, <1>2 DEF TombstoneRecord, Record, FieldMap, Kinds, Tombstone
  <1>4. \A n \in Names : r.fields[n] = None
    BY DEF TombstoneRecord
  <1>5. r.clock = NextClock(d) /\ r.deleted_at = NextClock(d) /\ Append(d, r)
    BY DEF TombstoneRecord, Remove
  <1> HIDE DEF r
  <1> QED BY <1>3, <1>4, <1>5 DEF Wrote

\* The steps of the vault, the three mutations taken together.
LEMMA Steps ==
  ASSUME IInv, Next
  PROVE  \E d \in Devices :
           \/ \E r \in Record : Wrote(d, r)
           \/ \E r \in entries : ApplyRemoteEntry(d, r)
           \/ \E share \in Shares : AbsorbShareKey(d, share)
           \/ Reload(d)
           \/ \E r \in entries : FoldFrame(d, r)
           \/ ReplayDone(d)
  BY AddInWrites, EditWrites, RemoveWrites DEF Next

\* Steps that write no snapshot and move no counter back.
LEMMA NoWrite ==
  ASSUME IInv, entries' = entries, lamport' \in [Devices -> Nat],
         \A d \in Devices : lamport[d] <= lamport'[d]
  PROVE  ClocksCounted' /\ ClockNamesOneWrite'
  <1>1. \A c \in Clock : c.lamport <= lamport[c.device] => c.lamport <= lamport'[c.device]
    BY DEF IInv, TypeOK, Clock
  <1>2. \A s \in entries :
          /\ s.clock \in Clock
          /\ \A n \in Names : s.fields[n] # None => s.fields[n].clock \in Clock
    BY DEF IInv, TypeOK, Record, FieldMap, Field
  <1>3. ClocksCounted'
    BY <1>1, <1>2 DEF ClocksCounted, Counted, IInv
  <1>4. ClockNamesOneWrite'
    BY DEF ClockNamesOneWrite, IInv
  <1> QED BY <1>3, <1>4

\* apply_remote_entry preserves the inductive invariant, whether or not the
\* frame opens.
LEMMA ApplyRemoteEntryStep ==
  ASSUME IInv, NEW d \in Devices, NEW r \in entries, ApplyRemoteEntry(d, r)
  PROVE  IInv'
  <1>0. r \in Record /\ r.clock.lamport \in Nat
    BY DEF IInv, TypeOK, Record, Clock
  <1>1. CASE Opens(d, r)
    <2>1. StateIsJoin' /\ state' \in [Devices -> [Ids -> Record \cup {None}]]
      BY <1>0, <1>1, FoldStep DEF IInv, ApplyRemoteEntry
    <2>2. lamport' \in [Devices -> Nat] /\ \A e \in Devices : lamport[e] <= lamport'[e]
      <3>1. lamport' = [lamport EXCEPT
                          ![d] = IF r.clock.lamport > @ THEN r.clock.lamport ELSE @]
        BY <1>1 DEF ApplyRemoteEntry
      <3>2. lamport \in [Devices -> Nat]
        BY DEF IInv, TypeOK
      <3> QED BY <1>0, <3>1, <3>2
    <2>3. TypeOK'
      BY <2>1, <2>2, <1>1 DEF IInv, TypeOK, ApplyRemoteEntry
    <2>4. ClocksCounted' /\ ClockNamesOneWrite'
      BY <2>2, NoWrite DEF ApplyRemoteEntry
    <2> QED BY <2>1, <2>3, <2>4 DEF IInv
  <1>2. CASE ~Opens(d, r)
    <2>1. TypeOK'
      BY <1>2 DEF IInv, TypeOK, ApplyRemoteEntry
    <2>2. UNCHANGED <<entries, folded, state, lamport>>
      BY <1>2 DEF ApplyRemoteEntry
    <2>3. StateIsJoin'
      BY <2>2 DEF IInv, StateIsJoin, FoldedOf
    <2>4. ClocksCounted' /\ ClockNamesOneWrite'
      BY <2>2, NoWrite DEF IInv, TypeOK
    <2> QED BY <2>1, <2>3, <2>4 DEF IInv
  <1> QED BY <1>1, <1>2

\* An iteration of replay_log preserves the inductive invariant.
LEMMA FoldFrameStep ==
  ASSUME IInv, NEW d \in Devices, NEW r \in entries, FoldFrame(d, r)
  PROVE  IInv'
  <1>0. r \in Record
    BY DEF IInv, TypeOK
  <1>1. StateIsJoin' /\ state' \in [Devices -> [Ids -> Record \cup {None}]]
    BY <1>0, FoldStep DEF IInv, FoldFrame
  <1>2. TypeOK'
    BY <1>1 DEF IInv, TypeOK, FoldFrame
  <1>3. ClocksCounted' /\ ClockNamesOneWrite'
    BY NoWrite DEF IInv, TypeOK, FoldFrame
  <1> QED BY <1>1, <1>2, <1>3 DEF IInv

\* Starting a replay from an empty state preserves the inductive invariant.
LEMMA ReloadStep ==
  ASSUME IInv, NEW d \in Devices, Reload(d)
  PROVE  IInv'
  <1>1. TypeOK'
    BY DEF IInv, TypeOK, Reload
  <1>2. ClocksCounted' /\ ClockNamesOneWrite'
    BY NoWrite DEF IInv, TypeOK, Reload
  <1>3. ASSUME NEW e \in Devices, NEW i \in Ids
        PROVE  IF FoldedOf(e, i)' = {} THEN state'[e][i] = None
               ELSE IsJoin(state'[e][i], FoldedOf(e, i)')
    <2>1. CASE e = d
      BY <2>1 DEF FoldedOf, IInv, TypeOK, Reload
    <2>2. CASE e # d
      <3>1. FoldedOf(e, i)' = FoldedOf(e, i) /\ state'[e][i] = state[e][i]
        BY <2>2 DEF FoldedOf, IInv, TypeOK, Reload
      <3>2. IF FoldedOf(e, i) = {} THEN state[e][i] = None
            ELSE IsJoin(state[e][i], FoldedOf(e, i))
        BY DEF IInv, StateIsJoin
      <3> QED BY <3>1, <3>2
    <2> QED BY <2>1, <2>2
  <1> QED BY <1>1, <1>2, <1>3 DEF IInv, StateIsJoin

\* absorb_share_key, the end of a replay and stuttering touch nothing the
\* invariant relates.
LEMMA QuietStep ==
  ASSUME IInv, UNCHANGED <<entries, lamport, folded, state, log>>,
         held' \in [Devices -> SUBSET Shares], replaying' \subseteq Devices
  PROVE  IInv'
  <1>1. TypeOK'
    BY DEF IInv, TypeOK
  <1>2. StateIsJoin'
    BY DEF IInv, StateIsJoin, FoldedOf
  <1>3. ClocksCounted' /\ ClockNamesOneWrite'
    BY NoWrite DEF IInv, TypeOK
  <1> QED BY <1>1, <1>2, <1>3 DEF IInv

----------------------------------------------------------------------------
(* The theorems *)

\* The inductive invariant holds of a vault without entries.
LEMMA InitIInv == Init => IInv
  BY ReplicasAssumption
     DEF Init, IInv, TypeOK, ClocksCounted, ClockNamesOneWrite, StateIsJoin, FoldedOf

\* Every step preserves the inductive invariant.
LEMMA NextIInv == IInv /\ [Next]_vars => IInv'
  <1> SUFFICES ASSUME IInv, [Next]_vars PROVE IInv'
    OBVIOUS
  <1>1. ASSUME NEW d \in Devices, NEW r \in Record, Wrote(d, r)
        PROVE  IInv'
    BY <1>1, AppendStep
  <1>2. ASSUME NEW d \in Devices, NEW r \in entries, ApplyRemoteEntry(d, r)
        PROVE  IInv'
    BY <1>2, ApplyRemoteEntryStep
  <1>3. ASSUME NEW d \in Devices, NEW share \in Shares, AbsorbShareKey(d, share)
        PROVE  IInv'
    <2>1. held' \in [Devices -> SUBSET Shares]
      BY <1>3 DEF AbsorbShareKey, IInv, TypeOK
    <2>2. replaying' \subseteq Devices
      BY <1>3 DEF AbsorbShareKey, IInv, TypeOK
    <2> QED BY <1>3, <2>1, <2>2, QuietStep DEF AbsorbShareKey
  <1>4. ASSUME NEW d \in Devices, Reload(d) PROVE IInv'
    BY <1>4, ReloadStep
  <1>5. ASSUME NEW d \in Devices, NEW r \in entries, FoldFrame(d, r)
        PROVE  IInv'
    BY <1>5, FoldFrameStep
  <1>6. ASSUME NEW d \in Devices, ReplayDone(d) PROVE IInv'
    <2>1. held' \in [Devices -> SUBSET Shares]
      BY <1>6 DEF ReplayDone, IInv, TypeOK
    <2>2. replaying' \subseteq Devices
      BY <1>6 DEF ReplayDone, IInv, TypeOK
    <2> QED BY <1>6, <2>1, <2>2, QuietStep DEF ReplayDone
  <1>7. CASE UNCHANGED vars
    <2>1. held' \in [Devices -> SUBSET Shares] /\ replaying' \subseteq Devices
      BY <1>7 DEF vars, IInv, TypeOK
    <2> QED BY <1>7, <2>1, QuietStep DEF vars
  <1> QED BY <1>1, <1>2, <1>3, <1>4, <1>5, <1>6, <1>7, Steps

\* The inductive invariant holds throughout.
LEMMA SpecIInv == Spec => []IInv
  BY InitIInv, NextIInv, PTL DEF Spec

\* Type correctness of the replicated vault.
THEOREM ReplicasTypeOK == Spec => []TypeOK
  <1>1. IInv => TypeOK
    BY DEF IInv
  <1> QED BY SpecIInv, <1>1, PTL

\* A clock names one write (record.rs: "ties impossible across distinct
\* operations"), for any number of devices and writes.
THEOREM ClocksNameWrites == Spec => []ClockNamesOneWrite
  <1>1. IInv => ClockNamesOneWrite
    BY DEF IInv
  <1> QED BY SpecIInv, <1>1, PTL

\* Devices that folded the same snapshots, in whatever order, show the same
\* records (merge.rs: "any delivery order of any subset of entries converges").
THEOREM Convergence == Spec => []StrongConvergence
  <1>1. IInv => StrongConvergence
    <2> SUFFICES ASSUME IInv, NEW d \in Devices, NEW e \in Devices, folded[d] = folded[e]
                 PROVE  state[d] = state[e]
      BY DEF StrongConvergence
    <2>1. ASSUME NEW i \in Ids PROVE state[d][i] = state[e][i]
      <3>1. FoldedOf(d, i) = FoldedOf(e, i)
        BY DEF FoldedOf
      <3>2. CASE FoldedOf(d, i) = {}
        BY <3>1, <3>2 DEF IInv, StateIsJoin
      <3>3. CASE FoldedOf(d, i) # {}
        <4>1. IsJoin(state[d][i], FoldedOf(d, i)) /\ IsJoin(state[e][i], FoldedOf(d, i))
          BY <3>1, <3>3 DEF IInv, StateIsJoin
        <4>2. FoldedOf(d, i) \in SUBSET Record
          BY DEF FoldedOf, IInv, TypeOK
        <4>3. ASSUME NEW a \in FoldedOf(d, i), NEW b \in FoldedOf(d, i)
              PROVE  Agree(a, b)
          BY DEF FoldedOf, Agree, IInv, TypeOK, ClockNamesOneWrite, Keys
        <4> QED BY <4>1, <4>2, <4>3, JoinUnique
      <3> QED BY <3>2, <3>3
    <2> QED BY <2>1 DEF IInv, TypeOK
  <1> QED BY SpecIInv, <1>1, PTL

----------------------------------------------------------------------------
(* Devices that read every entry *)

\* A device merges only what its log has.
FoldedLogged == \A d \in Devices : folded[d] \subseteq log[d]

\* A device that reads every entry as it arrives has counted past the header of
\* every snapshot in its log.  The keys are there because one might be missing
\* otherwise when an entry arrives, and replay_log does not move the counter.
ReadersCount ==
  \A d \in Devices :
    AlwaysReads(d) =>
      held[d] = Shares /\ \A r \in log[d] : r.clock.lamport <= lamport[d]

\* The inductive invariant of readers.
ReadInv == FoldedLogged /\ ReadersCount

\* A step that keeps the log and the counter of every device, and takes no key
\* and no unlogged snapshot, keeps the invariant of readers.
LEMMA NoDelivery ==
  ASSUME TypeOK, ReadInv, log' = log, lamport' = lamport,
         \A d \in Devices : held[d] \subseteq held'[d] /\ held'[d] \subseteq Shares,
         \A d \in Devices : folded'[d] \subseteq log[d]
  PROVE  ReadInv'
  <1>1. FoldedLogged'
    BY DEF FoldedLogged
  <1>2. ReadersCount'
    BY DEF ReadInv, ReadersCount, AlwaysReads
  <1> QED BY <1>1, <1>2 DEF ReadInv

\* A mutation counts before it logs.
LEMMA WroteRead ==
  ASSUME IInv, ReadInv, NEW d \in Devices, NEW r \in Record, Wrote(d, r)
  PROVE  ReadInv'
  <1>0. TypeOK /\ Append(d, r) /\ r.clock = NextClock(d)
    BY DEF IInv, Wrote
  <1>1. FoldedLogged'
    BY <1>0 DEF ReadInv, FoldedLogged, TypeOK, Append
  <1>2. /\ lamport' = [lamport EXCEPT ![d] = lamport[d] + 1]
        /\ r.clock.lamport = lamport[d] + 1
    BY <1>0 DEF Append, NextClock
  <1>3. ASSUME NEW e \in Devices, AlwaysReads(e)
        PROVE  held'[e] = Shares /\ \A x \in log'[e] : x.clock.lamport <= lamport'[e]
    <2>1. held[e] = Shares /\ \A x \in log[e] : x.clock.lamport <= lamport[e]
      BY <1>3 DEF ReadInv, ReadersCount
    <2>2. held' = held
      BY <1>0 DEF Append
    <2>3. lamport[e] \in Nat /\ \A x \in log[e] : x.clock.lamport \in Nat
      BY <1>0 DEF TypeOK, Record, Clock
    <2>4. CASE e = d
      <3>1. log'[d] = log[d] \cup {r} /\ lamport'[d] = lamport[d] + 1
        BY <1>0, <1>2 DEF Append, TypeOK
      <3> QED BY <2>1, <2>2, <2>3, <2>4, <3>1, <1>2
    <2>5. CASE e # d
      <3>1. log'[e] = log[e] /\ lamport'[e] = lamport[e]
        BY <1>0, <1>2, <2>5 DEF Append, TypeOK
      <3> QED BY <2>1, <2>2, <3>1
    <2> QED BY <2>4, <2>5
  <1>4. ReadersCount'
    BY <1>3 DEF ReadersCount, AlwaysReads
  <1> QED BY <1>1, <1>4 DEF ReadInv

\* apply_remote_entry moves the counter of a reader past the header it logs.
LEMMA ApplyRead ==
  ASSUME IInv, ReadInv, NEW d \in Devices, NEW r \in entries, ApplyRemoteEntry(d, r)
  PROVE  ReadInv'
  <1>0. TypeOK /\ r \in Record /\ r.clock.lamport \in Nat /\ r.share_id \in Shares
    BY DEF IInv, TypeOK, Record, Clock
  <1>1. /\ log' = [log EXCEPT ![d] = @ \cup {r}] /\ held' = held
        /\ folded' = folded \/ folded' = [folded EXCEPT ![d] = @ \cup {r}]
    BY DEF ApplyRemoteEntry
  <1>2. FoldedLogged'
    BY <1>0, <1>1 DEF ReadInv, FoldedLogged, TypeOK
  <1>3. ASSUME NEW e \in Devices, AlwaysReads(e)
        PROVE  held'[e] = Shares /\ \A x \in log'[e] : x.clock.lamport <= lamport'[e]
    <2>1. held[e] = Shares /\ \A x \in log[e] : x.clock.lamport <= lamport[e]
      BY <1>3 DEF ReadInv, ReadersCount
    <2>2. lamport[e] \in Nat /\ \A x \in log[e] : x.clock.lamport \in Nat
      BY <1>0 DEF TypeOK, Record, Clock
    <2>3. CASE e = d
      <3>1. Opens(d, r)
        BY <2>1, <2>3, <1>0 DEF Opens
      <3>2. lamport'[d] = IF r.clock.lamport > lamport[d] THEN r.clock.lamport ELSE lamport[d]
        BY <3>1, <1>0 DEF ApplyRemoteEntry, TypeOK
      <3>3. log'[d] = log[d] \cup {r}
        BY <1>0, <1>1 DEF TypeOK
      <3> QED BY <1>0, <1>1, <2>1, <2>2, <2>3, <3>2, <3>3
    <2>4. CASE e # d
      <3>1. log'[e] = log[e] /\ lamport'[e] = lamport[e]
        BY <1>0, <1>1, <2>4 DEF ApplyRemoteEntry, TypeOK
      <3> QED BY <1>1, <2>1, <3>1
    <2> QED BY <2>3, <2>4
  <1>4. ReadersCount'
    BY <1>3 DEF ReadersCount, AlwaysReads
  <1> QED BY <1>2, <1>4 DEF ReadInv

\* Every step preserves the invariant of readers.
LEMMA NextReadInv == IInv /\ ReadInv /\ [Next]_vars => ReadInv'
  <1> SUFFICES ASSUME IInv, ReadInv, [Next]_vars PROVE ReadInv'
    OBVIOUS
  <1>0. TypeOK /\ \A e \in Devices : folded[e] \subseteq log[e] /\ held[e] \subseteq Shares
    BY DEF IInv, TypeOK, ReadInv, FoldedLogged
  <1>1. ASSUME NEW d \in Devices, NEW r \in Record, Wrote(d, r) PROVE ReadInv'
    BY <1>1, WroteRead
  <1>2. ASSUME NEW d \in Devices, NEW r \in entries, ApplyRemoteEntry(d, r)
        PROVE  ReadInv'
    BY <1>2, ApplyRead
  <1>3. ASSUME NEW d \in Devices, NEW share \in Shares, AbsorbShareKey(d, share)
        PROVE  ReadInv'
    <2>1. /\ \A e \in Devices : held[e] \subseteq held'[e] /\ held'[e] \subseteq Shares
          /\ log' = log /\ lamport' = lamport /\ folded' = folded
      BY <1>0, <1>3 DEF AbsorbShareKey, TypeOK
    <2> QED BY <1>0, <2>1, NoDelivery
  <1>4. ASSUME NEW d \in Devices, Reload(d) PROVE ReadInv'
    <2>1. /\ \A e \in Devices : folded'[e] \subseteq log[e]
          /\ log' = log /\ lamport' = lamport /\ held' = held
      BY <1>0, <1>4 DEF Reload, TypeOK
    <2> QED BY <1>0, <2>1, NoDelivery
  <1>5. ASSUME NEW d \in Devices, NEW r \in entries, FoldFrame(d, r) PROVE ReadInv'
    <2>1. /\ \A e \in Devices : folded'[e] \subseteq log[e]
          /\ log' = log /\ lamport' = lamport /\ held' = held
      BY <1>0, <1>5 DEF FoldFrame, TypeOK
    <2> QED BY <1>0, <2>1, NoDelivery
  <1>6. ASSUME NEW d \in Devices, ReplayDone(d) PROVE ReadInv'
    BY <1>0, <1>6, NoDelivery DEF ReplayDone
  <1>7. CASE UNCHANGED vars
    BY <1>0, <1>7, NoDelivery DEF vars
  <1> QED BY <1>1, <1>2, <1>3, <1>4, <1>5, <1>6, <1>7, Steps

\* The invariant of readers holds throughout.
LEMMA SpecReadInv == Spec => []ReadInv
  <1>1. Init => ReadInv
    BY DEF Init, ReadInv, FoldedLogged, ReadersCount, AlwaysReads
  <1> QED BY <1>1, NextReadInv, SpecIInv, PTL DEF Spec

----------------------------------------------------------------------------
(* Deletion stands *)

\* merge revives a deleted record only by a field of the other snapshot that
\* is not older than the deletion.
LEMMA MergeRevives ==
  ASSUME NEW s \in Record, NEW r \in Record, IsDeleted(s), ~IsDeleted(Merge(s, r))
  PROVE  \E n \in Keys(r.fields) : ~ClockLess(r.fields[n].clock, s.deleted_at)
  <1> DEFINE m == Merge(s, r)
  <1>1. /\ s.deleted_at \in Clock
        /\ r.deleted_at \in Clock \cup {None}
        /\ m.deleted_at = IF OptClockLess(s.deleted_at, r.deleted_at)
                          THEN r.deleted_at ELSE s.deleted_at
    BY DEF IsDeleted, Record, Merge, MergeDeleted
  <1>2. /\ m.deleted_at \in Clock
        /\ m.deleted_at = s.deleted_at \/ ClockLess(s.deleted_at, m.deleted_at)
    BY <1>1, NoneAssumption DEF OptClockLess
  <1>3. PICK n \in Names : m.fields[n] # None /\ ~ClockLess(m.fields[n].clock, m.deleted_at)
    BY <1>2, NoneAssumption DEF IsDeleted, Keys
  <1>4. m.fields[n] = s.fields[n] \/ m.fields[n] = r.fields[n]
    BY DEF Merge, MergeFields
  <1>5. /\ s.fields[n] # None => s.fields[n].clock \in Clock
        /\ r.fields[n] # None => r.fields[n].clock \in Clock
    BY DEF Record, FieldMap, Field
  <1>6. s.fields[n] # None => ClockLess(s.fields[n].clock, s.deleted_at)
    BY DEF IsDeleted, Keys
  <1> HIDE DEF m
  <1>7. m.fields[n] # s.fields[n]
    BY <1>1, <1>2, <1>3, <1>5, <1>6, ClockLessTransitive
  <1>8. r.fields[n] # None /\ ~ClockLess(r.fields[n].clock, s.deleted_at)
    BY <1>1, <1>2, <1>3, <1>4, <1>5, <1>7, ClockLessTransitive
  <1> QED BY <1>8 DEF Keys

\* Folding a snapshot that was not folded before revives nothing but by a
\* newer field.
LEMMA FoldRevives ==
  ASSUME TypeOK, NEW d \in Devices, NEW r \in Record, r \notin folded[d],
         folded' = [folded EXCEPT ![d] = @ \cup {r}],
         state' = [state EXCEPT ![d][r.id] = MergeInto(@, r)]
  PROVE  RevivesByNewerField
  <1> SUFFICES ASSUME NEW e \in Devices, NEW i \in Ids,
                      state[e][i] # None, IsDeleted(state[e][i]),
                      state'[e][i] # None, ~IsDeleted(state'[e][i])
               PROVE  \E x \in folded'[e] \ folded[e] :
                        /\ x.id = i
                        /\ \E n \in Keys(x.fields) :
                             ~ClockLess(x.fields[n].clock, state[e][i].deleted_at)
    BY DEF RevivesByNewerField
  <1>1. e = d /\ i = r.id
    BY DEF TypeOK
  <1>2. state'[d][i] = Merge(state[d][i], r)
    BY <1>1 DEF TypeOK, MergeInto
  <1>3. state[d][i] \in Record
    BY <1>1 DEF TypeOK
  <1>4. \E n \in Keys(r.fields) : ~ClockLess(r.fields[n].clock, state[d][i].deleted_at)
    BY <1>1, <1>2, <1>3, MergeRevives
  <1>5. r \in folded'[d] \ folded[d]
    BY DEF TypeOK
  <1> QED BY <1>1, <1>4, <1>5

\* The snapshot of a mutation is new.
LEMMA WroteNew ==
  ASSUME IInv, NEW d \in Devices, NEW r \in Record, Wrote(d, r)
  PROVE  r \notin entries
  <1>1. r.clock \in Clock /\ r.clock = NextClock(d)
    BY DEF Record, Wrote
  <1> QED BY <1>1, NextClockFresh DEF IInv, ClocksCounted

\* Every step revives a deleted record only by a newer field.
LEMMA StepRevives ==
  ASSUME IInv, FoldedLogged, [Next]_vars
  PROVE  RevivesByNewerField
  <1>1. ASSUME UNCHANGED state
        PROVE  RevivesByNewerField
    BY <1>1 DEF RevivesByNewerField
  <1>2. ASSUME NEW d \in Devices, NEW r \in Record, Wrote(d, r)
        PROVE  RevivesByNewerField
    <2>1. r \notin folded[d]
      BY <1>2, WroteNew DEF IInv, TypeOK
    <2> QED BY <1>2, <2>1, FoldRevives DEF Wrote, Append, IInv
  <1>3. ASSUME NEW d \in Devices, NEW r \in entries, ApplyRemoteEntry(d, r)
        PROVE  RevivesByNewerField
    <2>1. CASE Opens(d, r)
      <3>1. r \in Record /\ r \notin folded[d]
        BY <1>3 DEF ApplyRemoteEntry, FoldedLogged, IInv, TypeOK
      <3> QED BY <1>3, <2>1, <3>1, FoldRevives DEF ApplyRemoteEntry, IInv
    <2>2. CASE ~Opens(d, r)
      BY <1>1, <1>3, <2>2 DEF ApplyRemoteEntry
    <2> QED BY <2>1, <2>2
  <1>4. ASSUME NEW d \in Devices, NEW r \in entries, FoldFrame(d, r)
        PROVE  RevivesByNewerField
    <2>1. r \in Record /\ r \notin folded[d]
      BY <1>4 DEF FoldFrame, IInv, TypeOK
    <2> QED BY <1>4, <2>1, FoldRevives DEF FoldFrame, IInv
  <1>5. ASSUME NEW d \in Devices, Reload(d)
        PROVE  RevivesByNewerField
    <2>1. \A e \in Devices, i \in Ids : state'[e][i] = state[e][i] \/ state'[e][i] = None
      BY <1>5 DEF Reload, IInv, TypeOK
    <2> QED BY <2>1 DEF RevivesByNewerField
  <1>6. ASSUME NEW d \in Devices, \E share \in Shares : AbsorbShareKey(d, share)
        PROVE  RevivesByNewerField
    BY <1>1, <1>6 DEF AbsorbShareKey
  <1>7. ASSUME NEW d \in Devices, ReplayDone(d)
        PROVE  RevivesByNewerField
    BY <1>1, <1>7 DEF ReplayDone
  <1>8. CASE UNCHANGED vars
    BY <1>1, <1>8 DEF vars
  <1> QED BY <1>2, <1>3, <1>4, <1>5, <1>6, <1>7, <1>8, Steps

\* A deletion gives way only to a write of a field that is not older, whatever
\* the order of deliveries and replays.
THEOREM DeletionStands == Spec => NoResurrection
  <1>1. ReadInv => FoldedLogged
    BY DEF ReadInv
  <1> QED BY <1>1, StepRevives, SpecIInv, SpecReadInv, PTL DEF Spec, NoResurrection

----------------------------------------------------------------------------
(* Local writes of readers *)

\* The header clock a record shows is the header of a folded snapshot.
LEMMA HeaderIsLogged ==
  ASSUME IInv, ReadInv, NEW d \in Devices, NEW i \in Ids, state[d][i] # None
  PROVE  \E r \in log[d] : state[d][i].clock = r.clock
  <1>1. FoldedOf(d, i) # {} /\ IsJoin(state[d][i], FoldedOf(d, i))
    BY DEF IInv, StateIsJoin
  <1>2. PICK r \in FoldedOf(d, i) : state[d][i].clock = r.clock
    BY <1>1 DEF IsJoin
  <1> QED BY <1>2 DEF FoldedOf, ReadInv, FoldedLogged

\* The counter of a reader is at or past every header its state shows
\* (apply_remote_entry: "so future local writes stay causally after what we've
\* observed"), through replays too.
THEOREM CounterCoversState == Spec => []LamportCoversState
  <1>1. ASSUME IInv, ReadInv
        PROVE  LamportCoversState
    BY <1>1, HeaderIsLogged DEF LamportCoversState, ReadInv, ReadersCount
  <1> QED BY <1>1, SpecIInv, SpecReadInv, PTL

\* The merge with a snapshot of a mutation shows the mutation when the device's
\* counter covers the fields of the record.
LEMMA WriteShows ==
  ASSUME NEW L \in Nat, NEW d \in Devices, NEW s \in Record, NEW r \in Record,
         NEW c \in Clock, c.lamport = L + 1,
         \A n \in Names : s.fields[n] # None => s.fields[n].clock.lamport <= L,
         \A n \in Names : r.fields[n] # None =>
           r.fields[n].clock = c \/ r.fields[n] = s.fields[n],
         r.kind = Tombstone =>
           r.deleted_at = c /\ \A n \in Names : r.fields[n] = None
  PROVE  /\ r.kind = Tombstone => IsDeleted(Merge(s, r))
         /\ \A n \in Names : r.fields[n] # None => Merge(s, r).fields[n] = r.fields[n]
  <1> DEFINE m == Merge(s, r)
  <1>1. ASSUME NEW n \in Names, s.fields[n] # None
        PROVE  s.fields[n].clock \in Clock /\ ClockLess(s.fields[n].clock, c)
    <2>1. s.fields[n].clock \in Clock /\ s.fields[n].clock.lamport \in Nat
      BY <1>1 DEF Record, FieldMap, Field, Clock
    <2>2. s.fields[n].clock.lamport < c.lamport
      BY <1>1, <2>1
    <2> QED BY <2>1, <2>2 DEF ClockLess
  <1>2. \A n \in Names :
          m.fields[n] =
            IF s.fields[n] # None
               /\ (r.fields[n] # None => ~ClockLess(s.fields[n].clock, r.fields[n].clock))
            THEN s.fields[n] ELSE r.fields[n]
    BY DEF Merge, MergeFields
  <1>3. ASSUME r.kind = Tombstone
        PROVE  IsDeleted(m)
    <2>1. /\ s.deleted_at \in Clock \cup {None}
          /\ m.deleted_at = IF OptClockLess(s.deleted_at, c) THEN c ELSE s.deleted_at
      BY <1>3 DEF Record, Merge, MergeDeleted
    <2>2. /\ m.deleted_at \in Clock
          /\ m.deleted_at = c \/ ClockLess(c, m.deleted_at)
      BY <2>1, NoneAssumption, ClockLessTrichotomy DEF OptClockLess
    <2>3. \A n \in Names : m.fields[n] # None => m.fields[n] = s.fields[n]
      BY <1>2, <1>3
    <2> HIDE DEF m
    <2>4. ASSUME NEW n \in Keys(m.fields)
          PROVE  ClockLess(m.fields[n].clock, m.deleted_at)
      <3>1. n \in Names /\ s.fields[n] # None /\ m.fields[n] = s.fields[n]
        BY <2>3 DEF Keys
      <3> QED BY <3>1, <1>1, <2>2, ClockLessTransitive
    <2> QED BY <2>2, <2>4, NoneAssumption DEF IsDeleted
  <1>4. ASSUME NEW n \in Names, r.fields[n] # None
        PROVE  m.fields[n] = r.fields[n]
    <2> HIDE DEF m
    <2> QED BY <1>1, <1>2, <1>4
  <1> QED BY <1>3, <1>4

\* A mutation takes effect at a reader whose headers cover its fields, and no
\* other device's log has its snapshot yet.
LEMMA WroteShows ==
  ASSUME IInv, ReadInv, NEW d \in Devices, NEW r \in Record, Wrote(d, r),
         NEW e \in Devices, AlwaysReads(e), HeadersCover(e)
  PROVE  TakesEffect(e)
  <1>0. TypeOK /\ r \notin entries /\ r.id \in Ids
    BY WroteNew DEF IInv, Record
  <1>1. /\ entries' = entries \cup {r} /\ log' = [log EXCEPT ![d] = @ \cup {r}]
        /\ state' = [state EXCEPT ![d][r.id] = MergeInto(@, r)]
    BY DEF Wrote, Append
  <1>2. CASE e # d
    <2>1. r \notin log'[e]
      BY <1>0, <1>1, <1>2 DEF TypeOK
    <2> QED BY <1>1, <2>1 DEF TakesEffect
  <1>3. CASE e = d
    <2> DEFINE s == state[d][r.id]
               now == state'[d][r.id]
    <2>1. now = MergeInto(s, r)
      BY <1>0, <1>1 DEF TypeOK
    <2>2. /\ r.kind = Tombstone => IsDeleted(now)
          /\ \A n \in Names : r.fields[n] # None => now.fields[n] = r.fields[n]
      <3>1. CASE s = None
        <4>1. now = r
          BY <2>1, <3>1 DEF MergeInto
        <4>2. r.kind = Tombstone => IsDeleted(r)
          BY NextClockFresh, NoneAssumption DEF Wrote, IsDeleted, Keys, IInv
        <4> QED BY <4>1, <4>2
      <3>2. CASE s # None
        <4>1. now = Merge(s, r) /\ s \in Record
          BY <2>1, <3>2, <1>0 DEF MergeInto, TypeOK
        <4>2. ASSUME NEW n \in Names, s.fields[n] # None
              PROVE  s.fields[n].clock.lamport <= lamport[d]
          <5>1. PICK x \in log[d] : s.fields[n].clock.lamport <= x.clock.lamport
            BY <1>0, <1>3, <3>2, <4>2 DEF HeadersCover
          <5>2. x.clock.lamport <= lamport[d]
            BY <1>3 DEF ReadInv, ReadersCount
          <5>3. /\ s.fields[n].clock.lamport \in Nat /\ x.clock.lamport \in Nat
                /\ lamport[d] \in Nat
            <6>1. x \in Record /\ lamport[d] \in Nat
              BY <1>0 DEF TypeOK
            <6> HIDE DEF s
            <6> QED BY <4>1, <4>2, <6>1 DEF Record, FieldMap, Field, Clock
          <5> HIDE DEF s
          <5> QED BY <5>1, <5>2, <5>3
        <4>3. /\ NextClock(d) \in Clock /\ NextClock(d).lamport = lamport[d] + 1
              /\ lamport[d] \in Nat
          BY <1>0, NextClockFresh DEF NextClock, TypeOK
        <4>4. /\ \A n \in Names : r.fields[n] # None =>
                   r.fields[n].clock = NextClock(d) \/ r.fields[n] = s.fields[n]
              /\ r.kind = Tombstone =>
                   r.deleted_at = NextClock(d) /\ \A n \in Names : r.fields[n] = None
          BY DEF Wrote
        <4> HIDE DEF s, now
        <4> QED BY <4>1, <4>2, <4>3, <4>4, WriteShows
      <3> QED BY <3>1, <3>2
    <2>3. \A n \in Keys(r.fields) : Payload(now)[n] = Payload(r)[n]
      <3> HIDE DEF now
      <3> QED BY <2>2 DEF Keys, Payload
    <2> QED BY <1>1, <1>3, <2>2, <2>3 DEF TakesEffect
  <1> QED BY <1>2, <1>3

\* A write of a reader takes effect at once, whatever the other devices have
\* written before, as long as the headers it has logged cover the fields it
\* shows.
THEOREM ReadersWritesWin == Spec => ReaderWriteWins
  <1>1. ASSUME IInv, ReadInv, [Next]_vars,
               NEW e \in Devices, AlwaysReads(e), HeadersCover(e)
        PROVE  TakesEffect(e)
    <2>1. ASSUME entries' = entries
          PROVE  TakesEffect(e)
      BY <2>1 DEF TakesEffect
    <2>2. ASSUME NEW d \in Devices, NEW r \in Record, Wrote(d, r)
          PROVE  TakesEffect(e)
      BY <1>1, <2>2, WroteShows
    <2>3. entries' = entries \/ \E d \in Devices, r \in Record : Wrote(d, r)
      BY <1>1, Steps
         DEF vars, ApplyRemoteEntry, AbsorbShareKey, Reload, FoldFrame, ReplayDone
    <2> QED BY <2>1, <2>2, <2>3
  <1>2. IInv /\ ReadInv /\ [Next]_vars =>
          \A d \in Devices : AlwaysReads(d) /\ HeadersCover(d) => TakesEffect(d)
    BY <1>1
  <1> QED BY <1>2, SpecIInv, SpecReadInv, PTL DEF Spec, ReaderWriteWins

----------------------------------------------------------------------------
(* Deliveries in order *)

\* Every log has the snapshots whose writes its snapshots carry over.
OriginsLogged ==
  \A d \in Devices : \A r \in log[d] : Origins(r) \subseteq Headers(d)

\* A field a device shows was written in a snapshot of its log.
LEMMA FieldIsLogged ==
  ASSUME IInv, ReadInv, OriginsLogged, NEW d \in Devices, NEW i \in Ids, NEW n \in Names,
         state[d][i] # None, state[d][i].fields[n] # None
  PROVE  state[d][i].fields[n].clock \in Headers(d)
  <1>1. FoldedOf(d, i) # {} /\ IsJoin(state[d][i], FoldedOf(d, i))
    BY DEF IInv, StateIsJoin
  <1>2. PICK x \in FoldedOf(d, i) : state[d][i].fields[n] = x.fields[n]
    BY <1>1 DEF IsJoin
  <1>3. x \in log[d] /\ n \in Keys(x.fields)
    BY <1>2 DEF FoldedOf, ReadInv, FoldedLogged, Keys
  <1>4. x.fields[n].clock = x.clock \/ x.fields[n].clock \in Origins(x)
    BY <1>3 DEF Origins
  <1>5. x.clock \in Headers(d)
    BY <1>3 DEF Headers
  <1> QED BY <1>2, <1>3, <1>4, <1>5 DEF OriginsLogged

\* edit carries over only what the log has.
LEMMA WroteFromLog ==
  ASSUME IInv, ReadInv, OriginsLogged, NEW d \in Devices, NEW r \in Record, Wrote(d, r)
  PROVE  Origins(r) \subseteq Headers(d)
  <1> SUFFICES ASSUME NEW n \in Keys(r.fields), r.fields[n].clock # r.clock
               PROVE  r.fields[n].clock \in Headers(d)
    BY DEF Origins
  <1>1. n \in Names /\ r.fields[n] # None /\ r.id \in Ids
    BY DEF Keys, Record
  <1>2. state[d][r.id] # None /\ r.fields[n] = state[d][r.id].fields[n]
    BY <1>1 DEF Wrote
  <1> QED BY <1>1, <1>2, FieldIsLogged

\* So add_in, edit and remove keep the origins logged.
LEMMA WroteOrigins ==
  ASSUME IInv, ReadInv, OriginsLogged, NEW d \in Devices, NEW r \in Record, Wrote(d, r)
  PROVE  OriginsLogged'
  <1>1. log' = [log EXCEPT ![d] = @ \cup {r}] /\ log \in [Devices -> SUBSET entries]
    BY DEF Wrote, Append, IInv, TypeOK
  <1>2. \A e \in Devices : Headers(e) \subseteq Headers(e)'
    BY <1>1 DEF Headers
  <1>3. Origins(r) \subseteq Headers(d)
    BY WroteFromLog
  <1>4. ASSUME NEW e \in Devices, NEW x \in log'[e]
        PROVE  Origins(x) \subseteq Headers(e)'
    <2>1. CASE x \in log[e]
      BY <1>2, <2>1 DEF OriginsLogged
    <2>2. CASE e = d /\ x = r
      BY <1>2, <1>3, <2>2
    <2> QED BY <1>1, <2>1, <2>2
  <1> QED BY <1>4 DEF OriginsLogged

\* Deliveries in order keep the origins logged, and no other step but a local
\* write changes a log.
LEMMA NextOrigins ==
  IInv /\ ReadInv /\ OriginsLogged /\ [Next /\ InOrder]_vars => OriginsLogged'
  <1> SUFFICES ASSUME IInv, ReadInv, OriginsLogged, [Next /\ InOrder]_vars
               PROVE  OriginsLogged'
    OBVIOUS
  <1>1. ASSUME NEW d \in Devices, NEW r \in entries, ApplyRemoteEntry(d, r), InOrder
        PROVE  OriginsLogged'
    <2>1. /\ log' = [log EXCEPT ![d] = @ \cup {r}] /\ log \in [Devices -> SUBSET entries]
          /\ r \in entries \ log[d]
      BY <1>1 DEF ApplyRemoteEntry, IInv, TypeOK
    <2>2. \A e \in Devices : Headers(e) \subseteq Headers(e)'
      BY <2>1 DEF Headers
    <2>3. Origins(r) \subseteq Headers(d)
      BY <1>1, <2>1 DEF InOrder
    <2>4. ASSUME NEW e \in Devices, NEW x \in log'[e]
          PROVE  Origins(x) \subseteq Headers(e)'
      <3>1. CASE x \in log[e]
        BY <2>2, <3>1 DEF OriginsLogged
      <3>2. CASE e = d /\ x = r
        BY <2>2, <2>3, <3>2
      <3> QED BY <2>1, <3>1, <3>2
    <2> QED BY <2>4 DEF OriginsLogged
  <1>2. CASE log' = log
    BY <1>2 DEF OriginsLogged, Headers
  <1>3. ASSUME NEW d \in Devices, NEW r \in Record, Wrote(d, r)
        PROVE  OriginsLogged'
    BY <1>3, WroteOrigins
  <1>4. CASE Next /\ InOrder
    BY <1>1, <1>2, <1>3, <1>4, Steps DEF AbsorbShareKey, Reload, FoldFrame, ReplayDone
  <1>5. CASE UNCHANGED vars
    BY <1>2, <1>5 DEF vars
  <1> QED BY <1>4, <1>5

\* What edit and remove are for, once more: over a transport that delivers in order,
\* every write of a device that can read every entry takes effect at once, with
\* nothing assumed of the headers.
THEOREM OrderedWritesWin ==
  OrderedSpec => [][\A d \in Devices : AlwaysReads(d) => TakesEffect(d)]_vars
  <1>1. ASSUME IInv, ReadInv, OriginsLogged
        PROVE  \A d \in Devices : HeadersCover(d)
    <2> SUFFICES ASSUME NEW d \in Devices, NEW i \in Ids, NEW n \in Names,
                        state[d][i] # None, state[d][i].fields[n] # None
                 PROVE  \E s \in log[d] :
                          state[d][i].fields[n].clock.lamport <= s.clock.lamport
      BY DEF HeadersCover
    <2>1. PICK s \in log[d] : state[d][i].fields[n].clock = s.clock
      BY <1>1, FieldIsLogged DEF Headers
    <2>2. s.clock.lamport \in Nat
      BY <1>1 DEF IInv, TypeOK, Record, Clock
    <2> QED BY <2>1, <2>2
  <1>2. Init => OriginsLogged
    BY DEF Init, OriginsLogged
  <1>3. [Next /\ InOrder]_vars => [Next]_vars
    OBVIOUS
  <1>4. OrderedSpec => Spec
    BY <1>3, PTL DEF OrderedSpec, Spec
  <1>5. OrderedSpec => []OriginsLogged
    BY <1>2, <1>4, NextOrigins, SpecIInv, SpecReadInv, PTL DEF OrderedSpec
  <1>6. IInv /\ ReadInv /\ OriginsLogged
          /\ [\A d \in Devices : AlwaysReads(d) /\ HeadersCover(d) => TakesEffect(d)]_vars
        => [\A d \in Devices : AlwaysReads(d) => TakesEffect(d)]_vars
    BY <1>1
  <1> QED BY <1>4, <1>5, <1>6, SpecIInv, SpecReadInv, ReadersWritesWin, PTL
          DEF ReaderWriteWins

----------------------------------------------------------------------------
(* The order of Transport *)

VARIABLE saw   \* history: <<r, s>> where the writer of r had s in its log

\* Every new snapshot has seen the log it is appended to.
Watched ==
  saw' = saw \cup {p \in entries' \X entries :
                     /\ p[1] \notin entries
                     /\ \E d \in Devices : p[1] \in log'[d] /\ p[2] \in log[d]}

\* A delivery comes after what its writer had: Transport's Deliver, where nothing
\* is lost and every record is of the default share.
AfterSeen ==
  \A d \in Devices : \A r \in entries \ log[d] : r \in log'[d] =>
    \A s \in entries : <<r, s>> \in saw => s \in log[d]

\* The vaults over Transport.
TransportedSpec == Init /\ saw = {} /\ [][Next /\ Watched /\ AfterSeen]_<<vars, saw>>

\* What a snapshot carries over its writer had seen.
OriginsSeen ==
  \A r \in entries : \A c \in Origins(r) :
    \E s \in entries : <<r, s>> \in saw /\ s.clock = c

\* So Transport's order puts a delivery after the snapshots it carries over.
LEMMA SeenIsInOrder ==
  ASSUME OriginsSeen, AfterSeen
  PROVE  InOrder
  <1> SUFFICES ASSUME NEW d \in Devices, NEW r \in entries \ log[d], r \in log'[d],
                      NEW c \in Origins(r)
               PROVE  c \in Headers(d)
    BY DEF InOrder
  <1>1. PICK s \in entries : <<r, s>> \in saw /\ s.clock = c
    BY DEF OriginsSeen
  <1>2. s \in log[d]
    BY <1>1 DEF AfterSeen
  <1> QED BY <1>1, <1>2 DEF Headers

\* add_in, edit and remove see what they carry over, and no other step writes.
LEMMA NextOriginsSeen ==
  IInv /\ ReadInv /\ OriginsLogged /\ OriginsSeen
    /\ [Next /\ Watched /\ AfterSeen]_<<vars, saw>> => OriginsSeen'
  <1> SUFFICES ASSUME IInv, ReadInv, OriginsLogged, OriginsSeen,
                      [Next /\ Watched /\ AfterSeen]_<<vars, saw>>
               PROVE  OriginsSeen'
    OBVIOUS
  <1>1. saw \subseteq saw'
    BY DEF Watched
  <1>2. ASSUME entries' = entries
        PROVE  OriginsSeen'
    BY <1>1, <1>2 DEF OriginsSeen
  <1>3. ASSUME NEW d \in Devices, NEW r \in Record, Wrote(d, r), Watched
        PROVE  OriginsSeen'
    <2>1. /\ entries' = entries \cup {r} /\ log' = [log EXCEPT ![d] = @ \cup {r}]
          /\ log \in [Devices -> SUBSET entries] /\ r \notin entries
      BY <1>3, WroteNew DEF Wrote, Append, IInv, TypeOK
    <2>2. ASSUME NEW x \in entries', NEW c \in Origins(x)
          PROVE  \E s \in entries' : <<x, s>> \in saw' /\ s.clock = c
      <3>1. CASE x \in entries
        BY <1>1, <2>1, <2>2, <3>1 DEF OriginsSeen
      <3>2. CASE x = r
        <4>1. PICK s \in log[d] : s.clock = c
          BY <1>3, <2>2, <3>2, WroteFromLog DEF Headers
        <4>2. s \in entries /\ r \in log'[d] /\ r \in entries'
          BY <2>1, <4>1
        <4>3. <<r, s>> \in saw'
          BY <1>3, <2>1, <4>1, <4>2 DEF Watched
        <4> QED BY <2>1, <3>2, <4>1, <4>2, <4>3
      <3> QED BY <2>1, <3>1, <3>2
    <2> QED BY <2>2 DEF OriginsSeen
  <1>4. CASE Next /\ Watched /\ AfterSeen
    <2>1. entries' = entries \/ \E d \in Devices, r \in Record : Wrote(d, r)
      BY <1>4, Steps DEF ApplyRemoteEntry, AbsorbShareKey, Reload, FoldFrame, ReplayDone
    <2> QED BY <1>2, <1>3, <1>4, <2>1
  <1>5. CASE UNCHANGED <<vars, saw>>
    BY <1>2, <1>5 DEF vars
  <1> QED BY <1>4, <1>5

\* What RelaySync is shown to implement is enough for apply_remote_entry: over
\* Transport, deliveries come in order.
THEOREM TransportKeepsOrder == TransportedSpec => OrderedSpec
  <1>1. Init /\ saw = {} => OriginsSeen /\ OriginsLogged
    BY DEF Init, OriginsSeen, OriginsLogged
  <1>2. [Next /\ Watched /\ AfterSeen]_<<vars, saw>> => [Next]_vars
    OBVIOUS
  <1>3. TransportedSpec => Spec
    BY <1>2, PTL DEF TransportedSpec, Spec
  <1>4. OriginsSeen /\ [Next /\ Watched /\ AfterSeen]_<<vars, saw>> => [Next /\ InOrder]_vars
    BY SeenIsInOrder
  <1>5. TransportedSpec => [](OriginsSeen /\ OriginsLogged)
    BY <1>1, <1>3, <1>4, NextOrigins, NextOriginsSeen, SpecIInv, SpecReadInv, PTL
       DEF TransportedSpec
  <1> QED BY <1>4, <1>5, PTL DEF TransportedSpec, OrderedSpec

\* What edit and remove are for, over the transport that sync and relay provide: a
\* write of a device that can read every entry takes effect at once.
THEOREM TransportedWritesWin ==
  TransportedSpec => [][\A d \in Devices : AlwaysReads(d) => TakesEffect(d)]_vars
  BY TransportKeepsOrder, OrderedWritesWin, PTL
=============================================================================
