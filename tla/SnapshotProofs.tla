--------------------------- MODULE SnapshotProofs ---------------------------
(***************************************************************************)
(* The snapshot cache implements the replay of the whole log, for any      *)
(* processes, records, shares, lengths and threshold, where an epoch of a  *)
(* share has one key.                                                      *)
(*                                                                         *)
(* The invariant is about keyrings nobody need have any more: a snapshot   *)
(* is right for every keyring with its fingerprint (SnapSound), since the  *)
(* process that reads it is not the one that wrote it.  Without the        *)
(* hypothesis on mintings this is false, and so is the theorem.            *)
(***************************************************************************)
EXTENDS Snapshot, SequenceTheorems, TLAPS

\* An epoch of a share has one key.
OneMinting == \A a, b \in Mintings : a = b

\* What a keyring opens of the first n frames of a log.
Prefix(ring, l, n) == {i \in 1..n : View!Opens(ring, l[i])}

\* s, if it is a snapshot, covers a prefix of the log l, and has what any keyring
\* with its fingerprint opens of that prefix.
Sound(s, l) ==
  s # None =>
    /\ s.covered <= Len(l)
    /\ \A ring \in View!Keyrings :
         HeldShareEpochs(ring) = s.shares => s.records = Prefix(ring, l, s.covered)

SnapSound == Sound(snap, log)

IInv == TypeOK /\ SnapSound

----------------------------------------------------------------------------
(* Key lists and logs *)

\* A key list is a sequence of mintings, no longer than MaxEpochs.
LEMMA KeyListFacts ==
  ASSUME NEW l
  PROVE  l \in View!KeyLists <=> l \in Seq(Mintings) /\ Len(l) <= MaxEpochs
<1>0. MaxEpochs \in Nat BY SnapshotAssumption
<1>1. ASSUME l \in View!KeyLists PROVE l \in Seq(Mintings) /\ Len(l) <= MaxEpochs
  <2>1. PICK n \in 0..MaxEpochs : l \in [1..n -> Mintings] BY <1>1 DEF View!KeyLists
  <2>2. n \in Nat /\ \A i \in 1..n : l[i] \in Mintings BY <2>1, <1>0
  <2>3. l = [i \in 1..n |-> l[i]] BY <2>1
  <2>4. l \in Seq(Mintings) BY <2>2, <2>3, <2>1, SMT
  <2>5. DOMAIN l = 1..n /\ DOMAIN l = 1..Len(l) /\ Len(l) \in Nat
    BY <2>1, <2>4, LenProperties
  <2> QED BY <2>1, <2>2, <2>4, <2>5, <1>0
<1>2. ASSUME l \in Seq(Mintings), Len(l) <= MaxEpochs PROVE l \in View!KeyLists
  <2>1. l \in [1..Len(l) -> Mintings] /\ Len(l) \in 0..MaxEpochs
    BY <1>0, <1>2, LenProperties
  <2> QED BY <2>1 DEF View!KeyLists
<1> QED BY <1>1, <1>2

\* A share that is not held has an empty key list.
LEMMA EmptyKeyList == <<>> \in View!KeyLists
<1>1. <<>> \in Seq(Mintings) /\ Len(<<>>) <= MaxEpochs BY EmptySeq, SnapshotAssumption
<1> QED BY <1>1, KeyListFacts, Zenon

\* What holds of a keyring: one key list per share, of keys that are mintings.
LEMMA KeyringFacts ==
  ASSUME NEW ring \in View!Keyrings
  PROVE  /\ HeldShareEpochs(ring) \in [Shares -> 0..MaxEpochs]
         /\ \A s \in Shares : /\ ring[s] \in Seq(Mintings)
                              /\ Len(ring[s]) \in 0..MaxEpochs
                              /\ \A e \in 1..Len(ring[s]) : ring[s][e] \in Mintings
<1>0. MaxEpochs \in Nat BY SnapshotAssumption
<1>1. ASSUME NEW s \in Shares
      PROVE  /\ ring[s] \in Seq(Mintings) /\ Len(ring[s]) \in 0..MaxEpochs
             /\ \A e \in 1..Len(ring[s]) : ring[s][e] \in Mintings
  <2>1. ring[s] \in View!KeyLists BY DEF View!Keyrings
  <2>2. ring[s] \in Seq(Mintings) /\ Len(ring[s]) <= MaxEpochs BY <2>1, KeyListFacts
  <2> QED BY <1>0, <2>2, LenProperties, ElementOfSeq
<1> QED BY <1>1 DEF HeldShareEpochs

\* Where an epoch has one key, keyrings with one fingerprint open the same frames.
LEMMA FingerprintDecides ==
  ASSUME OneMinting, NEW r1 \in View!Keyrings, NEW r2 \in View!Keyrings,
         HeldShareEpochs(r1) = HeldShareEpochs(r2), NEW f \in View!Frames
  PROVE  View!Opens(r1, f) <=> View!Opens(r2, f)
<1>1. f.share \in Shares /\ f.epoch \in 1..MaxEpochs /\ f.key \in Mintings
  BY DEF View!Frames
<1>2. Len(r1[f.share]) = Len(r2[f.share]) BY <1>1 DEF HeldShareEpochs
<1>3. \A ring \in {r1, r2} : View!Opens(ring, f) <=> f.epoch <= Len(ring[f.share])
  <2> SUFFICES ASSUME NEW ring \in {r1, r2}, f.epoch <= Len(ring[f.share])
               PROVE  ring[f.share][f.epoch] = f.key
    BY DEF View!Opens
  <2>1. ring \in View!Keyrings OBVIOUS
  <2>2. f.epoch \in 1..Len(ring[f.share]) /\ Len(ring[f.share]) \in 0..MaxEpochs
    BY <1>1, <2>1, KeyringFacts, SnapshotAssumption
  <2>3. ring[f.share][f.epoch] \in Mintings BY <1>1, <2>1, <2>2, KeyringFacts
  <2> QED BY <1>1, <2>3 DEF OneMinting
<1> QED BY <1>2, <1>3

\* Appending a frame keeps the log a log and its prefix as it is.
LEMMA AppendFacts ==
  ASSUME NEW l \in Seq(View!Frames), NEW f \in View!Frames
  PROVE  /\ Append(l, f) \in Seq(View!Frames)
         /\ Len(Append(l, f)) = Len(l) + 1
         /\ \A i \in 1..Len(l) : Append(l, f)[i] = l[i]
OBVIOUS

\* A snapshot stays sound when the log grows.
LEMMA GrowthKeepsSound ==
  ASSUME NEW s \in Snapshots \cup {None}, NEW l \in Seq(View!Frames),
         NEW f \in View!Frames, Sound(s, l)
  PROVE  Sound(s, Append(l, f))
<1> SUFFICES ASSUME s # None
             PROVE  /\ s.covered <= Len(Append(l, f))
                    /\ \A ring \in View!Keyrings :
                         HeldShareEpochs(ring) = s.shares =>
                           s.records = Prefix(ring, Append(l, f), s.covered)
  BY DEF Sound
<1>1. s.covered \in Nat /\ s.covered <= Len(l) /\ Len(l) \in Nat
  BY SnapshotAssumption DEF Sound, Snapshots
<1>2. s.covered <= Len(Append(l, f)) BY <1>1, AppendFacts
<1>3. \A ring : Prefix(ring, Append(l, f), s.covered) = Prefix(ring, l, s.covered)
  <2> SUFFICES ASSUME NEW i \in 1..s.covered PROVE Append(l, f)[i] = l[i]
    BY DEF Prefix
  <2> QED BY <1>1, AppendFacts
<1> QED BY <1>2, <1>3 DEF Sound

\* Seeded by a sound snapshot, the fold gives what a whole replay gives.
LEMMA SeededFold ==
  ASSUME TypeOK, SnapSound, NEW p \in Procs
  PROVE  Seed(p) \cup View!Fold(h[p].ring, log, Start(p) + 1)
           = View!Fold(h[p].ring, log, 1)
<1>1. h[p].ring \in View!Keyrings /\ log \in Seq(View!Frames) /\ Len(log) \in Nat
  BY DEF TypeOK, View!TypeOK, View!Handle
<1>2. CASE Usable(p)
  <2>1. snap.covered \in Nat /\ snap.covered <= Len(log)
    BY <1>2, SnapshotAssumption DEF Usable, TypeOK, Snapshots
  <2>2. snap.records = Prefix(h[p].ring, log, snap.covered)
    BY <1>1, <1>2 DEF Usable, SnapSound, Sound, SameEpochSet
  <2>3. Prefix(h[p].ring, log, snap.covered)
          \cup View!Fold(h[p].ring, log, snap.covered + 1) = View!Fold(h[p].ring, log, 1)
    BY <1>1, <2>1 DEF Prefix, View!Fold
  <2> QED BY <1>2, <2>2, <2>3 DEF Seed, Start
<1>3. CASE ~Usable(p) BY <1>3 DEF Seed, Start
<1> QED BY <1>2, <1>3

----------------------------------------------------------------------------
(* The invariant *)

\* There is no snapshot at the start.
LEMMA InitIInv == Init => IInv
<1> SUFFICES ASSUME Init PROVE IInv OBVIOUS
<1> USE SnapshotAssumption
<1>1. <<>> \in View!KeyLists BY EmptyKeyList
<1>2. ASSUME NEW k \in Mintings PROVE <<k>> \in View!KeyLists
  <2>1. <<k>> \in Seq(Mintings) /\ Len(<<k>>) <= MaxEpochs OBVIOUS
  <2> QED BY <2>1, KeyListFacts, Zenon
<1>3. View!NoKeys \in View!Keyrings BY <1>1 DEF View!NoKeys, View!Keyrings
<1>4. file \in View!Keyrings
  BY <1>2, <1>3 DEF Init, View!Init, View!Keyrings
<1>5. h \in [Procs -> View!Handle]
  BY <1>3 DEF Init, View!Init, View!Closed, View!Handle
<1>6. log \in Seq(View!Frames) /\ Len(log) <= MaxLog
  BY EmptySeq DEF Init, View!Init
<1> QED BY <1>4, <1>5, <1>6 DEF IInv, Init, TypeOK, View!TypeOK, SnapSound, Sound

\* What a fold has is places in the log.
LEMMA FoldFacts ==
  ASSUME NEW l \in Seq(View!Frames), Len(l) <= MaxLog, NEW ring, NEW n \in Nat, n >= 1
  PROVE  View!Fold(ring, l, n) \subseteq 1..MaxLog
BY SnapshotAssumption DEF View!Fold

\* A step that changes the keyrings of a process.
LEMMA SetShareKeysTypeOK ==
  ASSUME TypeOK, NEW p \in Procs, NEW s \in Shares, NEW list \in View!KeyLists,
         View!SetShareKeys(p, s, list), UNCHANGED snap
  PROVE  TypeOK'
<1>1. h[p] \in View!Handle /\ h[p].ring \in View!Keyrings
  BY DEF TypeOK, View!TypeOK, View!Handle
<1>2. [h[p].ring EXCEPT ![s] = list] \in View!Keyrings BY <1>1 DEF View!Keyrings
<1>3. file' \in View!Keyrings BY <1>2 DEF View!SetShareKeys
<1>4. h' \in [Procs -> View!Handle]
  BY <1>1, <1>2 DEF View!SetShareKeys, TypeOK, View!TypeOK, View!Handle
<1> QED BY <1>3, <1>4 DEF View!SetShareKeys, TypeOK, View!TypeOK

\* A step that appends a frame and shows some frames of the log.
LEMMA AppendIInv ==
  ASSUME IInv, NEW p \in Procs, NEW f \in View!Frames, NEW v \in SUBSET (1..MaxLog),
         Len(log) < MaxLog, log' = Append(log, f), UNCHANGED <<file, snap>>,
         h' = [h EXCEPT ![p].view = v]
  PROVE  IInv'
<1>1. log' \in Seq(View!Frames) /\ Len(log') = Len(log) + 1 /\ Len(log) \in Nat
  BY AppendFacts DEF IInv, TypeOK, View!TypeOK
<1>2. Len(log') <= MaxLog BY <1>1, SnapshotAssumption
<1>3. h' \in [Procs -> View!Handle]
  BY DEF IInv, TypeOK, View!TypeOK, View!Handle
<1>4. TypeOK' BY <1>1, <1>2, <1>3 DEF IInv, TypeOK, View!TypeOK
<1>5. Sound(snap, log')
  BY GrowthKeepsSound DEF IInv, SnapSound, TypeOK, View!TypeOK
<1> QED BY <1>4, <1>5 DEF IInv, SnapSound

\* What LogView has besides the replay leaves the snapshot sound.
LEMMA StepIInv ==
  ASSUME IInv, NEW p \in Procs, View!Step(p), UNCHANGED snap
  PROVE  IInv'
<1> USE SnapshotAssumption
<1>1. /\ log \in Seq(View!Frames) /\ Len(log) \in Nat /\ Len(log) <= MaxLog
      /\ file \in View!Keyrings /\ h \in [Procs -> View!Handle]
      /\ h[p] \in View!Handle /\ h[p].ring \in View!Keyrings
      /\ h[p].view \in SUBSET (1..MaxLog)
  BY DEF IInv, TypeOK, View!TypeOK, View!Handle
<1>2. ASSUME UNCHANGED <<log, file>>, h' \in [Procs -> View!Handle] PROVE IInv'
  BY <1>1, <1>2 DEF IInv, TypeOK, View!TypeOK, SnapSound
<1>3. CASE View!Open(p)
  <2>1. [pc |-> "replay", ring |-> file, view |-> {}] \in View!Handle
    BY <1>1 DEF View!Handle
  <2> QED BY <1>1, <1>2, <1>3, <2>1 DEF View!Open
<1>4. CASE View!Reload(p)
  <2>1. h' \in [Procs -> View!Handle] BY <1>1, <1>4 DEF View!Reload, View!Handle
  <2> QED BY <1>2, <1>4, <2>1 DEF View!Reload
<1>5. CASE View!Close(p)
  <2>1. <<>> \in View!KeyLists BY EmptyKeyList
  <2>2. View!Closed \in View!Handle
    BY <2>1 DEF View!Closed, View!NoKeys, View!Handle, View!Keyrings
  <2> QED BY <1>1, <1>2, <1>5, <2>2 DEF View!Close
<1>6. ASSUME NEW r \in Records, NEW s \in Shares, View!AppendRecord(p, r, s) PROVE IInv'
  <2> DEFINE list == h[p].ring[s]
             f == [rec |-> r, share |-> s, epoch |-> Len(list), key |-> list[Len(list)]]
  <2>1. list \in Seq(Mintings) /\ Len(list) \in 0..MaxEpochs
        /\ \A e \in 1..Len(list) : list[e] \in Mintings
    BY <1>1, KeyringFacts
  <2>2. list # <<>> BY <1>6 DEF View!AppendRecord
  <2>3. Len(list) \in 1..MaxEpochs BY <2>1, <2>2, EmptySeq
  <2>4. f \in View!Frames BY <2>1, <2>3 DEF View!Frames
  <2>5. h[p].view \cup {Len(log) + 1} \in SUBSET (1..MaxLog)
    BY <1>1, <1>6 DEF View!AppendRecord
  <2>6. /\ Len(log) < MaxLog /\ log' = Append(log, f) /\ UNCHANGED <<file, snap>>
        /\ h' = [h EXCEPT ![p].view = h[p].view \cup {Len(log) + 1}]
    BY <1>6 DEF View!AppendRecord
  <2> HIDE DEF f
  <2> QED BY <2>4, <2>5, <2>6, AppendIInv
<1>7. ASSUME NEW f \in View!Frames, View!ApplyRemote(p, f) PROVE IInv'
  <2> DEFINE v == h[p].view \cup View!Fold(h[p].ring, log', Len(log) + 1)
  <2>1. Len(log) < MaxLog /\ log' = Append(log, f) /\ UNCHANGED <<file, snap>>
        /\ h' = [h EXCEPT ![p].view = v]
    BY <1>7 DEF View!ApplyRemote
  <2>2. log' \in Seq(View!Frames) /\ Len(log') <= MaxLog
    BY <1>1, <2>1, AppendFacts
  <2>3. v \in SUBSET (1..MaxLog)
    <3>1. View!Fold(h[p].ring, log', Len(log) + 1) \subseteq 1..MaxLog
      BY <1>1, <2>2, FoldFacts
    <3> QED BY <1>1, <3>1
  <2> HIDE DEF v
  <2> QED BY <2>1, <2>3, AppendIInv
<1>8. ASSUME NEW s \in Shares, NEW list \in View!KeyLists, View!SetShareKeys(p, s, list)
      PROVE  IInv'
  BY <1>8, SetShareKeysTypeOK DEF IInv, SnapSound, View!SetShareKeys
<1>9. ASSUME NEW s \in Shares, NEW list \in View!KeyLists,
             View!AbsorbShareKey(p, s, list)
      PROVE  IInv'
  BY <1>8, <1>9 DEF View!AbsorbShareKey
<1>10. ASSUME NEW s \in Shares, NEW k \in Mintings, View!PushShareKey(p, s, k)
       PROVE  IInv'
  <2>1. h[p].ring[s] \in Seq(Mintings) /\ Len(h[p].ring[s]) \in Nat
    BY <1>1, KeyringFacts
  <2>2. Append(h[p].ring[s], k) \in Seq(Mintings)
        /\ Len(Append(h[p].ring[s], k)) = Len(h[p].ring[s]) + 1
    BY <2>1
  <2>3. Len(Append(h[p].ring[s], k)) <= MaxEpochs
    BY <1>10, <2>1, <2>2 DEF View!PushShareKey
  <2>4. Append(h[p].ring[s], k) \in View!KeyLists BY <2>2, <2>3, KeyListFacts, Zenon
  <2> QED BY <1>8, <1>10, <2>4 DEF View!PushShareKey
<1> QED BY <1>3, <1>4, <1>5, <1>6, <1>7, <1>9, <1>10 DEF View!Step

\* A compaction leaves a snapshot that is sound for every keyring like its own.
LEMMA CompactIInv ==
  ASSUME OneMinting, IInv, NEW p \in Procs, Compact(p)
  PROVE  IInv'
<1> USE SnapshotAssumption
<1>1. /\ log \in Seq(View!Frames) /\ Len(log) \in Nat /\ Len(log) <= MaxLog
      /\ h \in [Procs -> View!Handle] /\ h[p].ring \in View!Keyrings
  BY DEF IInv, TypeOK, View!TypeOK, View!Handle
<1>2. Compacted(p) \in SUBSET (1..MaxLog) BY <1>1, FoldFacts DEF Compacted
<1>3. h' \in [Procs -> View!Handle]
  BY <1>1, <1>2 DEF Compact, View!Handle
<1> DEFINE new == [covered |-> Len(log), shares |-> HeldShareEpochs(h[p].ring),
                   records |-> Compacted(p)]
<1>4. new \in Snapshots
  BY <1>1, <1>2, KeyringFacts DEF Snapshots
<1>5. Sound(new, log)
  <2> SUFFICES ASSUME NEW ring \in View!Keyrings,
                      HeldShareEpochs(ring) = HeldShareEpochs(h[p].ring)
               PROVE  Compacted(p) = Prefix(ring, log, Len(log))
    BY <1>1 DEF Sound
  <2>1. \A i \in 1..Len(log) : View!Opens(ring, log[i]) <=> View!Opens(h[p].ring, log[i])
    BY <1>1, FingerprintDecides, ElementOfSeq
  <2> QED BY <2>1 DEF Compacted, View!Fold, Prefix
<1>6. snap' \in {snap, new} /\ UNCHANGED <<log, file>> BY DEF Compact
<1> HIDE DEF new
<1> QED BY <1>3, <1>4, <1>5, <1>6 DEF IInv, TypeOK, View!TypeOK, SnapSound

\* replay_log, from a snapshot or from nothing, preserves the invariant.
LEMMA ReplayIInv ==
  ASSUME IInv, NEW p \in Procs, ReplayLog(p)
  PROVE  IInv'
<1>1. /\ log \in Seq(View!Frames) /\ Len(log) <= MaxLog
      /\ h \in [Procs -> View!Handle]
  BY DEF IInv, TypeOK, View!TypeOK
<1>2. View!Fold(h[p].ring, log, 1) \in SUBSET (1..MaxLog) BY <1>1, FoldFacts
<1>3. h' \in [Procs -> View!Handle]
  BY <1>1, <1>2, SeededFold DEF ReplayLog, IInv, View!Handle
<1> QED BY <1>3 DEF ReplayLog, IInv, TypeOK, View!TypeOK, SnapSound

\* Every step preserves the inductive invariant.
LEMMA NextIInv ==
  ASSUME OneMinting, IInv, [Next]_vars
  PROVE  IInv'
<1>1. CASE UNCHANGED vars
  BY <1>1 DEF vars, IInv, TypeOK, View!TypeOK, SnapSound
<1>2. CASE LoseSnapshot
  BY <1>2 DEF LoseSnapshot, IInv, TypeOK, View!TypeOK, SnapSound, Sound
<1> QED BY <1>1, <1>2, StepIInv, CompactIInv, ReplayIInv DEF Next

----------------------------------------------------------------------------
(* The theorems *)

\* Type correctness of the log, the keyrings and the snapshot file.
THEOREM SnapshotTypeOK ==
  ASSUME OneMinting
  PROVE  Spec => []TypeOK
<1>1. IInv /\ [Next]_vars => IInv' BY NextIInv
<1>2. IInv => TypeOK BY DEF IInv
<1> QED BY InitIInv, <1>1, <1>2, PTL DEF Spec

\* With its invariant, a step of the vault with a snapshot is a step, or a
\* stutter, of the vault that replays its whole log.
LEMMA StepSimulation ==
  ASSUME IInv, [Next]_vars
  PROVE  [View!Next]_(View!vars)
<1>1. CASE UNCHANGED vars BY <1>1 DEF vars, View!vars
<1>2. CASE LoseSnapshot BY <1>2 DEF LoseSnapshot, View!vars
<1>3. ASSUME NEW p \in Procs, View!Step(p) PROVE View!Next BY <1>3 DEF View!Next
<1>4. ASSUME NEW p \in Procs, ReplayLog(p) PROVE View!Next
  <2>1. PICK next \in {"open", "compact"} :
          h' = [h EXCEPT ![p].view = View!Fold(h[p].ring, log, 1), ![p].pc = next]
    BY <1>4, SeededFold DEF ReplayLog, IInv
  <2>2. View!Replay(p)
    BY <1>4, <2>1 DEF ReplayLog, View!Replay, IInv, TypeOK, View!TypeOK, View!Handle
  <2> QED BY <2>2 DEF View!Next
<1>5. ASSUME NEW p \in Procs, Compact(p) PROVE View!Next
  <2>1. View!Replay(p) BY <1>5 DEF Compact, Compacted, View!Replay
  <2> QED BY <2>1 DEF View!Next
<1> QED BY <1>1, <1>2, <1>3, <1>4, <1>5 DEF Next

\* replay_log with its snapshot implements the replay of the whole log: "the
\* snapshot is a pure read optimization", where an epoch of a share has one key.
THEOREM SnapshotTransparent ==
  ASSUME OneMinting
  PROVE  Spec => Transparent
<1>1. Init => View!Init BY DEF Init
<1>2. IInv /\ [Next]_vars => IInv' BY NextIInv
<1>3. IInv /\ [Next]_vars => [View!Next]_(View!vars) BY StepSimulation
<1> QED BY InitIInv, <1>1, <1>2, <1>3, PTL DEF Spec, Transparent, View!Spec
=============================================================================
