------------------------------ MODULE Snapshot ------------------------------
(***************************************************************************)
(* replay_log with its snapshot cache, src/src/vault.rs: fold_from_snapshot*)
(* seeds the fold with the snapshot and decrypts only the frames past the  *)
(* prefix it covers; compact rewrites it.  Everything else a process does  *)
(* to the log and the keyring is as in LogView.                            *)
(*                                                                         *)
(* The shared lock of the replay is released before compact takes the      *)
(* exclusive one: other processes come in between.                         *)
(***************************************************************************)
EXTENDS Integers, Sequences, FiniteSets

CONSTANTS
  Procs, Records, Shares, Nil, Mintings, MaxEpochs, MaxLog,   \* as in LogView
  Threshold,   \* COMPACT_THRESHOLD
  None         \* no snapshot, or one that cannot be read

VARIABLES
  log, file, h,
  snap   \* the snapshot file

vars == <<log, file, h, snap>>

View == INSTANCE LogView

Snapshots == [covered : 0..MaxLog,                 \* frames it stands for
              shares  : [Shares -> 0..MaxEpochs],  \* fingerprint of the keys used
              records : SUBSET (1..MaxLog)]        \* the folded state

ASSUME SnapshotAssumption ==
  /\ Nil \in Shares
  /\ MaxEpochs \in Nat \ {0} /\ MaxLog \in Nat /\ Threshold \in Nat
  /\ None \notin Snapshots

TypeOK == View!TypeOK /\ snap \in Snapshots \cup {None}

Init == View!Init /\ snap = None

----------------------------------------------------------------------------
(* Helpers *)

\* Mutant: the next epoch instead of the number of epochs held.
HeldShareEpochs_next(ring) == [s \in Shares |-> Len(ring[s]) + 1]

\* held_share_epochs: share and number of epochs, 0 for a share not held.
HeldShareEpochs(ring) == [s \in Shares |-> Len(ring[s])]

\* Mutant: any snapshot made with keys that are all held will do.
SameEpochSet_some(a, b) == \A s \in Shares : a[s] <= b[s]

\* same_epoch_set
SameEpochSet(a, b) == a = b

\* read_snapshot found one that covers a prefix of the log, made with the keys
\* this process has.
Usable(p) ==
  /\ snap # None
  /\ snap.covered <= Len(log)
  /\ SameEpochSet(snap.shares, HeldShareEpochs(h[p].ring))

\* Where the fold starts, and from which state.
Start(p) == IF Usable(p) THEN snap.covered ELSE 0
Seed(p) == IF Usable(p) THEN snap.records ELSE {}

\* Distinct records of a state.
StateLen(view) == Cardinality({log[i].rec : i \in view})

----------------------------------------------------------------------------

\* fold_from_snapshot; compaction follows if the tail was long and has repeats.
ReplayLog(p) ==
  LET view == Seed(p) \cup View!Fold(h[p].ring, log, Start(p) + 1)
      long == Len(log) - Start(p) > Threshold /\ Len(log) > StateLen(view)
  IN /\ h[p].pc = "replay"
     /\ h' = [h EXCEPT ![p].view = view, ![p].pc = IF long THEN "compact" ELSE "open"]
     /\ UNCHANGED <<log, file, snap>>

\* compact folds the log anew, under the exclusive lock.
Compacted(p) == View!Fold(h[p].ring, log, 1)

Compact(p) ==
  /\ h[p].pc = "compact"
  /\ h' = [h EXCEPT ![p].pc = "open", ![p].view = Compacted(p)]
  /\ snap' = IF Len(log) <= StateLen(Compacted(p)) THEN snap
             ELSE [covered |-> Len(log), shares |-> HeldShareEpochs(h[p].ring),
                   records |-> Compacted(p)]
  /\ UNCHANGED <<log, file>>

\* The snapshot file is lost or spoilt: a cache miss.
LoseSnapshot ==
  /\ snap # None
  /\ snap' = None
  /\ UNCHANGED <<log, file, h>>

Next ==
  \/ \E p \in Procs : \/ View!Step(p) /\ UNCHANGED snap
                      \/ ReplayLog(p) \/ Compact(p)
  \/ LoseSnapshot

Spec == Init /\ [][Next]_vars

----------------------------------------------------------------------------
(* Properties *)

\* "The snapshot is a pure read optimization": with it, every open and reload
\* shows what a replay of the whole log would, whichever process wrote the
\* snapshot, with whatever keys, and whatever has happened to log and keyring
\* since.
Transparent == View!Spec
=============================================================================
