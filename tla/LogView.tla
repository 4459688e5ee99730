------------------------------- MODULE LogView -------------------------------
(***************************************************************************)
(* What src/src/vault.rs promises of a vault's log to each process that    *)
(* opens it: open and reload show exactly the frames that the keyring in   *)
(* memory can open.  This is the abstract specification: every replay      *)
(* decrypts the whole log.  Snapshot implements it with a cache.           *)
(*                                                                         *)
(* A frame is the record it is a version of and the one key it is sealed   *)
(* under, and is named by its place in the log.  Merging is a join         *)
(* (MergeProofs), so that a folded state is determined by, and here is,    *)
(* the set of frames folded into it.  A key is named by its share, its     *)
(* epoch and the minting it comes from: a share's key list is a list of    *)
(* mintings, by epoch.  Epochs of the default share come from the phrase   *)
(* and have one minting; a named share's are random and may have several.  *)
(***************************************************************************)
EXTENDS Integers, Sequences

CONSTANTS
  Procs,       \* processes that may have the vault open
  Records,     \* record ids
  Shares,      \* named shares and the default one
  Nil,         \* the default (nil) share
  Mintings,    \* mintings of one epoch's key
  MaxEpochs,   \* bound on the length of a key list
  MaxLog       \* bound on the frames in log.bin

VARIABLES
  log,    \* log.bin: the frames, in order
  file,   \* keyring.enc: each share's key list, <<>> for a share not held
  h       \* h[p]: the Vault value of process p

vars == <<log, file, h>>

KeyLists == UNION {[1..n -> Mintings] : n \in 0..MaxEpochs}
Keyrings == [Shares -> KeyLists]
Frames == [rec : Records, share : Shares, epoch : 1..MaxEpochs, key : Mintings]

Handle == [pc   : {"closed", "replay", "compact", "open"},
           ring : Keyrings,        \* Vault::keyring
           view : SUBSET (1..MaxLog)]   \* frames folded into Vault::state

TypeOK ==
  /\ log \in Seq(Frames) /\ Len(log) <= MaxLog
  /\ file \in Keyrings
  /\ h \in [Procs -> Handle]

NoKeys == [s \in Shares |-> <<>>]
Closed == [pc |-> "closed", ring |-> NoKeys, view |-> {}]

\* create: the default share has the key of its first epoch.
Init ==
  /\ log = <<>>
  /\ file \in {[NoKeys EXCEPT ![Nil] = <<k>>] : k \in Mintings}
  /\ h = [p \in Procs |-> Closed]

----------------------------------------------------------------------------
(* Helpers *)

\* open_entry: some key held opens the frame.
Opens(ring, f) == f.epoch <= Len(ring[f.share]) /\ ring[f.share][f.epoch] = f.key

\* The frames of l from place n on that a keyring opens.
Fold(ring, l, n) == {i \in n..Len(l) : Opens(ring, l[i])}

----------------------------------------------------------------------------

\* Vault::open reads the keyring; the log is replayed next.
Open(p) ==
  /\ h[p].pc = "closed"
  /\ h' = [h EXCEPT ![p] = [pc |-> "replay", ring |-> file, view |-> {}]]
  /\ UNCHANGED <<log, file>>

\* reload replays with the keyring in memory.
Reload(p) ==
  /\ h[p].pc = "open"
  /\ h' = [h EXCEPT ![p].pc = "replay"]
  /\ UNCHANGED <<log, file>>

\* replay_log, or the compaction that ends it: the view is what the keyring in
\* memory opens of the log as it is now.
Replay(p) ==
  \E next \in {"open", "compact"} :
    /\ h[p].pc = "replay" \/ (h[p].pc = "compact" /\ next = "open")
    /\ h' = [h EXCEPT ![p].pc = next, ![p].view = Fold(h[p].ring, log, 1)]
    /\ UNCHANGED <<log, file>>

\* append: a frame sealed under the share's current key, shown at once.
AppendRecord(p, r, s) ==
  LET list == h[p].ring[s]
  IN /\ h[p].pc = "open"
     /\ list # <<>>
     /\ Len(log) < MaxLog
     /\ log' = Append(log, [rec |-> r, share |-> s, epoch |-> Len(list),
                            key |-> list[Len(list)]])
     /\ h' = [h EXCEPT ![p].view = @ \cup {Len(log) + 1}]
     /\ UNCHANGED file

\* apply_remote_entry: the frame is kept whether or not it can be opened.
ApplyRemote(p, f) ==
  /\ h[p].pc = "open"
  /\ Len(log) < MaxLog
  /\ log' = Append(log, f)
  /\ h' = [h EXCEPT ![p].view = @ \cup Fold(h[p].ring, log', Len(log) + 1)]
  /\ UNCHANGED file

\* write_keyring: the keyring in memory becomes the file.
SetShareKeys(p, s, list) ==
  LET ring == [h[p].ring EXCEPT ![s] = list]
  IN /\ h' = [h EXCEPT ![p].ring = ring]
     /\ file' = ring
     /\ UNCHANGED log

\* absorb_share_key: a longer list replaces the one held.  What is shown stays.
AbsorbShareKey(p, s, list) ==
  /\ h[p].pc = "open"
  /\ Len(list) > Len(h[p].ring[s])
  /\ SetShareKeys(p, s, list)

\* create_share, rotate and rotate_share: one more epoch.
PushShareKey(p, s, k) ==
  /\ h[p].pc = "open"
  /\ Len(h[p].ring[s]) < MaxEpochs
  /\ SetShareKeys(p, s, Append(h[p].ring[s], k))

\* The process ends, or dies.
Close(p) ==
  /\ h[p].pc # "closed"
  /\ h' = [h EXCEPT ![p] = Closed]
  /\ UNCHANGED <<log, file>>

\* Everything but the replay.
Step(p) ==
  \/ Open(p) \/ Reload(p) \/ Close(p)
  \/ \E r \in Records, s \in Shares : AppendRecord(p, r, s)
  \/ \E f \in Frames : ApplyRemote(p, f)
  \/ \E s \in Shares : \/ \E list \in KeyLists : AbsorbShareKey(p, s, list)
                       \/ \E k \in Mintings : PushShareKey(p, s, k)

Next == \E p \in Procs : Step(p) \/ Replay(p)

Spec == Init /\ [][Next]_vars
=============================================================================
