----------------------------- MODULE VaultStore -----------------------------
(***************************************************************************)
(* One vault directory shared by several sshvault processes (the sync      *)
(* daemon and command-line calls), src/src/vault.rs with the local half of *)
(* src/src/sync.rs: meta.json (counter and cursor), log.bin, the advisory  *)
(* lock, and each process's in-memory copy of them, which is stale as soon *)
(* as another process writes.                                              *)
(*                                                                         *)
(* A critical section that ends in one atomic rename or one append is one  *)
(* step.  apply_remote_entry writes two files under the lock and is two    *)
(* steps: the process may die between them.  Record contents are left to   *)
(* Replicas: here a handle's state is the set of frames folded into it.    *)
(* The relay is one growing sequence of frames, this device's and others', *)
(* that answers a pull in one step; RelaySync takes that apart.            *)
(***************************************************************************)
EXTENDS Integers, Sequences, FiniteSets, SequencesExt

CONSTANTS
  Procs,         \* processes that may have the vault open
  NoProc,        \* nobody: the lock is free
  RemoteClock,   \* lamport of the i-th entry other devices push to the relay
  MaxLamport     \* bound on this device's counter

ASSUME VaultStoreAssumption ==
  /\ NoProc \notin Procs
  /\ RemoteClock \in Seq(Nat)
  /\ MaxLamport \in Nat

VARIABLES
  meta,      \* meta.json: [lamport, cursor]
  log,       \* log.bin: the frames, in order
  torn,      \* log.bin has a half-written frame in it
  lock,      \* holder of the exclusive lock across steps
  relay,     \* the relay's entries of this vault, by sequence number
  h          \* h[p]: the Vault value of process p

vars == <<meta, log, torn, lock, relay, h>>

\* A frame is one this device wrote, named by its clock, or the i-th remote one.
Own(l) == [own |-> TRUE, n |-> l]
Remote(i) == [own |-> FALSE, n |-> i]
Frames == [own : BOOLEAN, n : Nat]

LamportOf(f) == IF f.own THEN f.n ELSE RemoteClock[f.n]

Meta == [lamport : Nat, cursor : Nat]

Handle == [pc : {"closed", "replay", "open", "clocked", "pull", "apply", "applied", "idle"},
           meta  : Meta,         \* Vault::meta
           state : SUBSET Frames,\* frames folded into Vault::state
           clock : Nat,          \* clock of the mutation under way, 0 if none
           have  : SUBSET Frames,\* sync_once: local entries read before the pull
           since : Nat,          \* sync_once: cursor the pull was made with
           next  : Nat,          \* sync_once: next entry of the answer to look at
           head  : Nat]          \* sync_once: head the relay answered

TypeOK ==
  /\ meta \in Meta
  /\ log \in Seq(Frames)
  /\ torn \in BOOLEAN
  /\ lock \in Procs \cup {NoProc}
  /\ relay \in Seq(Frames)
  /\ h \in [Procs -> Handle]

Closed == [pc |-> "closed", meta |-> [lamport |-> 0, cursor |-> 0], state |-> {},
           clock |-> 0, have |-> {}, since |-> 0, next |-> 0, head |-> 0]

Init ==
  /\ meta = [lamport |-> 0, cursor |-> 0]
  /\ log = <<>>
  /\ torn = FALSE
  /\ lock = NoProc
  /\ relay = <<>>
  /\ h = [p \in Procs |-> Closed]

----------------------------------------------------------------------------
(* Helpers *)

MaxOf(a, b) == IF a < b THEN b ELSE a

\* Mutant: the counters in memory are taken as they are.
Absorbed_stale(p) == h[p].meta

\* absorb_disk_meta: the counters of the handle, raised to those on disk.
Absorbed(p) == [lamport |-> MaxOf(h[p].meta.lamport, meta.lamport),
                cursor  |-> MaxOf(h[p].meta.cursor, meta.cursor)]

\* write_meta: m becomes meta.json.
SaveMeta(m) == meta' = m

Unlocked == lock = NoProc

----------------------------------------------------------------------------
(* open and reload: meta.json is read without the lock, then the log is
   replayed under the shared lock. *)

ReadMeta(p) ==
  /\ h[p].pc \in {"closed", "open", "idle"}
  /\ h' = [h EXCEPT ![p].pc = "replay", ![p].meta = meta]
  /\ UNCHANGED <<meta, log, torn, lock, relay>>

\* replay_log: fold every frame.  The counter stays what meta.json said.
ReplayLog(p) ==
  /\ h[p].pc = "replay"
  /\ Unlocked
  /\ h' = [h EXCEPT ![p] = IF torn THEN Closed
                           ELSE [@ EXCEPT !.pc = "open", !.state = ToSet(log)]]
  /\ UNCHANGED <<meta, log, torn, lock, relay>>

----------------------------------------------------------------------------
(* A local mutation: next_clock, then append *)

NextClock(p) ==
  LET m == [Absorbed(p) EXCEPT !.lamport = @ + 1]
  IN /\ h[p].pc = "open"
     /\ Unlocked
     /\ m.lamport <= MaxLamport
     /\ SaveMeta(m)
     /\ h' = [h EXCEPT ![p].pc = "clocked", ![p].meta = m, ![p].clock = m.lamport]
     /\ UNCHANGED <<log, torn, lock, relay>>

\* Mutant: the record is shown and its frame not written.
AppendFrame_unwritten(p) ==
  /\ h[p].pc = "clocked"
  /\ h' = [h EXCEPT ![p].pc = "open", ![p].clock = 0,
                    ![p].state = @ \cup {Own(h[p].clock)}]
  /\ UNCHANGED <<meta, log, torn, lock, relay>>

\* append: the frame goes to disk first, then into the state.
AppendFrame(p) ==
  LET f == Own(h[p].clock)
  IN /\ h[p].pc = "clocked"
     /\ Unlocked
     /\ log' = Append(log, f)
     /\ h' = [h EXCEPT ![p].pc = "open", ![p].clock = 0, ![p].state = @ \cup {f}]
     /\ UNCHANGED <<meta, torn, lock, relay>>

\* set_relay_url: meta.json is rewritten, the counters absorbed.
SetRelayUrl(p) ==
  /\ h[p].pc = "open"
  /\ Unlocked
  /\ SaveMeta(Absorbed(p))
  /\ h' = [h EXCEPT ![p].meta = Absorbed(p)]
  /\ UNCHANGED <<log, torn, lock, relay>>

----------------------------------------------------------------------------
(* The local half of a sync round *)

\* raw_entries_tagged: the entry ids on disk, remembered across the network.
ReadLocal(p) ==
  /\ h[p].pc = "open"
  /\ Unlocked
  /\ h' = [h EXCEPT ![p] = IF torn THEN Closed
                           ELSE [@ EXCEPT !.pc = "pull", !.have = ToSet(log)]]
  /\ UNCHANGED <<meta, log, torn, lock, relay>>

\* The relay's INSERT OR IGNORE of the first pushed entry it lacks.
PushEntry(p, i) ==
  /\ h[p].pc = "pull"
  /\ i \in 1..Len(log)
  /\ log[i] \in h[p].have
  /\ log[i] \notin ToSet(relay)
  /\ \A j \in 1..(i - 1) : log[j] \in ToSet(relay)
  /\ relay' = Append(relay, log[i])
  /\ UNCHANGED <<meta, log, torn, lock, h>>

\* The relay has stored, or ignored, every entry of the push and answered it.
Pushed(p) == h[p].pc = "pull" /\ h[p].have \subseteq ToSet(relay)

\* Mutant: the cursor goes back by one.
ResetSyncCursor_one(p) ==
  LET m == [Absorbed(p) EXCEPT !.cursor = @ - 1]
  IN /\ Pushed(p)
     /\ Unlocked
     /\ SaveMeta(m)
     /\ h' = [h EXCEPT ![p].meta = m]
     /\ UNCHANGED <<log, torn, lock, relay>>

\* reset_sync_cursor, when the heal gained a share.
ResetSyncCursor(p) ==
  LET m == [Absorbed(p) EXCEPT !.cursor = 0]
  IN /\ Pushed(p)
     /\ Unlocked
     /\ SaveMeta(m)
     /\ h' = [h EXCEPT ![p].meta = m]
     /\ UNCHANGED <<log, torn, lock, relay>>

\* The pull: the cursor in memory is the one that is sent.
Pull(p) ==
  /\ Pushed(p)
  /\ h' = [h EXCEPT ![p].pc = "apply", ![p].since = h[p].meta.cursor,
                    ![p].next = h[p].meta.cursor + 1,
                    ![p].head = MaxOf(Len(relay), h[p].meta.cursor)]
  /\ UNCHANGED <<meta, log, torn, lock, relay>>

\* The round fails on the network: the daemon keeps its handle and reloads it
\* at the next tick.
RoundFails(p) ==
  /\ h[p].pc = "pull"
  /\ h' = [h EXCEPT ![p].pc = "idle", ![p].have = {}]
  /\ UNCHANGED <<meta, log, torn, lock, relay>>

\* The next entry of the answer is one the log had before the push.
SkipKnown(p) ==
  /\ h[p].pc = "apply"
  /\ h[p].next <= h[p].head
  /\ relay[h[p].next] \in h[p].have
  /\ h' = [h EXCEPT ![p].next = @ + 1]
  /\ UNCHANGED <<meta, log, torn, lock, relay>>

\* The next entry of the answer is for apply_remote_entry.
ToApply(p) ==
  /\ h[p].pc = "apply"
  /\ h[p].next <= h[p].head
  /\ relay[h[p].next] \notin h[p].have

\* apply_remote_entry up to the frame on disk, the lock held ...
ApplyFrame(p) ==
  /\ ToApply(p)
  /\ Unlocked
  /\ lock' = p
  /\ log' = Append(log, relay[h[p].next])
  /\ h' = [h EXCEPT ![p].pc = "applied", ![p].meta = Absorbed(p)]
  /\ UNCHANGED <<meta, torn, relay>>

\* ... and from there to the end: the state, the counter, meta.json.
ApplyMeta(p) ==
  LET f == relay[h[p].next]
      m == [h[p].meta EXCEPT !.lamport = MaxOf(@, LamportOf(f))]
  IN /\ h[p].pc = "applied"
     /\ SaveMeta(m)
     /\ lock' = NoProc
     /\ h' = [h EXCEPT ![p].pc = "apply", ![p].meta = m,
                       ![p].state = @ \cup {f}, ![p].next = @ + 1]
     /\ UNCHANGED <<log, torn, relay>>

\* Mutant: the cursor is set before the answer has been applied.
SetSyncCursor_first(p) ==
  LET m == [Absorbed(p) EXCEPT !.cursor = MaxOf(@, h[p].head)]
  IN /\ h[p].pc = "apply"
     /\ Unlocked
     /\ SaveMeta(m)
     /\ h' = [h EXCEPT ![p].meta = m]
     /\ UNCHANGED <<log, torn, lock, relay>>

\* set_sync_cursor with the head of the pull, at the end of the round.
SetSyncCursor(p) ==
  LET m == [Absorbed(p) EXCEPT !.cursor = MaxOf(@, h[p].head)]
  IN /\ h[p].pc = "apply"
     /\ h[p].next > h[p].head
     /\ Unlocked
     /\ SaveMeta(m)
     /\ h' = [h EXCEPT ![p].pc = "idle", ![p].meta = m, ![p].have = {},
                       ![p].since = 0, ![p].next = 0, ![p].head = 0]
     /\ UNCHANGED <<log, torn, lock, relay>>

----------------------------------------------------------------------------
(* Environment *)

\* A process exits, is killed, or fails on an error; the lock falls with it.
Crash(p) ==
  /\ h[p].pc # "closed"
  /\ h' = [h EXCEPT ![p] = Closed]
  /\ lock' = IF lock = p THEN NoProc ELSE lock
  /\ UNCHANGED <<meta, log, torn, relay>>

\* write_all stops part way (disk full, killed): half a frame stays in log.bin,
\* nothing takes it away, and parse_frames refuses the file from then on.
TornAppend(p) ==
  /\ h[p].pc = "clocked" \/ ToApply(p)
  /\ Unlocked
  /\ torn' = TRUE
  /\ h' = [h EXCEPT ![p] = Closed]
  /\ UNCHANGED <<meta, log, lock, relay>>

\* Another device's i-th entry reaches the relay.
RemotePush(i) ==
  /\ Remote(i) \notin ToSet(relay)
  /\ \A j \in 1..(i - 1) : Remote(j) \in ToSet(relay)
  /\ relay' = Append(relay, Remote(i))
  /\ UNCHANGED <<meta, log, torn, lock, h>>

Next ==
  \/ \E i \in 1..Len(RemoteClock) : RemotePush(i)
  \/ \E p \in Procs :
       \/ ReadMeta(p) \/ ReplayLog(p)
       \/ NextClock(p) \/ AppendFrame(p) \/ SetRelayUrl(p)
       \/ ReadLocal(p) \/ ResetSyncCursor(p) \/ Pull(p) \/ RoundFails(p)
       \/ SkipKnown(p) \/ ApplyFrame(p) \/ ApplyMeta(p) \/ SetSyncCursor(p)
       \/ Crash(p) \/ TornAppend(p)
       \/ \E i \in 1..Len(log) : PushEntry(p, i)

Spec == Init /\ [][Next]_vars

----------------------------------------------------------------------------
(* Properties *)

\* next_clock: "persisted before use so a crash can't reuse a clock value", and
\* absorb_disk_meta: "reused clocks break merge convergence permanently".  The
\* clock of a mutation under way is that of no other mutation of this device,
\* written or under way, by whichever process, across whatever crashes.
ClockUnique ==
  \A p \in Procs : h[p].clock # 0 =>
    /\ Own(h[p].clock) \notin ToSet(log) \cup ToSet(relay)
    /\ \A q \in Procs \ {p} : h[p].clock # h[q].clock

\* sync_once sets the cursor after it has applied what it pulled: every entry
\* at or below the cursor on disk is in the log, whoever moved the cursor and
\* whoever died in the middle of a round.
CursorCovered ==
  \A i \in 1..meta.cursor : relay[i] \in ToSet(log)

\* append and apply_remote_entry write the frame before they merge the record: what
\* a process shows, the next open finds in log.bin, unless an append has stopped
\* part way, after which no open reads log.bin at all.
StateIsDurable ==
  ~torn => \A p \in Procs : h[p].state \subseteq ToSet(log)

\* absorb_disk_meta: "A stale in-memory copy [...] must never roll back another
\* process's lamport or cursor"; only a cursor reset takes the cursor back.
CountersNeverRollBack ==
  [][/\ meta'.lamport >= meta.lamport
     /\ meta'.cursor < meta.cursor => \E p \in Procs : ResetSyncCursor(p)]_vars
=============================================================================
