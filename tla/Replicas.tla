------------------------------ MODULE Replicas ------------------------------
(***************************************************************************)
(* The replicated vault seen device by device: local mutations             *)
(* (Vault::add_in, edit, remove), entries of other devices applied in any  *)
(* order (apply_remote_entry), key material that arrives later than the    *)
(* entries sealed under it (absorb_share_key) and the replay of the log    *)
(* (open, reload).  Every operation of one device is one step here;        *)
(* VaultStore takes them apart into the steps of processes that share the  *)
(* vault directory and may crash.                                          *)
(*                                                                         *)
(* The transport is abstract: any entry any device ever appended may reach *)
(* any other device at any time, once (sync_once skips entry ids it has).  *)
(* OrderedSpec keeps to the order that sync and relay really provide.      *)
(***************************************************************************)
EXTENDS Merge, FiniteSets

CONSTANTS
  NameField,    \* the field find() matches: "alias" or "name"
  AddKinds,     \* the kinds a user adds
  InitialHeld,  \* InitialHeld[d]: shares whose keys d holds from the start
  MaxEntries    \* bound on the snapshots written, over all devices

ASSUME ReplicasAssumption ==
  /\ NameField \in Names
  /\ AddKinds \subseteq Kinds \ {Tombstone}
  /\ InitialHeld \in [Devices -> SUBSET Shares]
  /\ MaxEntries \in Nat

VARIABLES
  lamport,    \* Meta::lamport of each device
  held,       \* shares whose key each device's keyring holds
  entries,    \* every snapshot ever appended by its author
  log,        \* log.bin of each device, as the set of snapshots in it
  folded,     \* the snapshots of its log a device has merged into its state
  state,      \* Vault::state: the merged record under each id
  replaying   \* devices in the middle of replay_log

vars == <<lamport, held, entries, log, folded, state, replaying>>

TypeOK ==
  /\ lamport \in [Devices -> Nat]
  /\ held \in [Devices -> SUBSET Shares]
  /\ entries \subseteq Record
  /\ log \in [Devices -> SUBSET entries]
  /\ folded \in [Devices -> SUBSET entries]
  /\ state \in [Devices -> [Ids -> Record \cup {None}]]
  /\ replaying \subseteq Devices

Init ==
  /\ lamport = [d \in Devices |-> 0]
  /\ held = InitialHeld
  /\ entries = {}
  /\ log = [d \in Devices |-> {}]
  /\ folded = [d \in Devices |-> {}]
  /\ state = [d \in Devices |-> [i \in Ids |-> None]]
  /\ replaying = {}

----------------------------------------------------------------------------
(* Reading *)

\* open_entry: a snapshot is readable iff the key of its share is held.
Opens(d, r) == r.share_id \in held[d]

\* find: the ids of the live records of a kind under a name.  The code takes
\* any one of them (HashMap order).
Find(d, kind, name) ==
  {i \in Ids :
     /\ state[d][i] # None
     /\ Live(state[d][i])
     /\ state[d][i].kind = kind
     /\ Payload(state[d][i])[NameField] = name}

----------------------------------------------------------------------------
(* Local mutations *)

\* Mutant: the counter is stamped before it is advanced.
NextClock_same(d) == [lamport |-> lamport[d], device |-> d]

NextClock(d) == [lamport |-> lamport[d] + 1, device |-> d]

\* append: the frame goes to the log, the snapshot into the state.
Append(d, r) ==
  /\ lamport' = [lamport EXCEPT ![d] = r.clock.lamport]
  /\ entries' = entries \cup {r}
  /\ log' = [log EXCEPT ![d] = @ \cup {r}]
  /\ folded' = [folded EXCEPT ![d] = @ \cup {r}]
  /\ state' = [state EXCEPT ![d][r.id] = MergeInto(@, r)]
  /\ UNCHANGED <<held, replaying>>

\* A local operation runs on an opened vault.
Ready(d) == d \notin replaying /\ Cardinality(entries) < MaxEntries

NewRecord(d, id, kind, payload, share) ==
  [id |-> id, kind |-> kind, fields |-> FieldsFromPayload(payload, NextClock(d)),
   deleted_at |-> None, clock |-> NextClock(d), share_id |-> share]

\* add_in: the share must be held and the name free; the id is a fresh UUID.
AddIn(d, id, kind, payload, share) ==
  /\ Ready(d)
  /\ share \in held[d]
  /\ Find(d, kind, payload[NameField]) = {}
  /\ \A r \in entries : r.id # id
  /\ Append(d, NewRecord(d, id, kind, payload, share))

\* Mutant: a changed field keeps the clock of the snapshot it was in.
EditedRecord_old(d, old, payload) ==
  [id |-> old.id, kind |-> old.kind,
   fields |-> FieldsFromPayload(payload, old.clock),
   deleted_at |-> old.deleted_at, clock |-> NextClock(d),
   share_id |-> old.share_id]

\* edit: a field whose value did not change keeps its old clock.
EditedRecord(d, old, payload) ==
  [id |-> old.id, kind |-> old.kind,
   fields |-> [n \in Names |->
                 IF Payload(old)[n] = payload[n] THEN old.fields[n]
                 ELSE FieldsFromPayload(payload, NextClock(d))[n]],
   deleted_at |-> old.deleted_at, clock |-> NextClock(d),
   share_id |-> old.share_id]

\* edit, with the payload the command line builds: the current payload with
\* some fields set anew, never the name.  append refuses a share whose key is
\* not held.
Edit(d, id, changes) ==
  LET old == state[d][id]
      payload == [n \in Names |->
                    IF changes[n] # None THEN changes[n] ELSE Payload(old)[n]]
  IN /\ Ready(d)
     /\ changes[NameField] = None
     /\ \E kind \in AddKinds, name \in Values : id \in Find(d, kind, name)
     /\ Opens(d, old)
     /\ Append(d, EditedRecord(d, old, payload))

TombstoneRecord(d, old) ==
  [id |-> old.id, kind |-> Tombstone, fields |-> [n \in Names |-> None],
   deleted_at |-> NextClock(d), clock |-> NextClock(d),
   share_id |-> old.share_id]

\* remove: a tombstone without fields.
Remove(d, id) ==
  LET old == state[d][id]
  IN /\ Ready(d)
     /\ \E kind \in AddKinds, name \in Values : id \in Find(d, kind, name)
     /\ Opens(d, old)
     /\ Append(d, TombstoneRecord(d, old))

----------------------------------------------------------------------------
(* Entries and keys from other devices *)

\* Mutant: the counter is not moved past the snapshot's clock.
ApplyRemoteEntry_still(d, r) ==
  /\ d \notin replaying
  /\ r \in entries \ log[d]
  /\ log' = [log EXCEPT ![d] = @ \cup {r}]
  /\ IF Opens(d, r)
     THEN /\ folded' = [folded EXCEPT ![d] = @ \cup {r}]
          /\ state' = [state EXCEPT ![d][r.id] = MergeInto(@, r)]
     ELSE UNCHANGED <<folded, state>>
  /\ UNCHANGED <<lamport, held, entries, replaying>>

\* apply_remote_entry: the frame is always kept; only a frame that opens is
\* merged and moves the counter past the snapshot's clock.
ApplyRemoteEntry(d, r) ==
  /\ d \notin replaying
  /\ r \in entries \ log[d]
  /\ log' = [log EXCEPT ![d] = @ \cup {r}]
  /\ IF Opens(d, r)
     THEN /\ folded' = [folded EXCEPT ![d] = @ \cup {r}]
          /\ state' = [state EXCEPT ![d][r.id] = MergeInto(@, r)]
          /\ lamport' = [lamport EXCEPT
                           ![d] = IF r.clock.lamport > @ THEN r.clock.lamport ELSE @]
     ELSE UNCHANGED <<folded, state, lamport>>
  /\ UNCHANGED <<held, entries, replaying>>

\* absorb_share_key: the keyring grows; the state is not refolded here.
AbsorbShareKey(d, share) ==
  /\ d \notin replaying
  /\ share \notin held[d]
  /\ held' = [held EXCEPT ![d] = @ \cup {share}]
  /\ UNCHANGED <<lamport, entries, log, folded, state, replaying>>

----------------------------------------------------------------------------
(* replay_log, on open and on reload: fold the log from an empty state *)

Reload(d) ==
  /\ d \notin replaying
  /\ replaying' = replaying \cup {d}
  /\ folded' = [folded EXCEPT ![d] = {}]
  /\ state' = [state EXCEPT ![d] = [i \in Ids |-> None]]
  /\ UNCHANGED <<lamport, held, entries, log>>

\* One iteration of the fold.  The code goes in log order; any order is
\* allowed here.
FoldFrame(d, r) ==
  /\ d \in replaying
  /\ r \in log[d] \ folded[d]
  /\ Opens(d, r)
  /\ folded' = [folded EXCEPT ![d] = @ \cup {r}]
  /\ state' = [state EXCEPT ![d][r.id] = MergeInto(@, r)]
  /\ UNCHANGED <<lamport, held, entries, log, replaying>>

\* The fold is through when every frame that opens is in; the counter is the
\* one of meta.json, whatever clocks the frames carry.
ReplayDone(d) ==
  /\ d \in replaying
  /\ \A r \in log[d] \ folded[d] : ~Opens(d, r)
  /\ replaying' = replaying \ {d}
  /\ UNCHANGED <<lamport, held, entries, log, folded, state>>

----------------------------------------------------------------------------

Payloads == [Names -> Values \cup {None}]

Next ==
  \E d \in Devices :
    \/ \E id \in Ids, kind \in AddKinds, share \in Shares,
          payload \in {p \in Payloads : p[NameField] # None} :
         AddIn(d, id, kind, payload, share)
    \/ \E id \in Ids, changes \in Payloads : Edit(d, id, changes)
    \/ \E id \in Ids : Remove(d, id)
    \/ \E r \in entries : ApplyRemoteEntry(d, r)
    \/ \E share \in Shares : AbsorbShareKey(d, share)
    \/ Reload(d)
    \/ \E r \in entries : FoldFrame(d, r)
    \/ ReplayDone(d)

Spec == Init /\ [][Next]_vars

----------------------------------------------------------------------------
(* Properties *)

\* Merge is a join only because a clock names one write (record.rs: "ties
\* impossible across distinct operations"): two snapshots with one clock are
\* the same snapshot, and two fields of a record with one clock are the same
\* write, although an edit carries old clocks on into new snapshots.
ClockNamesOneWrite ==
  \A r, s \in entries :
    /\ r.clock = s.clock => r = s
    /\ r.id = s.id =>
         \A n \in Keys(r.fields) \cap Keys(s.fields) :
           r.fields[n].clock = s.fields[n].clock => r.fields[n] = s.fields[n]

\* Any delivery order of the same snapshots ends in the same state (merge.rs:
\* "any delivery order of any subset of entries converges"): two devices that
\* have folded the same set agree on every record, whatever was applied live,
\* replayed or became readable late.
StrongConvergence ==
  \A d, e \in Devices : folded[d] = folded[e] => state[d] = state[e]

\* What a step may do to the deleted records of the devices: turn one into a
\* record that is not deleted only by folding a snapshot with a field written
\* after the deletion (or by starting a replay from nothing).
RevivesByNewerField ==
  \A d \in Devices, i \in Ids :
    (/\ state[d][i] # None /\ IsDeleted(state[d][i])
     /\ state'[d][i] # None /\ ~IsDeleted(state'[d][i]))
    => \E r \in folded'[d] \ folded[d] :
         /\ r.id = i
         /\ \E n \in Keys(r.fields) :
              ~ClockLess(r.fields[n].clock, state[d][i].deleted_at)

\* No reordering of deliveries and replays revives a deleted record (merge.rs:
\* a deletion gives way only to a field that is not older).
NoResurrection == [][RevivesByNewerField]_vars

\* A device that can read every entry as it arrives.
AlwaysReads(d) == InitialHeld[d] = Shares

\* The counter of such a device is at or past every clock its state shows
\* (apply_remote_entry: "so future local writes stay causally after what we've
\* observed"), through replays too, which do not move the counter.
LamportCoversState ==
  \A d \in Devices, i \in Ids :
    AlwaysReads(d) /\ state[d][i] # None => state[d][i].clock.lamport <= lamport[d]

\* A snapshot written in this step shows in the record it was written to: right
\* after edit the record has the values given, right after remove it is deleted.
TakesEffect(d) ==
  \A r \in entries' \ entries :
    r \in log'[d] =>
      LET now == state'[d][r.id]
      IN IF r.kind = Tombstone THEN IsDeleted(now)
         ELSE \A n \in Keys(r.fields) : Payload(now)[n] = Payload(r)[n]

\* What edit and remove are for: a local write takes effect at once, whatever
\* the other devices have written to the record before ...
LocalWriteWins == [][\A d \in Devices : TakesEffect(d)]_vars

\* Every field a device shows is at or before the header of some snapshot in
\* its log.  Deliveries in order keep it so; with three devices a snapshot can
\* come in out of order whose header is behind a field it carries over.
HeadersCover(d) ==
  \A i \in Ids, n \in Names :
    (state[d][i] # None /\ state[d][i].fields[n] # None)
    => \E s \in log[d] : state[d][i].fields[n].clock.lamport <= s.clock.lamport

\* ... which holds of a device that can read every entry as it arrives, as long
\* as the headers, which are all apply_remote_entry looks at to move the
\* counter, cover the fields.
ReaderWriteWins ==
  [][\A d \in Devices : AlwaysReads(d) /\ HeadersCover(d) => TakesEffect(d)]_vars

\* The writes a snapshot carries over from others.
Origins(r) == {r.fields[n].clock : n \in Keys(r.fields)} \ {r.clock}

Headers(d) == {s.clock : s \in log[d]}

\* A delivery comes after the snapshots whose writes it carries over.
InOrder ==
  \A d \in Devices : \A r \in entries \ log[d] :
    r \in log'[d] => Origins(r) \subseteq Headers(d)

\* The vaults over a transport that keeps the order, as Transport does for the
\* records of the default share.
OrderedSpec == Init /\ [][Next /\ InOrder]_vars
=============================================================================
