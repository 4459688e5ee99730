------------------------------- MODULE Merge -------------------------------
(***************************************************************************)
(* Records with per-field clocks (src/src/record.rs) and the field-level   *)
(* last-writer-wins merge of two snapshots of one record                   *)
(* (src/src/merge.rs).                                                     *)
(*                                                                         *)
(* Left out of a record: modified_at, informational and joined by max;     *)
(* device_id, which every writer sets to the device of the snapshot's      *)
(* clock and which merge takes from the same snapshot as the clock.        *)
(***************************************************************************)
EXTENDS Integers

CONSTANTS
  Devices,   \* device ids; the code compares them as bytes, here as numbers
  Ids,       \* record ids
  Names,     \* field names
  Values,    \* field values
  Shares,    \* share ids
  None       \* absent: no deletion marker, no record under an id

ASSUME DevicesAssumption == Devices \subseteq Nat

----------------------------------------------------------------------------
(* Data model, record.rs *)

Clock == [lamport : Nat, device : Devices]

\* Kind derives Ord from the order of its variants: Tombstone is the least,
\* then Host, Snippet, PortForward, KeyMeta, PrivateKey, ShareName.
Tombstone == 0
Kinds == 0..6

Field == [value : Values, clock : Clock]

\* A BTreeMap from field name to field; None marks a name that is not in it.
FieldMap == [Names -> Field \cup {None}]

Record == [id : Ids, kind : Kinds, fields : FieldMap,
           deleted_at : Clock \cup {None}, clock : Clock, share_id : Shares]

ASSUME NoneAssumption ==
  None \notin Clock /\ None \notin Field /\ None \notin Record /\ None \notin Values

\* The names a field map or a payload has.
Keys(m) == {n \in Names : m[n] # None}

\* The derived order of Clock: lamport first, the device breaks ties.
ClockLess(c, d) ==
  \/ c.lamport < d.lamport
  \/ c.lamport = d.lamport /\ c.device < d.device

\* Option<Clock> orders None before every Some.
OptClockLess(c, d) == d # None /\ (c = None \/ ClockLess(c, d))

IsDeleted(r) ==
  /\ r.deleted_at # None
  /\ \A n \in Keys(r.fields) : ClockLess(r.fields[n].clock, r.deleted_at)

\* Mutant: an absent field is stamped too.
FieldsFromPayload_all(payload, clock) ==
  [n \in Names |-> [value |-> payload[n], clock |-> clock]]

\* fields_from_payload: every field of the payload stamped with one clock.
FieldsFromPayload(payload, clock) ==
  [n \in Names |-> IF payload[n] = None THEN None
                   ELSE [value |-> payload[n], clock |-> clock]]

\* Record::payload: the values without their clocks.
Payload(r) ==
  [n \in Names |-> IF r.fields[n] = None THEN None ELSE r.fields[n].value]

----------------------------------------------------------------------------
(* Merge, merge.rs *)

\* a's field stays unless b's is strictly newer or a has none.
MergeFields(f, g) ==
  [n \in Names |->
     IF f[n] # None /\ (g[n] # None => ~ClockLess(f[n].clock, g[n].clock))
     THEN f[n] ELSE g[n]]

\* Mutant: the deletion marker of the snapshot merged last.
MergeDeleted_last(c, d) == d

MergeDeleted(c, d) == IF OptClockLess(c, d) THEN d ELSE c

MergeKind(k, l) == IF k < l THEN l ELSE k

\* Mutant: the header of the snapshot merged last.
Newer_last(a, b) == b

\* The snapshot whose header (clock, share) survives; a on a tie.
Newer(a, b) == IF ClockLess(a.clock, b.clock) THEN b ELSE a

Merge(a, b) ==
  [id         |-> a.id,
   kind       |-> MergeKind(a.kind, b.kind),
   fields     |-> MergeFields(a.fields, b.fields),
   deleted_at |-> MergeDeleted(a.deleted_at, b.deleted_at),
   clock      |-> Newer(a, b).clock,
   share_id   |-> Newer(a, b).share_id]

\* One step of merge_all, of append and of the replay: the entry API inserts
\* the snapshot under a vacant id and merges it under an occupied one.
MergeInto(cur, r) == IF cur = None THEN r ELSE Merge(cur, r)

Live(r) == ~IsDeleted(r) /\ r.kind # Tombstone
=============================================================================
