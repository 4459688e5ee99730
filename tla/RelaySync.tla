------------------------------ MODULE RelaySync ------------------------------
(***************************************************************************)
(* Devices of one vault exchanging entries through the relay:              *)
(* src/src/sync.rs (sync_once, heal_shares) against src/src/relay.rs       *)
(* (push, pull, shares, share_grant, share_rotate), with the command line  *)
(* writing entries and managing shares beside a running sync process.      *)
(*                                                                         *)
(* Every SQL statement of a handler commits on its own, so a push is one   *)
(* step per entry and a pull is two: the rows, then the head.  The log of  *)
(* a device is the set of its entries; what of it the relay lacks, this    *)
(* device wrote, and in the order of the entries' numbers.  A share's key  *)
(* is held or not; key epochs are left out, and with them the re-keying    *)
(* half of share_rotate.  Every device is approved.                        *)
(***************************************************************************)
EXTENDS Integers, Sequences, FiniteSets, SequencesExt

CONSTANTS
  Devices,
  Shares,        \* named shares and the default one
  Nil,           \* the default (nil) share
  InitialKeys,   \* shares each device holds, and is a member of, at the start
  Mintable,      \* named shares that may still be created
  MaxWrites,     \* bound on entries written
  MaxFails,      \* bound on failed rounds and dead sync processes
  MaxRemoves     \* bound on removals of a member from a share

ASSUME RelaySyncAssumption ==
  /\ Nil \in Shares
  /\ InitialKeys \in [Devices -> SUBSET Shares]
  /\ \A d \in Devices : Nil \in InitialKeys[d]
  /\ Mintable \subseteq Shares \ {Nil}
  /\ MaxWrites \in Nat /\ MaxFails \in Nat /\ MaxRemoves \in Nat

VARIABLES
  \* relay
  store,    \* table entries by seq: the entry and the share it was tagged with
  members,  \* table share_members: <<share, device>>
  \* devices, on disk
  keys,     \* keys[d]: shares in the keyring file
  log,      \* log[d]: entries in log.bin
  cursor,   \* cursor[d]: sync_cursor in meta.json
  \* the sync process of each device
  r,
  \* bounds and history
  written,  \* entries written so far
  fails,    \* failures so far
  removes,  \* removals so far
  minted,   \* shares created so far
  beside,   \* those created while a sync process of their creator was running
  raced,    \* raced[d]: seqs stored between the rows and the head of a pull of d
  entitled, \* every <<share, device>> that ever was a member or the creator
  forgot,   \* <<share, device>>: the device had the key when it was no member, or its
            \* round ended between the key and the rewind
  saw       \* saw[n]: the log of the writer of entry n when it wrote it

relayVars == <<store, members>>
diskVars == <<keys, log, cursor>>
ghostVars == <<written, fails, removes, minted, beside, raced, entitled, forgot, saw>>
vars == <<store, members, keys, log, cursor, r, written, fails, removes, minted, beside,
          raced, entitled, forgot, saw>>

Entry == [n : 1..MaxWrites, share : Shares]

Round == [pc     : {"closed", "idle", "healed", "push", "rows", "apply"},
          keys   : SUBSET Shares,   \* the keyring in memory, read once, at open
          gained : BOOLEAN,         \* heal_shares gained a share this round
          have   : SUBSET Entry,    \* local entries read before the push
          rows   : SUBSET Nat,      \* seqs of the pulled entries still to apply
          top    : Nat,             \* last seq when the rows were selected
          head   : Nat]             \* last seq when the head was selected

Closed == [pc |-> "closed", keys |-> {}, gained |-> FALSE, have |-> {},
           rows |-> {}, top |-> 0, head |-> 0]

TypeOK ==
  /\ store \in Seq([entry : Entry, tag : Shares])
  /\ members \subseteq (Shares \ {Nil}) \X Devices
  /\ keys \in [Devices -> SUBSET Shares]
  /\ log \in [Devices -> SUBSET Entry]
  /\ cursor \in [Devices -> Nat]
  /\ r \in [Devices -> Round]
  /\ written \in 0..MaxWrites
  /\ fails \in 0..MaxFails
  /\ removes \in 0..MaxRemoves
  /\ minted \subseteq Mintable /\ beside \subseteq minted
  /\ raced \in [Devices -> SUBSET Nat]
  /\ entitled \subseteq (Shares \ {Nil}) \X Devices
  /\ forgot \subseteq (Shares \ {Nil}) \X Devices
  /\ saw \in [1..MaxWrites -> SUBSET Entry]

InitialMembers == {m \in (Shares \ {Nil}) \X Devices : m[1] \in InitialKeys[m[2]]}

Init ==
  /\ store = <<>>
  /\ members = InitialMembers
  /\ keys = InitialKeys
  /\ log = [d \in Devices |-> {}]
  /\ cursor = [d \in Devices |-> 0]
  /\ r = [d \in Devices |-> Closed]
  /\ written = 0 /\ fails = 0 /\ removes = 0
  /\ minted = {} /\ beside = {} /\ forgot = {}
  /\ raced = [d \in Devices |-> {}]
  /\ entitled = InitialMembers
  /\ saw = [n \in 1..MaxWrites |-> {}]

----------------------------------------------------------------------------
(* Helpers *)

Stored == {store[i].entry : i \in DOMAIN store}

\* Mutant: every entry is pushed as one of the default share.
TagFor_nil(d, e) == Nil

\* raw_entries_tagged: the share of an entry the process can open, else nil.
TagFor(d, e) == IF e.share \in r[d].keys THEN e.share ELSE Nil

\* Mutant: no filter.
Visible_all(d, i) == TRUE

\* The membership filter of pull.
Visible(d, i) == store[i].tag = Nil \/ <<store[i].tag, d>> \in members

MaxOf(a, b) == IF a < b THEN b ELSE a

----------------------------------------------------------------------------
(* The command line, beside the sync process *)

\* append: a new entry in the log, in which its writer has seen the others.
Logged(d, s) ==
  /\ written < MaxWrites
  /\ written' = written + 1
  /\ log' = [log EXCEPT ![d] = @ \cup {[n |-> written + 1, share |-> s]}]
  /\ saw' = [saw EXCEPT ![written + 1] = log[d]]

\* host add and the like, in a share the keyring file holds.
Write(d, s) ==
  /\ s \in keys[d]
  /\ Logged(d, s)
  /\ UNCHANGED <<relayVars, keys, cursor, r, fails, removes, minted, beside, raced,
                 entitled, forgot>>

\* share create: the keyring on disk, and the share's name as an entry of the
\* default share; the grants follow as relay calls.
CreateShare(d, s) ==
  /\ s \in Mintable \ minted
  /\ minted' = minted \cup {s}
  /\ beside' = IF r[d].pc = "closed" THEN beside ELSE beside \cup {s}
  /\ keys' = [keys EXCEPT ![d] = @ \cup {s}]
  /\ entitled' = entitled \cup {<<s, d>>}
  /\ forgot' = forgot \cup {<<s, d>>}
  /\ Logged(d, Nil)
  /\ UNCHANGED <<relayVars, cursor, r, fails, removes, raced>>

\* Mutant: the default share is granted like a named one.
ShareGrant_nil(d, s, t) ==
  /\ s \in keys[d]
  /\ members' = members \cup {<<s, t>>}
  /\ entitled' = entitled \cup {<<s, t>>}
  /\ UNCHANGED <<store, diskVars, r, written, fails, removes, minted, beside, raced, forgot,
                 saw>>

\* share create or share add: POST /v1/share/grant, one row per device.
ShareGrant(d, s, t) ==
  /\ s \in keys[d] \ {Nil}
  /\ members' = members \cup {<<s, t>>}
  /\ entitled' = entitled \cup {<<s, t>>}
  /\ UNCHANGED <<store, diskVars, r, written, fails, removes, minted, beside, raced, forgot,
                 saw>>

\* share remove: POST /v1/share/rotate drops the row.
ShareRemove(d, s, t) ==
  /\ s \in keys[d] \ {Nil}
  /\ <<s, t>> \in members
  /\ removes < MaxRemoves
  /\ removes' = removes + 1
  /\ members' = members \ {<<s, t>>}
  /\ forgot' = IF s \in keys[t] THEN forgot \cup {<<s, t>>} ELSE forgot
  /\ UNCHANGED <<store, diskVars, r, written, fails, minted, beside, raced, entitled, saw>>

----------------------------------------------------------------------------
(* One sync round *)

\* Vault::open by sync or syncd.  syncd keeps this keyring for every round.
OpenVault(d) ==
  /\ r[d].pc = "closed"
  /\ r' = [r EXCEPT ![d].pc = "idle", ![d].keys = keys[d]]
  /\ UNCHANGED <<relayVars, diskVars, ghostVars>>

\* heal_shares: absorb every share of GET /v1/shares not held in memory;
\* write_keyring replaces the file by the keyring in memory.
Heal(d) ==
  LET new == {s \in Shares \ r[d].keys : <<s, d>> \in members}
  IN /\ r[d].pc = "idle"
     /\ r' = [r EXCEPT ![d].pc = "healed", ![d].keys = @ \cup new,
                       ![d].gained = new # {}]
     /\ keys' = IF new = {} THEN keys ELSE [keys EXCEPT ![d] = r[d].keys \cup new]
     /\ UNCHANGED <<relayVars, log, cursor, ghostVars>>

\* raw_entries_tagged: what is pushed, and later taken as already present.
ReadLocal(d) ==
  /\ r[d].pc = "healed"
  /\ r' = [r EXCEPT ![d].pc = "push", ![d].have = log[d]]
  /\ UNCHANGED <<relayVars, diskVars, ghostVars>>

\* Mutant: the entries of a push in any order.
PushEntry_any(d, e) ==
  /\ r[d].pc = "push"
  /\ e \in r[d].have \ Stored
  /\ store' = Append(store, [entry |-> e, tag |-> TagFor(d, e)])
  /\ UNCHANGED <<members, diskVars, r, ghostVars>>

\* push: one INSERT OR IGNORE that inserts, in the order of the log.
PushEntry(d, e) ==
  /\ r[d].pc = "push"
  /\ e \in r[d].have \ Stored
  /\ \A f \in r[d].have \ Stored : e.n <= f.n
  /\ store' = Append(store, [entry |-> e, tag |-> TagFor(d, e)])
  /\ UNCHANGED <<members, diskVars, r, ghostVars>>

\* The push has been answered.
Pushed(d) == r[d].pc = "push" /\ r[d].have \subseteq Stored

\* Mutant: the cursor stays where it was.
Rewind_not(d) ==
  /\ Pushed(d)
  /\ r[d].gained
  /\ r' = [r EXCEPT ![d].gained = FALSE]
  /\ UNCHANGED <<relayVars, diskVars, ghostVars>>

\* reset_sync_cursor after a push whose round gained a share.
Rewind(d) ==
  /\ Pushed(d)
  /\ r[d].gained
  /\ cursor' = [cursor EXCEPT ![d] = 0]
  /\ r' = [r EXCEPT ![d].gained = FALSE]
  /\ UNCHANGED <<relayVars, keys, log, ghostVars>>

\* Mutant: the rows past the one after the cursor.
PullRows_off(d) ==
  /\ Pushed(d)
  /\ ~r[d].gained
  /\ r' = [r EXCEPT ![d].pc = "rows", ![d].top = MaxOf(Len(store), cursor[d]),
                    ![d].rows = {i \in (cursor[d] + 2)..Len(store) : Visible(d, i)}]
  /\ UNCHANGED <<relayVars, diskVars, ghostVars>>

\* pull, first statement: the visible rows past the cursor.
PullRows(d) ==
  /\ Pushed(d)
  /\ ~r[d].gained
  /\ r' = [r EXCEPT ![d].pc = "rows", ![d].top = MaxOf(Len(store), cursor[d]),
                    ![d].rows = {i \in (cursor[d] + 1)..Len(store) : Visible(d, i)}]
  /\ UNCHANGED <<relayVars, diskVars, ghostVars>>

\* pull, second statement: the head, and the answer.
PullHead(d) ==
  /\ r[d].pc = "rows"
  /\ r' = [r EXCEPT ![d].pc = "apply", ![d].head = MaxOf(Len(store), r[d].top)]
  /\ UNCHANGED <<relayVars, diskVars, ghostVars>>

\* The next pulled entry: applied, unless it was there before the push.
ApplyEntry(d, i) ==
  /\ r[d].pc = "apply"
  /\ i \in r[d].rows /\ \A j \in r[d].rows : i <= j
  /\ log' = [log EXCEPT ![d] =
               IF store[i].entry \in r[d].have THEN @ ELSE @ \cup {store[i].entry}]
  /\ r' = [r EXCEPT ![d].rows = @ \ {i}]
  /\ UNCHANGED <<relayVars, keys, cursor, ghostVars>>

\* Mutant: the cursor is set before the rows have been applied.
SetCursor_first(d) ==
  /\ r[d].pc = "apply"
  /\ cursor' = [cursor EXCEPT ![d] = MaxOf(@, r[d].head)]
  /\ raced' = [raced EXCEPT ![d] = @ \cup (r[d].top + 1)..r[d].head]
  /\ r' = [r EXCEPT ![d] = [Closed EXCEPT !.pc = "idle", !.keys = r[d].keys]]
  /\ UNCHANGED <<relayVars, keys, log, written, fails, removes, minted, beside, entitled,
                 forgot, saw>>

\* set_sync_cursor: the end of the round.
SetCursor(d) ==
  /\ r[d].pc = "apply"
  /\ r[d].rows = {}
  /\ cursor' = [cursor EXCEPT ![d] = MaxOf(@, r[d].head)]
  /\ raced' = [raced EXCEPT ![d] = @ \cup (r[d].top + 1)..r[d].head]
  /\ r' = [r EXCEPT ![d] = [Closed EXCEPT !.pc = "idle", !.keys = r[d].keys]]
  /\ UNCHANGED <<relayVars, keys, log, written, fails, removes, minted, beside, entitled,
                 forgot, saw>>

\* History: the round of d ends here, and a gain with it.
Forgotten(d) ==
  IF r[d].gained THEN forgot \cup ((keys[d] \ {Nil}) \X {d}) ELSE forgot

\* A transient failure: the daemon keeps the vault open for the next round.
RoundFails(d) ==
  /\ r[d].pc \in {"healed", "push", "rows"}
  /\ fails < MaxFails
  /\ fails' = fails + 1
  /\ forgot' = Forgotten(d)
  /\ r' = [r EXCEPT ![d] = [Closed EXCEPT !.pc = "idle", !.keys = r[d].keys]]
  /\ UNCHANGED <<relayVars, diskVars, written, removes, minted, beside, raced, entitled, saw>>

\* The sync process ends or dies.
Exit(d) ==
  /\ r[d].pc # "closed"
  /\ fails < MaxFails
  /\ fails' = fails + 1
  /\ forgot' = Forgotten(d)
  /\ r' = [r EXCEPT ![d] = Closed]
  /\ UNCHANGED <<relayVars, diskVars, written, removes, minted, beside, raced, entitled, saw>>

RoundStep(d) ==
  \/ OpenVault(d) \/ Heal(d) \/ ReadLocal(d)
  \/ \E e \in r[d].have : PushEntry(d, e)
  \/ Rewind(d) \/ PullRows(d) \/ PullHead(d)
  \/ \E i \in r[d].rows : ApplyEntry(d, i)
  \/ SetCursor(d)

Next ==
  \E d \in Devices :
    \/ RoundStep(d) \/ RoundFails(d) \/ Exit(d)
    \/ \E s \in Shares :
         \/ Write(d, s) \/ CreateShare(d, s)
         \/ \E t \in Devices : ShareGrant(d, s, t) \/ ShareRemove(d, s, t)

Spec == Init /\ [][Next]_vars

\* syncd runs a round at every tick for as long as it lives, and someone starts
\* it again when it is gone.  Users need not write, grant or remove.
FairSpec == Spec /\ \A d \in Devices : WF_vars(RoundStep(d))

----------------------------------------------------------------------------
(* Properties *)

\* raw_entries_tagged: an entry is routed by the share it was written in, across
\* failed rounds, dead processes, removals and second grants, unless the share was
\* created while a sync process of its creator was running.
TagsRightUnlessBeside ==
  \A i \in DOMAIN store :
    store[i].tag = store[i].entry.share \/ store[i].entry.share \in beside

\* pull: "non-members simply aren't handed the ciphertext": no device ever has
\* an entry of a share it was never made a member of, with the same exception: an
\* entry with the wrong tag is handed to everyone.
RoutedToMembers ==
  \A d \in Devices : \A e \in log[d] :
    e.share = Nil \/ e.share \in beside \/ <<e.share, d>> \in entitled

\* Across failed rounds, dead processes, rewinds and concurrent pushes a device
\* has every default-share entry at or below its cursor but those stored
\* between the two statements of one of its pulls.
OnlyRacedAreMissed ==
  \A d \in Devices : \A i \in 1..cursor[d] :
    store[i].tag = Nil => store[i].entry \in log[d] \/ i \in raced[d]

\* The transport the vaults see, with the raced entries as the lost ones.
T == INSTANCE Transport WITH
       lost <- [d \in Devices |-> {store[i].entry : i \in raced[d]}]

\* raw_entries_tagged pushes in log order, the relay numbers and hands out rows in
\* the order they came, and sync_once applies them in that order: across rounds that
\* fail half way, what reaches a vault is what Transport promises it, an entry never
\* before what its writer had.
CausalTransport == T!Spec

\* sync_once pushes every local entry at every round and pulls past the cursor:
\* once rounds stop failing and nobody writes, every default-share entry any device
\* has is on every device, but for those that raced with its pull.
EventuallyDelivered ==
  []<>(\A d, t \in Devices : \A e \in log[d] :
         \/ e.share # Nil \/ e \in log[t]
         \/ \E i \in raced[t] : store[i].entry = e)

\* The relay's protocol: "clients pull everything with seq > their_cursor": a
\* cursor passes no default-share entry the device was not given.
CursorMissesNothing ==
  \A d \in Devices : \A i \in 1..cursor[d] :
    store[i].tag = Nil => store[i].entry \in log[d]

\* sync_once: "A membership change rewinds the cursor to 0 so entries we skipped
\* as a non-member get re-fetched now that we're in": so they are, but for those that
\* raced with a pull, unless the device had the share's key while it was no member
\* (as its creator has at first, and whoever was removed), or its round was
\* interrupted between the new key and the rewind.
UndisturbedCatchUp ==
  []<>(\A m \in members \ forgot : \A i \in DOMAIN store :
         store[i].entry.share = m[1] => store[i].entry \in log[m[2]] \/ i \in raced[m[2]])
=============================================================================
