------------------------------ MODULE ShareKeys ------------------------------
(***************************************************************************)
(* The key epochs of one named share: create_share, share_add,             *)
(* share_remove and heal_shares on the devices (src/src/device.rs,         *)
(* src/src/sync.rs, src/src/vault.rs) against share_grant, share_rotate    *)
(* and shares of src/src/relay.rs.                                         *)
(*                                                                         *)
(* A named share's keys are random, so that two devices may mint different *)
(* keys for one epoch: a key is the number of its minting, and a key list  *)
(* has the key of epoch e at position e + 1.  A request sits in net and    *)
(* may be handled late, never or, if it is a grant, many times; a rotate   *)
(* handled again would find the epoch moved and be refused.  Every         *)
(* statement of a handler commits on its own, and a relay that is          *)
(* restarted leaves the rest undone.  Every device is approved; each runs  *)
(* one process at a time.                                                  *)
(***************************************************************************)
EXTENDS Integers, Sequences, FiniteSets, SequencesExt

CONSTANTS
  Devices,
  Creator,    \* the device that creates the share
  MaxMints,   \* bound on keys minted
  MaxSends    \* bound on requests sent

ASSUME ShareKeysAssumption ==
  /\ Creator \in Devices
  /\ MaxMints \in Nat \ {0} /\ MaxSends \in Nat \ {0}

VARIABLES
  \* relay
  epoch,      \* shares.epoch, -1 while the share has no row
  row,        \* row[d]: list in share_members.wrapped_key, <<>> for no row
  work,       \* rotations that have moved the epoch and have rows to store
  \* devices
  ring,       \* ring[d]: the share's key list in the keyring, <<>> if not held
  answer,     \* answer[d]: what GET /v1/shares said in d's present round
  \* network, bounds and history
  net,        \* requests under way
  sent,       \* requests sent so far
  mints,      \* mints[k]: who minted key k, as the key of which epoch
  accepted,   \* rotations the relay accepted: the list, and who was removed
  out,        \* devices whose row was deleted and for which none was stored since
  gone        \* gone[d]: the keys within d's reach when it got out

relayVars == <<epoch, row, work>>
vars == <<epoch, row, work, ring, answer, net, sent, mints, accepted, out, gone>>

Lists == UNION {[1..n -> 1..MaxMints] : n \in 0..MaxMints}

Requests ==
  [kind : {"grant"}, list : Lists, to : SUBSET Devices]
    \cup [kind : {"rotate"}, list : Lists, remove : Devices]

\* What a share_rotate has left to do: rows to drop, then rows to store.  A
\* relay that is restarted leaves it undone.
Work == [list : Lists, drop : SUBSET Devices, to : SUBSET Devices]

NoAnswer == [epoch |-> -1, list |-> <<>>]

TypeOK ==
  /\ epoch \in -1..(Len(mints) - 1)
  /\ row \in [Devices -> Lists]
  /\ work \subseteq Work
  /\ ring \in [Devices -> Lists]
  /\ answer \in [Devices -> [epoch : -1..(MaxMints - 1), list : Lists]]
  /\ net \subseteq Requests
  /\ sent \in 0..MaxSends
  /\ mints \in Seq([by : Devices, epoch : 0..(MaxMints - 1)]) /\ Len(mints) <= MaxMints
  /\ accepted \subseteq [list : Lists, remove : Devices]
  /\ out \subseteq Devices
  /\ gone \in [Devices -> SUBSET (1..MaxMints)]

Init ==
  /\ epoch = -1
  /\ row = [d \in Devices |-> <<>>]
  /\ work = {}
  /\ ring = [d \in Devices |-> <<>>]
  /\ answer = [d \in Devices |-> NoAnswer]
  /\ net = {} /\ sent = 0
  /\ mints = <<>>
  /\ accepted = {} /\ out = {}
  /\ gone = [d \in Devices |-> {}]

----------------------------------------------------------------------------
(* Helpers *)

MaxOf(a, b) == IF a < b THEN b ELSE a

\* has_share
Holds(d) == ring[d] # <<>>

\* share_epoch_for: 0 too for a share that is not held.
ShareEpoch(d) == IF Holds(d) THEN Len(ring[d]) - 1 ELSE 0

\* push_share_key
PushShareKey(d, k) == Append(ring[d], k)

\* A fresh random key becomes d's next epoch.
Mint(d) ==
  /\ Len(mints) < MaxMints
  /\ mints' = Append(mints, [by |-> d, epoch |-> Len(ring[d])])
  /\ ring' = [ring EXCEPT ![d] = PushShareKey(d, Len(mints) + 1)]

\* Sending again what is under way is handling it again.
Send(m) ==
  /\ m \notin net
  /\ sent < MaxSends
  /\ sent' = sent + 1
  /\ net' = net \cup {m}

----------------------------------------------------------------------------
(* Commands *)

\* share create: mint, then grant to the members named and to this device.
CreateShare(ms) ==
  /\ mints = <<>>
  /\ Mint(Creator)
  /\ Send([kind |-> "grant", list |-> ring'[Creator], to |-> ms \cup {Creator}])
  /\ UNCHANGED <<relayVars, answer, accepted, out, gone>>

\* share add: the list as it is, wrapped for the device named.
ShareAdd(d, t) ==
  /\ Holds(d)
  /\ Send([kind |-> "grant", list |-> ring[d], to |-> {t}])
  /\ UNCHANGED <<relayVars, ring, answer, mints, accepted, out, gone>>

\* share remove: rotate_share mints and persists, then the list is wrapped for
\* every other device and posted.  A post that fails is one never handled.
ShareRemove(d, t) ==
  /\ Holds(d)
  /\ Mint(d)
  /\ Send([kind |-> "rotate", list |-> ring'[d], remove |-> t])
  /\ UNCHANGED <<relayVars, answer, accepted, out, gone>>

----------------------------------------------------------------------------
(* The relay *)

\* Mutant: the epoch is the number of keys.
GrantedEpoch_len(m) == MaxOf(epoch, Len(m.list))

\* Mutant: the epoch of a share that has a row is left alone.
GrantedEpoch_keep(m) == IF epoch = -1 THEN Len(m.list) - 1 ELSE epoch

\* A stale epoch can't lower it.
GrantedEpoch(m) == MaxOf(epoch, Len(m.list) - 1)

\* share_grant: the epoch, then one upsert per device.  A handler that stops part
\* way has stored the rows of some; one that is slow stores the others later, as
\* when the request, which stays in net, is handled again.
HandleGrant(m, ts) ==
  /\ m.kind = "grant"
  /\ ts \subseteq m.to
  /\ epoch' = GrantedEpoch(m)
  /\ row' = [t \in Devices |-> IF t \in ts THEN m.list ELSE row[t]]
  /\ out' = out \ ts
  /\ gone' = [t \in Devices |-> IF t \in ts THEN {} ELSE gone[t]]
  /\ UNCHANGED <<work, ring, answer, net, sent, mints, accepted>>

\* Mutant: any later epoch is taken, and the same one again.
BumpAllowed_any(e) == epoch <= e

\* The guarded bump, from exactly the epoch before, or a first row.
BumpAllowed(e) == epoch = e - 1 \/ epoch = -1

\* share_rotate: a conflict, or the new epoch and rows to drop and to re-wrap.
HandleRotate(m) ==
  /\ m.kind = "rotate"
  /\ net' = net \ {m}
  /\ IF BumpAllowed(Len(m.list) - 1)
       THEN /\ epoch' = Len(m.list) - 1
            /\ work' = work \cup {[list |-> m.list, drop |-> {m.remove},
                                   to |-> Devices \ {m.remove}]}
            /\ accepted' = accepted \cup {[list |-> m.list, remove |-> m.remove]}
       ELSE UNCHANGED <<epoch, work, accepted>>
  /\ UNCHANGED <<row, ring, answer, sent, mints, out, gone>>

\* w with less to do, or gone when it has nothing left.
Progress(w, v) ==
  work' = (work \ {w}) \cup (IF v.drop = {} /\ v.to = {} THEN {} ELSE {v})

\* History: a grant, or another rotation than the one of list l, has carried k.
Carried(k, l) ==
  \/ \E m \in net : m.kind = "grant" /\ k \in ToSet(m.list)
  \/ \E a \in accepted : a.list # l /\ k \in ToSet(a.list)

\* The keys t has, or has only to absorb or to ask for.
AtHand(t) == ToSet(ring[t]) \cup ToSet(answer[t].list) \cup ToSet(row[t])

\* History: what a removal by w leaves t: the keys at hand, without the new key of
\* w itself unless that got out in another way.
Reach(w, t) == {k \in AtHand(t) : k = Last(w.list) => Carried(k, w.list)}

\* share_rotate: DELETE of a removed member's row.
DropMember(w, t) ==
  /\ t \in w.drop
  /\ out' = out \cup {t}
  /\ gone' = IF t \in out THEN gone ELSE [gone EXCEPT ![t] = Reach(w, t)]
  /\ row' = [row EXCEPT ![t] = <<>>]
  /\ Progress(w, [w EXCEPT !.drop = @ \ {t}])
  /\ UNCHANGED <<epoch, ring, answer, net, sent, mints, accepted>>

\* Mutant: a row is stored for whoever has none.
Rewrapped_upsert(w, t) == [row EXCEPT ![t] = w.list]

\* UPDATE only: the lists are wrapped for every approved device, and one that is
\* no member must get none.
Rewrapped(w, t) == IF row[t] = <<>> THEN row ELSE [row EXCEPT ![t] = w.list]

\* share_rotate: the next UPDATE of wrapped_key.
StoreWrapped(w, t) ==
  /\ w.drop = {}
  /\ t \in w.to
  /\ row' = Rewrapped(w, t)
  /\ Progress(w, [w EXCEPT !.to = @ \ {t}])
  /\ UNCHANGED <<epoch, ring, answer, net, sent, mints, accepted, out, gone>>

----------------------------------------------------------------------------
(* heal_shares *)

\* GET /v1/shares: one SELECT of the row and the epoch.  An answer that is not
\* newer changes nothing, now or later, and is left out.
GetShares(d) ==
  /\ answer[d] = NoAnswer
  /\ row[d] # <<>>
  /\ ~Holds(d) \/ epoch > ShareEpoch(d)
  /\ answer' = [answer EXCEPT ![d] = [epoch |-> epoch, list |-> row[d]]]
  /\ UNCHANGED <<relayVars, ring, net, sent, mints, accepted, out, gone>>

\* Mutant: a list is absorbed only when the relay is two epochs ahead.
Newer_off(d) == ~Holds(d) \/ answer[d].epoch > ShareEpoch(d) + 1

\* Absorb if the share is not held or has rotated past what is held.
Newer(d) == ~Holds(d) \/ answer[d].epoch > ShareEpoch(d)

\* Mutant: whatever the relay has is installed.
Absorbed_any(d) == answer[d].list

\* absorb_share_key: a longer list replaces the one held, another is ignored.
Absorbed(d) == IF Len(answer[d].list) > Len(ring[d]) THEN answer[d].list ELSE ring[d]

AbsorbShareKey(d) ==
  /\ answer[d] # NoAnswer
  /\ ring' = [ring EXCEPT ![d] = IF Newer(d) THEN Absorbed(d) ELSE @]
  /\ answer' = [answer EXCEPT ![d] = NoAnswer]
  /\ UNCHANGED <<relayVars, net, sent, mints, accepted, out, gone>>

HealStep(d) == GetShares(d) \/ AbsorbShareKey(d)

----------------------------------------------------------------------------

Command ==
  \/ \E ms \in SUBSET Devices : CreateShare(ms)
  \/ \E d, t \in Devices : ShareAdd(d, t) \/ ShareRemove(d, t)

RelayStep ==
  \/ \E m \in net : HandleRotate(m) \/ \E ts \in SUBSET Devices : HandleGrant(m, ts)
  \/ \E w \in work : \E t \in Devices : DropMember(w, t) \/ StoreWrapped(w, t)

Next ==
  \/ Command
  \/ RelayStep
  \/ \E d \in Devices : HealStep(d)

Spec == Init /\ [][Next]_vars

\* syncd heals at the start of every round.
FairSpec == Spec /\ \A d \in Devices : WF_vars(HealStep(d))

----------------------------------------------------------------------------
(* Properties *)

\* Two keys were minted for one epoch.
Forked == \E j, k \in DOMAIN mints : j # k /\ mints[j].epoch = mints[k].epoch

\* share_rotate: "bump its epoch ... guarded bump": of the rotations that reach
\* the relay for one epoch, at whatever time and from whichever device, one wins.
OneRotationPerEpoch ==
  \A a, b \in accepted : Len(a.list) = Len(b.list) => a = b

\* heal_shares compares epochs, not lists: whenever the relay has a longer list
\* for a device than the device holds, its epoch is past the device's, so that
\* the list is not overlooked.
NewerListIsNoticed ==
  \A d \in Devices : Len(row[d]) > Len(ring[d]) /\ Holds(d) => epoch > ShareEpoch(d)

\* share_remove: "so the removed device can't read data written afterward": a
\* device whose row was deleted, and for which none has been stored since, has
\* only keys it minted itself or that were within its reach by then, whatever
\* rotations, restarts and answers under way come after.  The new key of the
\* removal itself was within its reach only if a grant or another rotation,
\* handled before the DELETE, carried it.
RemovedLearnsNothing ==
  \A d \in out : \A k \in ToSet(ring[d]) : k \in gone[d] \/ mints[k].by = d

\* absorb_share_key: "Only grows": a key that a device has, and that the relay
\* accepted as the share's, stays in its keyring.
AcceptedKeysStay ==
  [][\A d \in Devices, a \in accepted :
       ToSet(ring[d]) \cap ToSet(a.list) \subseteq ToSet(ring'[d])]_vars

\* As long as no two devices have minted for one epoch, key lists do only grow,
\* whatever is refused, repeated or stored half.
KeysKeptUnlessForked ==
  [][~Forked => \A d \in Devices : IsPrefix(ring[d], ring'[d])]_vars

\* A device is not for ever behind the list the relay has for it.
MembersHeal ==
  \A d \in Devices : []<>(Len(ring[d]) >= Len(row[d]))
=============================================================================
