--------------------------- MODULE DeviceLifecycle ---------------------------
(***************************************************************************)
(* Devices joining and leaving one vault, and the epochs of its default    *)
(* key: src/src/device.rs on the devices against enroll, approve, revoke,  *)
(* rotate, wrapped and recover of src/src/relay.rs.                        *)
(*                                                                         *)
(* Epoch keys come from the recovery seed, so every key list is a prefix   *)
(* of one sequence and is modelled by its length.  A process reads the     *)
(* keyring file when it opens the vault, works with that copy for as long  *)
(* as it lives, and writes the whole of it back; another process may have  *)
(* written a different list in between.  A signed request sits in net from *)
(* the moment it is sent and may reach the relay late, more than once, or  *)
(* never.  Its timestamp is left out: that the relay refuses it after a    *)
(* while only takes behaviours away.  The recovery request bears none.     *)
(***************************************************************************)
EXTENDS Integers, FiniteSets

CONSTANTS
  Devices,
  Founder,    \* the device that created the vault
  NoDevice,
  MaxKeys,    \* bound on the length of a key list
  MaxSends    \* bound on administrative requests sent

ASSUME DeviceLifecycleAssumption ==
  /\ Founder \in Devices /\ NoDevice \notin Devices
  /\ MaxKeys \in Nat \ {0} /\ MaxSends \in Nat

VARIABLES
  \* relay
  vault,      \* table vaults has the vault's row
  boot,       \* device of the enroll that inserted it and has no row yet
  epoch,      \* vaults.epoch
  enrolled,   \* devices with a row
  approved,   \* rows with approved = 1
  revoked,    \* rows with revoked = 1
  wrapped,    \* wrapped[d]: length of the list in wrapped_key, 0 for NULL
  seen,       \* table seen_sigs
  rewrap,     \* rotates that have bumped the epoch, with the lists still to store
  \* devices
  keys,       \* keys[d]: length of the default key list in keyring.enc, 0 while
              \* provisional
  had,        \* had[d]: the lengths it has had; a process of d works with one of them
  phase,      \* phase[d]: no vault, waiting for approval, or ready
  rot,        \* rot[d]: revoke_and_rotate of d, its step, its target and the length
              \* of its copy of the list
  \* network and history
  net,        \* signed requests under way
  answered,   \* revocations the relay has carried out since they were last sent
  recovers,   \* devices whose recovery request is under way
  sent,       \* requests sent so far
  minters,    \* devices that minted an epoch: the phrase was typed there
  early,      \* devices given a key the relay's epoch had not reached
  cut         \* cut[d]: keys that existed before the rotation that cut d off

relayVars == <<vault, boot, epoch, enrolled, approved, revoked, wrapped, seen, rewrap>>
deviceVars == <<keys, had, phase, rot>>
netVars == <<net, answered, recovers, sent>>
history == <<minters, early, cut>>
vars == <<relayVars, deviceVars, netVars, history>>

Requests ==
  [kind : {"approve"}, from : Devices, to : Devices, len : 1..MaxKeys]
    \cup [kind : {"revoke"}, from : Devices, to : Devices]
    \cup [kind : {"rotate"}, from : Devices, to : Devices, len : 1..MaxKeys,
          for : SUBSET Devices]

TypeOK ==
  /\ vault \in BOOLEAN
  /\ boot \in Devices \cup {NoDevice}
  /\ epoch \in 0..(MaxKeys - 1)
  /\ enrolled \subseteq Devices
  /\ approved \subseteq enrolled /\ revoked \subseteq enrolled
  /\ wrapped \in [Devices -> 0..MaxKeys]
  /\ keys \in [Devices -> 0..MaxKeys]
  /\ had \in [Devices -> SUBSET (1..MaxKeys)]
  /\ phase \in [Devices -> {"none", "waiting", "ready"}]
  /\ rot \in [Devices -> [pc : {"idle", "revoking", "minted"}, to : Devices \cup {NoDevice},
                          len : 0..MaxKeys]]
  /\ net \subseteq Requests /\ seen \subseteq Requests /\ answered \subseteq Requests
  /\ rewrap \subseteq Requests
  /\ recovers \subseteq Devices
  /\ sent \in 0..MaxSends
  /\ minters \subseteq Devices /\ early \subseteq Devices
  /\ cut \in [Devices -> 0..MaxKeys]

NoRotation == [pc |-> "idle", to |-> NoDevice, len |-> 0]

Init ==
  /\ vault = FALSE /\ boot = NoDevice /\ epoch = 0
  /\ enrolled = {} /\ approved = {} /\ revoked = {}
  /\ wrapped = [d \in Devices |-> 0]
  /\ seen = {} /\ rewrap = {}
  /\ keys = [d \in Devices |-> IF d = Founder THEN 1 ELSE 0]
  /\ had = [d \in Devices |-> IF d = Founder THEN {1} ELSE {}]
  /\ phase = [d \in Devices |-> IF d = Founder THEN "ready" ELSE "none"]
  /\ rot = [d \in Devices |-> NoRotation]
  /\ net = {} /\ answered = {} /\ recovers = {} /\ sent = 0
  /\ minters = {} /\ early = {} /\ cut = [d \in Devices |-> 0]

----------------------------------------------------------------------------
(* Helpers *)

\* can_sync: enrolled, approved and not revoked.
CanSync(d) == d \in approved /\ d \notin revoked

\* Administrative commands are run on a ready device that may read the list of
\* devices, from which the target is picked.
Admin(a, t) == phase[a] = "ready" /\ CanSync(a) /\ t \in enrolled

\* write_keyring: the file is replaced by one with a list of length n.
WriteKeys(d, n) ==
  /\ keys' = [keys EXCEPT ![d] = n]
  /\ had' = [had EXCEPT ![d] = @ \cup {n}]

\* History: d installs the list the relay has for it.
Early(d) == IF wrapped[d] > epoch + 1 THEN early \cup {d} ELSE early

Send(m) ==
  /\ sent < MaxSends
  /\ sent' = sent + 1
  /\ net' = net \cup {m}
  /\ answered' = answered \ {m}
  /\ UNCHANGED recovers

----------------------------------------------------------------------------
(* Enrollment *)

\* enroll, first statement, for the vault's first device.
EnrollVault ==
  /\ ~vault
  /\ vault' = TRUE /\ boot' = Founder
  /\ UNCHANGED <<epoch, enrolled, approved, revoked, wrapped, seen, rewrap,
                 deviceVars, netVars, history>>

\* Mutant: approved without a row.
EnrollFounder_norow ==
  /\ boot # NoDevice
  /\ approved' = approved \cup {boot}
  /\ boot' = NoDevice
  /\ UNCHANGED <<vault, epoch, enrolled, revoked, wrapped, seen, rewrap,
                 deviceVars, netVars, history>>

\* ... second statement: the founder's row, approved.
EnrollFounder ==
  /\ boot # NoDevice
  /\ enrolled' = enrolled \cup {boot}
  /\ approved' = IF boot \in enrolled THEN approved ELSE approved \cup {boot}
  /\ boot' = NoDevice
  /\ UNCHANGED <<vault, epoch, revoked, wrapped, seen, rewrap, deviceVars, netVars, history>>

\* Mutant: the row is written anew, revoked = 0 included.
Enroll_anew(d) ==
  /\ vault
  /\ d = Founder \/ approved # {}
  /\ enrolled' = enrolled \cup {d}
  /\ revoked' = revoked \ {d}
  /\ phase' = [phase EXCEPT ![d] = IF @ = "none" THEN "waiting" ELSE @]
  /\ UNCHANGED <<vault, boot, epoch, approved, wrapped, seen, rewrap,
                 keys, had, rot, netVars, history>>

\* enroll for a vault the relay knows: a pending row, or the row as it was.
\* A joining device is given the vault id by one that can list devices.
Enroll(d) ==
  /\ vault
  /\ d \notin revoked
  /\ d = Founder \/ approved # {}
  /\ enrolled' = enrolled \cup {d}
  /\ phase' = [phase EXCEPT ![d] = IF @ = "none" THEN "waiting" ELSE @]
  /\ UNCHANGED <<vault, boot, epoch, approved, revoked, wrapped, seen, rewrap,
                 keys, had, rot, netVars, history>>

\* enroll_and_wait: the poll that finds the wrapped list.
PollWrapped(d) ==
  /\ phase[d] = "waiting"
  /\ CanSync(d)
  /\ wrapped[d] > 0
  /\ WriteKeys(d, wrapped[d])
  /\ phase' = [phase EXCEPT ![d] = "ready"]
  /\ early' = Early(d)
  /\ UNCHANGED <<relayVars, rot, netVars, minters, cut>>

\* heal_shares, default share, in a process with a list of length n: absorb the
\* wrapped list if the relay's epoch is ahead and the list is longer than n.
Heal(d, n) ==
  /\ phase[d] = "ready"
  /\ d \in enrolled \ revoked
  /\ epoch > n - 1
  /\ wrapped[d] > n
  /\ WriteKeys(d, wrapped[d])
  /\ early' = Early(d)
  /\ UNCHANGED <<relayVars, phase, rot, netVars, minters, cut>>

\* create_share, rotate_share or absorb_share_key of a named share, in a process
\* with a list of length n: the default list is written along.
Rewrite(d, n) ==
  /\ phase[d] = "ready"
  /\ WriteKeys(d, n)
  /\ UNCHANGED <<relayVars, phase, rot, netVars, history>>

----------------------------------------------------------------------------
(* Administrative commands *)

\* approve: wrap the process's key list for the target.
SendApprove(a, t, n) ==
  /\ Admin(a, t)
  /\ Send([kind |-> "approve", from |-> a, to |-> t, len |-> n])
  /\ UNCHANGED <<relayVars, deviceVars, history>>

\* revoke without rotation.
SendRevoke(a, t) ==
  /\ Admin(a, t)
  /\ Send([kind |-> "revoke", from |-> a, to |-> t])
  /\ UNCHANGED <<relayVars, deviceVars, history>>

\* revoke_and_rotate: revoke first ...
StartRotation(a, t, n) ==
  /\ Admin(a, t)
  /\ rot[a].pc = "idle"
  /\ rot' = [rot EXCEPT ![a] = [pc |-> "revoking", to |-> t, len |-> n]]
  /\ Send([kind |-> "revoke", from |-> a, to |-> t])
  /\ UNCHANGED <<relayVars, keys, had, phase, history>>

\* Mutant: the answer to the revocation is not awaited.
Mint_early(a) ==
  /\ rot[a].pc = "revoking"
  /\ rot[a].len < MaxKeys
  /\ WriteKeys(a, rot[a].len + 1)
  /\ rot' = [rot EXCEPT ![a] = [pc |-> "minted", to |-> @.to, len |-> @.len + 1]]
  /\ minters' = minters \cup {a}
  /\ UNCHANGED <<relayVars, phase, netVars, early, cut>>

\* ... once that is answered, mint and persist the next epoch ...
Mint(a) ==
  /\ rot[a].pc = "revoking"
  /\ [kind |-> "revoke", from |-> a, to |-> rot[a].to] \in answered
  /\ rot[a].len < MaxKeys
  /\ WriteKeys(a, rot[a].len + 1)
  /\ rot' = [rot EXCEPT ![a] = [pc |-> "minted", to |-> @.to, len |-> @.len + 1]]
  /\ minters' = minters \cup {a}
  /\ UNCHANGED <<relayVars, phase, netVars, early, cut>>

\* ... list the devices, wrap for those that remain, and post.
SendRotate(a) ==
  /\ rot[a].pc = "minted"
  /\ CanSync(a)
  /\ Send([kind |-> "rotate", from |-> a, to |-> rot[a].to, len |-> rot[a].len,
           for |-> (enrolled \ revoked) \ {rot[a].to}])
  /\ rot' = [rot EXCEPT ![a] = NoRotation]
  /\ UNCHANGED <<relayVars, keys, had, phase, history>>

\* A call fails and the command ends there.
GiveUp(a) ==
  /\ rot[a].pc # "idle"
  /\ rot' = [rot EXCEPT ![a] = NoRotation]
  /\ UNCHANGED <<relayVars, keys, had, phase, netVars, history>>

\* recover on a fresh machine; the phrase gives the epoch-0 key.
Recover(d) ==
  /\ vault
  /\ phase[d] = "none"
  /\ recovers' = recovers \cup {d}
  /\ enrolled' = enrolled \cup {d}
  /\ approved' = approved \cup {d}
  /\ WriteKeys(d, 1)
  /\ phase' = [phase EXCEPT ![d] = "ready"]
  /\ UNCHANGED <<vault, boot, epoch, revoked, wrapped, seen, rewrap, rot,
                 net, answered, sent, history>>

----------------------------------------------------------------------------
(* The relay's handlers of the requests under way *)

HandleApprove(m) ==
  /\ m.kind = "approve"
  /\ CanSync(m.from)
  /\ m.to \in enrolled \ revoked
  /\ approved' = approved \cup {m.to}
  /\ wrapped' = [wrapped EXCEPT ![m.to] = m.len]
  /\ UNCHANGED <<vault, boot, epoch, enrolled, revoked, seen, rewrap,
                 deviceVars, netVars, history>>

HandleRevoke(m) ==
  /\ m.kind = "revoke"
  /\ CanSync(m.from)
  /\ m.to \in enrolled
  /\ revoked' = revoked \cup {m.to}
  /\ approved' = approved \ {m.to}
  /\ wrapped' = [wrapped EXCEPT ![m.to] = 0]
  /\ answered' = answered \cup {m}
  /\ UNCHANGED <<vault, boot, epoch, enrolled, seen, rewrap, deviceVars,
                 net, recovers, sent, history>>

\* Mutant: the bump is not guarded by the epoch.
HandleRotate_unguarded(m) ==
  /\ m.kind = "rotate"
  /\ CanSync(m.from)
  /\ m \notin seen
  /\ seen' = seen \cup {m}
  /\ epoch' = epoch + 1
  /\ rewrap' = rewrap \cup {m}
  /\ cut' = [cut EXCEPT ![m.to] = m.len - 1]
  /\ UNCHANGED <<vault, boot, enrolled, approved, revoked, wrapped, deviceVars,
                 netVars, minters, early>>

\* rotate: the signature cache, then the guarded bump ...
HandleRotate(m) ==
  /\ m.kind = "rotate"
  /\ CanSync(m.from)
  /\ m \notin seen
  /\ seen' = seen \cup {m}
  /\ IF m.len - 2 = epoch
     THEN /\ epoch' = epoch + 1
          /\ rewrap' = rewrap \cup {m}
          /\ cut' = [cut EXCEPT ![m.to] = m.len - 1]
     ELSE UNCHANGED <<epoch, rewrap, cut>>
  /\ UNCHANGED <<vault, boot, enrolled, approved, revoked, wrapped, deviceVars,
                 netVars, minters, early>>

\* ... then the lists, one UPDATE per device, a revocation in between winning.
StoreList(m, d) ==
  /\ d \in m.for
  /\ wrapped' = IF d \in revoked THEN wrapped ELSE [wrapped EXCEPT ![d] = m.len]
  /\ rewrap' = (rewrap \ {m}) \cup
       IF m.for = {d} THEN {} ELSE {[m EXCEPT !.for = @ \ {d}]}
  /\ UNCHANGED <<vault, boot, epoch, enrolled, approved, revoked, seen,
                 deviceVars, netVars, history>>

\* recover again, from a late copy of the request.
HandleRecover(d) ==
  /\ d \in recovers
  /\ approved' = approved \cup {d}
  /\ revoked' = revoked \ {d}
  /\ UNCHANGED <<vault, boot, epoch, enrolled, wrapped, seen, rewrap,
                 deviceVars, netVars, history>>

\* A signature leaves the cache, possibly while its request is still acceptable.
EvictSeen(m) ==
  /\ m \in seen
  /\ seen' = seen \ {m}
  /\ UNCHANGED <<vault, boot, epoch, enrolled, approved, revoked, wrapped, rewrap,
                 deviceVars, netVars, history>>

\* The relay restarts between two statements of a handler.
RelayCrash ==
  /\ boot # NoDevice \/ rewrap # {}
  /\ boot' = NoDevice /\ rewrap' = {}
  /\ UNCHANGED <<vault, epoch, enrolled, approved, revoked, wrapped, seen,
                 deviceVars, netVars, history>>

Next ==
  \/ EnrollVault \/ EnrollFounder \/ RelayCrash
  \/ \E d \in Devices :
       \/ Enroll(d) \/ PollWrapped(d)
       \/ \E n \in had[d] : Heal(d, n) \/ Rewrite(d, n)
       \/ \E m \in rewrap : StoreList(m, d)
       \/ Mint(d) \/ SendRotate(d) \/ GiveUp(d) \/ Recover(d) \/ HandleRecover(d)
  \/ \E a, t \in Devices :
       \/ SendRevoke(a, t)
       \/ \E n \in had[a] : SendApprove(a, t, n) \/ StartRotation(a, t, n)
  \/ \E m \in net :
       \/ HandleApprove(m) \/ HandleRevoke(m) \/ HandleRotate(m) \/ EvictSeen(m)

Spec == Init /\ [][Next]_vars

----------------------------------------------------------------------------
(* Properties *)

\* revoke_and_rotate: "so the revoked device cannot read data written after this
\* point": a device that a rotation cut off has never held that rotation's key,
\* whatever approvals and rotations of others are under way, and whatever stale
\* copies they are made from, unless the phrase was typed on it (to mint or to
\* recover), or it was given the key of an epoch that was minted and not yet posted.
SecretUnlessEarly ==
  \A d \in Devices \ (minters \cup recovers \cup early) :
    cut[d] > 0 => \A n \in had[d] : n <= cut[d]

\* enroll, approve, rotate: "Revocation is sticky": only a recovery takes a
\* device off the revoked ones, however late or often a request is delivered.
OnlyRecoveryReadmits ==
  [][\A d \in revoked : d \notin revoked' => HandleRecover(d)]_vars

\* The relay never hands out more keys than some device has minted, and never
\* counts an epoch nobody minted: a repeated rotation advances nothing.
EpochIsMinted ==
  /\ \E d \in Devices : \E n \in had[d] : n >= epoch + 1
  /\ \A d \in Devices : wrapped[d] = 0 \/ \E e \in Devices : \E n \in had[e] : wrapped[d] <= n
=============================================================================
