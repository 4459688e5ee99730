----------------------- MODULE DeviceLifecycleProofs -----------------------
(***************************************************************************)
(* The safety properties of joining, revoking and rotating, for any number *)
(* of devices, keys and requests.                                          *)
(*                                                                         *)
(* Two things only grow: the key lists every device has had (HadGrows) and *)
(* the devices that were revoked or recovered (BarredGrow).  On the first  *)
(* rests that a request carries a list its sender has had (Minted),        *)
(* on the second that the target of a rotation is still cut off when the   *)
(* rotation reaches the relay, however late (CutOff).                      *)
(***************************************************************************)
EXTENDS DeviceLifecycle, TLAPS

Typed ==
  /\ TypeOK
  /\ \A d \in Devices :
       /\ had[d] # {} => phase[d] = "ready"
       /\ rot[d].pc # "idle" => rot[d].to \in Devices /\ rot[d].len \in had[d]
  /\ recovers \subseteq enrolled
  /\ \A m \in rewrap : m.kind = "rotate"

\* A request carries a list its sender has had.
LensHeld ==
  \A m \in net \cup rewrap : m.kind \in {"approve", "rotate"} => m.len \in had[m.from]

Minted == LensHeld /\ EpochIsMinted

\* Devices that are revoked, or that a recovery may have readmitted.
Barred == revoked \cup recovers

\* The target of a revocation is barred from its answer on, and so is that of a
\* rotation, from the minting of its key on.
TargetsBarred ==
  /\ \A m \in answered : m.kind = "revoke" => m.to \in Barred
  /\ \A a \in Devices : rot[a].pc = "minted" => rot[a].to \in Barred
  /\ \A m \in net \cup rewrap : m.kind = "rotate" => m.to \in Barred
  /\ \A d \in Devices : cut[d] > 0 => d \in Barred

\* A device where no key was minted is not ahead of the relay's epoch, but for a
\* key given to it early.
NotAhead ==
  \A d \in Devices \ (minters \cup early) : \A n \in had[d] : n <= epoch + 1

CutOff == TargetsBarred /\ NotAhead /\ SecretUnlessEarly

\* The steps that write the keyring of d.
Writes(d) ==
  PollWrapped(d) \/ Mint(d) \/ Recover(d) \/ \E n \in had[d] : Heal(d, n) \/ Rewrite(d, n)

----------------------------------------------------------------------------
(* Types *)

\* The fields of a request of each kind.
LEMMA RequestFacts ==
  ASSUME NEW m \in Requests
  PROVE  /\ m.from \in Devices /\ m.to \in Devices
         /\ m.kind \in {"approve", "revoke", "rotate"}
         /\ m.kind \in {"approve", "rotate"} => m.len \in 1..MaxKeys
         /\ m.kind = "rotate" =>
              m \in [kind : {"rotate"}, from : Devices, to : Devices, len : 1..MaxKeys,
                     for : SUBSET Devices]
BY DEF Requests

\* The relay starts without devices.
LEMMA InitTyped == Init => Typed
<1> SUFFICES ASSUME Init PROVE Typed OBVIOUS
<1> USE DeviceLifecycleAssumption
<1>1. 0 \in 0..(MaxKeys - 1) /\ 0 \in 0..MaxKeys /\ 1 \in 0..MaxKeys /\ 0 \in 0..MaxSends
  OBVIOUS
<1>2. keys \in [Devices -> 0..MaxKeys] /\ wrapped \in [Devices -> 0..MaxKeys]
      /\ cut \in [Devices -> 0..MaxKeys] /\ had \in [Devices -> SUBSET (1..MaxKeys)]
  BY <1>1 DEF Init
<1>3. TypeOK BY <1>1, <1>2 DEF Init, TypeOK, NoRotation
<1> QED BY <1>3 DEF Init, Typed, NoRotation

\* Every step of devices and handlers keeps the types.
LEMMA NextTyped == Typed /\ [Next]_vars => Typed'
<1> SUFFICES ASSUME Typed, [Next]_vars PROVE Typed' OBVIOUS
<1> USE DeviceLifecycleAssumption
<1>0. TypeOK BY DEF Typed
<1>m. \A m \in net \cup rewrap \cup seen \cup answered : m \in Requests BY <1>0 DEF TypeOK
<1>w. ASSUME NEW d \in Devices, NEW n \in 1..MaxKeys, WriteKeys(d, n)
      PROVE  /\ keys' \in [Devices -> 0..MaxKeys] /\ had' \in [Devices -> SUBSET (1..MaxKeys)]
             /\ \A c \in Devices : had[c] \subseteq had'[c]
             /\ n \in had'[d] /\ \A c \in Devices \ {d} : had'[c] = had[c]
  BY <1>0, <1>w DEF WriteKeys, TypeOK
<1>1. CASE EnrollVault
  BY <1>1 DEF EnrollVault, Typed, TypeOK, deviceVars, netVars, history
<1>2. CASE EnrollFounder
  BY <1>2 DEF EnrollFounder, Typed, TypeOK, deviceVars, netVars, history
<1>3. CASE RelayCrash
  BY <1>3 DEF RelayCrash, Typed, TypeOK, deviceVars, netVars, history
<1>4. ASSUME NEW d \in Devices, Enroll(d) PROVE Typed'
  BY <1>4 DEF Enroll, Typed, TypeOK, netVars, history
<1>5. ASSUME NEW d \in Devices, PollWrapped(d) PROVE Typed'
  <2>1. wrapped[d] \in 1..MaxKeys BY <1>5, <1>0 DEF PollWrapped, TypeOK
  <2> QED BY <1>5, <1>w, <2>1 DEF PollWrapped, WriteKeys, Early, Typed, TypeOK, relayVars, netVars
<1>6. ASSUME NEW d \in Devices, NEW n \in had[d], Heal(d, n) PROVE Typed'
  <2>1. wrapped[d] \in 1..MaxKeys
    <3>1. wrapped[d] \in 0..MaxKeys /\ n \in 1..MaxKeys BY <1>0 DEF TypeOK
    <3> QED BY <1>6, <3>1 DEF Heal
  <2> QED BY <1>6, <1>w, <2>1 DEF Heal, WriteKeys, Early, Typed, TypeOK, relayVars, netVars
<1>21. ASSUME NEW d \in Devices, NEW n \in had[d], Rewrite(d, n) PROVE Typed'
  <2>1. n \in 1..MaxKeys BY <1>0 DEF TypeOK
  <2> QED BY <1>21, <1>w, <2>1 DEF Rewrite, WriteKeys, Typed, TypeOK, relayVars, netVars, history
<1>7. ASSUME NEW d \in Devices, NEW m \in rewrap, StoreList(m, d) PROVE Typed'
  <2>1. m.kind = "rotate" /\ m \in Requests BY <1>m DEF Typed
  <2>2. /\ m \in [kind : {"rotate"}, from : Devices, to : Devices, len : 1..MaxKeys,
                  for : SUBSET Devices]
        /\ m.len \in 1..MaxKeys
    BY <2>1, RequestFacts
  <2> DEFINE left == [m EXCEPT !.for = @ \ {d}]
  <2>3. left \in Requests /\ left.kind = "rotate" BY <2>2 DEF Requests
  <2>4. rewrap' \subseteq rewrap \cup {left} BY <1>7 DEF StoreList
  <2> HIDE DEF left
  <2>5. rewrap' \subseteq Requests /\ \A q \in rewrap' : q.kind = "rotate"
    BY <1>m, <2>3, <2>4 DEF Typed
  <2>6. wrapped' \in [Devices -> 0..MaxKeys]
    <3>1. m.len \in 0..MaxKeys BY <2>2
    <3>2. wrapped \in [Devices -> 0..MaxKeys] BY <1>0 DEF TypeOK
    <3> QED BY <1>7, <3>1, <3>2 DEF StoreList
  <2> QED BY <1>7, <2>5, <2>6 DEF StoreList, Typed, TypeOK, deviceVars, netVars, history
<1>8. ASSUME NEW d \in Devices, Mint(d) PROVE Typed'
  <2>1. /\ rot[d].len + 1 \in 1..MaxKeys /\ rot[d].to \in Devices /\ rot[d].len \in had[d]
        /\ had[d] \subseteq 1..MaxKeys
    <3>1. rot[d].len \in 0..MaxKeys BY <1>0 DEF TypeOK
    <3> QED BY <1>8, <1>0, <3>1 DEF Mint, Typed, TypeOK
  <2>2. WriteKeys(d, rot[d].len + 1) BY <1>8 DEF Mint
  <2>3. rot' = [rot EXCEPT ![d] = [pc |-> "minted", to |-> rot[d].to, len |-> rot[d].len + 1]]
    BY <1>8 DEF Mint
  <2> QED BY <1>8, <1>w, <2>1, <2>2, <2>3 DEF Mint, Typed, TypeOK, relayVars, netVars
<1>9. ASSUME NEW d \in Devices, SendRotate(d) PROVE Typed'
  <2>1. rot[d].len \in 1..MaxKeys /\ rot[d].to \in Devices
    BY <1>9 DEF SendRotate, Typed, TypeOK
  <2>2. [kind |-> "rotate", from |-> d, to |-> rot[d].to, len |-> rot[d].len,
         for |-> (enrolled \ revoked) \ {rot[d].to}] \in Requests
    BY <2>1, <1>0 DEF Requests, TypeOK
  <2>3. /\ rot' = [rot EXCEPT ![d] = NoRotation]
        /\ sent < MaxSends /\ sent' = sent + 1
        /\ net' \subseteq Requests /\ answered' \subseteq Requests
        /\ UNCHANGED <<relayVars, keys, had, phase, history, recovers>>
    BY <1>9, <2>2, <1>m DEF SendRotate, Send
  <2> QED BY <2>3 DEF Typed, TypeOK, relayVars, history, NoRotation
<1>10. ASSUME NEW d \in Devices, GiveUp(d) PROVE Typed'
  BY <1>10 DEF GiveUp, Typed, TypeOK, relayVars, netVars, history, NoRotation
<1>11. ASSUME NEW d \in Devices, Recover(d) PROVE Typed'
  BY <1>11, <1>w DEF Recover, WriteKeys, Typed, TypeOK, history
<1>12. ASSUME NEW d \in Devices, HandleRecover(d) PROVE Typed'
  BY <1>12 DEF HandleRecover, Typed, TypeOK, deviceVars, netVars, history
<1>13. ASSUME NEW a \in Devices, NEW t \in Devices, NEW n \in had[a], SendApprove(a, t, n)
       PROVE  Typed'
  <2>1. n \in 1..MaxKeys BY <1>0 DEF TypeOK
  <2>2. [kind |-> "approve", from |-> a, to |-> t, len |-> n] \in Requests
    BY <2>1 DEF Requests
  <2> QED BY <1>13, <2>2 DEF SendApprove, Send, Typed, TypeOK, relayVars, deviceVars, history
<1>14. ASSUME NEW a \in Devices, NEW t \in Devices, SendRevoke(a, t) PROVE Typed'
  <2>1. [kind |-> "revoke", from |-> a, to |-> t] \in Requests BY DEF Requests
  <2> QED BY <1>14, <2>1 DEF SendRevoke, Send, Typed, TypeOK, relayVars, deviceVars, history
<1>15. ASSUME NEW a \in Devices, NEW t \in Devices, NEW n \in had[a], StartRotation(a, t, n)
       PROVE  Typed'
  <2>0. n \in 0..MaxKeys BY <1>0 DEF TypeOK
  <2>1. [kind |-> "revoke", from |-> a, to |-> t] \in Requests BY DEF Requests
  <2> QED BY <1>15, <2>0, <2>1
          DEF StartRotation, Admin, Send, Typed, TypeOK, relayVars, history
<1>16. ASSUME NEW m \in net, HandleApprove(m) PROVE Typed'
  <2>1. m \in Requests /\ m.len \in 0..MaxKeys /\ m.to \in Devices
    BY <1>16, <1>m, RequestFacts DEF HandleApprove
  <2> QED BY <1>16, <2>1 DEF HandleApprove, Typed, TypeOK, deviceVars, netVars, history
<1>17. ASSUME NEW m \in net, HandleRevoke(m) PROVE Typed'
  <2>1. m \in Requests /\ m.to \in Devices BY <1>m, RequestFacts
  <2> QED BY <1>17, <2>1 DEF HandleRevoke, Typed, TypeOK, deviceVars, history
<1>18. ASSUME NEW m \in net, HandleRotate(m) PROVE Typed'
  <2>1. m \in Requests /\ m.kind = "rotate" BY <1>18, <1>m DEF HandleRotate
  <2>2. m.len \in 1..MaxKeys /\ m.to \in Devices BY <2>1, RequestFacts
  <2>3. UNCHANGED <<vault, boot, enrolled, approved, revoked, wrapped, keys, had, phase, rot,
                    net, answered, recovers, sent, minters, early>>
    BY <1>18 DEF HandleRotate, deviceVars, netVars
  <2>4. epoch \in 0..(MaxKeys - 1) /\ cut \in [Devices -> 0..MaxKeys] BY <1>0 DEF TypeOK
  <2>5. epoch' \in 0..(MaxKeys - 1) BY <1>18, <2>2, <2>4 DEF HandleRotate
  <2>6. cut' \in [Devices -> 0..MaxKeys]
    <3>1. m.len - 1 \in 0..MaxKeys BY <2>2
    <3> QED BY <1>18, <3>1, <2>4 DEF HandleRotate
  <2>7. /\ seen' \subseteq Requests /\ rewrap' \subseteq Requests
        /\ \A q \in rewrap' : q.kind = "rotate"
    BY <1>18, <2>1, <1>m DEF HandleRotate, Typed
  <2> QED BY <2>3, <2>5, <2>6, <2>7 DEF Typed, TypeOK
<1>19. ASSUME NEW m \in net, EvictSeen(m) PROVE Typed'
  BY <1>19 DEF EvictSeen, Typed, TypeOK, deviceVars, netVars, history
<1>20. CASE UNCHANGED vars
  BY <1>20 DEF vars, relayVars, deviceVars, netVars, history, Typed, TypeOK
<1> QED
  BY <1>1, <1>2, <1>3, <1>4, <1>5, <1>6, <1>7, <1>8, <1>9, <1>10, <1>11, <1>12, <1>13,
     <1>14, <1>15, <1>16, <1>17, <1>18, <1>19, <1>20, <1>21
  DEF Next

\* The types hold throughout.
LEMMA SpecTyped == Spec => []Typed
BY InitTyped, NextTyped, PTL DEF Spec

----------------------------------------------------------------------------
(* What only grows *)

\* A step that is not of a process writing its keyring leaves it alone.
LEMMA OnlyWrites ==
  ASSUME [Next]_vars
  PROVE  UNCHANGED had \/ \E d \in Devices : Writes(d)
BY DEF Next, Writes, EnrollVault, EnrollFounder, RelayCrash, Enroll, StoreList, SendRotate,
       GiveUp, HandleRecover, SendApprove, SendRevoke, StartRotation, HandleApprove,
       HandleRevoke, HandleRotate, EvictSeen, relayVars, deviceVars, netVars,
       history, vars

\* What a device's keyring has held is never taken out of that history.
LEMMA HadGrows ==
  ASSUME Typed, [Next]_vars, NEW c \in Devices
  PROVE  had[c] \subseteq Nat /\ had'[c] \subseteq Nat /\ had[c] \subseteq had'[c]
<1>0. had \in [Devices -> SUBSET (1..MaxKeys)] BY DEF Typed, TypeOK
<1>1. had[c] \subseteq Nat /\ had'[c] \subseteq Nat
  BY NextTyped, DeviceLifecycleAssumption DEF Typed, TypeOK
<1>2. ASSUME NEW d \in Devices, Writes(d) PROVE had[c] \subseteq had'[c]
  BY <1>0, <1>2 DEF Writes, PollWrapped, Heal, Rewrite, Mint, Recover, WriteKeys
<1> QED BY <1>1, <1>2, OnlyWrites

\* A device leaves the revoked ones by a recovery only.
LEMMA Readmission ==
  ASSUME [Next]_vars, NEW d \in revoked, d \notin revoked'
  PROVE  HandleRecover(d)
<1>1. \/ revoked \subseteq revoked' \/ \E c \in Devices : HandleRecover(c)
  BY DEF Next, EnrollVault, EnrollFounder, RelayCrash, Enroll, PollWrapped, Heal, Rewrite,
         WriteKeys, StoreList, Mint, SendRotate, GiveUp, Recover, SendApprove, SendRevoke,
         StartRotation, HandleApprove, HandleRevoke, HandleRotate, EvictSeen,
         relayVars, deviceVars, netVars, history, vars
<1>2. PICK c \in Devices : HandleRecover(c) BY <1>1
<1>3. c = d BY <1>2 DEF HandleRecover
<1> QED BY <1>2, <1>3

\* A device that was revoked or recovered stays among those that were.
LEMMA BarredGrow ==
  ASSUME [Next]_vars
  PROVE  Barred \subseteq Barred'
<1>1. recovers \subseteq recovers'
  BY DEF Next, EnrollVault, EnrollFounder, RelayCrash, Enroll, PollWrapped, Heal, Rewrite,
         WriteKeys, StoreList, Mint, SendRotate, GiveUp, Recover, HandleRecover, SendApprove,
         SendRevoke, StartRotation, HandleApprove, HandleRevoke, HandleRotate,
         EvictSeen, Send, relayVars, deviceVars, netVars, history, vars
<1>2. ASSUME NEW d \in revoked, d \notin revoked' PROVE d \in recovers
  BY <1>2, Readmission DEF HandleRecover
<1> QED BY <1>1, <1>2 DEF Barred

\* What a step may add to the requests under way.
LEMMA NewRequests ==
  ASSUME [Next]_vars, NEW m \in net' \cup rewrap', m \notin net \cup rewrap
  PROVE  \/ \E a, t \in Devices : SendRevoke(a, t) /\ m \in net'
         \/ \E a, t \in Devices : \E n \in had[a] :
              (SendApprove(a, t, n) \/ StartRotation(a, t, n)) /\ m \in net'
         \/ \E a \in Devices : SendRotate(a) /\ m \in net'
         \/ \E q \in rewrap, d \in Devices : StoreList(q, d) /\ m \in rewrap'
<1>1. CASE m \in net'
  BY <1>1
  DEF Next, EnrollVault, EnrollFounder, RelayCrash, Enroll, PollWrapped, Heal, Rewrite,
      WriteKeys, StoreList, Mint, GiveUp, Recover, HandleRecover, HandleApprove, HandleRevoke,
      HandleRotate, EvictSeen, relayVars, deviceVars, netVars, history, vars
<1>2. CASE m \in rewrap'
  BY <1>2
  DEF Next, EnrollVault, EnrollFounder, RelayCrash, Enroll, PollWrapped, Heal, Rewrite,
      WriteKeys, Mint, SendRotate, GiveUp, Recover, HandleRecover, SendApprove, SendRevoke,
      StartRotation, HandleApprove, HandleRevoke, HandleRotate, EvictSeen, relayVars,
      deviceVars, netVars, history, vars
<1> QED BY <1>1, <1>2

----------------------------------------------------------------------------
(* Minted epochs *)

\* There is no request at the start, and the relay is at its first epoch.
LEMMA InitMinted == Init => Minted
<1> SUFFICES ASSUME Init PROVE Minted OBVIOUS
<1>1. had[Founder] = {1} /\ Founder \in Devices BY DeviceLifecycleAssumption DEF Init
<1>2. EpochIsMinted BY <1>1 DEF Init, EpochIsMinted
<1> QED BY <1>2 DEF Init, Minted, LensHeld

\* No step sends or counts a key that its device has not minted or been given.
LEMMA NextMinted == Typed /\ Minted /\ [Next]_vars => Minted'
<1> SUFFICES ASSUME Typed, Minted, [Next]_vars PROVE Minted' OBVIOUS
<1>m. \A m \in net \cup rewrap : m \in Requests BY DEF Typed, TypeOK
<1>k. \A c \in Devices : had[c] \subseteq Nat /\ had'[c] \subseteq Nat /\ had[c] \subseteq had'[c]
  BY HadGrows
<1>l. ASSUME NEW m \in net \cup rewrap, m.kind \in {"approve", "rotate"}
      PROVE  m.from \in Devices /\ m.len \in Nat /\ m.len \in had'[m.from]
  <2>1. m.from \in Devices /\ m.len \in had[m.from]
    BY <1>l, <1>m, RequestFacts DEF Minted, LensHeld
  <2> QED BY <2>1, <1>k
<1>1. LensHeld'
  <2> SUFFICES ASSUME NEW m \in net' \cup rewrap', m.kind \in {"approve", "rotate"},
                      m \notin net \cup rewrap
               PROVE  m.len \in had'[m.from]
    BY <1>l DEF LensHeld
  <2>1. ASSUME NEW a \in Devices, NEW t \in Devices, NEW n \in had[a],
               SendApprove(a, t, n), m \in net'
        PROVE  m.len \in had'[m.from]
    <3>1. m = [kind |-> "approve", from |-> a, to |-> t, len |-> n]
      BY <2>1 DEF SendApprove, Send
    <3> QED BY <3>1, <1>k
  <2>2. ASSUME NEW a \in Devices, NEW t \in Devices, NEW n \in had[a],
               StartRotation(a, t, n), m \in net'
        PROVE  FALSE
    BY <2>2 DEF StartRotation, Send
  <2>5. ASSUME NEW a \in Devices, NEW t \in Devices, SendRevoke(a, t), m \in net'
        PROVE  FALSE
    BY <2>5 DEF SendRevoke, Send
  <2>3. ASSUME NEW a \in Devices, SendRotate(a), m \in net' PROVE m.len \in had'[m.from]
    <3>1. m = [kind |-> "rotate", from |-> a, to |-> rot[a].to, len |-> rot[a].len,
               for |-> (enrolled \ revoked) \ {rot[a].to}]
      BY <2>3 DEF SendRotate, Send
    <3>2. rot[a].len \in had[a] BY <2>3 DEF SendRotate, Typed
    <3> QED BY <3>1, <3>2, <1>k
  <2>4. ASSUME NEW q \in rewrap, NEW d \in Devices, StoreList(q, d), m \in rewrap'
        PROVE  m.len \in had'[m.from]
    <3>1. m = [q EXCEPT !.for = @ \ {d}] BY <2>4 DEF StoreList
    <3>2. q.kind = "rotate" /\ q \in Requests BY <1>m DEF Typed
    <3>3. m.len = q.len /\ m.from = q.from BY <3>1, <3>2, RequestFacts
    <3> QED BY <3>2, <3>3, <1>l
  <2> QED BY <2>1, <2>2, <2>3, <2>4, <2>5, NewRequests
<1>2. \E d \in Devices : \E n \in had'[d] : n >= epoch' + 1
  <2>0. epoch \in Int BY DeviceLifecycleAssumption DEF Typed, TypeOK
  <2>1. CASE UNCHANGED epoch
    <3>1. PICK d \in Devices : \E n \in had[d] : n >= epoch + 1 BY DEF Minted, EpochIsMinted
    <3>2. PICK n \in had[d] : n >= epoch + 1 BY <3>1
    <3>3. n \in had'[d] /\ n >= epoch' + 1 BY <3>2, <2>1, <1>k
    <3> QED BY <3>3
  <2>2. ASSUME NEW m \in net, HandleRotate(m), epoch' # epoch
        PROVE  \E d \in Devices : \E n \in had'[d] : n >= epoch' + 1
    <3>1. m.kind = "rotate" /\ m.len - 2 = epoch /\ epoch' = epoch + 1
      BY <2>2 DEF HandleRotate
    <3>2. m.from \in Devices /\ m.len \in Nat /\ m.len \in had'[m.from] BY <3>1, <1>l
    <3>3. m.len >= epoch' + 1 BY <3>1, <3>2, <2>0
    <3> QED BY <3>2, <3>3
  <2>3. UNCHANGED epoch \/ \E m \in net : HandleRotate(m)
    BY DEF Next, EnrollVault, EnrollFounder, RelayCrash, Enroll, PollWrapped, Heal, Rewrite,
           StoreList, Mint, SendRotate, GiveUp, Recover, HandleRecover, SendApprove, SendRevoke,
           StartRotation, HandleApprove, HandleRevoke, EvictSeen,
           relayVars, deviceVars, netVars, history, vars
  <2> QED BY <2>1, <2>2, <2>3
<1>3. ASSUME NEW d \in Devices, wrapped'[d] # 0
      PROVE  \E e \in Devices : \E n \in had'[e] : wrapped'[d] <= n
  <2>0. /\ wrapped \in [Devices -> 0..MaxKeys]
        /\ \A c \in Devices : wrapped[c] \in Nat
    BY DeviceLifecycleAssumption DEF Typed, TypeOK
  <2>1. CASE wrapped'[d] = wrapped[d]
    <3>1. PICK e \in Devices : \E n \in had[e] : wrapped[d] <= n
      BY <1>3, <2>1 DEF Minted, EpochIsMinted
    <3> QED BY <3>1, <2>1, <1>k
  <2>2. ASSUME NEW m \in net, m.kind = "approve", wrapped'[d] = m.len
        PROVE  \E e \in Devices : \E n \in had'[e] : wrapped'[d] <= n
    <3>1. m.from \in Devices /\ m.len \in had'[m.from] /\ m.len <= m.len BY <2>2, <1>l
    <3> QED BY <2>2, <3>1
  <2>3. ASSUME NEW m \in rewrap, wrapped'[d] = m.len
        PROVE  \E e \in Devices : \E n \in had'[e] : wrapped'[d] <= n
    <3>1. m.kind = "rotate" BY DEF Typed
    <3>2. m.from \in Devices /\ m.len \in had'[m.from] /\ m.len <= m.len BY <3>1, <1>l
    <3> QED BY <2>3, <3>2
  <2>4. \/ UNCHANGED wrapped
        \/ \E m \in net : HandleApprove(m) \/ HandleRevoke(m)
        \/ \E m \in rewrap, c \in Devices : StoreList(m, c)
    BY DEF Next, EnrollVault, EnrollFounder, RelayCrash, Enroll, PollWrapped, Heal, Rewrite,
           Mint, SendRotate, GiveUp, Recover, HandleRecover, SendApprove, SendRevoke,
           StartRotation, HandleRotate, EvictSeen,
           relayVars, deviceVars, netVars, history, vars
  <2>5. \/ wrapped'[d] = wrapped[d]
        \/ \E m \in net : m.kind = "approve" /\ wrapped'[d] = m.len
        \/ \E m \in rewrap : wrapped'[d] = m.len
    BY <1>3, <2>0, <2>4 DEF HandleApprove, HandleRevoke, StoreList
  <2> QED BY <2>1, <2>2, <2>3, <2>5
<1> QED BY <1>1, <1>2, <1>3 DEF Minted, EpochIsMinted

\* Requests carry only keys their senders have.
LEMMA SpecMinted == Spec => []Minted
BY InitMinted, NextMinted, SpecTyped, PTL DEF Spec

----------------------------------------------------------------------------
(* Devices that were cut off *)

\* A revoked device takes no key from the relay.
LEMMA RevokedTakesNothing ==
  ASSUME Typed, [Next]_vars, NEW d \in revoked, d \notin minters' \cup recovers'
  PROVE  had'[d] = had[d]
<1>0. had \in [Devices -> SUBSET (1..MaxKeys)] /\ d \in Devices BY DEF Typed, TypeOK
<1>1. ASSUME NEW c \in Devices, PollWrapped(c) PROVE had'[d] = had[d]
  BY <1>0, <1>1 DEF PollWrapped, WriteKeys, CanSync
<1>2. ASSUME NEW c \in Devices, NEW n \in had[c], Heal(c, n) PROVE had'[d] = had[d]
  BY <1>0, <1>2 DEF Heal, WriteKeys
<1>3. ASSUME NEW c \in Devices, NEW n \in had[c], Rewrite(c, n) PROVE had'[d] = had[d]
  <2>1. had' = [had EXCEPT ![c] = had[c] \cup {n}] BY <1>3 DEF Rewrite, WriteKeys
  <2>2. had[c] \cup {n} = had[c] OBVIOUS
  <2> QED BY <1>0, <2>1, <2>2
<1>4. ASSUME NEW c \in Devices, Mint(c) \/ Recover(c) PROVE had'[d] = had[d]
  BY <1>0, <1>4 DEF Mint, Recover, WriteKeys
<1> QED BY <1>1, <1>2, <1>3, <1>4, OnlyWrites DEF Writes

\* No device is cut off at the start.
LEMMA InitCutOff == Init => CutOff
<1> SUFFICES ASSUME Init PROVE CutOff OBVIOUS
<1>1. TargetsBarred BY DEF Init, TargetsBarred, NoRotation
<1>2. NotAhead BY DEF Init, NotAhead
<1> QED BY <1>1, <1>2 DEF Init, CutOff, SecretUnlessEarly

\* The target of a rotation under way stays revoked, unless it recovers.
LEMMA NextTargetsBarred == Typed /\ TargetsBarred /\ [Next]_vars => TargetsBarred'
<1> SUFFICES ASSUME Typed, TargetsBarred, [Next]_vars PROVE TargetsBarred' OBVIOUS
<1>b. Barred \subseteq Barred' BY BarredGrow
<1>m. \A m \in net \cup rewrap : m \in Requests BY DEF Typed, TypeOK
<1>1. ASSUME NEW m \in answered', m.kind = "revoke" PROVE m.to \in Barred'
  <2>1. CASE m \in answered BY <1>1, <2>1, <1>b DEF TargetsBarred
  <2>2. answered' \subseteq answered \/ \E n \in net : HandleRevoke(n)
    <3>1. ASSUME NEW a \in Devices, NEW t \in Devices, NEW n \in had[a],
                 SendApprove(a, t, n) \/ StartRotation(a, t, n)
          PROVE  answered' \subseteq answered
      BY <3>1 DEF SendApprove, StartRotation, Send
    <3>1a. ASSUME NEW a \in Devices, NEW t \in Devices, SendRevoke(a, t)
           PROVE  answered' \subseteq answered
      BY <3>1a DEF SendRevoke, Send
    <3>2. ASSUME NEW d \in Devices,
                 \/ Enroll(d) \/ PollWrapped(d) \/ Mint(d) \/ SendRotate(d) \/ GiveUp(d)
                 \/ Recover(d) \/ HandleRecover(d)
                 \/ \E n \in had[d] : Heal(d, n) \/ Rewrite(d, n)
                 \/ \E q \in rewrap : StoreList(q, d)
          PROVE  answered' \subseteq answered
      BY <3>2 DEF Enroll, PollWrapped, Mint, SendRotate, GiveUp, Recover, HandleRecover,
         Heal, Rewrite, WriteKeys, StoreList, Send, netVars
    <3>3. ASSUME NEW n \in net,
                 HandleApprove(n) \/ HandleRotate(n) \/ EvictSeen(n)
          PROVE  answered' \subseteq answered
      BY <3>3 DEF HandleApprove, HandleRotate, EvictSeen, netVars
    <3>4. CASE EnrollVault \/ EnrollFounder \/ RelayCrash \/ UNCHANGED vars
      BY <3>4 DEF EnrollVault, EnrollFounder, RelayCrash, netVars, vars
    <3> QED BY <3>1, <3>1a, <3>2, <3>3, <3>4 DEF Next
  <2>3. CASE m \notin answered
    <3>1. PICK n \in net : HandleRevoke(n) BY <1>1, <2>2, <2>3
    <3>2. m = n BY <1>1, <2>3, <3>1 DEF HandleRevoke
    <3> QED BY <3>1, <3>2 DEF HandleRevoke, Barred
  <2> QED BY <2>1, <2>3
<1>2. ASSUME NEW a \in Devices, rot'[a].pc = "minted" PROVE rot'[a].to \in Barred'
  <2>0. rot \in [Devices -> [pc : {"idle", "revoking", "minted"},
                             to : Devices \cup {NoDevice}, len : 0..MaxKeys]]
    BY DEF Typed, TypeOK
  <2>1. CASE rot'[a] = rot[a] BY <1>2, <2>1, <1>b DEF TargetsBarred
  <2>2. ASSUME NEW c \in Devices, Mint(c), rot'[a] # rot[a] PROVE rot'[a].to \in Barred'
    <3>1. c = a /\ rot'[a].to = rot[a].to BY <2>0, <2>2 DEF Mint
    <3>2. rot[a].to \in Barred BY <2>2, <3>1 DEF Mint, TargetsBarred
    <3> QED BY <3>1, <3>2, <1>b
  <2>3. ASSUME NEW c \in Devices, SendRotate(c) \/ GiveUp(c), rot'[a] # rot[a] PROVE FALSE
    BY <1>2, <2>0, <2>3 DEF SendRotate, GiveUp, NoRotation
  <2>4. ASSUME NEW c \in Devices, NEW t \in Devices, NEW n \in had[c],
               StartRotation(c, t, n), rot'[a] # rot[a]
        PROVE  FALSE
    BY <1>2, <2>0, <2>4 DEF StartRotation
  <2>5. \/ UNCHANGED rot
        \/ \E c \in Devices : Mint(c) \/ SendRotate(c) \/ GiveUp(c)
        \/ \E c, t \in Devices : \E n \in had[c] : StartRotation(c, t, n)
    BY DEF Next, EnrollVault, EnrollFounder, RelayCrash, Enroll, PollWrapped, Heal, Rewrite,
           WriteKeys, StoreList, Recover, HandleRecover, SendApprove, SendRevoke,
           HandleApprove, HandleRevoke, HandleRotate, EvictSeen, relayVars, deviceVars,
           netVars, history, vars
  <2> QED BY <2>1, <2>2, <2>3, <2>4, <2>5
<1>3. ASSUME NEW m \in net' \cup rewrap', m.kind = "rotate" PROVE m.to \in Barred'
  <2>1. CASE m \in net \cup rewrap BY <1>3, <2>1, <1>b DEF TargetsBarred
  <2>2. ASSUME NEW a \in Devices, NEW t \in Devices, m \notin net \cup rewrap, m \in net',
               SendRevoke(a, t) \/ \E n \in had[a] : SendApprove(a, t, n) \/ StartRotation(a, t, n)
        PROVE  FALSE
    BY <1>3, <2>2 DEF SendApprove, SendRevoke, StartRotation, Send
  <2>3. ASSUME NEW a \in Devices, SendRotate(a), m \notin net \cup rewrap, m \in net'
        PROVE  m.to \in Barred'
    <3>1. m.to = rot[a].to /\ rot[a].pc = "minted" BY <2>3 DEF SendRotate, Send
    <3> QED BY <3>1, <1>b DEF TargetsBarred
  <2>4. ASSUME NEW q \in rewrap, NEW d \in Devices, StoreList(q, d),
               m \notin net \cup rewrap, m \in rewrap'
        PROVE  m.to \in Barred'
    <3>1. m = [q EXCEPT !.for = @ \ {d}] BY <2>4 DEF StoreList
    <3>2. q.kind = "rotate" /\ q \in Requests BY <1>m DEF Typed
    <3>3. m.to = q.to BY <3>1, <3>2, RequestFacts
    <3> QED BY <3>2, <3>3, <1>b DEF TargetsBarred
  <2> QED BY <2>1, <2>2, <2>3, <2>4, NewRequests
<1>4. ASSUME NEW d \in Devices, cut'[d] > 0 PROVE d \in Barred'
  <2>0. cut \in [Devices -> 0..MaxKeys] BY DEF Typed, TypeOK
  <2>1. CASE cut'[d] = cut[d] BY <1>4, <2>1, <1>b DEF TargetsBarred
  <2>2. ASSUME NEW m \in net, HandleRotate(m), cut'[d] # cut[d] PROVE d \in Barred'
    <3>1. m.to = d /\ m.kind = "rotate" BY <2>0, <2>2 DEF HandleRotate
    <3> QED BY <3>1, <1>b DEF TargetsBarred
  <2>3. UNCHANGED cut \/ \E m \in net : HandleRotate(m)
    BY DEF Next, EnrollVault, EnrollFounder, RelayCrash, Enroll, PollWrapped, Heal, Rewrite,
           WriteKeys, StoreList, Mint, SendRotate, GiveUp, Recover, HandleRecover, SendApprove,
           SendRevoke, StartRotation, HandleApprove, HandleRevoke, EvictSeen,
           relayVars, deviceVars, netVars, history, vars
  <2> QED BY <2>1, <2>2, <2>3
<1> QED BY <1>1, <1>2, <1>3, <1>4 DEF TargetsBarred

\* What a step does to the epoch, the cuts and the sets that only grow.
LEMMA HistoryGrows ==
  ASSUME Typed, [Next]_vars
  PROVE  /\ epoch \in Nat /\ epoch' \in Nat /\ epoch <= epoch'
         /\ minters \subseteq minters' /\ early \subseteq early'
         /\ recovers \subseteq recovers'
<1>0. epoch \in Nat BY DeviceLifecycleAssumption DEF Typed, TypeOK
<1>1. UNCHANGED epoch \/ epoch' = epoch + 1
  BY DEF Next, EnrollVault, EnrollFounder, RelayCrash, Enroll, PollWrapped, Heal, Rewrite,
         WriteKeys, StoreList, Mint, SendRotate, GiveUp, Recover, HandleRecover, SendApprove,
         SendRevoke, StartRotation, HandleApprove, HandleRevoke, HandleRotate,
         EvictSeen, relayVars, deviceVars, netVars, history, vars
<1>2. /\ minters \subseteq minters' /\ early \subseteq early'
      /\ recovers \subseteq recovers'
  BY DEF Next, EnrollVault, EnrollFounder, RelayCrash, Enroll, PollWrapped, Heal, Rewrite,
         WriteKeys, StoreList, Mint, SendRotate, GiveUp, Recover, HandleRecover, SendApprove,
         SendRevoke, Send, StartRotation, HandleApprove, HandleRevoke, HandleRotate,
         EvictSeen, Early, relayVars, deviceVars, netVars, history, vars
<1> QED BY <1>0, <1>1, <1>2

\* Only an early grant puts a device that mints nothing ahead of the relay.
LEMMA NextNotAhead == Typed /\ NotAhead /\ [Next]_vars => NotAhead'
<1> SUFFICES ASSUME Typed, NotAhead, [Next]_vars,
                    NEW d \in Devices, d \notin minters' \cup early'
             PROVE  \A n \in had'[d] : n <= epoch' + 1
  BY DEF NotAhead
<1>0. /\ had \in [Devices -> SUBSET (1..MaxKeys)] /\ had[d] \subseteq Nat
      /\ wrapped[d] \in Nat
  BY HadGrows, DeviceLifecycleAssumption DEF Typed, TypeOK
<1>1. epoch \in Nat /\ epoch' \in Nat /\ epoch <= epoch' BY HistoryGrows
<1>a. \A n, e, g \in Nat : n <= e + 1 /\ e <= g => n <= g + 1 OBVIOUS
<1>2. \A n \in had[d] : n <= epoch + 1 BY HistoryGrows DEF NotAhead
<1>3. CASE had'[d] = had[d]
  <2> SUFFICES ASSUME NEW n \in had[d] PROVE n <= epoch' + 1 BY <1>3
  <2>1. n \in Nat /\ n <= epoch + 1 BY <1>0, <1>2
  <2> QED BY <1>a, <1>1, <2>1
<1>4. ASSUME NEW n \in Nat, had'[d] = had[d] \cup {n}, n <= epoch + 1
      PROVE  \A k \in had'[d] : k <= epoch' + 1
  <2> SUFFICES ASSUME NEW k \in had[d] \cup {n} PROVE k <= epoch' + 1 BY <1>4
  <2>1. k \in Nat /\ k <= epoch + 1 BY <1>0, <1>2, <1>4
  <2> QED BY <1>a, <1>1, <2>1
<1>5. ASSUME NEW c \in Devices, Writes(c), had'[d] # had[d]
      PROVE  \E n \in Nat : had'[d] = had[d] \cup {n} /\ n <= epoch + 1
  <2>1. CASE PollWrapped(c) \/ \E k \in had[c] : Heal(c, k)
    <3>1. c = d /\ had'[d] = had[d] \cup {wrapped[d]} /\ early' = Early(d)
      BY <1>0, <1>5, <2>1 DEF PollWrapped, Heal, WriteKeys
    <3>2. wrapped[d] <= epoch + 1 BY <1>0, <1>1, <3>1 DEF Early
    <3> QED BY <1>0, <3>1, <3>2
  <2>2. CASE \E k \in had[c] : Rewrite(c, k)
    BY <1>0, <1>5, <2>2 DEF Rewrite, WriteKeys
  <2>3. CASE Mint(c) BY <1>0, <1>5, <2>3 DEF Mint, WriteKeys
  <2>4. CASE Recover(c)
    <3>1. had'[d] = had[d] \cup {1} BY <1>0, <1>5, <2>4 DEF Recover, WriteKeys
    <3>2. 1 \in Nat /\ 1 <= epoch + 1 BY <1>1
    <3> QED BY <3>1, <3>2
  <2> QED BY <1>5, <2>1, <2>2, <2>3, <2>4 DEF Writes
<1> QED BY <1>3, <1>4, <1>5, OnlyWrites

\* No step gives a device that was cut off a key minted since.
LEMMA NextCutOff == Typed /\ CutOff /\ [Next]_vars => CutOff'
<1> SUFFICES ASSUME Typed, CutOff, [Next]_vars PROVE CutOff' OBVIOUS
<1>0. TargetsBarred /\ NotAhead /\ SecretUnlessEarly BY DEF CutOff
<1>1. TargetsBarred' /\ NotAhead' BY <1>0, NextTargetsBarred, NextNotAhead
<1>2. ASSUME NEW d \in Devices, d \notin minters' \cup recovers' \cup early', cut'[d] > 0
      PROVE  \A n \in had'[d] : n <= cut'[d]
  <2>0. /\ d \notin minters \cup recovers \cup early /\ epoch \in Nat
        /\ had[d] \subseteq Nat /\ cut \in [Devices -> 0..MaxKeys]
    BY <1>2, HistoryGrows, HadGrows DEF Typed, TypeOK
  <2>1. CASE cut'[d] = cut[d]
    <3>1. d \in revoked BY <1>0, <1>2, <2>0, <2>1 DEF TargetsBarred, Barred
    <3>2. had'[d] = had[d] BY <1>2, <3>1, RevokedTakesNothing
    <3> QED BY <1>0, <1>2, <2>0, <2>1, <3>2 DEF SecretUnlessEarly
  <2>2. ASSUME NEW m \in net, HandleRotate(m), cut'[d] # cut[d]
        PROVE  \A n \in had'[d] : n <= cut'[d]
    <3>1. m.kind = "rotate" /\ m.len - 2 = epoch /\ cut'[d] = m.len - 1 /\ had' = had
      BY <2>0, <2>2 DEF HandleRotate, deviceVars
    <3>2. m.len \in Nat
      BY <3>1, RequestFacts, DeviceLifecycleAssumption DEF Typed, TypeOK
    <3>3. \A n \in had[d] : n <= epoch + 1 BY <1>0, <2>0 DEF NotAhead
    <3>4. cut'[d] = epoch + 1 BY <2>0, <3>1, <3>2
    <3> QED BY <3>1, <3>3, <3>4
  <2>3. UNCHANGED cut \/ \E m \in net : HandleRotate(m)
    BY DEF Next, EnrollVault, EnrollFounder, RelayCrash, Enroll, PollWrapped, Heal, Rewrite,
           WriteKeys, StoreList, Mint, SendRotate, GiveUp, Recover, HandleRecover, SendApprove,
           SendRevoke, StartRotation, HandleApprove, HandleRevoke, EvictSeen,
           relayVars, deviceVars, netVars, history, vars
  <2> QED BY <2>1, <2>2, <2>3
<1>3. SecretUnlessEarly' BY <1>2 DEF SecretUnlessEarly
<1> QED BY <1>1, <1>3 DEF CutOff

\* Devices that were cut off stay so.
LEMMA SpecCutOff == Spec => []CutOff
BY InitCutOff, NextCutOff, SpecTyped, PTL DEF Spec

----------------------------------------------------------------------------
(* Theorems *)

\* Every value of the relay's tables, the devices and the requests of device.rs is
\* of its type; an approved or revoked device has a row.
THEOREM DeviceLifecycleTypeOK == Spec => []TypeOK
<1>1. Typed => TypeOK BY DEF Typed
<1> QED BY <1>1, SpecTyped, PTL

\* rotate: the guarded bump never counts an epoch nobody minted, and no handler
\* stores a list longer than some device's, however requests are delayed or repeated.
THEOREM EpochsAreMinted == Spec => []EpochIsMinted
<1>1. Minted => EpochIsMinted BY DEF Minted
<1> QED BY <1>1, SpecMinted, PTL

\* revoke_and_rotate: a device cut off by a rotation never holds its key, unless the
\* phrase was typed on it or it was given a key before the key's epoch was posted.
THEOREM RotationCutsOff == Spec => []SecretUnlessEarly
<1>1. CutOff => SecretUnlessEarly BY DEF CutOff
<1> QED BY <1>1, SpecCutOff, PTL

\* enroll, approve, revoke, rotate: only the recovery of the very device takes it
\* off the revoked ones.
THEOREM RevocationIsSticky == Spec => OnlyRecoveryReadmits
<1>1. [Next]_vars => [\A d \in revoked : d \notin revoked' => HandleRecover(d)]_vars
  BY Readmission
<1> QED BY <1>1, PTL DEF Spec, OnlyRecoveryReadmits
=============================================================================
