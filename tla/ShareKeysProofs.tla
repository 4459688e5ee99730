-------------------------- MODULE ShareKeysProofs --------------------------
(***************************************************************************)
(* The safety properties of a named share's keys, for any devices and any  *)
(* number of keys and requests.                                            *)
(*                                                                         *)
(* Four facts carry the proof.  Wherever a key list is (keyring, row,      *)
(* answer, request, rotation half done), it has at position e + 1 a key    *)
(* minted as the key of epoch e (AllPlaced).  The relay's epoch is at or   *)
(* past every list it has stored or accepted (EpochCovers).  The new key   *)
(* of a rotation whose DELETE is still to come is with its minter only,    *)
(* unless a grant or another rotation carried it (Fresh).  A device that   *)
(* was removed has no row, and neither its keyring nor an answer still     *)
(* under way has a key of another device that was not within its reach     *)
(* then (Outside).                                                         *)
(***************************************************************************)
EXTENDS ShareKeys, SequenceTheorems, TLAPS

Mintings == [by : Devices, epoch : 0..(MaxMints - 1)]

\* The keys of l are among the mintings ms, each minted for its place.
Placed(l, ms) ==
  /\ Len(l) <= Len(ms)
  /\ \A i \in 1..Len(l) : l[i] <= Len(ms) /\ ms[l[i]].epoch = i - 1

AllPlaced ==
  /\ \A d \in Devices : /\ Placed(row[d], mints)
                        /\ Placed(ring[d], mints)
                        /\ Placed(answer[d].list, mints)
  /\ \A m \in net : Placed(m.list, mints)
  /\ \A w \in work : Placed(w.list, mints)
  /\ \A a \in accepted : Placed(a.list, mints)

EpochCovers ==
  /\ \A m \in net : Len(m.list) > 0
  /\ \A d \in Devices : Len(row[d]) - 1 <= epoch
  /\ \A w \in work : Len(w.list) - 1 <= epoch
  /\ \A a \in accepted : Len(a.list) > 0 /\ Len(a.list) - 1 <= epoch

\* Nobody but its minter has k at hand, unless it was carried otherwise than by
\* the rotation of list l.
Close(k, l) ==
  \A d \in Devices : k \in AtHand(d) => mints[k].by = d \/ Carried(k, l)

Rotates == {m \in net : m.kind = "rotate"}

Fresh ==
  /\ \A m \in Rotates : Close(Last(m.list), m.list) /\ \A a \in accepted : a.list # m.list
  /\ \A m, n \in Rotates : m.list = n.list => m = n
  /\ \A w \in work : w.drop # {} => Close(Last(w.list), w.list)
  /\ \A w \in work : \E a \in accepted : a.list = w.list
  /\ \A v, w \in work : v.list = w.list => v = w

Outside ==
  \A d \in out :
    /\ row[d] = <<>>
    /\ \A k \in ToSet(ring[d]) \cup ToSet(answer[d].list) : k \in gone[d] \/ mints[k].by = d

IInv == TypeOK /\ AllPlaced /\ EpochCovers /\ Fresh /\ Outside /\ OneRotationPerEpoch

----------------------------------------------------------------------------
(* Lists *)

\* A key list is a sequence of keys, no longer than MaxMints.
LEMMA ListFacts ==
  ASSUME NEW l
  PROVE  l \in Lists <=> l \in Seq(1..MaxMints) /\ Len(l) <= MaxMints
<1>0. MaxMints \in Nat BY ShareKeysAssumption
<1>1. ASSUME l \in Lists PROVE l \in Seq(1..MaxMints) /\ Len(l) <= MaxMints
  <2>1. PICK n \in 0..MaxMints : l \in [1..n -> 1..MaxMints] BY <1>1 DEF Lists
  <2>2. n \in Nat /\ \A i \in 1..n : l[i] \in 1..MaxMints BY <2>1, <1>0
  <2>3. l = [i \in 1..n |-> l[i]] BY <2>1
  <2>4. l \in Seq(1..MaxMints) BY <2>2, <2>3, <2>1, SMT
  <2>5. DOMAIN l = 1..n /\ DOMAIN l = 1..Len(l) /\ Len(l) \in Nat
    BY <2>1, <2>4, LenProperties
  <2> QED BY <2>1, <2>2, <2>4, <2>5, <1>0
<1>2. ASSUME l \in Seq(1..MaxMints), Len(l) <= MaxMints PROVE l \in Lists
  <2>1. l \in [1..Len(l) -> 1..MaxMints] /\ Len(l) \in 0..MaxMints
    BY <1>0, <1>2, LenProperties
  <2> QED BY <2>1 DEF Lists
<1> QED BY <1>1, <1>2

\* What the provers need to know of a list.
LEMMA ListElements ==
  ASSUME NEW l \in Lists
  PROVE  /\ l \in Seq(1..MaxMints) /\ Len(l) \in 0..MaxMints
         /\ \A i \in 1..Len(l) : l[i] \in 1..MaxMints
         /\ Len(l) = 0 <=> l = <<>>
<1>0. MaxMints \in Nat BY ShareKeysAssumption
<1>1. l \in Seq(1..MaxMints) /\ Len(l) <= MaxMints BY ListFacts
<1>2. Len(l) \in 0..MaxMints /\ \A i \in 1..Len(l) : l[i] \in 1..MaxMints
  BY <1>0, <1>1, LenProperties, ElementOfSeq
<1>3. Len(l) = 0 <=> l = <<>> BY <1>1, EmptySeq
<1> QED BY <1>1, <1>2, <1>3

\* A device without the share has the empty list.
LEMMA EmptyList == <<>> \in Lists /\ Len(<<>>) = 0
<1>1. <<>> \in Seq(1..MaxMints) /\ Len(<<>>) = 0 BY EmptySeq
<1>2. Len(<<>>) <= MaxMints BY <1>1, ShareKeysAssumption
<1> QED BY <1>1, <1>2, ListFacts, Zenon

\* Where no epoch was minted twice, the shorter of two lists is a prefix of the
\* longer one.
LEMMA PlacedPrefix ==
  ASSUME NEW a \in Lists, NEW b \in Lists, mints \in Seq(Mintings),
         Placed(a, mints), Placed(b, mints), Len(a) <= Len(b), ~Forked
  PROVE  IsPrefix(a, b)
<1>1. /\ Len(a) \in Nat /\ Len(b) \in Nat
      /\ a \in Seq(1..MaxMints) /\ b \in Seq(1..MaxMints)
  BY ListElements, ShareKeysAssumption
<1>2. ASSUME NEW i \in 1..Len(a) PROVE a[i] = b[i]
  <2>1. i \in 1..Len(b) BY <1>1
  <2>2. a[i] \in 1..Len(mints) /\ b[i] \in 1..Len(mints)
    BY <2>1, ListElements DEF Placed
  <2>3. a[i] \in DOMAIN mints /\ b[i] \in DOMAIN mints BY <2>2, LenProperties
  <2>4. mints[a[i]].epoch = mints[b[i]].epoch BY <2>1 DEF Placed
  <2> QED BY <2>3, <2>4 DEF Forked
<1>3. /\ SubSeq(b, 1, Len(a)) \in Seq(1..MaxMints)
      /\ Len(SubSeq(b, 1, Len(a))) = Len(a)
      /\ \A i \in 1..Len(a) : SubSeq(b, 1, Len(a))[i] = b[i]
  <2>1. \A i \in 1..Len(a) : b[i] \in 1..MaxMints BY <1>1, ListElements
  <2>2. /\ SubSeq(b, 1, Len(a)) \in Seq(1..MaxMints)
        /\ Len(SubSeq(b, 1, Len(a))) = IF 1 <= Len(a) THEN Len(a) - 1 + 1 ELSE 0
        /\ \A i \in 1..(Len(a) - 1 + 1) : SubSeq(b, 1, Len(a))[i] = b[1 + i - 1]
    BY <1>1, <2>1, SubSeqProperties
  <2> QED BY <1>1, <2>2
<1>4. SubSeq(b, 1, Len(a)) = a BY <1>1, <1>2, <1>3, SeqEqual
<1>5. SubSeq(a, 1, Len(a)) = a BY <1>1, SubSeqFull
<1> QED BY <1>4, <1>5 DEF IsPrefix

\* The keys of a list, and the newest of them.
LEMMA KeyFacts ==
  ASSUME NEW l \in Lists
  PROVE  /\ ToSet(l) = {l[i] : i \in 1..Len(l)} /\ ToSet(l) \subseteq 1..MaxMints
         /\ Len(l) > 0 => Last(l) \in ToSet(l)
<1>1. /\ l \in Seq(1..MaxMints) /\ Len(l) \in Nat
      /\ \A i \in 1..Len(l) : l[i] \in 1..MaxMints
  BY ListElements, ShareKeysAssumption
<1>2. DOMAIN l = 1..Len(l) BY <1>1, LenProperties
<1>3. ToSet(l) = {l[i] : i \in 1..Len(l)} BY <1>2 DEF ToSet
<1>4. Len(l) > 0 => Len(l) \in 1..Len(l) BY <1>1
<1> QED BY <1>1, <1>3, <1>4 DEF Last

\* No list in use has a key that was not minted.
LEMMA PlacedKeys ==
  ASSUME NEW l \in Lists, Placed(l, mints)
  PROVE  ToSet(l) \subseteq 1..Len(mints)
BY KeyFacts, ListElements DEF Placed

\* Nor a device without a list.
LEMMA NoKeys == ToSet(<<>>) = {}
BY EmptyList, KeyFacts

----------------------------------------------------------------------------
(* Minting *)

\* What Mint does to the mintings and to the lists that are in use.
LEMMA MintFacts ==
  ASSUME IInv, NEW d \in Devices, Mint(d)
  PROVE  /\ mints' \in Seq(Mintings) /\ Len(mints') = Len(mints) + 1
         /\ Len(mints') <= MaxMints
         /\ \A k \in 1..Len(mints) : mints'[k] = mints[k]
         /\ ring' \in [Devices -> Lists]
         /\ Len(ring'[d]) > 0
         /\ \A e \in Devices : Placed(ring'[e], mints')
         /\ \A l \in Lists : Placed(l, mints) => Placed(l, mints')
         /\ ToSet(ring'[d]) = ToSet(ring[d]) \cup {Len(mints) + 1}
         /\ Last(ring'[d]) = Len(mints) + 1 /\ mints'[Len(mints) + 1].by = d
         /\ \A e \in Devices \ {d} : ring'[e] = ring[e]
<1> DEFINE x == [by |-> d, epoch |-> Len(ring[d])]
           k == Len(mints) + 1
<1>0. MaxMints \in Nat /\ Len(mints) \in Nat /\ Len(mints) < MaxMints
      /\ mints \in Seq(Mintings)
  BY ShareKeysAssumption, LenProperties DEF IInv, TypeOK, Mint, Mintings
<1>1. /\ ring[d] \in Lists /\ Len(ring[d]) \in Nat /\ Len(ring[d]) <= Len(mints)
      /\ ring[d] \in Seq(1..MaxMints)
  <2>1. ring[d] \in Lists BY DEF IInv, TypeOK
  <2>2. Len(ring[d]) <= Len(mints) BY DEF IInv, AllPlaced, Placed
  <2> QED BY <1>0, <2>1, <2>2, ListElements
<1>2. x \in Mintings BY <1>0, <1>1 DEF Mintings
<1>3. /\ mints' \in Seq(Mintings) /\ Len(mints') = k
      /\ \A j \in 1..Len(mints) : mints'[j] = mints[j]
      /\ mints'[k] = x
  <2>1. mints' = Append(mints, x) BY DEF Mint
  <2> HIDE DEF x
  <2> QED BY <1>0, <1>2, <2>1, AppendProperties
<1>4. k \in 1..MaxMints /\ Len(mints') <= MaxMints BY <1>0, <1>3
<1> HIDE DEF k
<1>5. /\ ring'[d] \in Seq(1..MaxMints) /\ Len(ring'[d]) = Len(ring[d]) + 1
      /\ \A i \in 1..Len(ring[d]) : ring'[d][i] = ring[d][i]
      /\ ring'[d][Len(ring[d]) + 1] = k
  <2>1. ring'[d] = Append(ring[d], k) BY DEF Mint, PushShareKey, IInv, TypeOK, k
  <2> QED BY <1>1, <1>4, <2>1, AppendProperties
<1>6. \A e \in Devices : e # d => ring'[e] = ring[e] BY DEF Mint, IInv, TypeOK
<1>7. ring' \in [Devices -> Lists]
  <2>1. Len(ring'[d]) <= MaxMints BY <1>0, <1>1, <1>5
  <2>2. ring'[d] \in Lists BY <1>5, <2>1, ListFacts
  <2>3. ring' = [ring EXCEPT ![d] = ring'[d]] BY <1>6 DEF Mint, IInv, TypeOK
  <2> QED BY <2>2, <2>3 DEF IInv, TypeOK
<1>8. ASSUME NEW l \in Lists, Placed(l, mints) PROVE Placed(l, mints')
  <2>1. \A i \in 1..Len(l) : l[i] \in 1..Len(mints) BY <1>8, ListElements DEF Placed
  <2>2. Len(l) \in Nat BY ListElements, <1>0
  <2> QED BY <1>0, <1>3, <1>8, <2>1, <2>2 DEF Placed, k
<1>9. ASSUME NEW e \in Devices PROVE Placed(ring'[e], mints')
  <2>1. Placed(ring[e], mints') BY <1>8 DEF IInv, TypeOK, AllPlaced
  <2>2. CASE e # d BY <1>6, <2>1, <2>2
  <2>3. CASE e = d
    <3>1. Placed(ring[d], mints') BY <2>1, <2>3
    <3>2. ASSUME NEW i \in 1..Len(ring'[d])
          PROVE  ring'[d][i] <= Len(mints') /\ mints'[ring'[d][i]].epoch = i - 1
      <4>1. CASE i <= Len(ring[d])
        <5>1. i \in 1..Len(ring[d]) BY <1>1, <1>5, <4>1
        <5> QED BY <1>5, <3>1, <5>1 DEF Placed
      <4>2. CASE i = Len(ring[d]) + 1
        <5>1. mints'[k].epoch = Len(ring[d]) BY <1>3
        <5> QED BY <1>0, <1>1, <1>3, <1>5, <4>2, <5>1 DEF k
      <4> QED BY <1>1, <1>5, <4>1, <4>2
    <3>3. Len(ring'[d]) <= Len(mints') BY <1>0, <1>1, <1>3, <1>5 DEF k
    <3> QED BY <2>3, <3>2, <3>3 DEF Placed
  <2> QED BY <2>2, <2>3
<1>10. ToSet(ring'[d]) = ToSet(ring[d]) \cup {k} /\ Last(ring'[d]) = k
  <2>1. /\ ToSet(ring[d]) = {ring[d][i] : i \in 1..Len(ring[d])}
        /\ ToSet(ring'[d]) = {ring'[d][i] : i \in 1..Len(ring'[d])}
    BY <1>1, <1>7, KeyFacts
  <2>2. 1..Len(ring'[d]) = 1..Len(ring[d]) \cup {Len(ring[d]) + 1} BY <1>1, <1>5
  <2> QED BY <2>1, <2>2, <1>5 DEF Last
<1>11. mints'[k].by = d BY <1>3
<1> QED BY <1>0, <1>1, <1>3, <1>4, <1>5, <1>6, <1>7, <1>8, <1>9, <1>10, <1>11 DEF k

----------------------------------------------------------------------------
(* Where the key of a rotation is *)

\* A key stays close while what carried it stays and nobody else gets it.
LEMMA CloseKept ==
  ASSUME NEW k, NEW l, Close(k, l), mints'[k] = mints[k],
         \A m \in net : m.kind = "grant" => m \in net', accepted \subseteq accepted',
         \A d \in Devices : k \in AtHand(d)' =>
            k \in AtHand(d) \/ mints[k].by = d \/ Carried(k, l)'
  PROVE  Close(k, l)'
<1>1. Carried(k, l) => Carried(k, l)' BY DEF Carried
<1> QED BY <1>1 DEF Close

\* A step that mints nothing and accepts no rotation: what a device gets to have at
\* hand comes from a grant or from a rotation past its DELETE.
LEMMA FreshKept ==
  ASSUME IInv, UNCHANGED <<mints, accepted>>,
         Rotates' \subseteq Rotates,
         \A m \in net : m.kind = "grant" => m \in net',
         \A w \in work' : \E u \in work : w.list = u.list /\ (w.drop # {} => u.drop # {}),
         \A v, w \in work' : v.list = w.list => v = w,
         \A d \in Devices : \A k \in AtHand(d)' :
            \/ k \in AtHand(d)
            \/ \E m \in net : m.kind = "grant" /\ k \in ToSet(m.list)
            \/ \E u \in work : u.drop = {} /\ k \in ToSet(u.list)
  PROVE  Fresh'
<1>0. Fresh BY DEF IInv
<1>1. ASSUME NEW k, NEW l, Close(k, l), \A u \in work : u.drop = {} => u.list # l
      PROVE  Close(k, l)'
  <2>1. ASSUME NEW d \in Devices, k \in AtHand(d)'
        PROVE  k \in AtHand(d) \/ Carried(k, l)'
    <3>1. CASE \E m \in net : m.kind = "grant" /\ k \in ToSet(m.list)
      BY <3>1 DEF Carried
    <3>2. CASE \E u \in work : u.drop = {} /\ k \in ToSet(u.list)
      <4>1. PICK u \in work : u.drop = {} /\ k \in ToSet(u.list) BY <3>2
      <4>2. PICK a \in accepted : a.list = u.list BY <1>0 DEF Fresh
      <4> QED BY <1>1, <4>1, <4>2 DEF Carried
    <3> QED BY <2>1, <3>1, <3>2
  <2> QED BY <1>1, <2>1, CloseKept
<1>2. ASSUME NEW m \in Rotates'
      PROVE  Close(Last(m.list), m.list)' /\ \A a \in accepted' : a.list # m.list
  <2>1. /\ m \in Rotates /\ Close(Last(m.list), m.list)
        /\ \A a \in accepted : a.list # m.list
    BY <1>0 DEF Fresh
  <2>2. \A u \in work : u.list # m.list BY <1>0, <2>1 DEF Fresh
  <2>3. Close(Last(m.list), m.list)' BY <2>1, <2>2, <1>1
  <2> QED BY <2>1, <2>3
<1>3. \A m, n \in Rotates' : m.list = n.list => m = n BY <1>0 DEF Fresh
<1>4. ASSUME NEW w \in work', w.drop # {} PROVE Close(Last(w.list), w.list)'
  <2>1. PICK u \in work : w.list = u.list /\ u.drop # {} BY <1>4
  <2>2. Close(Last(w.list), w.list) BY <1>0, <2>1 DEF Fresh
  <2>3. \A v \in work : v.drop = {} => v.list # w.list BY <1>0, <2>1 DEF Fresh
  <2> QED BY <2>2, <2>3, <1>1
<1>5. \A w \in work' : \E a \in accepted' : a.list = w.list BY <1>0 DEF Fresh
<1> QED BY <1>2, <1>3, <1>4, <1>5 DEF Fresh

----------------------------------------------------------------------------
(* One lemma per action *)

\* Nothing is minted or sent at the start.
LEMMA InitInv == Init => IInv
<1> SUFFICES ASSUME Init PROVE IInv OBVIOUS
<1>1. mints \in Seq(Mintings) /\ Len(mints) = 0 BY EmptySeq DEF Init
<1>2. TypeOK BY <1>1, EmptyList, ShareKeysAssumption DEF Init, TypeOK, NoAnswer, Mintings
<1>3. AllPlaced BY <1>1, EmptyList DEF Init, AllPlaced, Placed, NoAnswer
<1>4. EpochCovers BY EmptyList DEF Init, EpochCovers
<1>5. Outside /\ Fresh BY DEF Init, Outside, Fresh, Rotates
<1>6. OneRotationPerEpoch BY DEF Init, OneRotationPerEpoch
<1> QED BY <1>2, <1>3, <1>4, <1>5, <1>6 DEF IInv

\* Minting a key and sending the list it ends, the common part of create_share
\* and share_remove.
LEMMA MintAndSend ==
  ASSUME IInv, NEW d \in Devices, Mint(d), NEW m \in Requests, m.list = ring'[d],
         Send(m), UNCHANGED <<relayVars, answer, accepted, out, gone>>
  PROVE  IInv'
<1>0. /\ MaxMints \in Nat /\ Len(mints) \in Nat
      /\ TypeOK /\ AllPlaced /\ EpochCovers /\ Fresh /\ Outside /\ OneRotationPerEpoch
  BY ShareKeysAssumption, LenProperties DEF IInv, TypeOK, Mintings
<1>1. /\ mints' \in Seq(Mintings) /\ Len(mints') = Len(mints) + 1
      /\ Len(mints') <= MaxMints
      /\ \A k \in 1..Len(mints) : mints'[k] = mints[k]
      /\ ring' \in [Devices -> Lists] /\ Len(ring'[d]) > 0
      /\ \A e \in Devices : Placed(ring'[e], mints')
      /\ \A l \in Lists : Placed(l, mints) => Placed(l, mints')
      /\ ToSet(ring'[d]) = ToSet(ring[d]) \cup {Len(mints) + 1}
      /\ Last(ring'[d]) = Len(mints) + 1 /\ mints'[Len(mints) + 1].by = d
      /\ \A e \in Devices \ {d} : ring'[e] = ring[e]
  BY MintFacts
<1>2. /\ epoch' = epoch /\ row' = row /\ work' = work /\ answer' = answer
      /\ accepted' = accepted /\ out' = out /\ gone' = gone /\ net' = net \cup {m}
      /\ sent' = sent + 1 /\ sent < MaxSends
  BY DEF relayVars, Send
<1>3. TypeOK'
  <2>1. epoch' \in -1..(Len(mints') - 1) BY <1>0, <1>1, <1>2 DEF TypeOK
  <2>2. sent' \in 0..MaxSends BY <1>0, <1>2, ShareKeysAssumption DEF TypeOK
  <2>3. net' \subseteq Requests BY <1>0, <1>2 DEF TypeOK
  <2> QED BY <1>0, <1>1, <1>2, <2>1, <2>2, <2>3 DEF TypeOK, Mintings
<1>4. AllPlaced'
  <2>1. \A e \in Devices : row[e] \in Lists /\ answer[e].list \in Lists
    BY <1>0 DEF TypeOK
  <2>2. \A n \in net : n.list \in Lists BY <1>0 DEF TypeOK, Requests
  <2>3. \A w \in work : w.list \in Lists BY <1>0 DEF TypeOK, Work
  <2>4. \A a \in accepted : a.list \in Lists BY <1>0 DEF TypeOK
  <2> QED BY <1>0, <1>1, <1>2, <2>1, <2>2, <2>3, <2>4 DEF AllPlaced
<1>5. EpochCovers' BY <1>0, <1>1, <1>2 DEF EpochCovers
\* The keys in use are older than the new one.
<1>k. /\ \A e \in Devices : AtHand(e) \subseteq 1..Len(mints)
      /\ \A e \in Devices : ToSet(ring[e]) \cup ToSet(answer[e].list) \subseteq AtHand(e)
      /\ \A e \in Devices : AtHand(e)' \subseteq AtHand(e) \cup {Len(mints) + 1}
      /\ \A e \in Devices : Len(mints) + 1 \in AtHand(e)' => e = d
  <2>1. ASSUME NEW e \in Devices
        PROVE  /\ ToSet(ring[e]) \subseteq 1..Len(mints)
               /\ ToSet(answer[e].list) \subseteq 1..Len(mints)
               /\ ToSet(row[e]) \subseteq 1..Len(mints)
    BY <1>0, PlacedKeys DEF TypeOK, AllPlaced
  <2>2. Len(mints) + 1 \notin 1..Len(mints) BY <1>0
  <2>3. ASSUME NEW e \in Devices
        PROVE  /\ ToSet(answer'[e].list) = ToSet(answer[e].list)
               /\ ToSet(row'[e]) = ToSet(row[e])
               /\ ToSet(ring'[e]) = IF e = d THEN ToSet(ring[e]) \cup {Len(mints) + 1}
                                             ELSE ToSet(ring[e])
    BY <1>1, <1>2
  <2> QED BY <2>1, <2>2, <2>3 DEF AtHand
<1>l. /\ \A n \in net : n.list # m.list /\ Last(n.list) \in 1..Len(mints)
      /\ \A w \in work : Last(w.list) \in 1..Len(mints)
      /\ \A a \in accepted : a.list # m.list
  <2>1. Len(mints) + 1 \notin 1..Len(mints) BY <1>0
  <2>2. ASSUME NEW l \in Lists, Placed(l, mints), Len(l) > 0
        PROVE  Last(l) \in 1..Len(mints) /\ l # m.list
    BY <2>1, <2>2, <1>1, PlacedKeys, KeyFacts
  <2>3. \A n \in net : n.list \in Lists /\ Placed(n.list, mints) /\ Len(n.list) > 0
    BY <1>0 DEF TypeOK, Requests, AllPlaced, EpochCovers
  <2>4. \A a \in accepted : a.list \in Lists /\ Placed(a.list, mints) /\ Len(a.list) > 0
    BY <1>0 DEF TypeOK, AllPlaced, EpochCovers
  <2>5. \A w \in work : \E a \in accepted : a.list = w.list BY <1>0 DEF Fresh
  <2> QED BY <2>2, <2>3, <2>4, <2>5
<1>6. Outside'
  <2>1. ASSUME NEW e \in out, NEW k \in ToSet(ring'[e]) \cup ToSet(answer'[e].list)
        PROVE  k \in gone[e] \/ mints'[k].by = e
    <3>0. e \in Devices BY <1>0 DEF TypeOK
    <3>1. CASE k \in ToSet(ring[e]) \cup ToSet(answer[e].list)
      <4>1. k \in 1..Len(mints) BY <3>0, <3>1, <1>k
      <4>2. k \in gone[e] \/ mints[k].by = e BY <3>1, <1>0 DEF Outside
      <4> QED BY <4>1, <4>2, <1>1
    <3>2. CASE k = Len(mints) + 1 /\ e = d BY <3>2, <1>1
    <3> QED BY <2>1, <3>0, <3>1, <3>2, <1>1, <1>2
  <2> QED BY <2>1, <1>0, <1>2 DEF Outside
<1>f. Fresh'
  <2>1. ASSUME NEW k \in 1..Len(mints), NEW l, Close(k, l) PROVE Close(k, l)'
    <3>1. k # Len(mints) + 1 BY <1>0
    <3>2. \A e \in Devices : k \in AtHand(e)' => k \in AtHand(e) BY <3>1, <1>k
    <3> QED BY <2>1, <3>2, <1>1, <1>2, CloseKept
  <2>k. PICK new : new = Len(mints) + 1 OBVIOUS
  <2>2. \A e \in Devices : new \in AtHand(e)' => mints'[new].by = e
    BY <2>k, <1>k, <1>1
  <2>3. Rotates' \subseteq Rotates \cup {m} /\ Rotates \subseteq net BY <1>2 DEF Rotates
  <2>4. ASSUME NEW n \in Rotates'
        PROVE  Close(Last(n.list), n.list)' /\ \A a \in accepted' : a.list # n.list
    <3>1. CASE n \in Rotates
      <4>1. Last(n.list) \in 1..Len(mints) BY <3>1, <2>3, <1>l
      <4> QED BY <3>1, <4>1, <2>1, <1>0, <1>2 DEF Fresh
    <3>2. CASE n = m
      <4>1. Last(n.list) = new BY <3>2, <2>k, <1>1
      <4> QED BY <3>2, <4>1, <2>2, <1>l, <1>2 DEF Close
    <3> QED BY <2>3, <3>1, <3>2
  <2>5. \A n, o \in Rotates' : n.list = o.list => n = o
    BY <2>3, <1>l, <1>0 DEF Fresh
  <2>6. ASSUME NEW w \in work', w.drop # {} PROVE Close(Last(w.list), w.list)'
    <3>1. w \in work /\ Last(w.list) \in 1..Len(mints) BY <1>2, <1>l
    <3> QED BY <3>1, <2>1, <2>6, <1>0 DEF Fresh
  <2>7. /\ \A w \in work' : \E a \in accepted' : a.list = w.list
        /\ \A v, w \in work' : v.list = w.list => v = w
    BY <1>0, <1>2 DEF Fresh
  <2> QED BY <2>4, <2>5, <2>6, <2>7 DEF Fresh
<1>7. OneRotationPerEpoch' BY <1>0, <1>2 DEF OneRotationPerEpoch
<1> QED BY <1>3, <1>4, <1>5, <1>6, <1>f, <1>7 DEF IInv

\* create_share mints the key of epoch 0.
LEMMA CreateShareInv ==
  ASSUME IInv, NEW ms \in SUBSET Devices, CreateShare(ms)
  PROVE  IInv'
<1> DEFINE m == [kind |-> "grant", list |-> ring'[Creator], to |-> ms \cup {Creator}]
<1>1. Creator \in Devices BY ShareKeysAssumption
<1>2. Mint(Creator) /\ Send(m) /\ UNCHANGED <<relayVars, answer, accepted, out, gone>>
  BY DEF CreateShare
<1>3. ring'[Creator] \in Lists BY <1>1, <1>2, MintFacts
<1>4. m \in Requests /\ m.list = ring'[Creator] BY <1>1, <1>3 DEF Requests
<1> QED BY <1>1, <1>2, <1>4, MintAndSend

\* share_remove mints the key of the next epoch and posts a rotation.
LEMMA ShareRemoveInv ==
  ASSUME IInv, NEW d \in Devices, NEW t \in Devices, ShareRemove(d, t)
  PROVE  IInv'
<1> DEFINE m == [kind |-> "rotate", list |-> ring'[d], remove |-> t]
<1>1. Mint(d) /\ Send(m) /\ UNCHANGED <<relayVars, answer, accepted, out, gone>>
  BY DEF ShareRemove
<1>2. ring'[d] \in Lists BY <1>1, MintFacts
<1>3. m \in Requests /\ m.list = ring'[d] BY <1>2 DEF Requests
<1> QED BY <1>1, <1>3, MintAndSend

\* share_add sends the list its device holds.
LEMMA ShareAddInv ==
  ASSUME IInv, NEW d \in Devices, NEW t \in Devices, ShareAdd(d, t)
  PROVE  IInv'
<1> DEFINE m == [kind |-> "grant", list |-> ring[d], to |-> {t}]
<1>0. TypeOK /\ AllPlaced /\ EpochCovers /\ Fresh /\ Outside /\ OneRotationPerEpoch BY DEF IInv
<1>1. ring[d] \in Lists /\ ring[d] # <<>> BY <1>0 DEF TypeOK, ShareAdd, Holds
<1>2. m \in Requests /\ m.list = ring[d] BY <1>1 DEF Requests
<1>3. Len(m.list) > 0 BY <1>1, ListElements, ShareKeysAssumption
<1>4. /\ UNCHANGED <<epoch, row, work, ring, answer, mints, accepted, out, gone>>
      /\ net' = net \cup {m} /\ sent' = sent + 1 /\ sent < MaxSends
  BY DEF ShareAdd, Send, relayVars
<1> HIDE DEF m
<1>5. TypeOK'
  <2>1. sent' \in 0..MaxSends BY <1>0, <1>4, ShareKeysAssumption DEF TypeOK
  <2> QED BY <1>0, <1>2, <1>4, <2>1 DEF TypeOK
<1>6. AllPlaced' BY <1>0, <1>2, <1>4 DEF AllPlaced, Placed
<1>7. EpochCovers' BY <1>0, <1>3, <1>4 DEF EpochCovers
<1>8. Outside' BY <1>0, <1>4 DEF Outside
<1>f. Fresh'
  <2>1. m.kind = "grant" BY DEF m
  <2>2. Rotates' \subseteq Rotates BY <1>4, <2>1 DEF Rotates
  <2>3. \A c \in Devices : AtHand(c)' = AtHand(c) BY <1>4 DEF AtHand
  <2>4. \A v, w \in work : v.list = w.list => v = w BY <1>0 DEF Fresh
  <2> QED BY <1>4, <2>2, <2>3, <2>4, FreshKept
<1>9. OneRotationPerEpoch' BY <1>0, <1>4 DEF OneRotationPerEpoch
<1> QED BY <1>5, <1>6, <1>7, <1>8, <1>f, <1>9 DEF IInv

\* share_grant stores the list of the request and raises the epoch to it.
LEMMA HandleGrantInv ==
  ASSUME IInv, NEW m \in net, NEW ts \in SUBSET Devices, HandleGrant(m, ts)
  PROVE  IInv'
<1>0. /\ TypeOK /\ AllPlaced /\ EpochCovers /\ Fresh /\ Outside /\ OneRotationPerEpoch
      /\ MaxMints \in Nat /\ Len(mints) \in Nat
  BY ShareKeysAssumption, LenProperties DEF IInv, TypeOK
<1>1. m.list \in Lists /\ Len(m.list) \in Nat /\ Len(m.list) > 0 /\ Len(m.list) <= Len(mints)
  <2>1. m.list \in Lists BY <1>0 DEF TypeOK, Requests
  <2>2. Len(m.list) > 0 /\ Len(m.list) <= Len(mints)
    BY <1>0 DEF EpochCovers, AllPlaced, Placed
  <2> QED BY <1>0, <2>1, <2>2, ListElements
<1>2. /\ epoch' \in -1..(Len(mints) - 1)
      /\ epoch' >= epoch /\ epoch' >= Len(m.list) - 1
  <2>1. epoch \in -1..(Len(mints) - 1) BY <1>0 DEF TypeOK
  <2>2. epoch' = IF epoch < Len(m.list) - 1 THEN Len(m.list) - 1 ELSE epoch
    BY DEF HandleGrant, GrantedEpoch, MaxOf
  <2>3. Len(mints) \in Nat BY <1>0
  <2> QED BY <1>1, <2>1, <2>2, <2>3
<1>3. UNCHANGED <<work, ring, answer, net, sent, mints, accepted>> BY DEF HandleGrant
<1>4. \A t \in Devices : /\ row'[t] = IF t \in ts THEN m.list ELSE row[t]
                         /\ gone'[t] = IF t \in ts THEN {} ELSE gone[t]
  BY DEF HandleGrant
<1>o. out' = out \ ts /\ m.kind = "grant" BY DEF HandleGrant
<1>5. TypeOK'
  <2>1. row' \in [Devices -> Lists] BY <1>0, <1>1 DEF HandleGrant, TypeOK
  <2>2. gone' \in [Devices -> SUBSET (1..MaxMints)] BY <1>0 DEF HandleGrant, TypeOK
  <2>3. out' \subseteq Devices BY <1>0, <1>o DEF TypeOK
  <2> QED BY <1>0, <1>2, <1>3, <2>1, <2>2, <2>3 DEF TypeOK
<1>6. AllPlaced'
  <2>1. Placed(m.list, mints) /\ \A t \in Devices : Placed(row[t], mints)
    BY <1>0 DEF AllPlaced
  <2>2. \A t \in Devices : Placed(row'[t], mints) BY <1>4, <2>1
  <2> QED BY <1>0, <1>3, <2>2 DEF AllPlaced
<1>7. EpochCovers'
  <2>1. \A t \in Devices : Len(row[t]) \in Nat BY <1>0, ListElements DEF TypeOK
  <2>2. \A w \in work : Len(w.list) \in Nat BY <1>0, ListElements DEF TypeOK, Work
  <2>3. \A a \in accepted : Len(a.list) \in Nat BY <1>0, ListElements DEF TypeOK
  <2>4. epoch \in Int BY <1>0 DEF TypeOK
  <2>5. \A t \in Devices : Len(row'[t]) - 1 <= epoch'
    <3>1. \A t \in Devices : Len(row[t]) - 1 <= epoch BY <1>0 DEF EpochCovers
    <3> QED BY <1>1, <1>2, <1>4, <2>1, <2>4, <3>1
  <2>6. \A w \in work : Len(w.list) - 1 <= epoch' BY <1>0, <1>2, <2>2, <2>4 DEF EpochCovers
  <2>7. \A a \in accepted : Len(a.list) > 0 /\ Len(a.list) - 1 <= epoch'
    BY <1>0, <1>2, <2>3, <2>4 DEF EpochCovers
  <2> QED BY <1>0, <1>3, <2>5, <2>6, <2>7 DEF EpochCovers
<1>8. Outside'
  <2>1. ASSUME NEW e \in out' PROVE e \in out /\ row'[e] = row[e] /\ gone'[e] = gone[e]
    BY <1>0, <1>4, <1>o DEF TypeOK
  <2> QED BY <1>0, <1>3, <2>1 DEF Outside
<1>f. Fresh'
  <2>1. Rotates' = Rotates BY <1>3 DEF Rotates
  <2>2. ASSUME NEW c \in Devices, NEW k \in AtHand(c)'
        PROVE  k \in AtHand(c) \/ k \in ToSet(m.list)
    BY <1>3, <1>4 DEF AtHand
  <2>3. \A v, w \in work : v.list = w.list => v = w BY <1>0 DEF Fresh
  <2> QED BY <1>3, <1>o, <2>1, <2>2, <2>3, FreshKept
<1>9. OneRotationPerEpoch' BY <1>0, <1>3 DEF OneRotationPerEpoch
<1> QED BY <1>5, <1>6, <1>7, <1>8, <1>f, <1>9 DEF IInv

\* The guarded bump of share_rotate accepts one request for an epoch.
LEMMA HandleRotateInv ==
  ASSUME IInv, NEW m \in net, HandleRotate(m)
  PROVE  IInv'
<1>0. /\ TypeOK /\ AllPlaced /\ EpochCovers /\ Fresh /\ Outside /\ OneRotationPerEpoch
      /\ MaxMints \in Nat /\ Len(mints) \in Nat
  BY ShareKeysAssumption, LenProperties DEF IInv, TypeOK
<1>1. /\ UNCHANGED <<row, ring, answer, sent, mints, out, gone>>
      /\ net' = net \ {m} /\ m.kind = "rotate"
  BY DEF HandleRotate
<1>2. Outside' BY <1>0, <1>1 DEF Outside
<1>h. \A c \in Devices : AtHand(c)' = AtHand(c) BY <1>1 DEF AtHand
<1>3. CASE ~BumpAllowed(Len(m.list) - 1)
  <2>1. UNCHANGED <<epoch, work, accepted>> BY <1>3 DEF HandleRotate
  <2>2. TypeOK' BY <1>0, <1>1, <2>1 DEF TypeOK
  <2>3. AllPlaced' BY <1>0, <1>1, <2>1 DEF AllPlaced, Placed
  <2>4. EpochCovers' BY <1>0, <1>1, <2>1 DEF EpochCovers
  <2>5. OneRotationPerEpoch' BY <1>0, <2>1 DEF OneRotationPerEpoch
  <2>6. Fresh'
    <3>1. Rotates' \subseteq Rotates BY <1>1 DEF Rotates
    <3>2. \A v, w \in work : v.list = w.list => v = w BY <1>0 DEF Fresh
    <3> QED BY <1>1, <1>h, <2>1, <3>1, <3>2, FreshKept
  <2> QED BY <1>2, <2>2, <2>3, <2>4, <2>5, <2>6 DEF IInv
<1>4. CASE BumpAllowed(Len(m.list) - 1)
  <2> DEFINE b == [list |-> m.list, remove |-> m.remove]
             v == [list |-> m.list, drop |-> {m.remove}, to |-> Devices \ {m.remove}]
  <2>1. epoch' = Len(m.list) - 1 /\ work' = work \cup {v} /\ accepted' = accepted \cup {b}
    BY <1>4 DEF HandleRotate
  <2>2. m.list \in Lists /\ m.remove \in Devices
    BY <1>0, <1>1 DEF TypeOK, Requests
  <2>3. /\ v \in Work /\ v.list = m.list
        /\ b \in [list : Lists, remove : Devices] /\ b.list = m.list
    BY <2>2 DEF Work
  <2> HIDE DEF v, b
  <2>4. /\ Len(m.list) \in Nat /\ Len(m.list) > 0 /\ Len(m.list) <= Len(mints)
        /\ Placed(m.list, mints)
    BY <1>0, <2>2, ListElements DEF EpochCovers, AllPlaced, Placed
  <2>5. epoch \in Int /\ epoch < epoch'
    <3>1. epoch \in Int BY <1>0 DEF TypeOK
    <3>2. epoch = Len(m.list) - 1 - 1 \/ epoch = -1 BY <1>4 DEF BumpAllowed
    <3> QED BY <2>1, <2>4, <3>1, <3>2
  <2>6. TypeOK'
    <3>1. epoch' \in -1..(Len(mints) - 1) BY <1>0, <2>1, <2>4
    <3>2. /\ work' \subseteq Work /\ net' \subseteq Requests
          /\ accepted' \subseteq [list : Lists, remove : Devices]
      BY <1>0, <1>1, <2>1, <2>3 DEF TypeOK
    <3> QED BY <1>0, <1>1, <3>1, <3>2 DEF TypeOK
  <2>7. AllPlaced'
    <3>1. /\ \A w \in work' : Placed(w.list, mints)
          /\ \A a \in accepted' : Placed(a.list, mints)
          /\ \A n \in net' : Placed(n.list, mints)
      BY <1>0, <1>1, <2>1, <2>3, <2>4 DEF AllPlaced
    <3> QED BY <1>0, <1>1, <3>1 DEF AllPlaced
  <2>8. /\ \A t \in Devices : Len(row[t]) \in Nat
        /\ \A w \in work : Len(w.list) \in Nat
        /\ \A a \in accepted : Len(a.list) \in Nat
    BY <1>0, ListElements DEF TypeOK, Work
  <2>9. EpochCovers'
    BY <1>0, <1>1, <2>1, <2>3, <2>4, <2>5, <2>8 DEF EpochCovers
  <2>10. OneRotationPerEpoch'
    <3>1. \A a \in accepted : Len(a.list) < Len(m.list)
      BY <1>0, <2>1, <2>4, <2>5, <2>8 DEF EpochCovers
    <3> QED BY <1>0, <2>1, <2>3, <2>4, <2>8, <3>1 DEF OneRotationPerEpoch
  <2>11. Fresh'
    <3>0. m \in Rotates /\ Rotates' = Rotates \ {m} /\ Rotates \subseteq net
      BY <1>1 DEF Rotates
    <3>1. ASSUME NEW k, NEW l, Close(k, l) PROVE Close(k, l)'
      BY <1>1, <1>h, <2>1, <3>1, CloseKept
    <3>2. ASSUME NEW n \in Rotates'
          PROVE  Close(Last(n.list), n.list)' /\ \A a \in accepted' : a.list # n.list
      <4>1. n \in Rotates /\ n # m BY <3>0
      <4>2. Close(Last(n.list), n.list) /\ \A a \in accepted : a.list # n.list
        BY <4>1, <1>0 DEF Fresh
      <4>3. n.list # m.list BY <4>1, <3>0, <1>0 DEF Fresh
      <4> QED BY <4>2, <4>3, <3>1, <2>1, <2>3
    <3>3. \A n, o \in Rotates' : n.list = o.list => n = o BY <3>0, <1>0 DEF Fresh
    <3>4. ASSUME NEW w \in work', w.drop # {} PROVE Close(Last(w.list), w.list)'
      <4>1. CASE w \in work BY <4>1, <3>1, <3>4, <1>0 DEF Fresh
      <4>2. CASE w.list = m.list BY <4>2, <3>0, <3>1, <1>0 DEF Fresh
      <4> QED BY <4>1, <4>2, <2>1, <2>3
    <3>5. \A w \in work' : \E a \in accepted' : a.list = w.list
      BY <2>1, <2>3, <1>0 DEF Fresh
    <3>6. \A u, w \in work' : u.list = w.list => u = w
      <4>1. \A w \in work : w.list # m.list BY <3>0, <1>0 DEF Fresh
      <4> QED BY <4>1, <2>1, <2>3, <1>0 DEF Fresh
    <3> QED BY <3>2, <3>3, <3>4, <3>5, <3>6 DEF Fresh
  <2> QED BY <1>2, <2>6, <2>7, <2>9, <2>10, <2>11 DEF IInv
<1> QED BY <1>3, <1>4

\* A rotation part done keeps its list; the common part of DropMember and
\* StoreWrapped.
LEMMA ProgressFacts ==
  ASSUME IInv, NEW w \in work, NEW v \in Work, v.list = w.list, v.drop \subseteq w.drop,
         Progress(w, v),
         UNCHANGED <<epoch, mints>>
  PROVE  /\ work' \subseteq Work
         /\ \A u \in work' : Placed(u.list, mints) /\ Len(u.list) - 1 <= epoch
         /\ \A u \in work' : \E x \in work : u.list = x.list /\ (u.drop # {} => x.drop # {})
         /\ \A u, x \in work' : u.list = x.list => u = x
<1>1. work' \subseteq (work \ {w}) \cup {v} BY DEF Progress
<1>2. work \subseteq Work BY DEF IInv, TypeOK
<1>3. \A u \in work : Placed(u.list, mints) /\ Len(u.list) - 1 <= epoch
  BY DEF IInv, AllPlaced, EpochCovers
<1>4. \A u, x \in work : u.list = x.list => u = x BY DEF IInv, Fresh
<1> QED BY <1>1, <1>2, <1>3, <1>4

\* The DELETE of a rotation leaves the removed device without a row.
LEMMA DropMemberInv ==
  ASSUME IInv, NEW w \in work, NEW t \in Devices, DropMember(w, t)
  PROVE  IInv'
<1> DEFINE v == [w EXCEPT !.drop = @ \ {t}]
<1>0. /\ TypeOK /\ AllPlaced /\ EpochCovers /\ Fresh /\ Outside /\ OneRotationPerEpoch
      /\ MaxMints \in Nat /\ Len(mints) \in Nat
  BY ShareKeysAssumption, LenProperties DEF IInv, TypeOK
<1>1. /\ UNCHANGED <<epoch, ring, answer, net, sent, mints, accepted>>
      /\ Progress(w, v)
      /\ row' = [row EXCEPT ![t] = <<>>]
      /\ out' = out \cup {t} /\ t \in w.drop
      /\ gone' = IF t \in out THEN gone ELSE [gone EXCEPT ![t] = Reach(w, t)]
  BY DEF DropMember
<1>2. v \in Work /\ v.list = w.list /\ v.drop \subseteq w.drop BY <1>0 DEF TypeOK, Work
<1> HIDE DEF v
<1>3. /\ work' \subseteq Work
      /\ \A u \in work' : Placed(u.list, mints) /\ Len(u.list) - 1 <= epoch
      /\ \A u \in work' : \E x \in work : u.list = x.list /\ (u.drop # {} => x.drop # {})
      /\ \A u, x \in work' : u.list = x.list => u = x
  BY <1>1, <1>2, ProgressFacts
<1>4. \A e \in Devices :
        /\ row'[e] = IF e = t THEN <<>> ELSE row[e]
        /\ gone'[e] = IF e = t /\ t \notin out THEN Reach(w, t) ELSE gone[e]
  BY <1>0, <1>1 DEF TypeOK
<1>5. TypeOK'
  <2>1. row' \in [Devices -> Lists] BY <1>0, <1>1, EmptyList DEF TypeOK
  <2>2. Reach(w, t) \subseteq 1..MaxMints
    BY <1>0, KeyFacts DEF TypeOK, Reach, AtHand
  <2>3. gone' \in [Devices -> SUBSET (1..MaxMints)] BY <1>0, <1>1, <2>2 DEF TypeOK
  <2>4. out' \subseteq Devices BY <1>0, <1>1 DEF TypeOK
  <2> QED BY <1>0, <1>1, <1>3, <2>1, <2>3, <2>4 DEF TypeOK
<1>6. AllPlaced'
  <2>1. Placed(<<>>, mints) BY <1>0, EmptyList DEF Placed
  <2>2. \A e \in Devices : Placed(row[e], mints) BY <1>0 DEF AllPlaced
  <2>3. \A e \in Devices : Placed(row'[e], mints) BY <1>4, <2>1, <2>2
  <2> QED BY <1>0, <1>1, <1>3, <2>3 DEF AllPlaced
<1>7. EpochCovers'
  <2>1. Len(<<>>) - 1 <= epoch BY <1>0, EmptyList DEF TypeOK
  <2> QED BY <1>0, <1>1, <1>3, <1>4, <2>1 DEF EpochCovers
<1>8. Outside'
  <2> SUFFICES ASSUME NEW e \in out'
               PROVE  /\ row'[e] = <<>>
                      /\ \A k \in ToSet(ring[e]) \cup ToSet(answer[e].list) :
                           k \in gone'[e] \/ mints[k].by = e
    BY <1>1 DEF Outside
  <2>1. CASE e \in out BY <2>1, <1>0, <1>4 DEF Outside, TypeOK
  <2>2. CASE e = t /\ t \notin out
    <3>1. Close(Last(w.list), w.list) BY <1>0, <1>1 DEF Fresh
    <3>2. ASSUME NEW k \in AtHand(t) PROVE k \in Reach(w, t) \/ mints[k].by = t
      BY <3>1, <3>2 DEF Reach, Close
    <3> QED BY <2>2, <3>2, <1>4 DEF AtHand
  <2> QED BY <1>1, <2>1, <2>2
<1>f. Fresh'
  <2>1. Rotates' = Rotates BY <1>1 DEF Rotates
  <2>2. \A c \in Devices : AtHand(c)' \subseteq AtHand(c)
    <3>1. \A c \in Devices : ToSet(row'[c]) \subseteq ToSet(row[c]) BY <1>4, NoKeys
    <3> QED BY <1>1, <3>1 DEF AtHand
  <2> QED BY <1>1, <1>3, <2>1, <2>2, FreshKept
<1>9. OneRotationPerEpoch' BY <1>0, <1>1 DEF OneRotationPerEpoch
<1> QED BY <1>5, <1>6, <1>7, <1>8, <1>f, <1>9 DEF IInv

\* The UPDATE of a rotation fills only rows that are there.
LEMMA StoreWrappedInv ==
  ASSUME IInv, NEW w \in work, NEW t \in Devices, StoreWrapped(w, t)
  PROVE  IInv'
<1> DEFINE v == [w EXCEPT !.to = @ \ {t}]
<1>0. TypeOK /\ AllPlaced /\ EpochCovers /\ Fresh /\ Outside /\ OneRotationPerEpoch BY DEF IInv
<1>1. /\ UNCHANGED <<epoch, ring, answer, net, sent, mints, accepted, out, gone>>
      /\ Progress(w, v)
      /\ w.drop = {}
      /\ row' = IF row[t] = <<>> THEN row ELSE [row EXCEPT ![t] = w.list]
  BY DEF StoreWrapped, Rewrapped
<1>2. v \in Work /\ v.list = w.list /\ v.drop \subseteq w.drop /\ w.list \in Lists BY <1>0 DEF TypeOK, Work
<1> HIDE DEF v
<1>3. /\ work' \subseteq Work
      /\ \A u \in work' : Placed(u.list, mints) /\ Len(u.list) - 1 <= epoch
      /\ \A u \in work' : \E x \in work : u.list = x.list /\ (u.drop # {} => x.drop # {})
      /\ \A u, x \in work' : u.list = x.list => u = x
  BY <1>1, <1>2, ProgressFacts
<1>4. \A e \in Devices : row'[e] = row[e] \/ (row'[e] = w.list /\ row[e] # <<>>)
  BY <1>0, <1>1 DEF TypeOK
<1>5. Placed(w.list, mints) /\ Len(w.list) - 1 <= epoch
  BY <1>0 DEF AllPlaced, EpochCovers
<1>6. TypeOK'
  <2>1. row' \in [Devices -> Lists] BY <1>0, <1>1, <1>2 DEF TypeOK
  <2> QED BY <1>0, <1>1, <1>3, <2>1 DEF TypeOK
<1>7. AllPlaced' BY <1>0, <1>1, <1>3, <1>4, <1>5 DEF AllPlaced, Placed
<1>8. EpochCovers' BY <1>0, <1>1, <1>3, <1>4, <1>5 DEF EpochCovers
<1>9. Outside' BY <1>0, <1>1, <1>4 DEF Outside, TypeOK
<1>f. Fresh'
  <2>1. Rotates' = Rotates BY <1>1 DEF Rotates
  <2>2. ASSUME NEW c \in Devices, NEW k \in AtHand(c)'
        PROVE  k \in AtHand(c) \/ k \in ToSet(w.list)
    BY <1>1, <1>4 DEF AtHand
  <2> QED BY <1>1, <1>3, <2>1, <2>2, FreshKept
<1>10. OneRotationPerEpoch' BY <1>0, <1>1 DEF OneRotationPerEpoch
<1> QED BY <1>6, <1>7, <1>8, <1>9, <1>f, <1>10 DEF IInv

\* An answer to heal_shares is the row as it stands.
LEMMA GetSharesInv ==
  ASSUME IInv, NEW d \in Devices, GetShares(d)
  PROVE  IInv'
<1>0. /\ TypeOK /\ AllPlaced /\ EpochCovers /\ Fresh /\ Outside /\ OneRotationPerEpoch
      /\ MaxMints \in Nat /\ Len(mints) \in Nat
  BY ShareKeysAssumption, LenProperties DEF IInv, TypeOK
<1>1. /\ UNCHANGED <<epoch, row, work, ring, net, sent, mints, accepted, out, gone>>
      /\ answer' = [answer EXCEPT ![d] = [epoch |-> epoch, list |-> row[d]]]
      /\ row[d] # <<>>
  BY DEF GetShares, relayVars
<1>2. \A e \in Devices : answer'[e].list = IF e = d THEN row[d] ELSE answer[e].list
  BY <1>0, <1>1 DEF TypeOK
<1>3. TypeOK'
  <2>1. epoch \in -1..(MaxMints - 1) /\ row[d] \in Lists BY <1>0 DEF TypeOK
  <2>2. answer' \in [Devices -> [epoch : -1..(MaxMints - 1), list : Lists]]
    BY <1>0, <1>1, <2>1 DEF TypeOK
  <2> QED BY <1>0, <1>1, <2>2 DEF TypeOK
<1>4. AllPlaced' BY <1>0, <1>1, <1>2 DEF AllPlaced, Placed
<1>5. EpochCovers' BY <1>0, <1>1 DEF EpochCovers
<1>6. Outside'
  <2>1. \A e \in out : e \in Devices /\ e # d BY <1>0, <1>1 DEF Outside, TypeOK
  <2> QED BY <1>0, <1>1, <1>2, <2>1 DEF Outside
<1>f. Fresh'
  <2>1. Rotates' = Rotates BY <1>1 DEF Rotates
  <2>2. \A c \in Devices : AtHand(c)' \subseteq AtHand(c) BY <1>1, <1>2 DEF AtHand
  <2>3. \A v, w \in work : v.list = w.list => v = w BY <1>0 DEF Fresh
  <2> QED BY <1>1, <2>1, <2>2, <2>3, FreshKept
<1>7. OneRotationPerEpoch' BY <1>0, <1>1 DEF OneRotationPerEpoch
<1> QED BY <1>3, <1>4, <1>5, <1>6, <1>f, <1>7 DEF IInv

\* absorb_share_key takes over an answer, however old.
LEMMA AbsorbShareKeyInv ==
  ASSUME IInv, NEW d \in Devices, AbsorbShareKey(d)
  PROVE  IInv'
<1>0. TypeOK /\ AllPlaced /\ EpochCovers /\ Fresh /\ Outside /\ OneRotationPerEpoch BY DEF IInv
<1>1. /\ UNCHANGED <<epoch, row, work, net, sent, mints, accepted, out, gone>>
      /\ answer' = [answer EXCEPT ![d] = NoAnswer]
      /\ ring' = [ring EXCEPT ![d] = IF Newer(d) THEN Absorbed(d) ELSE @]
  BY DEF AbsorbShareKey, relayVars
<1>2. \A e \in Devices :
        /\ ring'[e] = ring[e] \/ ring'[e] = answer[e].list
        /\ answer'[e].list = <<>> \/ answer'[e].list = answer[e].list
  BY <1>0, <1>1 DEF TypeOK, Absorbed, NoAnswer
<1>3. TypeOK'
  <2>1. NoAnswer \in [epoch : -1..(MaxMints - 1), list : Lists]
    BY EmptyList, ShareKeysAssumption DEF NoAnswer
  <2>2. answer' \in [Devices -> [epoch : -1..(MaxMints - 1), list : Lists]]
    BY <1>0, <1>1, <2>1 DEF TypeOK
  <2>3. ring' \in [Devices -> Lists] BY <1>0, <1>1 DEF TypeOK, Absorbed
  <2> QED BY <1>0, <1>1, <2>2, <2>3 DEF TypeOK
<1>4. AllPlaced'
  <2>1. Placed(<<>>, mints)
    BY <1>0, EmptyList, LenProperties DEF Placed, TypeOK
  <2>2. \A e \in Devices : Placed(ring[e], mints) /\ Placed(answer[e].list, mints)
    BY <1>0 DEF AllPlaced
  <2>3. \A e \in Devices : Placed(ring'[e], mints) /\ Placed(answer'[e].list, mints)
    BY <1>2, <2>1, <2>2
  <2> QED BY <1>0, <1>1, <2>3 DEF AllPlaced
<1>5. EpochCovers' BY <1>0, <1>1 DEF EpochCovers
<1>6. Outside'
  <2>1. \A e \in out : /\ e \in Devices
                       /\ ToSet(ring'[e]) \cup ToSet(answer'[e].list)
                            \subseteq ToSet(ring[e]) \cup ToSet(answer[e].list)
    BY <1>0, <1>2, NoKeys DEF TypeOK
  <2> QED BY <1>0, <1>1, <2>1 DEF Outside
<1>f. Fresh'
  <2>1. Rotates' = Rotates BY <1>1 DEF Rotates
  <2>2. \A c \in Devices : AtHand(c)' \subseteq AtHand(c) BY <1>1, <1>2, NoKeys DEF AtHand
  <2>3. \A v, w \in work : v.list = w.list => v = w BY <1>0 DEF Fresh
  <2> QED BY <1>1, <2>1, <2>2, <2>3, FreshKept
<1>7. OneRotationPerEpoch' BY <1>0, <1>1 DEF OneRotationPerEpoch
<1> QED BY <1>3, <1>4, <1>5, <1>6, <1>f, <1>7 DEF IInv

----------------------------------------------------------------------------
(* The invariant and the theorems *)

\* Every step preserves the inductive invariant.
LEMMA NextInv == IInv /\ [Next]_vars => IInv'
<1> SUFFICES ASSUME IInv, [Next]_vars PROVE IInv' OBVIOUS
<1>1. ASSUME NEW ms \in SUBSET Devices, CreateShare(ms) PROVE IInv'
  BY <1>1, CreateShareInv
<1>2. ASSUME NEW d \in Devices, NEW t \in Devices, ShareAdd(d, t) PROVE IInv'
  BY <1>2, ShareAddInv
<1>3. ASSUME NEW d \in Devices, NEW t \in Devices, ShareRemove(d, t) PROVE IInv'
  BY <1>3, ShareRemoveInv
<1>4. ASSUME NEW m \in net, HandleRotate(m) PROVE IInv' BY <1>4, HandleRotateInv
<1>5. ASSUME NEW m \in net, NEW ts \in SUBSET Devices, HandleGrant(m, ts) PROVE IInv'
  BY <1>5, HandleGrantInv
<1>6. ASSUME NEW w \in work, NEW t \in Devices, DropMember(w, t) PROVE IInv'
  BY <1>6, DropMemberInv
<1>7. ASSUME NEW w \in work, NEW t \in Devices, StoreWrapped(w, t) PROVE IInv'
  BY <1>7, StoreWrappedInv
<1>8. ASSUME NEW d \in Devices, GetShares(d) PROVE IInv' BY <1>8, GetSharesInv
<1>9. ASSUME NEW d \in Devices, AbsorbShareKey(d) PROVE IInv' BY <1>9, AbsorbShareKeyInv
<1>10. CASE UNCHANGED vars
  <2>1. TypeOK' /\ OneRotationPerEpoch' BY <1>10 DEF vars, IInv, TypeOK, OneRotationPerEpoch
  <2>2. AllPlaced' BY <1>10 DEF vars, IInv, AllPlaced, Placed
  <2>3. EpochCovers' /\ Outside' BY <1>10 DEF vars, IInv, EpochCovers, Outside
  <2>4. Fresh'
    <3>1. Rotates' = Rotates /\ \A d \in Devices : AtHand(d)' = AtHand(d)
      BY <1>10 DEF vars, Rotates, AtHand
    <3>2. \A v, w \in work : v.list = w.list => v = w BY DEF IInv, Fresh
    <3> QED BY <1>10, <3>1, <3>2, FreshKept DEF vars
  <2> QED BY <2>1, <2>2, <2>3, <2>4 DEF IInv
<1> QED
  BY <1>1, <1>2, <1>3, <1>4, <1>5, <1>6, <1>7, <1>8, <1>9, <1>10
  DEF Next, Command, RelayStep, HealStep

\* The inductive invariant holds throughout.
LEMMA SpecInv == Spec => []IInv
BY InitInv, NextInv, PTL DEF Spec

\* Every value the devices, the relay and the network of create_share, share_add,
\* share_remove and heal_shares ever have is of its type, and the relay's epoch is
\* that of a key that was minted.
THEOREM ShareKeysTypeOK == Spec => []TypeOK
<1>1. IInv => TypeOK BY DEF IInv
<1> QED BY <1>1, SpecInv, PTL

\* share_rotate: the guarded bump lets one rotation per epoch win, whatever grants
\* raise the epoch in between.
THEOREM OneWinner == Spec => []OneRotationPerEpoch
<1>1. IInv => OneRotationPerEpoch BY DEF IInv
<1> QED BY <1>1, SpecInv, PTL

\* heal_shares, which compares epochs, overlooks no longer list: share_grant and
\* share_rotate store none past the epoch they set first.
THEOREM NoListOverlooked == Spec => []NewerListIsNoticed
<1>1. IInv => NewerListIsNoticed
  <2> SUFFICES ASSUME IInv, NEW d \in Devices, Len(row[d]) > Len(ring[d]), Holds(d)
               PROVE  epoch > ShareEpoch(d)
    BY DEF NewerListIsNoticed
  <2>1. Len(row[d]) \in Nat /\ Len(ring[d]) \in Nat
    BY ListElements, ShareKeysAssumption DEF IInv, TypeOK
  <2>2. Len(row[d]) - 1 <= epoch /\ epoch \in Int
    BY DEF IInv, EpochCovers, TypeOK
  <2> QED BY <2>1, <2>2 DEF ShareEpoch
<1> QED BY <1>1, SpecInv, PTL

\* share_remove: a device whose row was deleted, and for which none was stored since,
\* gets no key it did not have within reach at the DELETE; the new key of the
\* removal was within reach only if a grant or another rotation carried it.
THEOREM RemovalHolds == Spec => []RemovedLearnsNothing
<1>1. IInv => RemovedLearnsNothing
  BY DEF IInv, Outside, RemovedLearnsNothing
<1> QED BY <1>1, SpecInv, PTL

\* push_share_key and absorb_share_key only extend a list, as long as no two
\* devices have minted for one epoch.
THEOREM ListsOnlyGrow == Spec => KeysKeptUnlessForked
<1>1. ASSUME IInv, [Next]_vars, ~Forked, NEW d \in Devices PROVE IsPrefix(ring[d], ring'[d])
  <2>0. /\ ring[d] \in Lists /\ Placed(ring[d], mints) /\ mints \in Seq(Mintings)
        /\ answer[d].list \in Lists /\ Placed(answer[d].list, mints)
    BY <1>1 DEF IInv, TypeOK, AllPlaced, Mintings
  <2>1. IsPrefix(ring[d], ring[d])
    BY <1>1, <2>0, PlacedPrefix, ListElements, ShareKeysAssumption
  <2>2. CASE ring'[d] = ring[d] BY <2>1, <2>2
  <2>3. ASSUME NEW e \in Devices, AbsorbShareKey(e), ring'[d] # ring[d]
        PROVE  IsPrefix(ring[d], ring'[d])
    <3>1. ring'[d] = answer[d].list /\ Len(answer[d].list) > Len(ring[d])
      BY <1>1, <2>3 DEF AbsorbShareKey, Absorbed, IInv, TypeOK
    <3>2. Len(ring[d]) <= Len(answer[d].list)
      BY <2>0, <3>1, ListElements, ShareKeysAssumption
    <3> QED BY <1>1, <2>0, <3>1, <3>2, PlacedPrefix
  <2>4. ASSUME NEW e \in Devices, Mint(e), ring'[d] # ring[d]
        PROVE  IsPrefix(ring[d], ring'[d])
    <3>1. ring'[d] = Append(ring[d], Len(mints) + 1)
      BY <1>1, <2>4 DEF Mint, PushShareKey, IInv, TypeOK
    <3>2. ring[d] \in Seq(Nat) /\ Len(mints) + 1 \in Nat /\ Len(ring[d]) \in Nat
      <4>1. ring[d] \in Seq(1..MaxMints) BY <2>0, ListElements
      <4>2. 1..MaxMints \subseteq Nat BY ShareKeysAssumption
      <4>3. Len(mints) \in Nat BY <2>0, LenProperties
      <4>4. ring[d] \in Seq(Nat) BY <4>1, <4>2, SeqMonotonic, Zenon
      <4> QED BY <4>3, <4>4, LenProperties
    <3>3. SubSeq(ring'[d], 1, Len(ring[d])) = ring[d] BY <3>1, <3>2
    <3>4. SubSeq(ring[d], 1, Len(ring[d])) = ring[d] BY <3>2, SubSeqFull
    <3>5. Len(ring[d]) <= Len(ring'[d]) BY <3>1, <3>2
    <3> QED BY <3>3, <3>4, <3>5 DEF IsPrefix
  <2>5. ring' = ring \/ \E e \in Devices : Mint(e) \/ AbsorbShareKey(e)
    BY <1>1, ShareKeysAssumption
    DEF Next, Command, RelayStep, HealStep, vars, CreateShare, ShareAdd, ShareRemove,
        HandleGrant, HandleRotate, DropMember, StoreWrapped, GetShares
  <2> QED BY <2>2, <2>3, <2>4, <2>5
<1>2. IInv /\ [Next]_vars =>
        [~Forked => \A d \in Devices : IsPrefix(ring[d], ring'[d])]_vars
  BY <1>1
<1> QED BY <1>2, SpecInv, PTL DEF Spec, KeysKeptUnlessForked
=============================================================================
