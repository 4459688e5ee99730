---------------------------- MODULE DaemonProofs ----------------------------
(***************************************************************************)
(* The safety properties of syncd --apply, for any number of entries,      *)
(* failures and edits, any capacity of the relay's channel and any backoff *)
(* cap.                                                                    *)
(*                                                                         *)
(* The loop and the apply share no variable but the entries that are       *)
(* shown, so the invariant has one part for each: LoopInv, where a wake-up *)
(* is never lost because a message, an announcement to come or a round     *)
(* covers every entry stored since the connect, and because a message is   *)
(* dismissed only for a cursor that has passed what it announces (Passed); *)
(* and ConfigInv, where a temporary file that is about to be renamed has   *)
(* exactly the text of its apply.                                          *)
(* What Doubled computes is proved by induction over a set of numbers.     *)
(***************************************************************************)
EXTENDS Daemon, SequenceTheorems, WellFoundedInduction, TLAPS

\* The entries this device has still to push fit the bound, too.
LoopTyped == SyncdTypeOK /\ head + local <= MaxEntries

\* An entry the cursor on disk has passed is in the log, unless a pull raced it.
Passed == \A n \in remote : n <= disk => n \in log \cup raced

LoopInv == LoopTyped /\ Passed /\ NoLostWakeUp

\* Backoff of at least one more than the flaps, so the cap is reached when flaps
\* stops counting.
BackoffKeepsPace == backoff >= MinOf(flaps + 1, MaxBackoff) /\ backoff <= MaxBackoff

Me == a[Self]

Shows == SUBSET (1..MaxEntries)

ConfigTyped == Conf!TypeOK /\ clash \in BOOLEAN /\ botched \in BOOLEAN

\* What the two files have.
FilesWhole ==
  /\ file["managed"].is = "none" \/ file["managed"] \in [is : {"whole"}, val : [shows : Shows]]
  /\ file["config"] \in [is : {"whole"}, val : [user : 0..MaxEdits, includes : {0, 1}]]
  /\ clash \/ file["config"].val.user = edits

\* What an apply under way is about to write, and has written.
ApplyWhole ==
  /\ Me.fd # "name"
  /\ Me.pc = "write" => Me.fd = "tmp" /\ tmp[Me.on] = Conf!Empty
  /\ Me.pc = "rename" => tmp[Me.on] = Conf!Whole(Me.text)
  /\ Me.pc = "include" => Me.on = "managed"
  /\ Me.pc \in {"create", "write", "rename"} =>
       /\ Me.on = "managed" => Me.text \in [shows : Shows]
       /\ Me.on = "config" => /\ Me.text \in [user : 0..MaxEdits, includes : {1}]
                              /\ clash \/ Me.text.user = edits

ConfigInv == ConfigTyped /\ FilesWhole /\ ApplyWhole

----------------------------------------------------------------------------
(* Doubling *)

\* A set of natural numbers with 0 and, with each number, the next, has all of them:
\* NatInduction for a set, from the least number outside of it.
LEMMA SetInduction ==
  ASSUME NEW S, 0 \in S, \A n \in Nat : n \in S => n + 1 \in S
  PROVE  Nat \subseteq S
<1> SUFFICES ASSUME NEW k \in Nat, k \notin S PROVE FALSE OBVIOUS
<1> DEFINE Less == {p \in Nat \X Nat : p[1] < p[2]}
           Out == {n \in Nat : n \notin S}
<1>1. IsWellFoundedOn(Less, Nat) BY NatLessThanWellFounded DEF OpToRel
<1>2. \A x, y \in Nat : x < y => <<x, y>> \in Less OBVIOUS
<1>3. Out \subseteq Nat /\ Out # {} OBVIOUS
<1> HIDE DEF Less
<1>4. PICK x \in Out : \A y \in Out : ~(<<y, x>> \in Less) BY <1>1, <1>3, WFMin
<1>5. x \in Nat /\ x # 0 /\ x - 1 \in Nat /\ x - 1 < x BY <1>4
<1>6. x - 1 \in S BY <1>2, <1>4, <1>5
<1> QED BY <1>4, <1>5, <1>6

\* The first m doublings of 1.
Doublings(m) ==
  {g \in [0..m -> Nat] : g[0] = 1 /\ \A i \in 1..m : g[i] = 2 * g[i - 1]}

\* One can double any number of times ...
LEMMA DoublingsExist == \A m \in Nat : Doublings(m) # {}
<1> DEFINE S == {m \in Nat : Doublings(m) # {}}
<1>1. 0 \in S
  <2>1. [i \in 0..0 |-> 1] \in Doublings(0) BY DEF Doublings
  <2> QED BY <2>1
<1>2. ASSUME NEW n \in Nat, n \in S PROVE n + 1 \in S
  <2>1. PICK g : g \in Doublings(n) BY <1>2
  <2>2. /\ g \in [0..n -> Nat] /\ g[0] = 1
        /\ \A i \in 1..n : g[i] = 2 * g[i - 1]
    BY <2>1 DEF Doublings
  <2> DEFINE h == [i \in 0..(n + 1) |-> IF i <= n THEN g[i] ELSE 2 * g[n]]
  <2>3. h \in [0..(n + 1) -> Nat] /\ h[0] = 1
    <3>1. ASSUME NEW i \in 0..(n + 1)
          PROVE  (IF i <= n THEN g[i] ELSE 2 * g[n]) \in Nat
      <4>1. g[n] \in Nat /\ (i <= n => g[i] \in Nat) BY <2>2
      <4> QED BY <4>1
    <3>2. 0 \in 0..(n + 1) /\ 0 <= n OBVIOUS
    <3> QED BY <2>2, <3>1, <3>2
  <2>4. ASSUME NEW i \in 1..(n + 1) PROVE h[i] = 2 * h[i - 1]
    <3>1. i - 1 \in 0..(n + 1) /\ i \in 0..(n + 1) /\ i - 1 <= n OBVIOUS
    <3>2. h[i - 1] = g[i - 1] BY <3>1
    <3>3. CASE i <= n
      <4>1. i \in 1..n /\ h[i] = g[i] BY <3>1, <3>3
      <4> QED BY <4>1, <3>2, <2>2
    <3>4. CASE ~(i <= n)
      <4>1. i - 1 = n /\ h[i] = 2 * g[n] BY <3>1, <3>4
      <4> QED BY <4>1, <3>2
    <3> QED BY <3>3, <3>4
  <2> HIDE DEF h
  <2>5. h \in Doublings(n + 1) BY <2>3, <2>4 DEF Doublings
  <2> QED BY <2>5
<1> HIDE DEF S
<1>3. Nat \subseteq S BY <1>1, <1>2, SetInduction
<1> QED BY <1>3 DEF S

\* ... and in one way.
LEMMA DoublingsAgree ==
  ASSUME NEW m \in Nat, NEW n \in Nat, NEW g \in Doublings(m), NEW h \in Doublings(n)
  PROVE  \A i \in Nat : i <= m /\ i <= n => g[i] = h[i]
<1> DEFINE S == {i \in Nat : i <= m /\ i <= n => g[i] = h[i]}
<1>0. /\ g[0] = 1 /\ \A i \in 1..m : g[i] = 2 * g[i - 1]
      /\ h[0] = 1 /\ \A i \in 1..n : h[i] = 2 * h[i - 1]
  BY DEF Doublings
<1>1. 0 \in S BY <1>0
<1>2. ASSUME NEW i \in Nat, i \in S, i + 1 <= m, i + 1 <= n PROVE g[i + 1] = h[i + 1]
  <2>1. i + 1 \in 1..m /\ i + 1 \in 1..n /\ (i + 1) - 1 = i /\ i <= m /\ i <= n BY <1>2
  <2>2. g[i] = h[i] BY <1>2, <2>1
  <2> QED BY <1>0, <2>1, <2>2
<1>3. \A i \in Nat : i \in S => i + 1 \in S BY <1>2
<1> HIDE DEF S
<1>4. Nat \subseteq S BY <1>1, <1>3, SetInduction
<1> QED BY <1>4 DEF S

\* So what Doubled's recursion asks for exists, and Doubled is it.
LEMMA DoubledDef == Doubled = [n \in Nat |-> IF n = 0 THEN 1 ELSE 2 * Doubled[n - 1]]
<1> DEFINE run(n) == CHOOSE g : g \in Doublings(n)
           f == [n \in Nat |-> run(n)[n]]
<1>1. \A n \in Nat : run(n) \in Doublings(n) BY DoublingsExist
<1> HIDE DEF run
<1>2. ASSUME NEW n \in Nat PROVE f[n] = IF n = 0 THEN 1 ELSE 2 * f[n - 1]
  <2>1. f[n] = run(n)[n] OBVIOUS
  <2>2. CASE n = 0
    <3>1. run(n)[0] = 1 BY <1>1 DEF Doublings
    <3> QED BY <2>1, <2>2, <3>1
  <2>3. CASE n # 0
    <3>1. n - 1 \in Nat /\ n \in 1..n /\ n - 1 <= n BY <2>3
    <3>2. f[n - 1] = run(n - 1)[n - 1] BY <3>1
    <3>3. run(n)[n] = 2 * run(n)[n - 1] BY <1>1, <3>1 DEF Doublings
    <3>4. run(n) \in Doublings(n) /\ run(n - 1) \in Doublings(n - 1) BY <1>1, <3>1
    <3>5. run(n)[n - 1] = run(n - 1)[n - 1] BY <3>1, <3>4, DoublingsAgree
    <3> QED BY <2>1, <2>3, <3>2, <3>3, <3>5
  <2> QED BY <2>2, <2>3
<1>3. f = [n \in Nat |-> IF n = 0 THEN 1 ELSE 2 * f[n - 1]]
  <2>1. f = [n \in Nat |-> f[n]] OBVIOUS
  <2> HIDE DEF f
  <2> QED BY <1>2, <2>1
<1> HIDE DEF f
<1>4. \E x : x = [n \in Nat |-> IF n = 0 THEN 1 ELSE 2 * x[n - 1]] BY <1>3
<1> QED BY <1>4 DEF Doubled

\* Each delay is twice the one before.
LEMMA DoubledFacts ==
  /\ Doubled[0] = 1
  /\ \A n \in Nat : Doubled[n] \in Nat /\ Doubled[n + 1] = 2 * Doubled[n]
<1>1. Doubled[0] = 1 BY DoubledDef
<1>2. ASSUME NEW n \in Nat PROVE Doubled[n + 1] = 2 * Doubled[n]
  <2>1. n + 1 \in Nat /\ n + 1 # 0 /\ (n + 1) - 1 = n OBVIOUS
  <2> QED BY <2>1, DoubledDef
<1> DEFINE S == {n \in Nat : Doubled[n] \in Nat}
<1>3. 0 \in S BY <1>1
<1>4. \A n \in Nat : n \in S => n + 1 \in S BY <1>2
<1>5. Nat \subseteq S
  <2> HIDE DEF S
  <2> QED BY <1>3, <1>4, SetInduction
<1> QED BY <1>1, <1>2, <1>5

----------------------------------------------------------------------------
(* The mail of a socket *)

\* Dropping the unsent end of the mail leaves mail.
LEMMA MailCut ==
  ASSUME mail \in Seq(1..MaxEntries), Len(mail) <= Capacity, NEW k \in 0..Len(mail)
  PROVE  /\ SubSeq(mail, 1, k) \in Seq(1..MaxEntries)
         /\ Len(SubSeq(mail, 1, k)) <= Capacity
<1>1. Len(mail) \in Nat BY LenProperties
<1>2. Capacity \in Nat BY SyncdAssumption
<1>a. k \in Int /\ 1 \in Int /\ \A i \in 1..k : i \in 1..Len(mail) BY <1>1
<1>b. \A i \in 1..k : mail[i] \in 1..MaxEntries BY <1>a, ElementOfSeq
<1>3. /\ SubSeq(mail, 1, k) \in Seq(1..MaxEntries)
      /\ Len(SubSeq(mail, 1, k)) = IF 1 <= k THEN k - 1 + 1 ELSE 0
  BY <1>a, <1>b, SubSeqProperties
<1>4. k <= Capacity /\ 0 <= Capacity /\ k \in Nat BY <1>1, <1>2
<1> QED BY <1>3, <1>4

\* notify: an announced head is in the mail of a socket that is still up.
LEMMA AnnounceFacts ==
  ASSUME SyncdTypeOK, NEW n \in 1..MaxEntries, Announce(n)
  PROVE  /\ sock' \in {"none", "up", "closed"}
         /\ mail' \in Seq(1..MaxEntries) /\ Len(mail') <= Capacity
         /\ excused' \in {excused, 0}
         /\ sock' = "up" => /\ sock = "up" /\ excused' = excused
                            /\ Len(mail') = Len(mail) + 1 /\ mail'[Len(mail) + 1] = n
                            /\ \A i \in 1..Len(mail) : mail'[i] = mail[i]
<1>0. /\ mail \in Seq(1..MaxEntries) /\ Len(mail) <= Capacity
      /\ sock \in {"none", "up", "closed"}
  BY DEF SyncdTypeOK
<1>1. Len(mail) \in Nat /\ Capacity \in Nat BY <1>0, LenProperties, SyncdAssumption
<1>2. CASE sock # "up" BY <1>0, <1>2 DEF Announce
<1>3. CASE sock = "up" /\ Len(mail) < Capacity
  <2>1. mail' = Append(mail, n) /\ sock' = sock /\ excused' = excused BY <1>3 DEF Announce
  <2>2. /\ mail' \in Seq(1..MaxEntries) /\ Len(mail') = Len(mail) + 1
        /\ mail'[Len(mail) + 1] = n /\ \A i \in 1..Len(mail) : mail'[i] = mail[i]
    BY <1>0, <2>1, AppendProperties
  <2>3. Len(mail') <= Capacity BY <1>1, <1>3, <2>2
  <2> QED BY <1>3, <2>1, <2>2, <2>3
<1>4. CASE sock = "up" /\ ~(Len(mail) < Capacity)
  <2>1. /\ sock' = "closed" /\ excused' = 0
        /\ \E k \in 0..Len(mail) : mail' = SubSeq(mail, 1, k)
    BY <1>4 DEF Announce, Breaks
  <2> QED BY <1>0, <2>1, MailCut
<1> QED BY <1>2, <1>3, <1>4

----------------------------------------------------------------------------
(* The loop *)

\* syncd starts with nothing stored and nothing to announce.
LEMMA InitLoop == Init => LoopInv
<1> SUFFICES ASSUME Init PROVE LoopInv OBVIOUS
<1> USE SyncdAssumption
<1>1. SyncdInit BY DEF Init
<1>2. mail \in Seq(1..MaxEntries) /\ Len(mail) = 0 BY <1>1, EmptySeq DEF SyncdInit
<1>3. head = 0 /\ local = 0 /\ sock = "none" BY <1>1 DEF SyncdInit
<1>3a. /\ 0 \in 0..MaxEntries /\ 1 \in 1..MaxBackoff /\ 0 \in 0..MaxFails
       /\ 0 \in 0..(MaxBackoff - 1) /\ 0 <= Capacity /\ 0 \in 0..0
  OBVIOUS
<1>4. SyncdTypeOK BY <1>1, <1>2, <1>3a DEF SyncdInit, SyncdTypeOK
<1>5. head + local <= MaxEntries BY <1>3
<1>6. Passed BY <1>1 DEF SyncdInit, Passed
<1> QED BY <1>3, <1>4, <1>5, <1>6 DEF LoopInv, LoopTyped, NoLostWakeUp

\* The numbers of the loop.
LEMMA LoopNumbers ==
  ASSUME LoopTyped
  PROVE  /\ head \in Nat /\ local \in Nat /\ cursor \in Nat /\ disk \in Nat /\ MaxEntries \in Nat
         /\ head <= MaxEntries /\ disk <= head /\ cursor <= disk /\ head + local <= MaxEntries
         /\ top \in Nat /\ top <= head /\ excused \in Nat /\ excused <= head
         /\ remote \subseteq 1..head /\ untold \subseteq remote
         /\ \A n \in remote : n \in Nat /\ 1 <= n /\ n <= head /\ n \in 1..MaxEntries
<1>1. /\ head \in 0..MaxEntries /\ local \in 0..MaxEntries
      /\ disk \in 0..head /\ cursor \in 0..disk /\ top \in 0..head /\ excused \in 0..head
      /\ remote \subseteq 1..head /\ untold \subseteq remote /\ head + local <= MaxEntries
  BY DEF LoopTyped, SyncdTypeOK
<1>2. MaxEntries \in Nat BY SyncdAssumption
<1> QED BY <1>1, <1>2

\* Every step of the loop, of the relay and of apply keeps the loop typed.
LEMMA NextLoopTyped == LoopTyped /\ [Next]_vars => LoopTyped'
<1> SUFFICES ASSUME LoopTyped, [Next]_vars PROVE LoopTyped' OBVIOUS
<1> USE DEF vaultVars, roundVars, loopVars
<1>0. SyncdTypeOK BY DEF LoopTyped
<1>n. /\ head \in Nat /\ local \in Nat /\ cursor \in Nat /\ disk \in Nat /\ MaxEntries \in Nat
      /\ head <= MaxEntries /\ disk <= head /\ cursor <= disk /\ head + local <= MaxEntries
      /\ remote \subseteq 1..head /\ untold \subseteq remote /\ top \in Nat /\ top <= head
      /\ excused \in Nat /\ excused <= head
      /\ \A n \in remote : n \in Nat /\ 1 <= n /\ n <= head /\ n \in 1..MaxEntries
  BY LoopNumbers
<1>b. /\ backoff \in 1..MaxBackoff /\ flaps \in 0..(MaxBackoff - 1) /\ fails \in 0..MaxFails
      /\ MaxBackoff \in Nat \ {0} /\ MaxFails \in Nat
  BY <1>0, SyncdAssumption DEF SyncdTypeOK
<1>e. head \in 0..head /\ 0 \in 0..head BY <1>n
<1>q. mail \in Seq(1..MaxEntries) /\ Len(mail) \in Nat /\ Len(mail) <= Capacity
      /\ Capacity \in Nat
  BY <1>0, LenProperties, SyncdAssumption DEF SyncdTypeOK
<1>r. \A i, j \in Nat : Between(i, j) \subseteq remote BY DEF Between
\* What a push stores, by the daemon or by a command.
<1>p. ASSUME head' = head + local, local' = 0, remote' = remote,
             IF local > 0 THEN Announce(head + local) ELSE UNCHANGED <<sock, mail, excused>>
      PROVE  /\ head' \in 0..MaxEntries /\ remote \subseteq 1..head' /\ local' \in 0..MaxEntries
             /\ head' + local' <= MaxEntries /\ head' \in Nat /\ head <= head'
             /\ top \in 0..head' /\ excused' \in 0..head'
             /\ sock' \in {"none", "up", "closed"} /\ mail' \in Seq(1..MaxEntries)
             /\ Len(mail') <= Capacity
  <2>1. /\ head' \in 0..MaxEntries /\ remote \subseteq 1..head' /\ local' \in 0..MaxEntries
        /\ head' + local' <= MaxEntries /\ head' \in Nat /\ head <= head'
    BY <1>n, <1>p
  <2>2. top \in 0..head' /\ excused \in 0..head' /\ 0 \in 0..head' BY <1>n, <2>1
  <2>3. CASE local > 0
    <3>1. Announce(head + local) BY <1>p, <2>3
    <3>2. head + local \in 1..MaxEntries BY <1>n, <2>3
    <3> QED BY <1>0, <2>1, <2>2, <3>1, <3>2, AnnounceFacts
  <2>4. CASE ~(local > 0) BY <1>0, <1>p, <2>1, <2>2, <2>4 DEF SyncdTypeOK
  <2> QED BY <2>3, <2>4
<1>1. CASE RemotePush
  <2>1. /\ head' = head + 1 /\ remote' = remote \cup {head + 1}
        /\ untold' = untold \cup {head + 1} /\ head + local < MaxEntries
        /\ UNCHANGED <<sock, mail, vaultVars, roundVars, loopVars>>
    BY <1>1 DEF RemotePush
  <2>2. /\ head' \in 0..MaxEntries /\ disk \in 0..head' /\ remote' \subseteq 1..head'
        /\ head' + local <= MaxEntries /\ top \in 0..head' /\ excused \in 0..head'
    BY <1>n, <2>1
  <2> QED BY <1>0, <1>n, <2>1, <2>2 DEF LoopTyped, SyncdTypeOK
<1>2. CASE Notify
  <2>0. PICK n \in untold : \E k \in n..head :
          /\ untold' = untold \ {n} /\ Announce(k)
          /\ UNCHANGED <<head, remote, vaultVars, roundVars, pc, outer, backoff, held, fails,
                         flaps>>
    BY <1>2 DEF Notify
  <2>1. PICK k \in n..head :
          /\ untold' = untold \ {n} /\ Announce(k)
          /\ UNCHANGED <<head, remote, vaultVars, roundVars, pc, outer, backoff, held, fails,
                         flaps>>
    BY <2>0
  <2>2. k \in 1..MaxEntries BY <1>n, <2>1
  <2>3. /\ sock' \in {"none", "up", "closed"} /\ mail' \in Seq(1..MaxEntries)
        /\ Len(mail') <= Capacity /\ excused' \in {excused, 0}
    BY <1>0, <2>1, <2>2, AnnounceFacts
  <2> QED BY <1>0, <1>n, <1>e, <2>1, <2>3 DEF LoopTyped, SyncdTypeOK
<1>3. CASE LocalAppend
  <2>1. local' = local + 1 /\ head' = head /\ head + local < MaxEntries
    BY <1>3 DEF LocalAppend, relayVars
  <2>2. local' \in 0..MaxEntries /\ head' + local' <= MaxEntries BY <1>n, <2>1
  <2> QED BY <1>0, <1>3, <2>2 DEF LocalAppend, relayVars, LoopTyped, SyncdTypeOK
<1>19. CASE OtherSync
  <2>1. PICK k \in disk..head :
          /\ head' = head + local /\ local' = 0
          /\ IF local > 0 THEN Announce(head + local) ELSE UNCHANGED <<sock, mail, excused>>
          /\ log' = log \cup Between(disk, k)
          /\ disk' = head'
          /\ raced' = raced \cup Between(k, head)
          /\ elsewhere' = elsewhere \cup (Between(disk, k) \ log)
          /\ UNCHANGED <<remote, untold, roundVars, pc, outer, backoff, held, fails, flaps>>
    BY <1>19 DEF OtherSync
  <2>2. k \in Nat BY <1>n
  <2>3. /\ log' \subseteq remote /\ mem \subseteq log' /\ raced' \subseteq remote
        /\ elsewhere' \subseteq log'
    BY <1>0, <1>n, <1>r, <2>1, <2>2 DEF SyncdTypeOK
  <2>4. /\ head' \in 0..MaxEntries /\ remote \subseteq 1..head' /\ local' \in 0..MaxEntries
        /\ head' + local' <= MaxEntries /\ head' \in Nat /\ head <= head'
        /\ top \in 0..head' /\ excused' \in 0..head'
        /\ sock' \in {"none", "up", "closed"} /\ mail' \in Seq(1..MaxEntries)
        /\ Len(mail') <= Capacity
    BY <1>p, <2>1
  <2>5. disk' \in 0..head' /\ cursor \in 0..disk' BY <1>n, <2>1, <2>4
  <2> QED BY <1>0, <2>1, <2>3, <2>4, <2>5 DEF LoopTyped, SyncdTypeOK
<1>4. CASE Drop
  <2>1. mail' \in Seq(1..MaxEntries) /\ Len(mail') <= Capacity
    BY <1>4, <1>q, MailCut DEF Drop, Breaks
  <2> QED BY <1>0, <1>e, <1>4, <2>1 DEF Drop, Breaks, LoopTyped, SyncdTypeOK
<1>5. CASE Hold
  BY <1>5 DEF Hold, relayVars, LoopTyped, SyncdTypeOK
<1>6. CASE Push
  <2>1. /\ head' = head + local /\ local' = 0 /\ pc' = "pull" /\ cursor' = disk /\ mem' = log
        /\ IF local > 0 THEN Announce(head + local) ELSE UNCHANGED <<sock, mail, excused>>
        /\ UNCHANGED <<remote, untold, log, disk, raced, elsewhere, top, pulled,
                       outer, backoff, held, fails, flaps>>
    BY <1>6 DEF Push
  <2>2. /\ head' \in 0..MaxEntries /\ remote \subseteq 1..head' /\ local' \in 0..MaxEntries
        /\ head' + local' <= MaxEntries /\ head' \in Nat /\ head <= head'
        /\ top \in 0..head' /\ excused' \in 0..head'
        /\ sock' \in {"none", "up", "closed"} /\ mail' \in Seq(1..MaxEntries)
        /\ Len(mail') <= Capacity
    BY <1>p, <2>1
  <2>3. disk' \in 0..head' /\ cursor' \in 0..disk' BY <1>n, <2>1, <2>2
  <2> QED BY <1>0, <2>1, <2>2, <2>3 DEF LoopTyped, SyncdTypeOK
<1>7. CASE PullRows
  BY <1>7, <1>e DEF PullRows, relayVars, LoopTyped, SyncdTypeOK
<1>20. CASE PullHead
  <2>1. /\ log' = log \cup Between(cursor, top) /\ mem' = mem \cup Between(cursor, top)
        /\ cursor' = head /\ disk' = head /\ top' = 0 /\ pc' = "hook"
        /\ raced' = raced \cup (Between(top, head) \ Between(0, disk))
        /\ pulled' \in BOOLEAN
        /\ UNCHANGED <<relayVars, local, elsewhere, outer, backoff, held, fails, excused, flaps>>
    BY <1>20 DEF PullHead, Pulls
  <2>2. /\ log' \subseteq remote /\ mem' \subseteq log' /\ raced' \subseteq remote
        /\ elsewhere \subseteq log'
    BY <1>0, <1>n, <1>r, <2>1 DEF SyncdTypeOK
  <2>3. disk' \in 0..head' /\ cursor' \in 0..disk' /\ top' \in 0..head'
    BY <1>e, <2>1 DEF relayVars
  <2> QED BY <1>0, <2>1, <2>2, <2>3 DEF relayVars, LoopTyped, SyncdTypeOK
<1>8. CASE HookDone
  BY <1>8, <1>e DEF HookDone, AfterRound, relayVars, LoopTyped, SyncdTypeOK
<1>9. CASE RoundFails
  <2>1. fails' \in 0..MaxFails BY <1>9, <1>b DEF RoundFails
  <2>2. excused' \in 0..head /\ top' \in 0..head BY <1>9, <1>e DEF RoundFails, AfterRound
  <2> QED BY <1>9, <2>1, <2>2 DEF RoundFails, AfterRound, relayVars, LoopTyped, SyncdTypeOK
<1>10. CASE Stop
  <2>1. fails' \in 0..MaxFails BY <1>10, <1>b DEF Stop
  <2>2. mail' \in Seq(1..MaxEntries) /\ Len(mail') <= Capacity
    BY <1>10, <1>q, EmptySeq DEF Stop
  <2>3. 0 \in 0..disk /\ 1 \in 1..MaxBackoff /\ 0 \in 0..(MaxBackoff - 1) BY <1>n, <1>b
  <2> QED BY <1>10, <1>e, <2>1, <2>2, <2>3 DEF Stop, LoopTyped, SyncdTypeOK
<1>11. CASE Connect
  <2>2. mail' \in Seq(1..MaxEntries) /\ Len(mail') <= Capacity
    BY <1>11, <1>q, EmptySeq DEF Connect
  <2> QED BY <1>11, <1>e, <2>2 DEF Connect, OnConnect, LoopTyped, SyncdTypeOK
<1>12. CASE ConnectFails
  BY <1>12 DEF ConnectFails, relayVars, LoopTyped, SyncdTypeOK
<1>13. CASE Receive
  <2>1. mail # <<>> /\ mail' = Tail(mail) BY <1>13 DEF Receive
  <2>2. mail' \in Seq(1..MaxEntries) /\ Len(mail') = Len(mail) - 1
    BY <1>q, <2>1, HeadTailProperties
  <2>3. Len(mail') <= Capacity BY <1>q, <2>2
  <2> QED BY <1>13, <2>2, <2>3 DEF Receive, StartRound, LoopTyped, SyncdTypeOK
<1>14. CASE Tick
  BY <1>14 DEF Tick, StartRound, relayVars, LoopTyped, SyncdTypeOK
<1>15. CASE Closed
  <2>0. (backoff' = 1 /\ flaps' = 0) \/ UNCHANGED <<backoff, flaps>> BY <1>15 DEF Closed
  <2>1. backoff' \in 1..MaxBackoff /\ flaps' \in 0..(MaxBackoff - 1) BY <2>0, <1>b
  <2> QED BY <1>15, <1>e, <2>1 DEF Closed, StartRound, LoopTyped, SyncdTypeOK
<1>16. CASE Sleep
  <2>1. backoff' \in 1..MaxBackoff /\ flaps' \in 0..(MaxBackoff - 1)
    BY <1>16, <1>b DEF Sleep, NextBackoff, MinOf
  <2> QED BY <1>16, <2>1 DEF Sleep, StartRound, relayVars, LoopTyped, SyncdTypeOK
<1>17. CASE OnRound
  BY <1>17 DEF OnRound, relayVars, LoopTyped, SyncdTypeOK
<1>18. CASE UNCHANGED syncdVars
  BY <1>18 DEF syncdVars, relayVars, LoopTyped, SyncdTypeOK
<1> QED
  BY <1>1, <1>2, <1>3, <1>4, <1>5, <1>6, <1>7, <1>8, <1>9, <1>10, <1>11, <1>12, <1>13,
     <1>14, <1>15, <1>16, <1>17, <1>18, <1>19, <1>20
  DEF Next, DaemonStep, RoundDone, ApplyStep, Loop, Others, Trouble, ApplyFails, UserEdits, vars

\* The loop stays typed.
LEMMA SpecLoopTyped == Spec => []LoopTyped
<1>1. Init => LoopTyped BY InitLoop DEF LoopInv
<1> QED BY <1>1, NextLoopTyped, PTL DEF Spec

\* A pull that sets the cursor leaves no entry behind but those it races: by the
\* daemon ...
LEMMA PullHeadPasses ==
  ASSUME LoopTyped, Passed, PullHead
  PROVE  remote' \subseteq log' \cup raced'
<1>n. /\ cursor \in Nat /\ disk \in Nat /\ cursor <= disk /\ top \in Nat /\ head \in Nat
      /\ \A n \in remote : n \in Nat /\ 1 <= n /\ n <= head
  BY LoopNumbers
<1>1. /\ log' = log \cup Between(cursor, top) /\ remote' = remote
      /\ raced' = raced \cup (Between(top, head) \ Between(0, disk))
  BY DEF PullHead, relayVars
<1>2. ASSUME NEW n \in remote, ~(n <= disk) PROVE n \in log' \cup raced'
  <2>1. CASE n <= top
    <3>1. cursor < n BY <1>2, <1>n
    <3> QED BY <1>1, <2>1, <3>1 DEF Between
  <2>2. CASE ~(n <= top)
    <3>1. top < n /\ n <= head BY <1>n, <2>2
    <3> QED BY <1>1, <1>2, <3>1 DEF Between
  <2> QED BY <2>1, <2>2
<1> QED BY <1>1, <1>2 DEF Passed

\* ... or by a sync command.
LEMMA OtherSyncPasses ==
  ASSUME LoopTyped, Passed, OtherSync
  PROVE  remote' \subseteq log' \cup raced'
<1>n. /\ disk \in Nat /\ head \in Nat
      /\ \A n \in remote : n \in Nat /\ 1 <= n /\ n <= head
  BY LoopNumbers
<1>1. PICK k \in disk..head :
        /\ log' = log \cup Between(disk, k) /\ raced' = raced \cup Between(k, head)
        /\ remote' = remote
  BY DEF OtherSync
<1>2. ASSUME NEW n \in remote, ~(n <= disk) PROVE n \in log' \cup raced'
  <2>1. disk < n /\ n <= head /\ (n <= k \/ k < n) BY <1>2, <1>n
  <2> QED BY <1>1, <2>1 DEF Between
<1> QED BY <1>1, <1>2 DEF Passed

\* The cursor on disk passes entries in those two steps only.
LEMMA NextPassed == LoopTyped /\ Passed /\ [Next]_vars => Passed'
<1> SUFFICES ASSUME LoopTyped, Passed, [Next]_vars PROVE Passed' OBVIOUS
<1>1. CASE PullHead \/ OtherSync BY <1>1, PullHeadPasses, OtherSyncPasses DEF Passed
<1>2. CASE RemotePush
  <2>1. disk \in Nat /\ head \in Nat /\ disk <= head BY LoopNumbers
  <2>2. remote' = remote \cup {head + 1} /\ UNCHANGED <<disk, log, raced>>
    BY <1>2 DEF RemotePush, vaultVars
  <2>3. ~(head + 1 <= disk) BY <2>1
  <2> QED BY <2>2, <2>3 DEF Passed
<1>3. CASE UNCHANGED <<remote, disk, log, raced>> BY <1>3 DEF Passed
<1>4. PullHead \/ OtherSync \/ RemotePush \/ UNCHANGED <<remote, disk, log, raced>>
  BY DEF Next, DaemonStep, OnRound, RoundDone, ApplyStep, Loop, Others, Trouble, ApplyFails,
         UserEdits, vars, syncdVars, relayVars, vaultVars, roundVars, loopVars, Notify,
         LocalAppend, Drop, Hold, Push, PullRows, HookDone, RoundFails, Stop, Connect,
         ConnectFails, Receive, Tick, Closed, Sleep
<1> QED BY <1>1, <1>2, <1>3, <1>4

\* An entry that some later message covers is covered still when more is announced.
LEMMA NextNoLostWakeUp == LoopTyped /\ Passed /\ NoLostWakeUp /\ [Next]_vars => NoLostWakeUp'
<1> SUFFICES ASSUME LoopTyped, Passed, NoLostWakeUp, [Next]_vars, sock' = "up",
                    NEW n \in Between(excused, head)', n \notin raced', n \notin log',
                    n \notin untold', pc' \notin {"push", "pull", "head"}
             PROVE  \E i \in 1..Len(mail') : mail'[i] >= n
  BY DEF NoLostWakeUp
<1> USE DEF vaultVars, roundVars, loopVars
<1>0. SyncdTypeOK BY DEF LoopTyped
<1>n. /\ head \in Nat /\ local \in Nat /\ cursor \in Nat /\ disk \in Nat /\ cursor <= disk
      /\ MaxEntries \in Nat /\ head <= MaxEntries
      /\ remote \subseteq 1..head /\ untold \subseteq remote
      /\ \A k \in remote : k \in Nat /\ 1 <= k /\ k <= head /\ k \in 1..MaxEntries
  BY LoopNumbers
<1>d. n \in remote' /\ excused' < n /\ n <= head' BY DEF Between
<1>q. mail \in Seq(1..MaxEntries) /\ Len(mail) \in Nat
  BY <1>0, LenProperties DEF SyncdTypeOK
\* What a state before the step knew of the entry.
<1>a. ASSUME sock = "up", n \in remote, excused < n, n \notin raced, n \notin log,
             n \notin untold, pc \notin {"push", "pull", "head"}
      PROVE  \E i \in 1..Len(mail) : mail[i] >= n
  <2>1. n \in Between(excused, head) BY <1>a, <1>n DEF Between
  <2> QED BY <1>a, <2>1 DEF NoLostWakeUp
\* Steps that keep the mail of the socket.
<1>1. ASSUME UNCHANGED <<sock, mail, remote, excused, raced, log, untold, pc>>
      PROVE  \E i \in 1..Len(mail') : mail'[i] >= n
  BY <1>1, <1>a, <1>d
<1>2. CASE RemotePush
  <2>1. n # head + 1 BY <1>2 DEF RemotePush
  <2>2. /\ n \in remote /\ n \notin untold
        /\ UNCHANGED <<sock, mail, excused, raced, log, pc>>
    BY <1>2, <1>d, <2>1 DEF RemotePush
  <2> QED BY <1>a, <1>d, <2>2
<1>3. CASE Notify
  <2>0. PICK m \in untold : \E k \in m..head :
          /\ untold' = untold \ {m} /\ Announce(k)
          /\ UNCHANGED <<remote, log, raced, pc>>
    BY <1>3 DEF Notify
  <2>1. PICK k \in m..head :
          /\ untold' = untold \ {m} /\ Announce(k)
          /\ UNCHANGED <<remote, log, raced, pc>>
    BY <2>0
  <2>2. k \in 1..MaxEntries /\ k >= m /\ m \in Nat /\ k \in Nat BY <1>n
  <2>3. /\ sock = "up" /\ excused' = excused
        /\ Len(mail') = Len(mail) + 1 /\ mail'[Len(mail) + 1] = k
        /\ \A i \in 1..Len(mail) : mail'[i] = mail[i]
    BY <1>0, <2>1, <2>2, AnnounceFacts
  <2>4. Len(mail) + 1 \in 1..Len(mail') /\ 1..Len(mail) \subseteq 1..Len(mail')
    BY <1>q, <2>3
  <2>5. CASE n = m BY <2>2, <2>3, <2>4, <2>5
  <2>6. CASE n # m
    <3>1. PICK i \in 1..Len(mail) : mail[i] >= n BY <1>a, <1>d, <2>1, <2>3, <2>6
    <3> QED BY <3>1, <2>3, <2>4
  <2> QED BY <2>5, <2>6
<1>4. CASE LocalAppend \/ Hold BY <1>1, <1>4 DEF LocalAppend, Hold, relayVars
<1>5. CASE Drop BY <1>5 DEF Drop, Breaks
<1>6. CASE Push \/ PullRows BY <1>6 DEF Push, PullRows
<1>7. CASE PullHead \/ OtherSync BY <1>7, <1>d, PullHeadPasses, OtherSyncPasses
<1>8. CASE HookDone
  BY <1>8, <1>a, <1>d DEF HookDone, AfterRound, relayVars
<1>9. CASE RoundFails
  <2>1. sock' = sock /\ excused' = head /\ remote' = remote
    BY <1>9 DEF RoundFails, relayVars
  <2> QED BY <1>n, <1>d, <2>1
<1>10. CASE Stop BY <1>10 DEF Stop
<1>11. CASE Connect
  <2>1. excused' = head /\ remote' = remote BY <1>11 DEF Connect
  <2> QED BY <1>n, <1>d, <2>1
<1>12. CASE ConnectFails BY <1>12, <1>a, <1>d DEF ConnectFails, relayVars
<1>13. CASE Receive
  <2>1. /\ mail # <<>> /\ mail' = Tail(mail) /\ pc = "wait"
        /\ UNCHANGED <<remote, untold, sock, log, raced, cursor, excused>>
    BY <1>13 DEF Receive
  <2>2. ~IsNews(Head(mail)) BY <1>13 DEF Receive, StartRound
  <2>3. /\ Len(mail') = Len(mail) - 1 /\ Head(mail) = mail[1]
        /\ \A i \in 1..Len(mail') : mail'[i] = mail[i + 1]
    BY <1>q, <2>1, HeadTailProperties
  <2>4. PICK i \in 1..Len(mail) : mail[i] >= n BY <1>a, <1>d, <2>1
  <2>c. ~(n <= disk) /\ n \in Nat BY <1>d, <1>n, <2>1 DEF Passed
  <2>5. mail[i] \in Nat /\ ~(mail[1] > cursor) /\ mail[1] \in Nat
    <3>1. 1 \in 1..Len(mail) BY <1>q, <2>4
    <3>2. mail[i] \in 1..MaxEntries /\ mail[1] \in 1..MaxEntries
      BY <1>q, <2>4, <3>1, ElementOfSeq
    <3> QED BY <1>n, <2>1, <2>2, <2>3, <3>2 DEF IsNews
  <2>6. i # 1 BY <1>n, <2>4, <2>5, <2>c
  <2>7. i - 1 \in 1..Len(mail') /\ (i - 1) + 1 = i BY <1>q, <2>3, <2>6
  <2>8. mail'[i - 1] >= n BY <2>3, <2>4, <2>7
  <2> QED BY <2>7, <2>8
<1>14. CASE Tick BY <1>14 DEF Tick, StartRound
<1>15. CASE Closed BY <1>15 DEF Closed
<1>16. CASE Sleep BY <1>16 DEF Sleep, StartRound
<1>17. CASE OnRound BY <1>1, <1>17 DEF OnRound, relayVars
<1>18. CASE UNCHANGED syncdVars BY <1>1, <1>18 DEF syncdVars, relayVars
<1> QED
  BY <1>2, <1>3, <1>4, <1>5, <1>6, <1>7, <1>8, <1>9, <1>10, <1>11, <1>12, <1>13,
     <1>14, <1>15, <1>16, <1>17, <1>18
  DEF Next, DaemonStep, RoundDone, ApplyStep, Loop, Others, Trouble, ApplyFails, UserEdits, vars

\* The backoff and the flaps only change when a connection that held is found
\* closed, and with every sleep.
LEMMA BackoffSteps ==
  ASSUME [Next]_vars
  PROVE  \/ UNCHANGED <<backoff, flaps>>
         \/ backoff' = 1 /\ flaps' = 0
         \/ backoff' = NextBackoff /\ flaps' = MinOf(flaps + 1, MaxBackoff - 1)
BY DEF Next, DaemonStep, OnRound, RoundDone, ApplyStep, Loop, Others, Trouble, ApplyFails,
       UserEdits, vars, syncdVars, relayVars, vaultVars, roundVars, loopVars, RemotePush,
       Notify, LocalAppend, OtherSync, Drop, Hold, Push, PullRows, PullHead, HookDone,
       RoundFails, Stop, Connect, OnConnect, ConnectFails, Receive, Tick, Closed, Sleep

\* A flap doubles the delay up to its cap, which adds at least one; a
\* connection that held starts both again.
LEMMA NextBackoffKeepsPace ==
  LoopTyped /\ BackoffKeepsPace /\ [Next]_vars => BackoffKeepsPace'
<1> SUFFICES ASSUME LoopTyped, BackoffKeepsPace, [Next]_vars PROVE BackoffKeepsPace' OBVIOUS
<1>0. /\ backoff \in 1..MaxBackoff /\ flaps \in 0..(MaxBackoff - 1) /\ MaxBackoff \in Nat \ {0}
      /\ backoff >= MinOf(flaps + 1, MaxBackoff) /\ backoff <= MaxBackoff
  BY SyncdAssumption DEF LoopTyped, SyncdTypeOK, BackoffKeepsPace
<1>1. CASE UNCHANGED <<backoff, flaps>> BY <1>0, <1>1 DEF BackoffKeepsPace
<1>2. CASE backoff' = 1 /\ flaps' = 0 BY <1>0, <1>2 DEF BackoffKeepsPace, MinOf
<1>3. CASE backoff' = NextBackoff /\ flaps' = MinOf(flaps + 1, MaxBackoff - 1)
  BY <1>0, <1>3 DEF BackoffKeepsPace, NextBackoff, MinOf
<1> QED BY <1>1, <1>2, <1>3, BackoffSteps

----------------------------------------------------------------------------
(* The apply *)

\* No apply is under way at the start, and the config is the user's.
LEMMA InitConfig == Init => ConfigInv
<1> SUFFICES ASSUME Init PROVE ConfigInv OBVIOUS
<1>1. /\ file = [managed |-> Conf!NoFile, config |-> Conf!Whole(Conf!Config(0, 0))]
      /\ tmp = [f \in Conf!Files |-> Conf!NoFile]
      /\ a = [p \in {Self} |-> Conf!Idle]
      /\ edits = 0 /\ clash = FALSE /\ botched = FALSE
  BY DEF Init, Conf!Init
<1>2. 0 \in 0..MaxEdits BY DaemonAssumption
<1>3. /\ file["config"].is = "whole"
      /\ file["config"].val = Conf!Config(0, 0)
      /\ file["managed"] = Conf!NoFile
      /\ Conf!Config(0, 0) \in [user : 0..MaxEdits, includes : {0, 1}]
  BY <1>1, <1>2 DEF Conf!Whole, Conf!Config
<1>4. FilesWhole
  BY <1>1, <1>2, <1>3 DEF FilesWhole, Conf!Whole, Conf!Config, Conf!NoFile
<1>5. ApplyWhole BY <1>1 DEF ApplyWhole, Me, Conf!Idle
<1>6. file \in [Conf!Files -> Conf!Contents]
  BY <1>1, <1>2 DEF Conf!Files, Conf!Contents, Conf!Texts, Conf!Whole, Conf!Config, Conf!NoFile
<1>7. tmp \in [Conf!Files -> Conf!Contents] BY <1>1 DEF Conf!Contents
<1>8. Conf!Idle \in [pc : {"idle", "create", "write", "rename", "include"},
                     on : Conf!Files, text : Conf!Texts, fd : {"tmp", "name", "nowhere"}]
  BY DEF Conf!Idle, Conf!Rendered, Conf!Texts, Conf!Files
<1>9. Conf!TypeOK BY <1>1, <1>2, <1>6, <1>7, <1>8 DEF Conf!TypeOK
<1> QED BY <1>1, <1>4, <1>5, <1>9 DEF ConfigInv, ConfigTyped

\* Every step of apply, of the user's editor and of the loop keeps both files
\* whole.
LEMMA NextConfig == LoopTyped /\ ConfigInv /\ [Next]_vars => ConfigInv'
<1> SUFFICES ASSUME LoopTyped, ConfigInv, [Next]_vars PROVE ConfigInv' OBVIOUS
<1> DEFINE Applies == [pc : {"idle", "create", "write", "rename", "include"},
                       on : Conf!Files, text : Conf!Texts, fd : {"tmp", "name", "nowhere"}]
<1>0. /\ ConfigTyped /\ FilesWhole /\ ApplyWhole /\ Conf!TypeOK
  BY DEF ConfigInv, ConfigTyped
<1>t. /\ file \in [Conf!Files -> Conf!Contents] /\ tmp \in [Conf!Files -> Conf!Contents]
      /\ a \in [{Self} -> Applies] /\ edits \in 0..MaxEdits
      /\ clash \in BOOLEAN /\ botched \in BOOLEAN
      /\ Me \in Applies /\ Me.on \in Conf!Files /\ Me.text \in Conf!Texts
  BY <1>0 DEF Conf!TypeOK, ConfigTyped, Me
<1>i. Conf!Idle \in Applies /\ Conf!Idle.pc = "idle" /\ Conf!Idle.fd = "nowhere"
      /\ Conf!Idle.on = "managed"
  BY DEF Conf!Idle, Conf!Rendered, Conf!Texts, Conf!Files
<1> HIDE DEF Applies
\* The types, from the parts that a step changes.
<1>c. ASSUME file' \in [Conf!Files -> Conf!Contents], tmp' \in [Conf!Files -> Conf!Contents],
             a' \in [{Self} -> Applies], edits' \in 0..MaxEdits,
             clash' \in BOOLEAN, botched' \in BOOLEAN, FilesWhole', ApplyWhole'
      PROVE  ConfigInv'
  BY <1>c DEF ConfigInv, ConfigTyped, Conf!TypeOK, Applies
<1>1. CASE OnRound
  <2> DEFINE x == [Conf!Idle EXCEPT !.pc = "create", !.text = Conf!Rendered(mem)]
  <2>1. /\ a' = [a EXCEPT ![Self] = x]
        /\ UNCHANGED <<file, tmp, edits, botched, clash>>
    BY <1>1 DEF OnRound, Conf!Apply
  <2>2. mem \in Shows
    <3>1. mem \subseteq remote BY DEF LoopTyped, SyncdTypeOK
    <3> QED BY <3>1, LoopNumbers DEF Shows
  <2>3. x \in Applies /\ x.pc = "create" /\ x.on = "managed" /\ x.fd = "nowhere"
        /\ x.text \in [shows : Shows]
    BY <2>2 DEF Applies, Shows, Conf!Idle, Conf!Rendered, Conf!Texts, Conf!Files
  <2> HIDE DEF x
  <2>4. a' \in [{Self} -> Applies] /\ Me' = x BY <1>t, <2>1, <2>3 DEF Me
  <2>5. FilesWhole' BY <1>0, <2>1 DEF FilesWhole
  <2>6. ApplyWhole' BY <2>3, <2>4 DEF ApplyWhole
  <2> QED BY <1>t, <1>c, <2>1, <2>4, <2>5, <2>6
<1>2. CASE Conf!CreateTmp(Self) /\ UNCHANGED <<botched, clash>>
  <2> DEFINE x == [Me EXCEPT !.pc = "write", !.fd = "tmp"]
  <2>1. /\ a' = [a EXCEPT ![Self] = x] /\ Me.pc = "create"
        /\ tmp' = [tmp EXCEPT ![Me.on] = Conf!Empty]
        /\ UNCHANGED <<file, edits, botched, clash>>
    BY <1>2, <1>t DEF Conf!CreateTmp, Me
  <2>2. x \in Applies /\ x.pc = "write" /\ x.fd = "tmp" /\ x.on = Me.on /\ x.text = Me.text
    BY <1>t DEF Applies
  <2> HIDE DEF x
  <2>3. a' \in [{Self} -> Applies] /\ Me' = x BY <1>t, <2>1, <2>2 DEF Me
  <2>4. tmp' \in [Conf!Files -> Conf!Contents] /\ tmp'[Me.on] = Conf!Empty
    <3>1. Conf!Empty \in Conf!Contents BY DEF Conf!Contents
    <3> QED BY <1>t, <2>1, <3>1
  <2>5. FilesWhole' BY <1>0, <2>1 DEF FilesWhole
  <2>6. ApplyWhole' BY <1>0, <2>1, <2>2, <2>3, <2>4 DEF ApplyWhole
  <2> QED BY <1>t, <1>c, <2>1, <2>3, <2>4, <2>5, <2>6
<1>3. CASE Conf!WriteTmp(Self) /\ UNCHANGED <<botched, clash>>
  <2> DEFINE x == [Me EXCEPT !.pc = "rename"]
             c == Conf!Whole(Me.text)
  <2>1. Me.pc = "write" /\ Me.fd = "tmp" /\ tmp[Me.on] = Conf!Empty
    BY <1>0, <1>3 DEF Conf!WriteTmp, ApplyWhole, Me
  <2>2. /\ a' = [a EXCEPT ![Self] = x]
        /\ tmp' = [tmp EXCEPT ![Me.on] = c]
        /\ UNCHANGED <<file, edits, botched, clash>>
    BY <1>3, <1>t, <2>1 DEF Conf!WriteTmp, Conf!Over, Me
  <2>3. x \in Applies /\ x.pc = "rename" /\ x.fd = "tmp" /\ x.on = Me.on /\ x.text = Me.text
    BY <1>t, <2>1 DEF Applies
  <2>4. c \in Conf!Contents BY <1>t DEF Conf!Contents, Conf!Whole
  <2> HIDE DEF x, c
  <2>5. a' \in [{Self} -> Applies] /\ Me' = x BY <1>t, <2>2, <2>3 DEF Me
  <2>6. tmp' \in [Conf!Files -> Conf!Contents] /\ tmp'[Me.on] = c BY <1>t, <2>2, <2>4
  <2>7. FilesWhole' BY <1>0, <2>2 DEF FilesWhole
  <2>8. ApplyWhole' BY <1>0, <2>1, <2>2, <2>3, <2>5, <2>6 DEF ApplyWhole, c
  <2> QED BY <1>t, <1>c, <2>2, <2>5, <2>6, <2>7, <2>8
<1>4. CASE Conf!Rename(Self) /\ UNCHANGED <<botched, clash>>
  <2> DEFINE next == IF Me.on = "managed" THEN "include" ELSE "idle"
             x == [Me EXCEPT !.pc = next, !.fd = "nowhere"]
             c == Conf!Whole(Me.text)
  <2>1. Me.pc = "rename" /\ tmp[Me.on] = c BY <1>0, <1>4 DEF Conf!Rename, ApplyWhole, Me
  <2>2. /\ a' = [q \in {Self} |-> x]
        /\ file' = [file EXCEPT ![Me.on] = tmp[Me.on]]
        /\ tmp' = [tmp EXCEPT ![Me.on] = Conf!NoFile]
        /\ UNCHANGED <<edits, botched, clash>>
    BY <1>4 DEF Conf!Rename, Me
  <2>3. x \in Applies /\ x.pc = next /\ x.fd = "nowhere" /\ x.on = Me.on
    BY <1>t DEF Applies
  <2>4. c \in Conf!Contents /\ Conf!NoFile \in Conf!Contents
        /\ c.is = "whole" /\ c.val = Me.text /\ c = [is |-> "whole", val |-> Me.text]
    BY <1>t DEF Conf!Contents, Conf!Whole
  <2> HIDE DEF x, c
  <2>5. a' \in [{Self} -> Applies] /\ Me' = x BY <1>t, <2>2, <2>3 DEF Me
  <2>6. /\ tmp' \in [Conf!Files -> Conf!Contents] /\ file' \in [Conf!Files -> Conf!Contents]
    BY <1>t, <2>1, <2>2, <2>4
  <2>7. ApplyWhole' BY <2>3, <2>5 DEF ApplyWhole
  <2>8. FilesWhole'
    <3>1. CASE Me.on = "managed"
      <4>1. file'["managed"] = c /\ file'["config"] = file["config"]
        BY <1>t, <2>1, <2>2, <3>1 DEF Conf!Files
      <4>2. Me.text \in [shows : Shows] BY <1>0, <2>1, <3>1 DEF ApplyWhole
      <4>3. c \in [is : {"whole"}, val : [shows : Shows]] BY <2>4, <4>2
      <4> QED BY <1>0, <2>2, <4>1, <4>3 DEF FilesWhole
    <3>2. CASE Me.on = "config"
      <4>1. file'["config"] = c /\ file'["managed"] = file["managed"]
        BY <1>t, <2>1, <2>2, <3>2 DEF Conf!Files
      <4>2. /\ Me.text \in [user : 0..MaxEdits, includes : {1}]
            /\ clash \/ Me.text.user = edits
        BY <1>0, <2>1, <3>2 DEF ApplyWhole
      <4>3. Me.text \in [user : 0..MaxEdits, includes : {0, 1}] BY <4>2
      <4>4. c \in [is : {"whole"}, val : [user : 0..MaxEdits, includes : {0, 1}]] BY <2>4, <4>3
      <4> QED BY <1>0, <2>2, <2>4, <4>1, <4>2, <4>4 DEF FilesWhole
    <3> QED BY <1>t, <3>1, <3>2 DEF Conf!Files
  <2> QED BY <1>t, <1>c, <2>2, <2>5, <2>6, <2>7, <2>8
<1>5. CASE Conf!EnsureInclude(Self) /\ UNCHANGED <<botched, clash>>
  <2> DEFINE f == file["config"]
             w == [Conf!Idle EXCEPT !.pc = "create", !.on = "config",
                     !.text = Conf!Config(f.val.user, f.val.includes + 1)]
  <2>1. f \in [is : {"whole"}, val : [user : 0..MaxEdits, includes : {0, 1}]]
    BY <1>0 DEF FilesWhole
  <2>2. f.is = "whole" /\ f.val.user \in 0..MaxEdits /\ f.val.includes \in {0, 1} BY <2>1
  <2>3. PICK x : /\ x = IF f.val.includes = 0 THEN w ELSE Conf!Idle
                 /\ a' = [a EXCEPT ![Self] = x]
    BY <1>5, <2>2 DEF Conf!EnsureInclude, Conf!Reads, Conf!NeedsInclude
  <2>4. UNCHANGED <<file, tmp, edits, botched, clash>> BY <1>5 DEF Conf!EnsureInclude
  <2>5. CASE f.val.includes = 0
    <3>1. /\ w \in Applies /\ w.pc = "create" /\ w.on = "config" /\ w.fd = "nowhere"
          /\ w.text = [user |-> f.val.user, includes |-> 1]
      <4>1. [user |-> f.val.user, includes |-> f.val.includes + 1]
              = [user |-> f.val.user, includes |-> 1]
        BY <2>5
      <4>2. [user |-> f.val.user, includes |-> 1] \in Conf!Texts BY <2>2 DEF Conf!Texts
      <4>3. w = [Conf!Idle EXCEPT !.pc = "create", !.on = "config",
                   !.text = [user |-> f.val.user, includes |-> 1]]
        BY <4>1 DEF Conf!Config
      <4> HIDE DEF w
      <4> QED BY <4>2, <4>3 DEF Applies, Conf!Idle, Conf!Files
    <3>2. x = w BY <2>3, <2>5
    <3>3. clash \/ f.val.user = edits BY <1>0 DEF FilesWhole
    <3> HIDE DEF w
    <3>4. a' \in [{Self} -> Applies] /\ Me' = w BY <1>t, <2>3, <3>1, <3>2 DEF Me
    <3>5. /\ w.text \in [user : 0..MaxEdits, includes : {1}]
          /\ w.text.user = f.val.user
      BY <2>2, <3>1
    <3>6. ApplyWhole' BY <2>4, <3>1, <3>3, <3>4, <3>5 DEF ApplyWhole
    <3>7. FilesWhole' BY <1>0, <2>4 DEF FilesWhole
    <3> QED BY <1>t, <1>c, <2>4, <3>4, <3>6, <3>7
  <2>6. CASE f.val.includes # 0
    <3>1. x = Conf!Idle BY <2>3, <2>6
    <3>2. a' \in [{Self} -> Applies] /\ Me' = Conf!Idle BY <1>t, <1>i, <2>3, <3>1 DEF Me
    <3>3. ApplyWhole' BY <1>i, <3>2 DEF ApplyWhole
    <3>4. FilesWhole' BY <1>0, <2>4 DEF FilesWhole
    <3> QED BY <1>t, <1>c, <2>4, <3>2, <3>3, <3>4
  <2> QED BY <2>5, <2>6
<1>6. CASE ApplyFails
  <2>1. /\ a' = [a EXCEPT ![Self] = Conf!Idle] /\ botched' = TRUE
        /\ UNCHANGED <<file, tmp, edits, clash>>
    BY <1>6 DEF ApplyFails, Conf!Abandon
  <2>2. a' \in [{Self} -> Applies] /\ Me' = Conf!Idle BY <1>t, <1>i, <2>1 DEF Me
  <2>3. ApplyWhole' BY <1>i, <2>2 DEF ApplyWhole
  <2>4. FilesWhole' BY <1>0, <2>1 DEF FilesWhole
  <2> QED BY <1>t, <1>c, <2>1, <2>2, <2>3, <2>4
<1>7. CASE UserEdits
  <2> DEFINE f == file["config"]
             c == Conf!Whole(Conf!Config(edits + 1, f.val.includes))
  <2>1. /\ edits < MaxEdits /\ edits' = edits + 1
        /\ file' = [file EXCEPT !["config"] = c]
        /\ UNCHANGED <<tmp, botched>>
        /\ clash' = (clash \/ (Me.pc # "idle" /\ Me.on = "config"))
    BY <1>7 DEF UserEdits, Conf!Edit, Applying, Me
  <2>2. a' = a
    <3>1. Me.fd # "name" BY <1>0 DEF ApplyWhole
    <3>2. a' = [q \in {Self} |-> a[q]] BY <1>7, <3>1 DEF UserEdits, Conf!Edit, Me
    <3> QED BY <1>t, <3>2
  <2>3. f.val.includes \in {0, 1} BY <1>0 DEF FilesWhole
  <2>4. edits' \in 0..MaxEdits /\ edits + 1 \in 0..MaxEdits BY <1>t, <2>1, DaemonAssumption
  <2>5. /\ c \in [is : {"whole"}, val : [user : 0..MaxEdits, includes : {0, 1}]]
        /\ c.val.user = edits + 1 /\ c \in Conf!Contents
    BY <2>3, <2>4 DEF Conf!Whole, Conf!Config, Conf!Contents, Conf!Texts
  <2> HIDE DEF c
  <2>6. /\ file' \in [Conf!Files -> Conf!Contents] /\ file'["config"] = c
        /\ file'["managed"] = file["managed"]
    BY <1>t, <2>1, <2>5 DEF Conf!Files
  <2>7. FilesWhole' BY <1>0, <2>1, <2>5, <2>6 DEF FilesWhole
  <2>8. ApplyWhole' BY <1>0, <2>1, <2>2 DEF ApplyWhole, Me
  <2>9. clash' \in BOOLEAN BY <1>t, <2>1
  <2> QED BY <1>t, <1>c, <2>1, <2>2, <2>4, <2>6, <2>7, <2>8, <2>9
<1>8. CASE UNCHANGED <<configVars, botched, clash>>
  BY <1>0, <1>8
  DEF configVars, ConfigInv, ConfigTyped, Conf!TypeOK, FilesWhole, ApplyWhole, Me
<1> QED
  BY <1>1, <1>2, <1>3, <1>4, <1>5, <1>6, <1>7, <1>8
  DEF Next, DaemonStep, RoundDone, ApplyStep, Conf!Step, vars

----------------------------------------------------------------------------
(* Theorems *)

\* No wake-up is ever lost.
LEMMA SpecLoop == Spec => []LoopInv
<1>1. LoopInv /\ [Next]_vars => LoopInv'
  BY NextLoopTyped, NextPassed, NextNoLostWakeUp DEF LoopInv
<1> QED BY <1>1, InitLoop, PTL DEF Spec

\* Both files stay whole.
LEMMA SpecConfig == Spec => []ConfigInv
BY InitConfig, NextConfig, SpecLoopTyped, PTL DEF Spec

\* Every value of the loop of syncd and of the apply it runs is of its type.
THEOREM DaemonTypeOK == Spec => []TypeOK
<1>1. LoopInv /\ ConfigInv => TypeOK
  BY DEF LoopInv, LoopTyped, ConfigInv, ConfigTyped, TypeOK
<1> QED BY <1>1, SpecLoop, SpecConfig, PTL

\* notify, ws and the echo suppression of syncd: no entry stored while the daemon is
\* connected is left without a round, a message or an announcement to come, but for
\* one stored between the two statements of a pull.
THEOREM WakeUpsAreKept == Spec => []NoLostWakeUp
<1>1. LoopInv => NoLostWakeUp BY DEF LoopInv
<1> QED BY <1>1, SpecLoop, PTL

\* syncd's reconnect loop keeps the delay ahead of the flaps.
LEMMA SpecBackoffKeepsPace == Spec => []BackoffKeepsPace
<1>1. Init => BackoffKeepsPace
  <2> SUFFICES ASSUME Init PROVE BackoffKeepsPace OBVIOUS
  <2>1. backoff = 1 /\ flaps = 0 BY DEF Init, SyncdInit
  <2>2. MaxBackoff \in Nat \ {0} BY SyncdAssumption
  <2> QED BY <2>1, <2>2 DEF BackoffKeepsPace, MinOf
<1> QED BY <1>1, NextBackoffKeepsPace, SpecLoopTyped, PTL DEF Spec

\* The delay is what the flaps since the last connection that held make of it.
LEMMA NextBackoffClimbs ==
  LoopTyped /\ BackoffKeepsPace /\ BackoffClimbs /\ [Next]_vars => BackoffClimbs'
<1> SUFFICES ASSUME LoopTyped, BackoffKeepsPace, BackoffClimbs, [Next]_vars
             PROVE  BackoffClimbs'
  OBVIOUS
<1>0. /\ backoff \in 1..MaxBackoff /\ flaps \in 0..(MaxBackoff - 1) /\ MaxBackoff \in Nat \ {0}
      /\ backoff >= MinOf(flaps + 1, MaxBackoff)
      /\ backoff = MinOf(Doubled[flaps], MaxBackoff)
  BY SyncdAssumption DEF LoopTyped, SyncdTypeOK, BackoffKeepsPace, BackoffClimbs
<1>1. CASE UNCHANGED <<backoff, flaps>> BY <1>0, <1>1 DEF BackoffClimbs
<1>2. CASE backoff' = 1 /\ flaps' = 0
  BY <1>0, <1>2, DoubledFacts DEF BackoffClimbs, MinOf
<1>3. CASE backoff' = NextBackoff /\ flaps' = MinOf(flaps + 1, MaxBackoff - 1)
  <2>1. flaps \in Nat /\ Doubled[flaps] \in Nat /\ Doubled[flaps + 1] = 2 * Doubled[flaps]
    BY <1>0, DoubledFacts
  <2>2. CASE flaps < MaxBackoff - 1
    <3>1. flaps' = flaps + 1 BY <1>0, <1>3, <2>2 DEF MinOf
    <3>2. MinOf(2 * backoff, MaxBackoff) = MinOf(2 * Doubled[flaps], MaxBackoff)
      BY <1>0, <2>1 DEF MinOf
    <3> QED BY <1>3, <2>1, <3>1, <3>2 DEF BackoffClimbs, NextBackoff
  <2>3. CASE ~(flaps < MaxBackoff - 1)
    <3>1. flaps' = flaps BY <1>0, <1>3, <2>3 DEF MinOf
    <3>2. backoff' = backoff BY <1>0, <1>3, <2>3 DEF NextBackoff, MinOf
    <3> QED BY <1>0, <3>1, <3>2 DEF BackoffClimbs
  <2> QED BY <2>2, <2>3
<1> QED BY <1>1, <1>2, <1>3, BackoffSteps DEF LoopTyped

\* syncd's reconnect loop: however connections fail, drop early or hold, the delay
\* has doubled with each one in a row that did not hold, up to the cap.
THEOREM BackoffDoubles == Spec => []BackoffClimbs
<1>1. Init => BackoffClimbs
  <2> SUFFICES ASSUME Init PROVE BackoffClimbs OBVIOUS
  <2>1. backoff = 1 /\ flaps = 0 BY DEF Init, SyncdInit
  <2>2. MaxBackoff \in Nat \ {0} BY SyncdAssumption
  <2> QED BY <2>1, <2>2, DoubledFacts DEF BackoffClimbs, MinOf
<1> QED BY <1>1, NextBackoffClimbs, SpecBackoffKeepsPace, SpecLoopTyped, PTL DEF Spec

\* atomic_write: with one process that applies, the managed file is absent or one
\* whole rendering, wherever an apply fails.
THEOREM ManagedStaysWhole == Spec => []ManagedIsWhole
<1>1. ConfigInv => ManagedIsWhole
  BY DEF ConfigInv, FilesWhole, ManagedIsWhole, Conf!RegeneratedAtomically
<1> QED BY <1>1, SpecConfig, PTL

\* ensure_include: the user's config keeps the user's latest text and at most one
\* Include, but for a save between the read and the rename of an apply.
THEOREM UserTextIsKept == Spec => []UserTextKept
<1>1. ConfigInv => UserTextKept
  BY DEF ConfigInv, FilesWhole, UserTextKept
<1> QED BY <1>1, SpecConfig, PTL
=============================================================================
