-------------------------- MODULE RelaySyncProofs --------------------------
(***************************************************************************)
(* The safety properties of sync rounds against the relay, for any devices *)
(* and shares and any number of entries, failures and removals.            *)
(*                                                                         *)
(* The proof has four layers.  Typed: rows a pull has selected are rows    *)
(* the relay has, and what a round read of the log is still in it.         *)
(* Access: who holds or is sent what follows the memberships that ever     *)
(* were.  Its key fact is that an entry the relay does not have yet is one *)
(* whose share the pushing process can open, so its tag is right (but for  *)
(* shares created beside a running process).  Delivery: a cursor never     *)
(* passes the store, and a pull under way has every default-share row up   *)
(* to its selection applied, raced or still to apply.  Order: the relay    *)
(* has what a writer saw in rows before what it wrote, since until then a  *)
(* push has both and the earlier goes first.  The last two make every step *)
(* one of Transport, or none.                                              *)
(***************************************************************************)
EXTENDS RelaySync, SequenceTheorems, TLAPS

Rows == [entry : Entry, tag : Shares]

Typed ==
  /\ TypeOK
  /\ \A d \in Devices : /\ r[d].rows \subseteq 1..Len(store)
                        /\ r[d].have \subseteq log[d]

\* Keyrings and memberships: only what was granted or created is held, and a
\* process misses no share of the file but ones created beside it.
Keyrings ==
  /\ members \subseteq entitled
  /\ \A d \in Devices :
       /\ Nil \in keys[d]
       /\ \A s \in keys[d] \cup r[d].keys : s = Nil \/ <<s, d>> \in entitled
       /\ r[d].pc # "closed" => keys[d] \ beside \subseteq r[d].keys

\* An entry the relay has not got is of a share the device holds.
Unsent ==
  \A d \in Devices : \A e \in log[d] :
    e.share \in beside \/ e \in Stored \/ e.share \in keys[d]

\* The rows of a pull under way.
RowsRouted ==
  \A d \in Devices : \A i \in r[d].rows :
    store[i].tag = Nil \/ <<store[i].tag, d>> \in entitled

Access ==
  Keyrings /\ Unsent /\ TagsRightUnlessBeside /\ RoutedToMembers /\ RowsRouted

\* The default-share row i has reached d, raced with its pull, or is about to be
\* applied.
Covered(d, i) ==
  store[i].tag = Nil => store[i].entry \in log[d] \/ i \in raced[d] \/ i \in r[d].rows

Delivery ==
  /\ \A d \in Devices : cursor[d] <= Len(store)
  /\ \A d \in Devices : r[d].pc \in {"rows", "apply"} =>
       /\ r[d].top <= Len(store)
       /\ \A i \in 1..r[d].top : Covered(d, i)
  /\ \A d \in Devices : r[d].pc = "apply" => r[d].head <= Len(store)
  /\ OnlyRacedAreMissed

\* Entries are numbered in the order they were written, and what a writer saw was
\* written before; what the relay has is in some log.
Numbered ==
  /\ \A d \in Devices : \A e \in log[d] : e.n <= written
  /\ \A n \in 1..MaxWrites : \A f \in saw[n] : f.n < n
  /\ Stored \subseteq UNION {log[d] : d \in Devices}

\* What the writer of an entry saw lies with it, in a log and in a push, until the
\* relay has the entry.
UnsentClosed ==
  \A d \in Devices :
    /\ \A e \in log[d] \ Stored : saw[e.n] \subseteq log[d]
    /\ \A e \in r[d].have \ Stored : saw[e.n] \subseteq r[d].have

\* f is in a row before row j.
StoredBefore(f, j) == \E i \in 1..Len(store) : i < j /\ store[i].entry = f

\* The relay numbered what a writer saw before what it wrote.
StoreOrdered ==
  \A j \in 1..Len(store) : \A f \in saw[store[j].entry.n] : StoredBefore(f, j)

\* The rows of a pull under way end where it selected them.
Selected ==
  \A d \in Devices : r[d].pc \in {"rows", "apply"} => \A i \in r[d].rows : i <= r[d].top

Order ==
  /\ Numbered /\ UnsentClosed /\ StoreOrdered /\ Selected
  /\ \A i \in 1..Len(store) : store[i].entry.share = Nil => store[i].tag = Nil
  /\ \A d \in Devices : raced[d] \subseteq 1..Len(store)

----------------------------------------------------------------------------
(* Steps *)

\* The relay's log only grows: a stored row keeps its seq.
LEMMA PushFacts ==
  ASSUME Typed, NEW d \in Devices, NEW e \in r[d].have, PushEntry(d, e)
  PROVE  /\ e \in Entry /\ TagFor(d, e) \in Shares
         /\ Len(store) \in Nat
         /\ store' \in Seq(Rows)
         /\ Len(store') = Len(store) + 1
         /\ \A i \in 1..Len(store) : store'[i] = store[i]
         /\ store'[Len(store) + 1] = [entry |-> e, tag |-> TagFor(d, e)]
         /\ Stored \subseteq Stored' /\ e \in Stored'
<1>0. /\ store \in Seq(Rows) /\ r \in [Devices -> Round] BY DEF Typed, TypeOK, Rows
<1>1. e \in Entry /\ r[d].keys \subseteq Shares BY <1>0 DEF Round
<1>2. e.share \in Shares BY <1>1 DEF Entry
<1>3. TagFor(d, e) \in Shares BY <1>2, RelaySyncAssumption DEF TagFor
<1> DEFINE row == [entry |-> e, tag |-> TagFor(d, e)]
<1>4. row \in Rows BY <1>1, <1>3 DEF Rows
<1>5. store' = Append(store, row) BY DEF PushEntry
<1> HIDE DEF row
<1>6. /\ Len(store) \in Nat /\ store' \in Seq(Rows) /\ Len(store') = Len(store) + 1
      /\ \A i \in 1..Len(store) : store'[i] = store[i]
      /\ store'[Len(store) + 1] = row
  BY <1>0, <1>4, <1>5, AppendProperties, LenProperties
<1>7. DOMAIN store = 1..Len(store) /\ DOMAIN store' = 1..(Len(store) + 1)
  BY <1>0, <1>6, LenProperties
<1>8. Stored \subseteq Stored' BY <1>6, <1>7 DEF Stored
<1>9. Len(store) + 1 \in DOMAIN store' /\ store'[Len(store) + 1].entry = e
  BY <1>6, <1>7 DEF row
<1>10. e \in Stored' BY <1>9 DEF Stored
<1> QED BY <1>1, <1>3, <1>6, <1>8, <1>10 DEF row

\* Every entry the relay has is an Entry, with a tag.
LEMMA StoreFacts ==
  ASSUME TypeOK
  PROVE  /\ Len(store) \in Nat /\ DOMAIN store = 1..Len(store)
         /\ \A i \in 1..Len(store) : store[i] \in Rows
<1>1. store \in Seq(Rows) BY DEF TypeOK, Rows
<1> QED BY <1>1, LenProperties, ElementOfSeq

\* A step that changes one device's round, and of the rest only what keeps its type.
LEMMA RoundChange ==
  ASSUME Typed, NEW d \in Devices, NEW x \in Round,
         r' = [r EXCEPT ![d] = x],
         x.rows \subseteq 1..Len(store), x.have \subseteq log[d],
         \A c \in Devices : log[c] \subseteq log'[c],
         log' \in [Devices -> SUBSET Entry],
         keys' \in [Devices -> SUBSET Shares],
         cursor' \in [Devices -> Nat],
         raced' \in [Devices -> SUBSET Nat],
         fails' \in 0..MaxFails,
         forgot' \subseteq (Shares \ {Nil}) \X Devices,
         UNCHANGED <<store, members, written, removes, minted, beside, entitled, saw>>
  PROVE  Typed'
<1>1. r' \in [Devices -> Round] BY DEF Typed, TypeOK
<1>2. TypeOK' BY <1>1 DEF Typed, TypeOK
<1>3. ASSUME NEW c \in Devices
      PROVE  r'[c].rows \subseteq 1..Len(store) /\ r'[c].have \subseteq log'[c]
  BY <1>3 DEF Typed, TypeOK
<1> QED BY <1>2, <1>3 DEF Typed

\* append: what a new entry and its writer's view of the log are.
LEMMA LoggedTyped ==
  ASSUME TypeOK, NEW d \in Devices, NEW s \in Shares, Logged(d, s)
  PROVE  /\ written + 1 \in 1..MaxWrites /\ written' \in 0..MaxWrites
         /\ [n |-> written + 1, share |-> s] \in Entry
         /\ log' \in [Devices -> SUBSET Entry]
         /\ saw' \in [1..MaxWrites -> SUBSET Entry]
         /\ \A c \in Devices : log[c] \subseteq log'[c]
<1>1. /\ written + 1 \in 1..MaxWrites /\ written' \in 0..MaxWrites
      /\ written' = written + 1
  BY RelaySyncAssumption DEF TypeOK, Logged
<1> DEFINE e == [n |-> written + 1, share |-> s]
<1>2. e \in Entry BY <1>1 DEF Entry
<1>3. /\ log \in [Devices -> SUBSET Entry] /\ saw \in [1..MaxWrites -> SUBSET Entry]
      /\ log' = [log EXCEPT ![d] = @ \cup {e}]
      /\ saw' = [saw EXCEPT ![written + 1] = log[d]]
  BY DEF TypeOK, Logged
<1> HIDE DEF e
<1>4. /\ log' \in [Devices -> SUBSET Entry]
      /\ \A c \in Devices : log[c] \subseteq log'[c]
  BY <1>2, <1>3
<1>5. saw' \in [1..MaxWrites -> SUBSET Entry] BY <1>3
<1> QED BY <1>1, <1>2, <1>4, <1>5 DEF e

\* The relay starts empty and no round is under way.
LEMMA InitTyped == Init => Typed
BY RelaySyncAssumption, EmptySeq
DEF Init, Typed, TypeOK, InitialMembers, Closed, Round, Rows

\* Every step of rounds, commands and the relay keeps the types.
LEMMA NextTyped == Typed /\ [Next]_vars => Typed'
<1> SUFFICES ASSUME Typed, [Next]_vars PROVE Typed' OBVIOUS
<1> USE RelaySyncAssumption
<1>0. TypeOK BY DEF Typed
<1>r. ASSUME NEW d \in Devices
      PROVE  /\ r[d] \in Round /\ r \in [Devices -> Round]
             /\ r[d].keys \subseteq Shares /\ r[d].top \in Nat /\ r[d].head \in Nat
             /\ keys[d] \subseteq Shares /\ cursor[d] \in Nat
             /\ r[d].rows \subseteq 1..Len(store) /\ r[d].have \subseteq log[d]
  BY <1>r DEF Typed, TypeOK, Round
<1>s. /\ Len(store) \in Nat /\ DOMAIN store = 1..Len(store)
      /\ \A i \in 1..Len(store) : store[i] \in Rows
  BY <1>0, StoreFacts
<1>d. /\ log \in [Devices -> SUBSET Entry]
      /\ keys \in [Devices -> SUBSET Shares]
      /\ cursor \in [Devices -> Nat]
      /\ raced \in [Devices -> SUBSET Nat]
      /\ fails \in 0..MaxFails /\ forgot \subseteq (Shares \ {Nil}) \X Devices
  BY <1>0 DEF TypeOK
<1>1. ASSUME NEW d \in Devices, OpenVault(d) PROVE Typed'
  <2> DEFINE x == [r[d] EXCEPT !.pc = "idle", !.keys = keys[d]]
  <2>1. r' = [r EXCEPT ![d] = x] BY <1>1, <1>r DEF OpenVault
  <2>2. x \in Round /\ x.rows = r[d].rows /\ x.have = r[d].have BY <1>r DEF Round
  <2> HIDE DEF x
  <2> QED BY <1>1, <1>r, <1>d, <2>1, <2>2, RoundChange
          DEF OpenVault, relayVars, diskVars, ghostVars
<1>2. ASSUME NEW d \in Devices, Heal(d) PROVE Typed'
  <2> DEFINE new == {s \in Shares \ r[d].keys : <<s, d>> \in members}
             x == [r[d] EXCEPT !.pc = "healed", !.keys = @ \cup new, !.gained = (new # {})]
  <2>1. r' = [r EXCEPT ![d] = x] BY <1>2, <1>r DEF Heal
  <2>2. x \in Round /\ x.rows = r[d].rows /\ x.have = r[d].have BY <1>r DEF Round
  <2>3. keys' \in [Devices -> SUBSET Shares] BY <1>2, <1>r, <1>d DEF Heal
  <2> HIDE DEF x
  <2> QED BY <1>2, <1>r, <1>d, <2>1, <2>2, <2>3, RoundChange
          DEF Heal, relayVars, ghostVars
<1>3. ASSUME NEW d \in Devices, ReadLocal(d) PROVE Typed'
  <2> DEFINE x == [r[d] EXCEPT !.pc = "push", !.have = log[d]]
  <2>1. r' = [r EXCEPT ![d] = x] BY <1>3, <1>r DEF ReadLocal
  <2>2. x \in Round /\ x.rows = r[d].rows /\ x.have = log[d] BY <1>r, <1>d DEF Round
  <2> HIDE DEF x
  <2> QED BY <1>3, <1>r, <1>d, <2>1, <2>2, RoundChange
          DEF ReadLocal, relayVars, diskVars, ghostVars
<1>4. ASSUME NEW d \in Devices, NEW e \in r[d].have, PushEntry(d, e) PROVE Typed'
  <2>0. store' \in Seq(Rows) /\ Len(store') = Len(store) + 1 BY <1>4, PushFacts
  <2>1. store' \in Seq(Rows) /\ 1..Len(store) \subseteq 1..Len(store') BY <2>0, <1>s
  <2>2. UNCHANGED <<members, keys, log, cursor, r, written, fails, removes, minted,
                    beside, raced, entitled, forgot, saw>>
    BY <1>4 DEF PushEntry, diskVars, ghostVars
  <2>3. TypeOK' BY <2>1, <2>2, <1>0 DEF TypeOK, Rows
  <2>4. ASSUME NEW c \in Devices
        PROVE  r'[c].rows \subseteq 1..Len(store') /\ r'[c].have \subseteq log'[c]
    <3>1. r'[c] = r[c] /\ log'[c] = log[c] BY <2>2
    <3> QED BY <3>1, <2>1, <1>r, Zenon
  <2> QED BY <2>3, <2>4 DEF Typed
<1>5. ASSUME NEW d \in Devices, Rewind(d) PROVE Typed'
  <2> DEFINE x == [r[d] EXCEPT !.gained = FALSE]
  <2>1. r' = [r EXCEPT ![d] = x] BY <1>5, <1>r DEF Rewind
  <2>2. x \in Round /\ x.rows = r[d].rows /\ x.have = r[d].have BY <1>r DEF Round
  <2> HIDE DEF x
  <2> QED BY <1>5, <1>r, <1>d, <2>1, <2>2, RoundChange DEF Rewind, relayVars, ghostVars
<1>6. ASSUME NEW d \in Devices, PullRows(d) PROVE Typed'
  <2> DEFINE sel == {i \in (cursor[d] + 1)..Len(store) : Visible(d, i)}
             top == MaxOf(Len(store), cursor[d])
             x == [r[d] EXCEPT !.pc = "rows", !.top = top, !.rows = sel]
  <2>1. sel \subseteq 1..Len(store) /\ sel \subseteq Nat /\ top \in Nat
    BY <1>r, <1>s DEF MaxOf
  <2>2. r' = [r EXCEPT ![d] = x] BY <1>6, <1>r DEF PullRows
  <2> HIDE DEF sel, top
  <2>3. x \in Round /\ x.rows = sel /\ x.have = r[d].have BY <1>r, <2>1 DEF Round
  <2> HIDE DEF x
  <2> QED BY <1>6, <1>r, <1>d, <2>1, <2>2, <2>3, RoundChange
          DEF PullRows, relayVars, diskVars, ghostVars
<1>7. ASSUME NEW d \in Devices, PullHead(d) PROVE Typed'
  <2> DEFINE head == MaxOf(Len(store), r[d].top)
             x == [r[d] EXCEPT !.pc = "apply", !.head = head]
  <2>1. head \in Nat BY <1>r, <1>s DEF MaxOf
  <2>2. r' = [r EXCEPT ![d] = x] BY <1>7, <1>r DEF PullHead
  <2> HIDE DEF head
  <2>3. x \in Round /\ x.rows = r[d].rows /\ x.have = r[d].have BY <1>r, <2>1 DEF Round
  <2> HIDE DEF x
  <2> QED BY <1>7, <1>r, <1>d, <2>2, <2>3, RoundChange
          DEF PullHead, relayVars, diskVars, ghostVars
<1>8. ASSUME NEW d \in Devices, NEW i \in r[d].rows, ApplyEntry(d, i) PROVE Typed'
  <2> DEFINE x == [r[d] EXCEPT !.rows = @ \ {i}]
  <2>1. store[i].entry \in Entry BY <1>s, <1>r DEF Rows
  <2>2. r' = [r EXCEPT ![d] = x] BY <1>8, <1>r DEF ApplyEntry
  <2>3. x \in Round /\ x.rows \subseteq r[d].rows /\ x.have = r[d].have BY <1>r DEF Round
  <2>4. /\ log' \in [Devices -> SUBSET Entry]
        /\ \A c \in Devices : log[c] \subseteq log'[c]
    BY <1>8, <1>d, <2>1 DEF ApplyEntry
  <2> HIDE DEF x
  <2> QED BY <1>8, <1>r, <1>d, <2>2, <2>3, <2>4, RoundChange
          DEF ApplyEntry, relayVars, ghostVars
<1>9. ASSUME NEW d \in Devices PROVE
        LET x == [Closed EXCEPT !.pc = "idle", !.keys = r[d].keys]
        IN x \in Round /\ x.rows = {} /\ x.have = {} /\ Closed \in Round
           /\ Closed.rows = {} /\ Closed.have = {}
  BY <1>r, <1>9 DEF Closed, Round
<1>10. ASSUME NEW d \in Devices, SetCursor(d) PROVE Typed'
  <2> DEFINE c == MaxOf(cursor[d], r[d].head)
             past == (r[d].top + 1)..r[d].head
             x == [Closed EXCEPT !.pc = "idle", !.keys = r[d].keys]
  <2>1. c \in Nat /\ past \subseteq Nat BY <1>r DEF MaxOf
  <2>2. /\ cursor' = [cursor EXCEPT ![d] = c]
        /\ raced' = [raced EXCEPT ![d] = @ \cup past]
        /\ r' = [r EXCEPT ![d] = x]
    BY <1>10, <1>d DEF SetCursor
  <2> HIDE DEF c, past
  <2>3. cursor' \in [Devices -> Nat] /\ raced' \in [Devices -> SUBSET Nat]
    BY <1>d, <2>1, <2>2
  <2>4. x \in Round /\ x.rows = {} /\ x.have = {} BY <1>9
  <2> HIDE DEF x
  <2> QED BY <1>10, <1>d, <2>2, <2>3, <2>4, RoundChange DEF SetCursor, relayVars
<1>11. ASSUME NEW d \in Devices, RoundFails(d) \/ Exit(d) PROVE Typed'
  <2>1. PICK x \in Round : r' = [r EXCEPT ![d] = x] /\ x.rows = {} /\ x.have = {}
    BY <1>11, <1>9 DEF RoundFails, Exit
  <2>2. (keys[d] \ {Nil}) \X {d} \subseteq (Shares \ {Nil}) \X Devices BY <1>r
  <2>3. fails' \in 0..MaxFails /\ forgot' \subseteq (Shares \ {Nil}) \X Devices
    BY <1>11, <1>d, <2>2 DEF RoundFails, Exit, Forgotten
  <2> QED BY <1>11, <1>d, <2>1, <2>3, RoundChange DEF RoundFails, Exit, relayVars, diskVars
<1>12. ASSUME NEW d \in Devices, NEW s \in Shares, Write(d, s) PROVE Typed'
  <2>1. Logged(d, s) BY <1>12 DEF Write
  <2> QED BY <1>12, <2>1, LoggedTyped DEF Typed, TypeOK, Write, relayVars
<1>13. ASSUME NEW d \in Devices, NEW s \in Shares, CreateShare(d, s) PROVE Typed'
  <2>1. Logged(d, Nil) BY <1>13 DEF CreateShare
  <2>2. /\ keys' \in [Devices -> SUBSET Shares]
        /\ minted' \subseteq Mintable /\ beside' \subseteq minted'
        /\ entitled' \subseteq (Shares \ {Nil}) \X Devices
        /\ forgot' \subseteq (Shares \ {Nil}) \X Devices
        /\ UNCHANGED <<store, members, cursor, r, fails, removes, raced>>
    BY <1>13, <1>0 DEF TypeOK, CreateShare, relayVars
  <2>3. TypeOK' BY <2>1, <2>2, <1>0, LoggedTyped DEF TypeOK
  <2> QED BY <2>1, <2>2, <2>3, <1>0, LoggedTyped DEF Typed
<1>14. ASSUME NEW d \in Devices, NEW s \in Shares, NEW t \in Devices, ShareGrant(d, s, t)
       PROVE  Typed'
  BY <1>14 DEF Typed, TypeOK, ShareGrant, diskVars
<1>15. ASSUME NEW d \in Devices, NEW s \in Shares, NEW t \in Devices, ShareRemove(d, s, t)
       PROVE  Typed'
  BY <1>15 DEF Typed, TypeOK, ShareRemove, diskVars
<1>16. CASE UNCHANGED vars BY <1>16 DEF vars, Typed, TypeOK
<1> QED
  BY <1>1, <1>2, <1>3, <1>4, <1>5, <1>6, <1>7, <1>8, <1>9, <1>10, <1>11, <1>12, <1>13,
     <1>14, <1>15, <1>16
  DEF Next, RoundStep

\* The types hold throughout.
LEMMA SpecTyped == Spec => []Typed
BY InitTyped, NextTyped, PTL DEF Spec

----------------------------------------------------------------------------
(* Who holds and is sent what *)

\* At the start every holder of a key is a member.
LEMMA InitAccess == Init => Access
<1> SUFFICES ASSUME Init PROVE Access OBVIOUS
<1>1. Keyrings BY RelaySyncAssumption DEF Init, Keyrings, InitialMembers, Closed
<1>2. DOMAIN store = {} BY EmptySeq DEF Init
<1> QED BY <1>1, <1>2
        DEF Init, Access, Unsent, TagsRightUnlessBeside, RoutedToMembers, RowsRouted, Closed

\* The entries and the rows of Access, where neither logs nor rows grow and the
\* keyrings lose no share but ones created beside a process.
LEMMA QuietAccess ==
  ASSUME Access, Keyrings',
         UNCHANGED <<store, log, beside>>, entitled \subseteq entitled',
         \A d \in Devices : keys[d] \ beside \subseteq keys'[d],
         \A d \in Devices : \A i \in r'[d].rows :
            i \in r[d].rows \/ store[i].tag = Nil \/ <<store[i].tag, d>> \in entitled
  PROVE  Access'
<1>1. Unsent' BY DEF Access, Unsent, Stored
<1>2. TagsRightUnlessBeside' BY DEF Access, TagsRightUnlessBeside
<1>3. RoutedToMembers' BY DEF Access, RoutedToMembers
<1>4. RowsRouted' BY DEF Access, RowsRouted
<1> QED BY <1>1, <1>2, <1>3, <1>4 DEF Access

\* No step hands a key or an entry to a device that never was a member, or
\* pushes an entry under another share than its own.
LEMMA NextAccess == Typed /\ Access /\ [Next]_vars => Access'
<1> SUFFICES ASSUME Typed, Access, [Next]_vars PROVE Access' OBVIOUS
<1>k. Keyrings BY DEF Access
<1>0. TypeOK BY DEF Typed
<1>n. Nil \notin beside BY <1>0, RelaySyncAssumption DEF TypeOK
<1>r. r \in [Devices -> Round] /\ keys \in [Devices -> SUBSET Shares]
      /\ log \in [Devices -> SUBSET Entry]
  BY <1>0 DEF TypeOK
<1>s. Len(store) \in Nat /\ DOMAIN store = 1..Len(store) BY <1>0, StoreFacts
<1>1. ASSUME NEW d \in Devices, OpenVault(d) PROVE Access'
  <2>1. Keyrings' BY <1>1, <1>k, <1>r DEF OpenVault, Keyrings, relayVars, diskVars, ghostVars, Round
  <2>2. \A c \in Devices : r'[c].rows = r[c].rows BY <1>1, <1>r DEF OpenVault, Round
  <2> QED BY <1>1, <2>1, <2>2, QuietAccess DEF OpenVault, relayVars, diskVars, ghostVars
<1>2. ASSUME NEW d \in Devices, Heal(d) PROVE Access'
  <2> DEFINE new == {s \in Shares \ r[d].keys : <<s, d>> \in members}
  <2>1. /\ r'[d].keys = r[d].keys \cup new /\ r'[d].rows = r[d].rows
        /\ \A c \in Devices \ {d} : r'[c] = r[c]
        /\ keys' = IF new = {} THEN keys ELSE [keys EXCEPT ![d] = r[d].keys \cup new]
        /\ UNCHANGED <<store, members, log, beside, entitled>>
        /\ r[d].pc = "idle"
    BY <1>2, <1>r DEF Heal, relayVars, ghostVars, Round
  <2>2. \A s \in new : <<s, d>> \in entitled BY <1>k DEF Keyrings
  <2>3. keys[d] \ beside \subseteq r[d].keys /\ Nil \in r[d].keys
    BY <1>k, <1>n, <2>1 DEF Keyrings
  <2> HIDE DEF new
  <2>4. \A c \in Devices : keys'[c] = keys[c] \/ (c = d /\ keys'[c] = r[d].keys \cup new)
    <3>1. CASE new = {} BY <3>1, <2>1
    <3>2. CASE new # {} BY <3>2, <2>1, <1>r
    <3> QED BY <3>1, <3>2
  <2>5. Keyrings' BY <1>k, <2>1, <2>2, <2>3, <2>4 DEF Keyrings
  <2>6. \A c \in Devices : keys[c] \ beside \subseteq keys'[c] BY <2>3, <2>4
  <2> QED BY <2>1, <2>5, <2>6, QuietAccess
<1>3. ASSUME NEW d \in Devices, ReadLocal(d) PROVE Access'
  <2>1. Keyrings' BY <1>3, <1>k, <1>r DEF ReadLocal, Keyrings, relayVars, diskVars, ghostVars, Round
  <2>2. \A c \in Devices : r'[c].rows = r[c].rows BY <1>3, <1>r DEF ReadLocal, Round
  <2> QED BY <1>3, <2>1, <2>2, QuietAccess DEF ReadLocal, relayVars, diskVars, ghostVars
<1>4. ASSUME NEW d \in Devices, NEW e \in r[d].have, PushEntry(d, e) PROVE Access'
  <2>1. /\ store' \in Seq(Rows) /\ Len(store') = Len(store) + 1
        /\ \A i \in 1..Len(store) : store'[i] = store[i]
        /\ store'[Len(store) + 1] = [entry |-> e, tag |-> TagFor(d, e)]
        /\ Stored \subseteq Stored'
    BY <1>4, PushFacts
  <2>2. /\ UNCHANGED <<members, keys, log, r, beside, entitled>>
        /\ e \notin Stored /\ r[d].pc = "push"
    BY <1>4 DEF PushEntry, diskVars, ghostVars
  <2>3. Keyrings' BY <1>k, <2>2 DEF Keyrings
  <2>4. Unsent' BY <2>1, <2>2 DEF Access, Unsent
  <2>5. e.share \in beside \/ TagFor(d, e) = e.share
    <3>1. e.share \in beside \/ e.share \in keys[d]
      BY <1>4, <2>2 DEF Access, Unsent, Typed
    <3> QED BY <3>1, <2>2, <1>k DEF Keyrings, TagFor
  <2>6. TagsRightUnlessBeside'
    <3>1. DOMAIN store' = 1..(Len(store) + 1) BY <2>1, LenProperties
    <3>2. ASSUME NEW i \in DOMAIN store'
          PROVE  store'[i].entry.share \in beside \/ store'[i].tag = store'[i].entry.share
      <4>1. CASE i = Len(store) + 1 BY <4>1, <2>1, <2>5
      <4>2. CASE i \in 1..Len(store)
        BY <4>2, <2>1, <1>s DEF Access, TagsRightUnlessBeside
      <4> QED BY <4>1, <4>2, <3>1, <1>s
    <3> QED BY <3>2, <2>2 DEF TagsRightUnlessBeside
  <2>7. RoutedToMembers' BY <2>2 DEF Access, RoutedToMembers
  <2>8. RowsRouted'
    <3>1. \A c \in Devices : r[c].rows \subseteq 1..Len(store) BY DEF Typed
    <3> QED BY <2>1, <2>2, <3>1 DEF Access, RowsRouted
  <2> QED BY <2>3, <2>4, <2>6, <2>7, <2>8 DEF Access
<1>5. ASSUME NEW d \in Devices, Rewind(d) PROVE Access'
  <2>1. Keyrings' BY <1>5, <1>k, <1>r DEF Rewind, Keyrings, relayVars, ghostVars, Round
  <2>2. \A c \in Devices : r'[c].rows = r[c].rows BY <1>5, <1>r DEF Rewind, Round
  <2> QED BY <1>5, <2>1, <2>2, QuietAccess DEF Rewind, relayVars, ghostVars
<1>6. ASSUME NEW d \in Devices, PullRows(d) PROVE Access'
  <2>1. Keyrings'
    BY <1>6, <1>k, <1>r DEF PullRows, Pushed, Keyrings, relayVars, diskVars, ghostVars, Round
  <2>2. /\ \A c \in Devices \ {d} : r'[c].rows = r[c].rows
        /\ \A i \in r'[d].rows : Visible(d, i)
    BY <1>6, <1>r DEF PullRows, Round
  <2>3. \A i \in r'[d].rows : store[i].tag = Nil \/ <<store[i].tag, d>> \in entitled
    BY <2>2, <1>k DEF Visible, Keyrings
  <2> QED BY <1>6, <2>1, <2>2, <2>3, QuietAccess DEF PullRows, relayVars, diskVars, ghostVars
<1>7. ASSUME NEW d \in Devices, PullHead(d) PROVE Access'
  <2>1. Keyrings' BY <1>7, <1>k, <1>r DEF PullHead, Keyrings, relayVars, diskVars, ghostVars, Round
  <2>2. \A c \in Devices : r'[c].rows = r[c].rows BY <1>7, <1>r DEF PullHead, Round
  <2> QED BY <1>7, <2>1, <2>2, QuietAccess DEF PullHead, relayVars, diskVars, ghostVars
<1>8. ASSUME NEW d \in Devices, NEW i \in r[d].rows, ApplyEntry(d, i) PROVE Access'
  <2> DEFINE e == store[i].entry
  <2>1. /\ UNCHANGED <<store, members, keys, beside, entitled>>
        /\ \A c \in Devices \ {d} : log'[c] = log[c]
        /\ log'[d] \subseteq log[d] \cup {e}
        /\ \A c \in Devices : /\ r'[c].rows \subseteq r[c].rows
                              /\ r'[c].keys = r[c].keys /\ r'[c].pc = r[c].pc
    BY <1>8, <1>r DEF ApplyEntry, relayVars, ghostVars, Round
  <2>2. i \in DOMAIN store BY <1>s DEF Typed
  <2>3. Keyrings' BY <1>k, <2>1 DEF Keyrings
  <2>4. e \in Stored' BY <2>1, <2>2 DEF Stored
  <2>5. Stored' = Stored BY <2>1 DEF Stored
  <2>6. e.share = Nil \/ e.share \in beside \/ <<e.share, d>> \in entitled
    BY <2>2 DEF Access, TagsRightUnlessBeside, RowsRouted
  <2> HIDE DEF e
  <2>7. Unsent' BY <2>1, <2>4, <2>5 DEF Access, Unsent
  <2>8. TagsRightUnlessBeside' BY <2>1 DEF Access, TagsRightUnlessBeside
  <2>9. RoutedToMembers' BY <2>1, <2>6 DEF Access, RoutedToMembers
  <2>10. RowsRouted' BY <2>1 DEF Access, RowsRouted
  <2> QED BY <2>3, <2>7, <2>8, <2>9, <2>10 DEF Access
<1>9. ASSUME NEW d \in Devices, SetCursor(d) \/ RoundFails(d) \/ Exit(d) PROVE Access'
  <2>0. /\ UNCHANGED <<store, members, keys, log, beside, entitled>>
        /\ \A c \in Devices \ {d} : r'[c] = r[c]
    BY <1>9, <1>r DEF SetCursor, RoundFails, Exit, relayVars, diskVars
  <2>1. /\ r'[d].rows = {}
        /\ \/ r'[d].keys = r[d].keys /\ r[d].pc # "closed"
           \/ r'[d].keys = {} /\ r'[d].pc = "closed"
    <3>1. CASE SetCursor(d) BY <3>1, <1>r DEF SetCursor, Closed
    <3>2. CASE RoundFails(d) BY <3>2, <1>r DEF RoundFails, Closed
    <3>3. CASE Exit(d) BY <3>3, <1>r DEF Exit, Closed
    <3> QED BY <1>9, <3>1, <3>2, <3>3
  <2>2. Keyrings' BY <1>k, <2>0, <2>1 DEF Keyrings
  <2> QED BY <2>0, <2>1, <2>2, QuietAccess
<1>10. ASSUME NEW d \in Devices, NEW s \in Shares, Write(d, s) PROVE Access'
  <2> DEFINE e == [n |-> written + 1, share |-> s]
  <2>1. /\ UNCHANGED <<store, members, keys, r, beside, entitled>>
        /\ \A c \in Devices \ {d} : log'[c] = log[c]
        /\ log'[d] = log[d] \cup {e}
        /\ s \in keys[d] /\ e.share = s
    BY <1>10, <1>r DEF Write, Logged, relayVars
  <2> HIDE DEF e
  <2>2. Keyrings' BY <1>k, <2>1 DEF Keyrings
  <2>3. Unsent' BY <2>1 DEF Access, Unsent, Stored
  <2>4. RoutedToMembers' BY <2>1, <1>k DEF Access, RoutedToMembers, Keyrings
  <2>5. TagsRightUnlessBeside' /\ RowsRouted'
    BY <2>1 DEF Access, TagsRightUnlessBeside, RowsRouted
  <2> QED BY <2>2, <2>3, <2>4, <2>5 DEF Access
<1>11. ASSUME NEW d \in Devices, NEW s \in Shares, CreateShare(d, s) PROVE Access'
  <2> DEFINE e == [n |-> written + 1, share |-> Nil]
  <2>1. /\ UNCHANGED <<store, members, r>>
        /\ beside \subseteq beside' /\ entitled' = entitled \cup {<<s, d>>}
        /\ \A c \in Devices \ {d} : log'[c] = log[c] /\ keys'[c] = keys[c]
        /\ keys'[d] = keys[d] \cup {s} /\ (r[d].pc # "closed" => s \in beside')
        /\ log'[d] = log[d] \cup {e} /\ e.share = Nil
    BY <1>11, <1>r DEF CreateShare, Logged, relayVars
  <2> HIDE DEF e
  <2>2. Keyrings' BY <1>k, <2>1 DEF Keyrings
  <2>3. Stored' = Stored BY <2>1 DEF Stored
  <2>4. Unsent'
    <3>1. \A c \in Devices : Nil \in keys'[c] BY <2>2 DEF Keyrings
    <3> QED BY <2>1, <2>3, <3>1 DEF Access, Unsent
  <2>5. RoutedToMembers' BY <2>1 DEF Access, RoutedToMembers
  <2>6. TagsRightUnlessBeside' /\ RowsRouted'
    BY <2>1 DEF Access, TagsRightUnlessBeside, RowsRouted
  <2> QED BY <2>2, <2>4, <2>5, <2>6 DEF Access
<1>12. ASSUME NEW d \in Devices, NEW s \in Shares, NEW t \in Devices,
              ShareGrant(d, s, t) \/ ShareRemove(d, s, t)
       PROVE  Access'
  <2>1. Keyrings' BY <1>12, <1>k DEF ShareGrant, ShareRemove, Keyrings, diskVars
  <2> QED BY <1>12, <2>1, QuietAccess DEF ShareGrant, ShareRemove, diskVars
<1>13. CASE UNCHANGED vars
  <2>1. Keyrings' BY <1>13, <1>k DEF vars, Keyrings
  <2> QED BY <1>13, <2>1, QuietAccess DEF vars
<1> QED
  BY <1>1, <1>2, <1>3, <1>4, <1>5, <1>6, <1>7, <1>8, <1>9, <1>10, <1>11, <1>12, <1>13
  DEF Next, RoundStep

\* Access follows membership throughout.
LEMMA SpecAccess == Spec => []Access
BY InitAccess, NextAccess, SpecTyped, PTL DEF Spec

----------------------------------------------------------------------------
(* What a cursor passes *)

\* All cursors start at zero, below which there is no entry.
LEMMA InitDelivery == Init => Delivery
<1> SUFFICES ASSUME Init PROVE Delivery OBVIOUS
<1>1. Len(store) = 0 BY DEF Init
<1> QED BY <1>1 DEF Init, Delivery, OnlyRacedAreMissed, Closed

\* What a device has passed stays covered when its log and the raced rows grow and
\* its cursor does not.
LEMMA StillCovered ==
  ASSUME Typed, Delivery,
         UNCHANGED store,
         \A c \in Devices : log[c] \subseteq log'[c] /\ raced[c] \subseteq raced'[c],
         NEW d \in Devices,
         \A c \in Devices \ {d} : r'[c] = r[c] /\ cursor'[c] = cursor[c],
         cursor'[d] \in Nat, cursor'[d] <= Len(store),
         \A i \in 1..cursor'[d] :
            store[i].tag = Nil => store[i].entry \in log'[d] \/ i \in raced'[d],
         r'[d].pc \in {"rows", "apply"} =>
            r'[d].top <= Len(store) /\ \A i \in 1..r'[d].top : Covered(d, i)',
         r'[d].pc = "apply" => r'[d].head <= Len(store)
  PROVE  Delivery'
<1>1. \A c \in Devices : cursor'[c] <= Len(store) BY DEF Delivery
<1>2. ASSUME NEW c \in Devices, r'[c].pc \in {"rows", "apply"}
      PROVE  r'[c].top <= Len(store) /\ \A i \in 1..r'[c].top : Covered(c, i)'
  <2>1. CASE c = d BY <1>2, <2>1
  <2>2. CASE c # d
    <3>1. r'[c] = r[c] BY <2>2
    <3>2. r[c].top <= Len(store) /\ \A i \in 1..r[c].top : Covered(c, i)
      BY <1>2, <3>1 DEF Delivery
    <3>3. \A i : Covered(c, i) => Covered(c, i)' BY <3>1 DEF Covered
    <3> QED BY <3>1, <3>2, <3>3
  <2> QED BY <2>1, <2>2
<1>3. \A c \in Devices : r'[c].pc = "apply" => r'[c].head <= Len(store) BY DEF Delivery
<1>4. OnlyRacedAreMissed'
  <2>1. ASSUME NEW c \in Devices, NEW i \in 1..cursor'[c], store[i].tag = Nil
        PROVE  store[i].entry \in log'[c] \/ i \in raced'[c]
    <3>1. CASE c = d BY <2>1, <3>1
    <3>2. CASE c # d
      <4>1. i \in 1..cursor[c] BY <2>1, <3>2
      <4> QED BY <2>1, <4>1 DEF Delivery, OnlyRacedAreMissed
    <3> QED BY <3>1, <3>2
  <2> QED BY <2>1 DEF OnlyRacedAreMissed
<1> QED BY <1>1, <1>2, <1>3, <1>4 DEF Delivery

\* No step moves a cursor past a row that is neither applied nor raced.
LEMMA NextDelivery == Typed /\ Delivery /\ [Next]_vars => Delivery'
<1> SUFFICES ASSUME Typed, Delivery, [Next]_vars PROVE Delivery' OBVIOUS
<1>0. TypeOK BY DEF Typed
<1>r. /\ r \in [Devices -> Round] /\ log \in [Devices -> SUBSET Entry]
      /\ cursor \in [Devices -> Nat] /\ raced \in [Devices -> SUBSET Nat]
  BY <1>0 DEF TypeOK
<1>s. Len(store) \in Nat /\ DOMAIN store = 1..Len(store) BY <1>0, StoreFacts
<1>d. ASSUME NEW d \in Devices
      PROVE  /\ r[d].top \in Nat /\ r[d].head \in Nat /\ cursor[d] \in Nat
             /\ cursor[d] <= Len(store)
             /\ r[d].have \subseteq log[d]
             /\ \A i \in 1..cursor[d] :
                  store[i].tag = Nil => store[i].entry \in log[d] \/ i \in raced[d]
             /\ r[d].pc \in {"rows", "apply"} =>
                  r[d].top <= Len(store) /\ \A i \in 1..r[d].top : Covered(d, i)
             /\ r[d].pc = "apply" => r[d].head <= Len(store)
  BY <1>r, <1>d DEF Round, Typed, Delivery, OnlyRacedAreMissed
\* Steps of the round that pull nothing.
<1>1. ASSUME NEW d \in Devices,
             OpenVault(d) \/ Heal(d) \/ ReadLocal(d) \/ RoundFails(d) \/ Exit(d)
      PROVE  Delivery'
  <2>1. /\ UNCHANGED <<store, log, cursor, raced>>
        /\ \A c \in Devices \ {d} : r'[c] = r[c]
    BY <1>1, <1>r DEF OpenVault, Heal, ReadLocal, RoundFails, Exit, relayVars, diskVars, ghostVars
  <2>2. r'[d].pc \notin {"rows", "apply"}
    <3>1. CASE OpenVault(d) BY <3>1, <1>r DEF OpenVault
    <3>2. CASE Heal(d) BY <3>2, <1>r DEF Heal, Round
    <3>3. CASE ReadLocal(d) BY <3>3, <1>r DEF ReadLocal
    <3>4. CASE RoundFails(d) BY <3>4, <1>r DEF RoundFails, Closed
    <3>5. CASE Exit(d) BY <3>5, <1>r DEF Exit, Closed
    <3> QED BY <1>1, <3>1, <3>2, <3>3, <3>4, <3>5
  <2> QED BY <2>1, <2>2, <1>d, StillCovered
<1>2. ASSUME NEW d \in Devices, NEW e \in r[d].have, PushEntry(d, e) PROVE Delivery'
  <2>1. /\ Len(store') = Len(store) + 1
        /\ \A i \in 1..Len(store) : store'[i] = store[i]
    BY <1>2, PushFacts
  <2>2. UNCHANGED <<log, cursor, r, raced>> BY <1>2 DEF PushEntry, diskVars, ghostVars
  <2>3. ASSUME NEW c \in Devices
        PROVE  /\ cursor'[c] <= Len(store')
               /\ r'[c].pc \in {"rows", "apply"} =>
                     r'[c].top <= Len(store') /\ \A i \in 1..r'[c].top : Covered(c, i)'
               /\ r'[c].pc = "apply" => r'[c].head <= Len(store')
               /\ \A i \in 1..cursor'[c] : store'[i].tag = Nil =>
                     store'[i].entry \in log'[c] \/ i \in raced'[c]
    <3>1. /\ r'[c] = r[c] /\ cursor'[c] = cursor[c] /\ log'[c] = log[c]
          /\ raced'[c] = raced[c]
      BY <2>2
    <3>2. \A i \in 1..Len(store) : Covered(c, i) => Covered(c, i)'
      BY <2>1, <3>1 DEF Covered
    <3>3. cursor[c] <= Len(store') /\ 1..cursor[c] \subseteq 1..Len(store)
      BY <2>1, <1>d, <1>s
    <3>4. r[c].top <= Len(store) =>
            r[c].top <= Len(store') /\ 1..r[c].top \subseteq 1..Len(store)
      BY <2>1, <1>d, <1>s
    <3>5. r[c].head <= Len(store) => r[c].head <= Len(store') BY <2>1, <1>d, <1>s
    <3>6. \A i \in 1..cursor[c] : store'[i] = store[i] BY <3>3, <2>1
    <3>7. r[c].pc \in {"rows", "apply"} => \A i \in 1..r[c].top : Covered(c, i)'
      BY <3>2, <3>4, <1>d
    <3>8. \A i \in 1..cursor[c] : store'[i].tag = Nil =>
             store'[i].entry \in log[c] \/ i \in raced[c]
      BY <3>6, <1>d
    <3> QED BY <3>1, <3>3, <3>4, <3>5, <3>7, <3>8, <1>d
  <2> QED BY <2>3 DEF Delivery, OnlyRacedAreMissed
<1>3. ASSUME NEW d \in Devices, Rewind(d) PROVE Delivery'
  <2>1. /\ UNCHANGED <<store, log, raced>>
        /\ \A c \in Devices \ {d} : r'[c] = r[c] /\ cursor'[c] = cursor[c]
        /\ r'[d].pc = "push" /\ cursor'[d] = 0
    BY <1>3, <1>r DEF Rewind, Pushed, relayVars, ghostVars, Round
  <2> QED BY <2>1, <1>s, StillCovered
<1>4. ASSUME NEW d \in Devices, PullRows(d) PROVE Delivery'
  <2> DEFINE sel == {i \in (cursor[d] + 1)..Len(store) : Visible(d, i)}
  <2>1. /\ UNCHANGED <<store, log, cursor, raced>>
        /\ \A c \in Devices \ {d} : r'[c] = r[c]
        /\ r'[d].pc = "rows" /\ r'[d].rows = sel
        /\ r'[d].top = MaxOf(Len(store), cursor[d])
    BY <1>4, <1>r DEF PullRows, relayVars, diskVars, ghostVars, Round
  <2>2. r'[d].top = Len(store) BY <2>1, <1>d, <1>s DEF MaxOf
  <2>3. ASSUME NEW i \in 1..Len(store) PROVE Covered(d, i)'
    <3>1. CASE i \in 1..cursor[d] BY <3>1, <2>1, <1>d DEF Covered
    <3>2. CASE i \in (cursor[d] + 1)..Len(store)
      BY <3>2, <2>1 DEF Covered, Visible
    <3> QED BY <3>1, <3>2, <1>d, <1>s
  <2> HIDE DEF sel
  <2> QED BY <2>1, <2>2, <2>3, <1>d, <1>s, StillCovered
<1>5. ASSUME NEW d \in Devices, PullHead(d) PROVE Delivery'
  <2>1. /\ UNCHANGED <<store, log, cursor, raced>>
        /\ \A c \in Devices \ {d} : r'[c] = r[c]
        /\ r[d].pc = "rows" /\ r'[d].rows = r[d].rows /\ r'[d].top = r[d].top
        /\ r'[d].head = MaxOf(Len(store), r[d].top)
    BY <1>5, <1>r DEF PullHead, relayVars, diskVars, ghostVars, Round
  <2>2. r'[d].head = Len(store) BY <2>1, <1>d, <1>s DEF MaxOf
  <2>3. \A i \in 1..r[d].top : Covered(d, i)' BY <2>1, <1>d DEF Covered
  <2> QED BY <2>1, <2>2, <2>3, <1>d, <1>s, StillCovered
<1>6. ASSUME NEW d \in Devices, NEW j \in r[d].rows, ApplyEntry(d, j) PROVE Delivery'
  <2>1. /\ UNCHANGED <<store, cursor, raced>>
        /\ \A c \in Devices \ {d} : r'[c] = r[c] /\ log'[c] = log[c]
        /\ r[d].pc = "apply" /\ r'[d].rows = r[d].rows \ {j}
        /\ r'[d].top = r[d].top /\ r'[d].head = r[d].head
        /\ log[d] \subseteq log'[d]
        /\ store[j].entry \in r[d].have \/ store[j].entry \in log'[d]
    BY <1>6, <1>r DEF ApplyEntry, relayVars, ghostVars, Round
  <2>2. store[j].entry \in log'[d] BY <2>1, <1>d
  <2>3. \A i \in 1..r[d].top : Covered(d, i)' BY <2>1, <2>2, <1>d DEF Covered
  <2>4. \A i \in 1..cursor'[d] :
            store[i].tag = Nil => store[i].entry \in log'[d] \/ i \in raced'[d]
    BY <2>1, <1>d
  <2> QED BY <2>1, <2>3, <2>4, <1>d, StillCovered
<1>7. ASSUME NEW d \in Devices, SetCursor(d) PROVE Delivery'
  <2>1. /\ UNCHANGED <<store, log>>
        /\ \A c \in Devices \ {d} :
              r'[c] = r[c] /\ cursor'[c] = cursor[c] /\ raced'[c] = raced[c]
        /\ r[d].pc = "apply" /\ r[d].rows = {}
        /\ cursor'[d] = MaxOf(cursor[d], r[d].head)
        /\ raced'[d] = raced[d] \cup (r[d].top + 1)..r[d].head
    BY <1>7, <1>r DEF SetCursor, relayVars
  <2>2. r'[d].pc = "idle" BY <1>7, <1>r DEF SetCursor, Closed
  <2>3. cursor'[d] \in Nat /\ cursor'[d] <= Len(store) BY <2>1, <1>d, <1>s DEF MaxOf
  <2>4. ASSUME NEW i \in 1..cursor'[d], store[i].tag = Nil
        PROVE  store[i].entry \in log[d] \/ i \in raced'[d]
    <3>1. \/ i \in 1..cursor[d] \/ i \in 1..r[d].top \/ i \in (r[d].top + 1)..r[d].head
      BY <2>1, <2>3, <1>d DEF MaxOf
    <3>2. CASE i \in 1..cursor[d] BY <3>2, <2>1, <2>4, <1>d
    <3>3. CASE i \in 1..r[d].top BY <3>3, <2>1, <2>4, <1>d DEF Covered
    <3>4. CASE i \in (r[d].top + 1)..r[d].head BY <3>4, <2>1
    <3> QED BY <3>1, <3>2, <3>3, <3>4
  <2>5. \A c \in Devices : log[c] \subseteq log'[c] /\ raced[c] \subseteq raced'[c] BY <2>1
  <2> QED BY <2>1, <2>2, <2>3, <2>4, <2>5, StillCovered
\* The command line.
<1>8. ASSUME NEW d \in Devices, NEW s \in Shares,
             \/ Write(d, s) \/ CreateShare(d, s)
             \/ \E t \in Devices : ShareGrant(d, s, t) \/ ShareRemove(d, s, t)
      PROVE  Delivery'
  <2>1. /\ UNCHANGED <<store, cursor, r, raced>>
        /\ \A c \in Devices : log[c] \subseteq log'[c]
    BY <1>8, <1>r DEF Write, CreateShare, Logged, ShareGrant, ShareRemove, relayVars, diskVars
  <2>2. \A i : Covered(d, i) => Covered(d, i)' BY <2>1 DEF Covered
  <2> QED BY <2>1, <2>2, <1>d, StillCovered
<1>9. CASE UNCHANGED vars
  BY <1>9 DEF vars, Delivery, Covered, OnlyRacedAreMissed
<1> QED
  BY <1>1, <1>2, <1>3, <1>4, <1>5, <1>6, <1>7, <1>8, <1>9 DEF Next, RoundStep

\* Cursors pass only what is applied or raced, throughout.
LEMMA SpecDelivery == Spec => []Delivery
BY InitDelivery, NextDelivery, SpecTyped, PTL DEF Spec

----------------------------------------------------------------------------
(* The order of entries *)

\* Nothing is written at the start.
LEMMA InitOrder == Init => Order
<1> SUFFICES ASSUME Init PROVE Order OBVIOUS
<1>1. Len(store) = 0 /\ DOMAIN store = {} BY EmptySeq DEF Init
<1>2. Stored = {} BY <1>1 DEF Stored
<1> QED BY <1>1, <1>2
        DEF Init, Order, Numbered, UnsentClosed, StoreOrdered, Selected, Closed

\* A pull under way keeps the rows it selected, or some of them.
LEMMA NextSelected == Typed /\ Selected /\ [Next]_vars => Selected'
<1> SUFFICES ASSUME Typed, Selected, [Next]_vars PROVE Selected' OBVIOUS
<1>0. TypeOK BY DEF Typed
<1>r. r \in [Devices -> Round] BY <1>0 DEF TypeOK
<1>s. Len(store) \in Nat BY <1>0, StoreFacts
<1>d. ASSUME NEW d \in Devices,
             \A c \in Devices \ {d} : r'[c] = r[c],
             r'[d].pc \in {"rows", "apply"} => \A i \in r'[d].rows : i <= r'[d].top
      PROVE  Selected'
  BY <1>d DEF Selected
<1>1. ASSUME NEW d \in Devices,
             \/ OpenVault(d) \/ Heal(d) \/ ReadLocal(d) \/ Rewind(d) \/ SetCursor(d)
             \/ RoundFails(d) \/ Exit(d)
      PROVE  Selected'
  <2>1. \A c \in Devices \ {d} : r'[c] = r[c]
    BY <1>1, <1>r DEF OpenVault, Heal, ReadLocal, Rewind, SetCursor, RoundFails, Exit
  <2>2. r'[d].pc \notin {"rows", "apply"}
    <3>1. CASE OpenVault(d) BY <3>1, <1>r DEF OpenVault
    <3>2. CASE Heal(d) BY <3>2, <1>r DEF Heal, Round
    <3>3. CASE ReadLocal(d) BY <3>3, <1>r DEF ReadLocal
    <3>4. CASE Rewind(d) BY <3>4, <1>r DEF Rewind, Pushed, Round
    <3>5. CASE SetCursor(d) BY <3>5, <1>r DEF SetCursor, Closed
    <3>6. CASE RoundFails(d) BY <3>6, <1>r DEF RoundFails, Closed
    <3>7. CASE Exit(d) BY <3>7, <1>r DEF Exit, Closed
    <3> QED BY <1>1, <3>1, <3>2, <3>3, <3>4, <3>5, <3>6, <3>7
  <2> QED BY <2>1, <2>2, <1>d
<1>2. ASSUME NEW d \in Devices, PullRows(d) PROVE Selected'
  <2>1. /\ \A c \in Devices \ {d} : r'[c] = r[c]
        /\ r'[d].rows \subseteq (cursor[d] + 1)..Len(store)
        /\ r'[d].top = MaxOf(Len(store), cursor[d])
    BY <1>2, <1>r DEF PullRows, Round
  <2>2. cursor[d] \in Nat BY <1>0 DEF TypeOK
  <2>3. \A i \in (cursor[d] + 1)..Len(store) : i <= MaxOf(Len(store), cursor[d])
    BY <2>2, <1>s DEF MaxOf
  <2> QED BY <2>1, <2>3, <1>d
<1>3. ASSUME NEW d \in Devices,
             PullHead(d) \/ \E j \in r[d].rows : ApplyEntry(d, j)
      PROVE  Selected'
  <2>1. /\ \A c \in Devices \ {d} : r'[c] = r[c]
        /\ r'[d].rows \subseteq r[d].rows /\ r'[d].top = r[d].top
        /\ r[d].pc \in {"rows", "apply"}
    BY <1>3, <1>r DEF PullHead, ApplyEntry, Round
  <2> QED BY <2>1, <1>d DEF Selected
<1>4. CASE UNCHANGED r BY <1>4 DEF Selected
<1>5. ASSUME NEW d \in Devices, NEW e \in r[d].have, PushEntry(d, e) PROVE UNCHANGED r
  BY <1>5 DEF PushEntry
<1>6. ASSUME NEW d \in Devices, NEW s \in Shares,
             \/ Write(d, s) \/ CreateShare(d, s)
             \/ \E t \in Devices : ShareGrant(d, s, t) \/ ShareRemove(d, s, t)
      PROVE  UNCHANGED r
  BY <1>6 DEF Write, CreateShare, ShareGrant, ShareRemove
<1>7. UNCHANGED vars => UNCHANGED r BY DEF vars
<1> QED BY <1>1, <1>2, <1>3, <1>4, <1>5, <1>6, <1>7 DEF Next, RoundStep

\* Where no entry is written or pushed and logs gain only what the relay has, the
\* order is kept; a push under way is the old one, a new copy of the log, or none.
LEMMA QuietOrder ==
  ASSUME Typed, Order,
         UNCHANGED <<store, written, saw>>, Selected',
         \A c \in Devices : log[c] \subseteq log'[c] /\ log'[c] \subseteq log[c] \cup Stored,
         \A c \in Devices : r'[c].have \in {r[c].have, log[c], {}},
         \A c \in Devices : raced'[c] \subseteq 1..Len(store)
  PROVE  Order'
<1>0. Stored' = Stored BY DEF Stored
<1>1. Numbered'
  <2>1. \A d \in Devices : \A e \in log'[d] : e.n <= written
    BY DEF Order, Numbered
  <2> QED BY <1>0, <2>1 DEF Order, Numbered
<1>2. UnsentClosed' BY <1>0 DEF Order, UnsentClosed
<1>3. StoreOrdered' BY DEF Order, StoreOrdered, StoredBefore
<1> QED BY <1>1, <1>2, <1>3 DEF Order

\* append: a new entry is numbered last and its writer still has what it saw.
LEMMA LoggedOrder ==
  ASSUME Typed, Order, NEW d \in Devices, NEW s \in Shares, Logged(d, s),
         UNCHANGED <<store, r, raced>>, Selected'
  PROVE  Order'
<1> DEFINE e == [n |-> written + 1, share |-> s]
<1>0. TypeOK BY DEF Typed
<1>1. /\ written \in Nat /\ written + 1 \in 1..MaxWrites /\ written' = written + 1
      /\ e.n = written + 1
  BY <1>0, LoggedTyped, RelaySyncAssumption DEF TypeOK, Logged
<1>2. /\ log'[d] = log[d] \cup {e}
      /\ \A c \in Devices \ {d} : log'[c] = log[c]
      /\ saw'[written + 1] = log[d]
      /\ \A n \in (1..MaxWrites) \ {written + 1} : saw'[n] = saw[n]
  BY <1>0, <1>1 DEF Logged, TypeOK
<1> HIDE DEF e
<1>3. ASSUME NEW c \in Devices, NEW f \in log[c]
      PROVE  f.n \in 1..MaxWrites /\ f.n <= written
  BY <1>0, <1>3 DEF TypeOK, Entry, Order, Numbered
<1>4. \A c \in Devices : \A f \in log[c] : saw'[f.n] = saw[f.n]
  <2>1. \A c \in Devices : \A f \in log[c] : f.n # written + 1 BY <1>1, <1>3
  <2> QED BY <2>1, <1>2, <1>3
<1>5. Stored' = Stored BY DEF Stored
<1>6. \A f \in Stored : saw'[f.n] = saw[f.n] BY <1>4 DEF Order, Numbered
<1>7. Numbered'
  <2>1. ASSUME NEW c \in Devices, NEW f \in log'[c] PROVE f.n <= written'
    <3>1. f \in log[c] \/ f = e BY <1>2
    <3> QED BY <3>1, <1>1, <1>3
  <2>2. ASSUME NEW n \in 1..MaxWrites, NEW f \in saw'[n] PROVE f.n < n
    <3>1. CASE n = written + 1
      <4>1. f \in log[d] BY <2>2, <3>1, <1>2
      <4> QED BY <4>1, <3>1, <1>1, <1>3
    <3>2. CASE n # written + 1 BY <2>2, <3>2, <1>2 DEF Order, Numbered
    <3> QED BY <3>1, <3>2
  <2>3. Stored \subseteq UNION {log'[c] : c \in Devices}
    BY <1>2 DEF Order, Numbered
  <2> QED BY <2>1, <2>2, <2>3, <1>5 DEF Numbered
<1>8. UnsentClosed'
  <2>1. ASSUME NEW c \in Devices, NEW f \in log'[c] \ Stored PROVE saw'[f.n] \subseteq log'[c]
    <3>1. CASE f \in log[c]
      <4>1. saw'[f.n] \subseteq log[c] BY <2>1, <3>1, <1>4 DEF Order, UnsentClosed
      <4> QED BY <4>1, <1>2
    <3>2. CASE f = e /\ c = d BY <3>2, <1>1, <1>2
    <3> QED BY <3>1, <3>2, <1>2
  <2>2. ASSUME NEW c \in Devices, NEW f \in r[c].have \ Stored
        PROVE  saw'[f.n] \subseteq r[c].have
    <3>1. f \in log[c] BY <2>2 DEF Typed
    <3> QED BY <2>2, <3>1, <1>4 DEF Order, UnsentClosed
  <2> QED BY <2>1, <2>2, <1>5 DEF UnsentClosed
<1>9. StoreOrdered'
  <2>1. ASSUME NEW j \in 1..Len(store) PROVE store[j].entry \in Stored
    BY <1>0, StoreFacts DEF Stored
  <2> QED BY <2>1, <1>6 DEF Order, StoreOrdered, StoredBefore
<1> QED BY <1>7, <1>8, <1>9 DEF Order

\* push: the first entry the relay lacks comes after all that its writer saw.
LEMMA PushOrder ==
  ASSUME Typed, Order, NEW d \in Devices, NEW e \in r[d].have, PushEntry(d, e),
         Selected'
  PROVE  Order'
<1>0. TypeOK BY DEF Typed
<1>1. /\ e \in Entry /\ Len(store) \in Nat
      /\ store' \in Seq(Rows)
      /\ Len(store') = Len(store) + 1
      /\ \A i \in 1..Len(store) : store'[i] = store[i]
      /\ store'[Len(store) + 1] = [entry |-> e, tag |-> TagFor(d, e)]
      /\ Stored \subseteq Stored' /\ e \in Stored'
  BY PushFacts
<1>2. /\ UNCHANGED <<log, r, written, raced, saw>>
      /\ e \notin Stored /\ \A f \in r[d].have \ Stored : e.n <= f.n
  BY DEF PushEntry, diskVars, ghostVars
<1>3. Stored' \subseteq Stored \cup {e}
  <2>1. DOMAIN store = 1..Len(store) /\ DOMAIN store' = 1..(Len(store) + 1)
    BY <1>0, <1>1, StoreFacts, LenProperties
  <2>2. ASSUME NEW i \in 1..(Len(store) + 1) PROVE store'[i].entry \in Stored \cup {e}
    <3>1. CASE i = Len(store) + 1 BY <3>1, <1>1
    <3>2. CASE i \in 1..Len(store) BY <3>2, <1>1, <2>1 DEF Stored
    <3> QED BY <3>1, <3>2, <1>1
  <2> QED BY <2>1, <2>2 DEF Stored
<1>4. e \in log[d] BY DEF Typed
<1>5. Numbered' BY <1>2, <1>3, <1>4 DEF Order, Numbered
<1>6. UnsentClosed' BY <1>1, <1>2 DEF Order, UnsentClosed
<1>7. \A f \in saw[e.n] : f \in Stored
  <2> SUFFICES ASSUME NEW f \in saw[e.n], f \notin Stored PROVE FALSE OBVIOUS
  <2>1. f \in r[d].have BY <1>2 DEF Order, UnsentClosed
  <2>2. f \in Entry BY <2>1, <1>0 DEF TypeOK, Round
  <2>3. e.n \in 1..MaxWrites /\ f.n \in 1..MaxWrites BY <1>1, <2>2 DEF Entry
  <2>4. f.n < e.n BY <2>3 DEF Order, Numbered
  <2>5. e.n <= f.n BY <1>2, <2>1
  <2> QED BY <2>3, <2>4, <2>5
<1>8. \A f \in Stored : \E i \in 1..Len(store) : store[i].entry = f
  BY <1>0, StoreFacts DEF Stored
<1>9. ASSUME NEW j \in 1..Len(store'), NEW f \in saw[store'[j].entry.n]
      PROVE  StoredBefore(f, j)'
  <2>1. PICK i \in 1..Len(store) : i < j /\ store[i].entry = f
    <3>1. CASE j = Len(store) + 1 BY <3>1, <1>1, <1>7, <1>8, <1>9
    <3>2. CASE j \in 1..Len(store)
      BY <3>2, <1>1, <1>9 DEF Order, StoreOrdered, StoredBefore
    <3> QED BY <3>1, <3>2, <1>1
  <2>2. i \in 1..Len(store') /\ store'[i] = store[i] BY <1>1
  <2> QED BY <2>1, <2>2 DEF StoredBefore
<1>10. StoreOrdered' BY <1>2, <1>9 DEF StoreOrdered
<1>11. ASSUME NEW i \in 1..Len(store'), store'[i].entry.share = Nil
       PROVE  store'[i].tag = Nil
  <2>1. CASE i = Len(store) + 1 BY <2>1, <1>1, <1>11 DEF TagFor
  <2>2. CASE i \in 1..Len(store) BY <2>2, <1>1, <1>11 DEF Order
  <2> QED BY <2>1, <2>2, <1>1
<1>12. \A c \in Devices : raced'[c] \subseteq 1..Len(store')
  <2>1. 1..Len(store) \subseteq 1..Len(store') BY <1>1
  <2> QED BY <2>1, <1>2 DEF Order
<1> QED BY <1>5, <1>6, <1>10, <1>11, <1>12 DEF Order

\* No step of a round, a command or the relay breaks the order.
LEMMA NextOrder == Typed /\ Delivery /\ Order /\ [Next]_vars => Order'
<1> SUFFICES ASSUME Typed, Delivery, Order, [Next]_vars PROVE Order' OBVIOUS
<1>0. TypeOK BY DEF Typed
<1>r. /\ r \in [Devices -> Round] /\ log \in [Devices -> SUBSET Entry]
      /\ raced \in [Devices -> SUBSET Nat]
  BY <1>0 DEF TypeOK
<1>o. \A c \in Devices : raced[c] \subseteq 1..Len(store) BY DEF Order
<1>p. Selected' BY NextSelected DEF Order
<1>1. ASSUME NEW d \in Devices,
             \/ OpenVault(d) \/ Heal(d) \/ ReadLocal(d) \/ Rewind(d) \/ PullRows(d)
             \/ PullHead(d) \/ RoundFails(d) \/ Exit(d)
      PROVE  Order'
  <2>1. /\ UNCHANGED <<store, log, written, raced, saw>>
        /\ \A c \in Devices \ {d} : r'[c] = r[c]
    BY <1>1, <1>r DEF OpenVault, Heal, ReadLocal, Rewind, PullRows, PullHead,
                      RoundFails, Exit, relayVars, diskVars, ghostVars
  <2>2. r'[d].have \in {r[d].have, log[d], {}}
    <3>1. CASE OpenVault(d) BY <3>1, <1>r DEF OpenVault, Round
    <3>2. CASE Heal(d) BY <3>2, <1>r DEF Heal, Round
    <3>3. CASE ReadLocal(d) BY <3>3, <1>r DEF ReadLocal, Round
    <3>4. CASE Rewind(d) BY <3>4, <1>r DEF Rewind, Round
    <3>5. CASE PullRows(d) BY <3>5, <1>r DEF PullRows, Round
    <3>6. CASE PullHead(d) BY <3>6, <1>r DEF PullHead, Round
    <3>7. CASE RoundFails(d) BY <3>7, <1>r DEF RoundFails, Closed
    <3>8. CASE Exit(d) BY <3>8, <1>r DEF Exit, Closed
    <3> QED BY <1>1, <3>1, <3>2, <3>3, <3>4, <3>5, <3>6, <3>7, <3>8
  <2> QED BY <2>1, <2>2, <1>o, <1>p, QuietOrder
<1>2. ASSUME NEW d \in Devices, NEW e \in r[d].have, PushEntry(d, e) PROVE Order'
  BY <1>2, <1>p, PushOrder
<1>3. ASSUME NEW d \in Devices, NEW i \in r[d].rows, ApplyEntry(d, i) PROVE Order'
  <2>1. i \in DOMAIN store BY <1>0, StoreFacts DEF Typed
  <2>2. store[i].entry \in Stored BY <2>1 DEF Stored
  <2>3. /\ UNCHANGED <<store, written, raced, saw>>
        /\ \A c \in Devices \ {d} : log'[c] = log[c]
        /\ log[d] \subseteq log'[d] /\ log'[d] \subseteq log[d] \cup {store[i].entry}
        /\ \A c \in Devices : r'[c].have = r[c].have
    BY <1>3, <1>r DEF ApplyEntry, relayVars, ghostVars, Round
  <2> QED BY <2>2, <2>3, <1>o, <1>p, QuietOrder
<1>4. ASSUME NEW d \in Devices, SetCursor(d) PROVE Order'
  <2>1. /\ UNCHANGED <<store, log, written, saw>>
        /\ \A c \in Devices \ {d} : r'[c] = r[c] /\ raced'[c] = raced[c]
        /\ raced'[d] = raced[d] \cup (r[d].top + 1)..r[d].head
        /\ r'[d].have = {} /\ r[d].pc = "apply"
    BY <1>4, <1>r DEF SetCursor, relayVars, Closed
  <2>2. (r[d].top + 1)..r[d].head \subseteq 1..Len(store)
    <3>1. r[d].top \in Nat /\ r[d].head \in Nat /\ Len(store) \in Nat
      BY <1>0, <1>r, StoreFacts DEF Round
    <3>2. r[d].head <= Len(store) BY <2>1 DEF Delivery
    <3> QED BY <3>1, <3>2
  <2> QED BY <2>1, <2>2, <1>o, <1>p, QuietOrder
<1>5. ASSUME NEW d \in Devices, NEW s \in Shares, Write(d, s) \/ CreateShare(d, s)
      PROVE  Order'
  <2>1. CASE Write(d, s) BY <2>1, <1>p, LoggedOrder DEF Write, relayVars
  <2>2. CASE CreateShare(d, s)
    BY <2>2, <1>p, LoggedOrder, RelaySyncAssumption DEF CreateShare, relayVars
  <2> QED BY <1>5, <2>1, <2>2
<1>6. ASSUME NEW d \in Devices, NEW s \in Shares, NEW t \in Devices,
             ShareGrant(d, s, t) \/ ShareRemove(d, s, t)
      PROVE  Order'
  BY <1>6, <1>o, <1>p, QuietOrder DEF ShareGrant, ShareRemove, diskVars
<1>7. CASE UNCHANGED vars BY <1>7, <1>o, <1>p, QuietOrder DEF vars
<1> QED BY <1>1, <1>2, <1>3, <1>4, <1>5, <1>6, <1>7 DEF Next, RoundStep

\* The order is kept throughout.
LEMMA SpecOrder == Spec => []Order
BY InitOrder, NextOrder, SpecTyped, SpecDelivery, PTL DEF Spec

----------------------------------------------------------------------------
(* The transport *)

\* Where the store and the raced rows are the same, so are the lost entries.
Lost == [d \in Devices |-> {store[i].entry : i \in raced[d]}]

\* A step that leaves the vaults and the lost entries alone is none to the transport.
LEMMA Unseen ==
  ASSUME UNCHANGED <<log, written, saw>>, Lost' = Lost
  PROVE  [T!Next]_(T!vars)
BY DEF T!vars, Lost

\* append is the transport's Write.
LEMMA LoggedIsWrite ==
  ASSUME NEW d \in Devices, NEW s \in Shares, Logged(d, s), UNCHANGED <<store, raced>>
  PROVE  T!Next
<1>1. Lost' = Lost BY DEF Lost
<1>2. T!Write(d, s) BY <1>1 DEF Logged, T!Write, Lost
<1> QED BY <1>2 DEF T!Next

\* push adds rows, and the transport's state names none of them yet.
LEMMA PushIsUnseen ==
  ASSUME Typed, Order, NEW d \in Devices, NEW e \in r[d].have, PushEntry(d, e)
  PROVE  [T!Next]_(T!vars)
<1>1. \A i \in 1..Len(store) : store'[i] = store[i] BY PushFacts
<1>2. UNCHANGED <<log, written, saw, raced>> BY DEF PushEntry, diskVars, ghostVars
<1>3. ASSUME NEW c \in Devices
      PROVE  {store'[i].entry : i \in raced[c]} = {store[i].entry : i \in raced[c]}
  <2>1. \A i \in raced[c] : store'[i] = store[i] BY <1>1 DEF Order
  <2> QED BY <2>1
<1>4. Lost' = Lost BY <1>2, <1>3 DEF Lost
<1> QED BY <1>2, <1>4, Unseen

\* An entry that is applied finds what its writer saw there: the rows below it
\* have been applied, or raced with an earlier pull.
LEMMA ApplyIsDeliver ==
  ASSUME Typed, Delivery, Order, NEW d \in Devices, NEW j \in r[d].rows,
         ApplyEntry(d, j)
  PROVE  [T!Next]_(T!vars)
<1> DEFINE e == store[j].entry
<1>0. TypeOK BY DEF Typed
<1>s. /\ Len(store) \in Nat /\ DOMAIN store = 1..Len(store)
      /\ \A i \in 1..Len(store) : store[i] \in Rows
  BY <1>0, StoreFacts
<1>1. /\ UNCHANGED <<store, written, raced, saw>>
      /\ r[d].pc = "apply" /\ \A i \in r[d].rows : j <= i
      /\ log' = [log EXCEPT ![d] = IF e \in r[d].have THEN @ ELSE @ \cup {e}]
  BY DEF ApplyEntry, relayVars, ghostVars
<1>2. j \in 1..Len(store) /\ e \in Entry BY <1>s DEF Typed, Rows
<1>3. Lost' = Lost BY <1>1 DEF Lost
<1>l. log \in [Devices -> SUBSET Entry] BY <1>0 DEF TypeOK
<1> HIDE DEF e
<1>4. CASE e \in log[d]
  <2>1. log' = log BY <1>1, <1>4, <1>l
  <2> QED BY <2>1, <1>1, <1>3, Unseen
<1>5. CASE e \notin log[d]
  <2>1. log' = [log EXCEPT ![d] = @ \cup {e}] BY <1>1, <1>5 DEF Typed
  <2>2. e \in T!Written
    <3>1. e \in Stored BY <1>s, <1>2 DEF Stored, e
    <3> QED BY <3>1 DEF Order, Numbered, T!Written
  <2>3. ASSUME NEW f \in saw[e.n], f.share = Nil PROVE f \in log[d] \cup Lost[d]
    <3>1. PICK i \in 1..Len(store) : i < j /\ store[i].entry = f
      BY <1>2, <2>3 DEF Order, StoreOrdered, StoredBefore, e
    <3>2. store[i].tag = Nil BY <2>3, <3>1 DEF Order
    <3>3. i \in 1..r[d].top
      <4>1. r[d].top \in Nat BY <1>0 DEF TypeOK, Round
      <4>2. j <= r[d].top BY <1>1 DEF Order, Selected
      <4> QED BY <4>1, <4>2, <3>1, <1>2, <1>s
    <3>4. Covered(d, i) BY <3>3, <1>1 DEF Delivery
    <3>5. i \notin r[d].rows BY <3>1, <1>1, <1>2
    <3>6. f \in log[d] \/ i \in raced[d] BY <3>1, <3>2, <3>4, <3>5 DEF Covered
    <3> QED BY <3>1, <3>6 DEF Lost
  <2>4. T!Ready(d, e) BY <2>3 DEF T!Ready, Lost
  <2>5. T!Deliver(d, e) BY <2>1, <2>2, <2>4, <1>1, <1>3, <1>5 DEF T!Deliver, Lost
  <2>6. e \in T!Entry BY <1>2 DEF T!Entry, Entry
  <2> QED BY <2>5, <2>6 DEF T!Next
<1> QED BY <1>4, <1>5

\* set_sync_cursor gives up the entries stored between the statements of the pull.
LEMMA SetCursorIsLose ==
  ASSUME Typed, Delivery, Order, NEW d \in Devices, SetCursor(d)
  PROVE  [T!Next]_(T!vars)
<1> DEFINE past == (r[d].top + 1)..r[d].head
           es == {store[i].entry : i \in past}
<1>0. TypeOK BY DEF Typed
<1>s. /\ Len(store) \in Nat /\ DOMAIN store = 1..Len(store)
      /\ \A i \in 1..Len(store) : store[i] \in Rows
  BY <1>0, StoreFacts
<1>1. /\ UNCHANGED <<store, log, written, saw>> /\ r[d].pc = "apply"
      /\ raced' = [raced EXCEPT ![d] = @ \cup past]
  BY DEF SetCursor, relayVars
<1>2. past \subseteq 1..Len(store)
  <2>1. r[d].top \in Nat /\ r[d].head \in Nat BY <1>0 DEF TypeOK, Round
  <2>2. r[d].head <= Len(store) BY <1>1 DEF Delivery
  <2> QED BY <2>1, <2>2, <1>s
<1>3. raced \in [Devices -> SUBSET Nat] BY <1>0 DEF TypeOK
<1> HIDE DEF past
<1>4. es \subseteq Stored /\ es \subseteq Entry BY <1>2, <1>s DEF Stored, Rows
<1>5. ASSUME NEW c \in Devices
      PROVE  {store'[i].entry : i \in raced'[c]}
               = {store[i].entry : i \in raced[c]} \cup (IF c = d THEN es ELSE {})
  BY <1>1, <1>3, <1>5
<1>6. Lost' = [Lost EXCEPT ![d] = @ \cup es] BY <1>5 DEF Lost
<1> HIDE DEF es
<1>7. es \subseteq T!Written BY <1>4 DEF Order, Numbered, T!Written
<1>8. PICK ls : ls = es OBVIOUS
<1>9. T!Lose(d, ls) BY <1>1, <1>6, <1>7, <1>8 DEF T!Lose, Lost
<1>10. ls \in SUBSET T!Entry BY <1>4, <1>8 DEF T!Entry, Entry
<1> QED BY <1>9, <1>10 DEF T!Next

\* Every step of RelaySync is a step of the transport, or none.
LEMMA NextTransport == Typed /\ Delivery /\ Order /\ [Next]_vars => [T!Next]_(T!vars)
<1> SUFFICES ASSUME Typed, Delivery, Order, [Next]_vars PROVE [T!Next]_(T!vars) OBVIOUS
<1>1. ASSUME NEW d \in Devices, NEW e \in r[d].have, PushEntry(d, e)
      PROVE  [T!Next]_(T!vars)
  BY <1>1, PushIsUnseen
<1>2. ASSUME NEW d \in Devices, NEW i \in r[d].rows, ApplyEntry(d, i)
      PROVE  [T!Next]_(T!vars)
  BY <1>2, ApplyIsDeliver
<1>3. ASSUME NEW d \in Devices, SetCursor(d) PROVE [T!Next]_(T!vars)
  BY <1>3, SetCursorIsLose
<1>4. ASSUME NEW d \in Devices, NEW s \in Shares, Write(d, s) \/ CreateShare(d, s)
      PROVE  [T!Next]_(T!vars)
  <2>1. CASE Write(d, s) BY <2>1, LoggedIsWrite DEF Write, relayVars
  <2>2. CASE CreateShare(d, s)
    BY <2>2, LoggedIsWrite, RelaySyncAssumption DEF CreateShare, relayVars
  <2> QED BY <1>4, <2>1, <2>2
<1>q. ASSUME UNCHANGED <<store, raced, log, written, saw>> PROVE [T!Next]_(T!vars)
  BY <1>q, Unseen DEF Lost
<1>5. ASSUME NEW d \in Devices,
             \/ OpenVault(d) \/ Heal(d) \/ ReadLocal(d) \/ Rewind(d) \/ PullRows(d)
             \/ PullHead(d) \/ RoundFails(d) \/ Exit(d)
      PROVE  UNCHANGED <<store, raced, log, written, saw>>
  BY <1>5 DEF OpenVault, Heal, ReadLocal, Rewind, PullRows, PullHead, RoundFails, Exit,
              relayVars, diskVars, ghostVars
<1>6. ASSUME NEW d \in Devices, NEW s \in Shares, NEW t \in Devices,
             ShareGrant(d, s, t) \/ ShareRemove(d, s, t)
      PROVE  UNCHANGED <<store, raced, log, written, saw>>
  BY <1>6 DEF ShareGrant, ShareRemove, diskVars
<1>7. UNCHANGED vars => UNCHANGED <<store, raced, log, written, saw>> BY DEF vars
<1> QED BY <1>1, <1>2, <1>3, <1>4, <1>q, <1>5, <1>6, <1>7 DEF Next, RoundStep

\* The transport keeps every log closed under what the writers of its entries had.
LEMMA CausalKept ==
  ASSUME TypeOK, Numbered, T!Causal, [T!Next]_(T!vars), TypeOK'
  PROVE  T!Causal'
<1>t. /\ log \in [Devices -> SUBSET Entry] /\ saw \in [1..MaxWrites -> SUBSET Entry]
      /\ written \in Nat
  BY RelaySyncAssumption DEF TypeOK
<1>n. ASSUME NEW c \in Devices, NEW f \in log[c] PROVE f.n \in 1..MaxWrites /\ f.n <= written
  BY <1>t, <1>n DEF Entry, Numbered
<1>c. ASSUME NEW c \in Devices, NEW f \in log[c], NEW g \in saw[f.n], g.share = Nil
      PROVE  g \in log[c] \cup Lost[c]
  BY <1>c DEF T!Causal, T!Ready, Lost
<1> SUFFICES ASSUME NEW c \in Devices, NEW f \in log'[c], NEW g \in saw'[f.n], g.share = Nil
             PROVE  g \in log'[c] \cup Lost'[c]
  BY DEF T!Causal, T!Ready, Lost
<1>1. ASSUME NEW d \in Devices, NEW s \in Shares, T!Write(d, s)
      PROVE  g \in log'[c] \cup Lost'[c]
  <2> DEFINE e == [n |-> written + 1, share |-> s]
  <2>0. written < MaxWrites BY <1>1 DEF T!Write
  <2>1. written + 1 \in 1..MaxWrites BY <2>0, <1>t, RelaySyncAssumption
  <2>2. e.n = written + 1 OBVIOUS
  <2>l. Lost' = Lost BY <1>1 DEF T!Write, Lost
  <2>w. /\ log' = [log EXCEPT ![d] = @ \cup {e}]
        /\ saw' = [saw EXCEPT ![written + 1] = log[d]]
    BY <1>1 DEF T!Write
  <2> HIDE DEF e
  <2>3. log[c] \subseteq log'[c] BY <2>w, <1>t
  <2>4. CASE f \in log[c]
    <3>1. f.n # written + 1 BY <2>4, <1>n, <1>t
    <3>2. g \in saw[f.n] BY <3>1, <2>1, <2>l, <2>w, <2>4, <1>n, <1>t
    <3> QED BY <3>2, <2>1, <2>l, <2>w, <2>3, <2>4, <1>c
  <2>5. CASE f = e /\ c = d BY <2>5, <2>1, <2>l, <2>w, <2>2, <2>3, <1>t
  <2> QED BY <2>1, <2>l, <2>w, <2>4, <2>5, <1>t
<1>2. ASSUME NEW d \in Devices, NEW e \in T!Entry, T!Deliver(d, e)
      PROVE  g \in log'[c] \cup Lost'[c]
  <2>1. log' = [log EXCEPT ![d] = @ \cup {e}] /\ Lost' = Lost /\ saw' = saw
    BY <1>2 DEF T!Deliver, Lost
  <2>2. log[c] \subseteq log'[c] BY <2>1, <1>t
  <2>3. \A h \in saw[e.n] : h.share = Nil => h \in log[d] \cup Lost[d]
    BY <1>2 DEF T!Deliver, T!Ready, Lost
  <2>4. f \in log[c] \/ (f = e /\ c = d) BY <2>1, <1>t
  <2> QED BY <2>1, <2>2, <2>3, <2>4, <1>c
<1>3. ASSUME NEW d \in Devices, NEW es \in SUBSET T!Entry, T!Lose(d, es)
      PROVE  g \in log'[c] \cup Lost'[c]
  <2>1. Lost' = [Lost EXCEPT ![d] = @ \cup es] /\ log' = log /\ saw' = saw
    BY <1>3 DEF T!Lose, Lost
  <2>2. Lost[c] \subseteq Lost'[c] BY <2>1 DEF Lost
  <2> QED BY <2>1, <2>2, <1>c
<1>4. CASE UNCHANGED T!vars
  <2>1. log' = log /\ saw' = saw /\ Lost' = Lost BY <1>4 DEF T!vars, Lost
  <2> QED BY <2>1, <1>c
<1> QED BY <1>1, <1>2, <1>3, <1>4 DEF T!Next

----------------------------------------------------------------------------
(* Theorems *)

\* Every value of the relay's tables, the devices' files and their sync processes
\* is of its type, whatever sync_once, push, pull and the share commands do.
THEOREM RelaySyncTypeOK == Spec => []TypeOK
<1>1. Typed => TypeOK BY DEF Typed
<1> QED BY <1>1, SpecTyped, PTL

\* raw_entries_tagged: an entry is stored under the share it was written in, across
\* removals, second grants, failed rounds and processes that die, for every share
\* that was not created while a sync process of its creator was running.
THEOREM TagsFollowShares == Spec => []TagsRightUnlessBeside
<1>1. Access => TagsRightUnlessBeside BY DEF Access
<1> QED BY <1>1, SpecAccess, PTL

\* pull: no device has an entry of a share it was never a member of, whoever is
\* granted, removed and granted again meanwhile, with the same exception.
THEOREM OnlyMembersAreServed == Spec => []RoutedToMembers
<1>1. Access => RoutedToMembers BY DEF Access
<1> QED BY <1>1, SpecAccess, PTL

\* sync_once and pull: what a cursor passes without the device having it raced
\* with one of its pulls; failed rounds, rewinds and deaths lose nothing.
THEOREM NothingElseIsMissed == Spec => []OnlyRacedAreMissed
<1>1. Delivery => OnlyRacedAreMissed BY DEF Delivery
<1> QED BY <1>1, SpecDelivery, PTL

\* raw_entries_tagged, push, pull and sync_once keep entries in order: across rounds
\* that fail half way, processes that die and pulls that race with pushes, what the
\* vaults get through sync and relay is what Transport says.
THEOREM SyncImplementsTransport == Spec => CausalTransport
<1>1. Init => T!Init
  <2> SUFFICES ASSUME Init PROVE T!Init OBVIOUS
  <2>1. Lost = [d \in Devices |-> {}] BY DEF Init, Lost
  <2> QED BY <2>1 DEF Init, T!Init, Lost
<1> QED BY <1>1, NextTransport, SpecTyped, SpecDelivery, SpecOrder, PTL
        DEF Spec, CausalTransport, T!Spec

\* apply_entry through the relay: a vault that has an entry has all the entries of
\* the default share that the entry's writer had when it wrote it, but those that
\* were stored between the two statements of one of its pulls.
THEOREM LogsAreCausal == Spec => []T!Causal
<1>1. Init => T!Causal BY DEF Init, T!Causal
<1>2. Typed /\ Typed' /\ Delivery /\ Order /\ T!Causal /\ [Next]_vars => T!Causal'
  BY CausalKept, NextTransport DEF Typed, Order
<1> QED BY <1>1, <1>2, SpecTyped, SpecDelivery, SpecOrder, PTL DEF Spec
=============================================================================
