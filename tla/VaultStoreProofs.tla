-------------------------- MODULE VaultStoreProofs --------------------------
(***************************************************************************)
(* One vault directory shared by processes: the counters, the log and the  *)
(* cursor, for any number of processes, writes, crashes and remote entries.*)
(*                                                                         *)
(* None of the safety invariants is inductive alone.  A clock is fresh     *)
(* because meta.json is at or past every clock ever handed out (Counted);  *)
(* the cursor is covered because every cursor a process remembers is       *)
(* covered too (HandleOK), its round having applied all up to next - 1;    *)
(* and meta.json is not rolled back by the second half of                  *)
(* apply_remote_entry because the lock keeps the disk where it was.        *)
(***************************************************************************)
EXTENDS VaultStore, TLAPS

\* Every clock in the log and at the relay is counted in meta.json.
Counted ==
  \A f \in ToSet(log) \cup ToSet(relay) :
    /\ f.own => f.n <= meta.lamport
    /\ ~f.own => f.n \in 1..Len(RemoteClock)

\* The first c entries of relay rl are in log lg.
Covered(c, lg, rl) ==
  /\ c <= Len(rl)
  /\ \A i \in 1..c : rl[i] \in ToSet(lg)

\* What holds of handle v of process p, given the shared files.
HandleOK(p, v, m, lg, rl, lk) ==
  /\ v.clock <= m.lamport
  /\ Covered(v.meta.cursor, lg, rl)
  /\ v.state \subseteq ToSet(lg)
  /\ v.have \subseteq ToSet(lg)
  /\ v.pc \in {"apply", "applied"} =>
       /\ v.next >= 1
       /\ v.head <= Len(rl)
       /\ Covered(v.next - 1, lg, rl)
  /\ v.pc = "applied" =>
       /\ lk = p
       /\ v.next <= Len(rl)
       /\ rl[v.next] \in ToSet(lg)
       /\ m.lamport <= v.meta.lamport
       /\ m.cursor <= v.meta.cursor

IInv ==
  /\ TypeOK
  /\ Counted
  /\ ClockUnique
  /\ Covered(meta.cursor, log, relay)
  /\ \A p \in Procs : HandleOK(p, h[p], meta, log, relay, lock)

\* Logs and relays only grow.
Grows(lg, lg2) == ToSet(lg) \subseteq ToSet(lg2)
Extends(rl, rl2) ==
  /\ Len(rl) <= Len(rl2)
  /\ \A i \in 1..Len(rl) : rl2[i] = rl[i]

----------------------------------------------------------------------------
(* Sequences, counters and the parts of the invariant *)

\* What appending one frame to the log or to the relay changes.
LEMMA AppendFacts ==
  ASSUME NEW s \in Seq(Frames), NEW f \in Frames
  PROVE  /\ Append(s, f) \in Seq(Frames)
         /\ Len(Append(s, f)) = Len(s) + 1
         /\ Extends(s, Append(s, f))
         /\ Append(s, f)[Len(s) + 1] = f
         /\ ToSet(Append(s, f)) = ToSet(s) \cup {f}
         /\ Grows(s, Append(s, f))
<1>1. /\ Append(s, f) \in Seq(Frames)
      /\ Len(Append(s, f)) = Len(s) + 1
      /\ Append(s, f)[Len(s) + 1] = f
      /\ \A i \in 1..Len(s) : Append(s, f)[i] = s[i]
  OBVIOUS
<1>2. DOMAIN s = 1..Len(s) /\ DOMAIN Append(s, f) = 1..(Len(s) + 1) /\ Len(s) \in Nat
  OBVIOUS
<1>3. ToSet(Append(s, f)) = ToSet(s) \cup {f}
  BY <1>1, <1>2 DEF ToSet
<1> QED BY <1>1, <1>2, <1>3 DEF Extends, Grows

\* The elements of a log or relay are frames.
LEMMA ToSetFrames ==
  ASSUME NEW s \in Seq(Frames)
  PROVE  /\ ToSet(s) \subseteq Frames
         /\ \A i \in 1..Len(s) : s[i] \in ToSet(s)
         /\ Len(s) \in Nat
BY DEF ToSet

\* absorb_disk_meta never lowers either side.
LEMMA AbsorbedFacts ==
  ASSUME TypeOK, NEW p \in Procs
  PROVE  /\ Absorbed(p) \in Meta
         /\ Absorbed(p).lamport >= meta.lamport
         /\ Absorbed(p).lamport >= h[p].meta.lamport
         /\ Absorbed(p).cursor >= meta.cursor
         /\ Absorbed(p).cursor >= h[p].meta.cursor
         /\ Absorbed(p).cursor \in {meta.cursor, h[p].meta.cursor}
<1>1. /\ meta.lamport \in Nat /\ meta.cursor \in Nat
      /\ h[p].meta.lamport \in Nat /\ h[p].meta.cursor \in Nat
  BY DEF TypeOK, Meta, Handle
<1>2. \A a, b \in Nat : MaxOf(a, b) \in {a, b} /\ MaxOf(a, b) >= a /\ MaxOf(a, b) >= b
  BY DEF MaxOf
<1> QED BY <1>1, <1>2 DEF Absorbed, Meta

\* What is covered stays covered.
LEMMA CoveredGrows ==
  ASSUME NEW c \in Int, NEW lg, NEW rl \in Seq(Frames), NEW lg2, NEW rl2 \in Seq(Frames),
         Covered(c, lg, rl), Grows(lg, lg2), Extends(rl, rl2)
  PROVE  Covered(c, lg2, rl2)
BY DEF Covered, Grows, Extends

\* A handle that does not move stays right as the files grow under it, the
\* metadata on disk standing still while it holds the lock.
LEMMA HandleKeeps ==
  ASSUME NEW p, NEW v \in Handle, NEW m \in Meta, NEW m2 \in Meta,
         NEW lg \in Seq(Frames), NEW lg2 \in Seq(Frames),
         NEW rl \in Seq(Frames), NEW rl2 \in Seq(Frames), NEW lk, NEW lk2,
         HandleOK(p, v, m, lg, rl, lk),
         Grows(lg, lg2), Extends(rl, rl2), m.lamport <= m2.lamport,
         v.pc = "applied" => lk2 = lk /\ m2 = m
  PROVE  HandleOK(p, v, m2, lg2, rl2, lk2)
<1>1. v.meta.cursor \in Int /\ v.next \in Int /\ v.next - 1 \in Int
      /\ v.clock \in Int /\ m.lamport \in Int /\ m2.lamport \in Int
      /\ v.head \in Int /\ Len(rl) \in Int /\ Len(rl2) \in Int
  BY DEF Handle, Meta
<1>2. Covered(v.meta.cursor, lg2, rl2)
  BY <1>1, CoveredGrows DEF HandleOK
<1>3. v.pc \in {"apply", "applied"} => Covered(v.next - 1, lg2, rl2)
  BY <1>1, CoveredGrows DEF HandleOK
<1>4. v.clock <= m2.lamport
  BY <1>1 DEF HandleOK
<1>5. v.state \subseteq ToSet(lg2) /\ v.have \subseteq ToSet(lg2)
  BY DEF HandleOK, Grows
<1>6. v.pc \in {"apply", "applied"} => v.next >= 1 /\ v.head <= Len(rl2)
  BY <1>1 DEF HandleOK, Extends
<1>7. ASSUME v.pc = "applied"
      PROVE  /\ lk2 = p
             /\ v.next <= Len(rl2)
             /\ rl2[v.next] \in ToSet(lg2)
             /\ m2.lamport <= v.meta.lamport
             /\ m2.cursor <= v.meta.cursor
  BY <1>1, <1>7 DEF HandleOK, Extends, Grows
<1> QED BY <1>2, <1>3, <1>4, <1>5, <1>6, <1>7 DEF HandleOK

\* A step of process p that keeps p's handle right keeps every handle right.
LEMMA OthersKeep ==
  ASSUME IInv, TypeOK', NEW p \in Procs,
         Grows(log, log'), Extends(relay, relay'), meta.lamport <= meta'.lamport,
         \A q \in Procs \ {p} : h'[q] = h[q],
         \/ lock = NoProc
         \/ lock = p
         \/ lock' = lock /\ meta' = meta,
         HandleOK(p, h'[p], meta', log', relay', lock')
  PROVE  \A q \in Procs : HandleOK(q, h'[q], meta', log', relay', lock')
<1> SUFFICES ASSUME NEW q \in Procs \ {p}
             PROVE  HandleOK(q, h[q], meta', log', relay', lock')
  OBVIOUS
<1>1. HandleOK(q, h[q], meta, log, relay, lock) /\ h[q] \in Handle
  BY DEF IInv, TypeOK
<1>2. h[q].pc = "applied" => lock = q
  BY <1>1 DEF HandleOK
<1>3. q # NoProc
  BY VaultStoreAssumption
<1>4. h[q].pc = "applied" => lock' = lock /\ meta' = meta
  BY <1>2, <1>3
<1> HIDE DEF IInv
<1> QED BY <1>1, <1>4, HandleKeeps DEF IInv, TypeOK

\* A step that hands out no clock and brings no frame this device does not
\* already have in its log or at the relay keeps the clocks unique.
LEMMA UniqueKeeps ==
  ASSUME ClockUnique, NEW p \in Procs,
         \A q \in Procs \ {p} : h'[q] = h[q],
         h'[p].clock \in {h[p].clock, 0},
         \A f \in ToSet(log') \cup ToSet(relay') :
           f.own => f \in ToSet(log) \cup ToSet(relay)
  PROVE  ClockUnique'
<1>1. \A n : Own(n).own
  BY DEF Own
<1>2. \A q \in Procs : h'[q].clock # 0 => h'[q].clock = h[q].clock
  OBVIOUS
<1> SUFFICES ASSUME NEW q \in Procs, h'[q].clock # 0
             PROVE  /\ Own(h'[q].clock) \notin ToSet(log') \cup ToSet(relay')
                    /\ \A r \in Procs \ {q} : h'[q].clock # h'[r].clock
  BY DEF ClockUnique, Own
<1>3. h'[q].clock = h[q].clock /\ h[q].clock # 0
  BY <1>2
<1>4. Own(h[q].clock) \notin ToSet(log) \cup ToSet(relay)
  BY <1>3 DEF ClockUnique
<1>5. \A r \in Procs \ {q} : h[q].clock # h[r].clock
  BY <1>3 DEF ClockUnique
<1> QED BY <1>1, <1>2, <1>3, <1>4, <1>5

----------------------------------------------------------------------------
(* The invariant is inductive *)

\* The initial vault directory satisfies the invariant.
LEMMA InitIInv == Init => IInv
<1> SUFFICES ASSUME Init PROVE IInv
  OBVIOUS
<1>1. Closed \in Handle
  BY DEF Closed, Handle, Meta
<1>2. TypeOK
  <2>1. meta \in Meta /\ log \in Seq(Frames) /\ relay \in Seq(Frames)
    BY DEF Init, Meta
  <2>2. torn \in BOOLEAN /\ lock \in Procs \cup {NoProc}
    BY DEF Init
  <2>3. h \in [Procs -> Handle]
    BY <1>1 DEF Init
  <2> QED BY <2>1, <2>2, <2>3 DEF TypeOK
<1>3. ToSet(log) = {} /\ ToSet(relay) = {} /\ Len(relay) = 0
  BY DEF Init, ToSet
<1>4. Counted /\ ClockUnique
  BY <1>3 DEF Counted, ClockUnique, Init, Closed
<1>5. Covered(0, log, relay)
  BY <1>3 DEF Covered
<1>6. \A p \in Procs : HandleOK(p, h[p], meta, log, relay, lock)
  BY <1>5 DEF Init, Closed, HandleOK
<1> QED BY <1>2, <1>4, <1>5, <1>6 DEF IInv, Init

\* open, reload, replay_log, raw_entries_tagged, the pull and its failures,
\* a crash: process p moves its own handle, the files stand still.
LEMMA HandleOnlyStep ==
  ASSUME IInv, NEW p \in Procs,
         UNCHANGED <<meta, log, relay>>,
         torn' \in BOOLEAN,
         lock' = lock \/ (lock = p /\ lock' = NoProc),
         NEW v \in Handle, h' = [h EXCEPT ![p] = v],
         v.clock \in {h[p].clock, 0},
         HandleOK(p, v, meta, log, relay, lock')
  PROVE  IInv'
<1>1. h' \in [Procs -> Handle] /\ h'[p] = v /\ \A q \in Procs \ {p} : h'[q] = h[q]
  BY DEF IInv, TypeOK
<1>2. TypeOK'
  BY <1>1 DEF IInv, TypeOK
<1>3. Grows(log, log') /\ Extends(relay, relay') /\ meta.lamport <= meta'.lamport
  BY DEF Grows, Extends, IInv, TypeOK, Meta
<1>4. \A q \in Procs : HandleOK(q, h'[q], meta', log', relay', lock')
  BY <1>1, <1>2, <1>3, OthersKeep
<1>5. ClockUnique'
  BY <1>1, UniqueKeeps DEF IInv
<1>6. Counted'
  BY DEF IInv, Counted
<1>8. Covered(meta.cursor, log, relay)'
  BY DEF IInv
<1> QED BY <1>2, <1>4, <1>5, <1>6, <1>8 DEF IInv

\* next_clock, reset_sync_cursor, set_sync_cursor: process p replaces meta.json
\* under the lock by what it absorbed, the cursor set to a covered one.
LEMMA MetaStep ==
  ASSUME IInv, NEW p \in Procs, lock = NoProc,
         UNCHANGED <<log, torn, lock, relay>>,
         NEW m \in Meta, meta' = m, meta.lamport <= m.lamport,
         Covered(m.cursor, log, relay),
         NEW v \in Handle, h' = [h EXCEPT ![p] = v],
         HandleOK(p, v, m, log, relay, lock),
         ClockUnique'
  PROVE  IInv'
<1>1. h' \in [Procs -> Handle] /\ h'[p] = v /\ \A q \in Procs \ {p} : h'[q] = h[q]
  BY DEF IInv, TypeOK
<1>2. TypeOK'
  BY <1>1 DEF IInv, TypeOK
<1>3. Grows(log, log') /\ Extends(relay, relay')
  BY DEF Grows, Extends, IInv, TypeOK
<1>4. \A q \in Procs : HandleOK(q, h'[q], meta', log', relay', lock')
  BY <1>1, <1>2, <1>3, OthersKeep
<1>5. Counted'
  <2>1. m.lamport \in Nat /\ meta.lamport \in Nat
    BY DEF IInv, TypeOK, Meta
  <2>2. ToSet(log) \cup ToSet(relay) \subseteq Frames
    BY ToSetFrames DEF IInv, TypeOK
  <2> QED BY <2>1, <2>2 DEF IInv, Counted, Frames
<1>6. Covered(meta'.cursor, log', relay')
  OBVIOUS
<1> QED BY <1>2, <1>4, <1>5, <1>6 DEF IInv

\* Process p appends frame f to the log under the lock.
LEMMA LogStep ==
  ASSUME IInv, NEW p \in Procs, lock = NoProc, lock' \in {p, NoProc},
         UNCHANGED <<meta, torn, relay>>,
         NEW f \in Frames, log' = Append(log, f),
         f.own => f.n <= meta.lamport,
         ~f.own => f.n \in 1..Len(RemoteClock),
         NEW v \in Handle, h' = [h EXCEPT ![p] = v],
         HandleOK(p, v, meta, log', relay, lock'),
         ClockUnique'
  PROVE  IInv'
<1>1. h' \in [Procs -> Handle] /\ h'[p] = v /\ \A q \in Procs \ {p} : h'[q] = h[q]
  BY DEF IInv, TypeOK
<1>2. log' \in Seq(Frames) /\ Grows(log, log') /\ ToSet(log') = ToSet(log) \cup {f}
  BY AppendFacts DEF IInv, TypeOK
<1>3. TypeOK'
  BY <1>1, <1>2 DEF IInv, TypeOK
<1>4. Extends(relay, relay') /\ meta.lamport <= meta'.lamport
  BY DEF Extends, IInv, TypeOK, Meta
<1>5. \A q \in Procs : HandleOK(q, h'[q], meta', log', relay', lock')
  BY <1>1, <1>2, <1>3, <1>4, OthersKeep
<1>6. Counted'
  BY <1>2 DEF IInv, Counted
<1>7. meta.cursor \in Int
  BY DEF IInv, TypeOK, Meta
<1>8. Covered(meta'.cursor, log', relay')
  BY <1>2, <1>4, <1>7, CoveredGrows DEF IInv, TypeOK
<1> QED BY <1>3, <1>5, <1>6, <1>8 DEF IInv

\* The relay stores frame f.
LEMMA RelayStep ==
  ASSUME IInv, UNCHANGED <<meta, log, torn, lock, h>>,
         NEW f \in Frames, relay' = Append(relay, f),
         f.own => f \in ToSet(log),
         ~f.own => f.n \in 1..Len(RemoteClock)
  PROVE  IInv'
<1>1. /\ relay' \in Seq(Frames)
      /\ Extends(relay, relay')
      /\ ToSet(relay') = ToSet(relay) \cup {f}
  BY AppendFacts DEF IInv, TypeOK
<1>2. TypeOK'
  BY <1>1 DEF IInv, TypeOK
<1>3. Grows(log, log') /\ meta.lamport <= meta'.lamport /\ meta.cursor \in Int
  BY DEF Grows, IInv, TypeOK, Meta
<1>4. ASSUME NEW p \in Procs PROVE HandleOK(p, h'[p], meta', log', relay', lock')
  BY <1>1, <1>3, HandleKeeps DEF IInv, TypeOK
<1>5. Counted'
  BY <1>1 DEF IInv, Counted
<1>6. ClockUnique'
  <2>1. \A g \in ToSet(log') \cup ToSet(relay') :
           g.own => g \in ToSet(log) \cup ToSet(relay)
    BY <1>1
  <2>2. \A n : Own(n).own
    BY DEF Own
  <2> QED BY <2>1, <2>2 DEF IInv, ClockUnique
<1>7. Covered(meta'.cursor, log', relay')
  BY <1>1, <1>3, CoveredGrows DEF IInv, TypeOK
<1> QED BY <1>2, <1>4, <1>5, <1>6, <1>7 DEF IInv

\* A clock above every counted one is fresh.
LEMMA FreshClock ==
  ASSUME IInv, NEW p \in Procs, NEW n \in Nat, n > meta.lamport,
         UNCHANGED <<log, relay>>,
         h'[p].clock = n, \A q \in Procs \ {p} : h'[q] = h[q]
  PROVE  ClockUnique'
<1>1. Own(n) \notin ToSet(log) \cup ToSet(relay)
  <2>1. Own(n).own /\ Own(n).n = n /\ meta.lamport \in Nat
    BY DEF Own, IInv, TypeOK, Meta
  <2> QED BY <2>1 DEF IInv, Counted
<1>2. \A q \in Procs : h[q].clock <= meta.lamport
  BY DEF IInv, HandleOK
<1>3. \A q \in Procs : h[q].clock \in Nat /\ meta.lamport \in Nat
  BY DEF IInv, TypeOK, Handle, Meta
<1>4. \A q \in Procs \ {p} : h'[q].clock = h[q].clock /\ h[q].clock # n
  BY <1>2, <1>3
<1> SUFFICES ASSUME NEW q \in Procs, h'[q].clock # 0
             PROVE  /\ Own(h'[q].clock) \notin ToSet(log) \cup ToSet(relay)
                    /\ \A r \in Procs \ {q} : h'[q].clock # h'[r].clock
  BY DEF ClockUnique, Own
<1>5. CASE q = p
  BY <1>1, <1>4, <1>5
<1>6. CASE q # p
  <2>1. h[q].clock # 0 /\ h'[q].clock = h[q].clock
    BY <1>4, <1>6
  <2>2. /\ Own(h[q].clock) \notin ToSet(log) \cup ToSet(relay)
        /\ \A r \in Procs \ {q} : h[q].clock # h[r].clock
    BY <2>1 DEF IInv, ClockUnique
  <2> QED BY <2>1, <2>2, <1>4
<1> QED BY <1>5, <1>6

\* Every action of the specification keeps the invariant.
LEMMA StepIInv == IInv /\ [Next]_vars => IInv'
<1> SUFFICES ASSUME IInv, [Next]_vars PROVE IInv'
  OBVIOUS
<1>0. CASE UNCHANGED vars
  BY <1>0 DEF vars, IInv, TypeOK, Counted, ClockUnique, Covered, HandleOK
<1>1. ASSUME NEW i \in 1..Len(RemoteClock), RemotePush(i) PROVE IInv'
  <2>1. Remote(i) \in Frames /\ ~Remote(i).own /\ Remote(i).n = i
    BY VaultStoreAssumption DEF Remote, Frames
  <2> QED BY <1>1, <2>1, RelayStep DEF RemotePush
<1>2. ASSUME NEW p \in Procs, NEW i \in 1..Len(log), PushEntry(p, i) PROVE IInv'
  <2>1. log[i] \in Frames /\ log[i] \in ToSet(log)
    BY ToSetFrames DEF IInv, TypeOK
  <2>2. ~log[i].own => log[i].n \in 1..Len(RemoteClock)
    BY <2>1 DEF IInv, Counted
  <2> QED BY <1>2, <2>1, <2>2, RelayStep DEF PushEntry
<1> SUFFICES ASSUME NEW p \in Procs,
                    \/ ReadMeta(p) \/ ReplayLog(p)
                    \/ NextClock(p) \/ AppendFrame(p) \/ SetRelayUrl(p)
                    \/ ReadLocal(p) \/ ResetSyncCursor(p) \/ Pull(p) \/ RoundFails(p)
                    \/ SkipKnown(p) \/ ApplyFrame(p) \/ ApplyMeta(p) \/ SetSyncCursor(p)
                    \/ Crash(p) \/ TornAppend(p)
             PROVE  IInv'
  BY <1>0, <1>1, <1>2 DEF Next
<1> USE DEF Unlocked, SaveMeta
<1>a. /\ h \in [Procs -> Handle] /\ h[p] \in Handle
      /\ meta \in Meta /\ log \in Seq(Frames) /\ relay \in Seq(Frames)
      /\ HandleOK(p, h[p], meta, log, relay, lock)
      /\ p # NoProc /\ torn \in BOOLEAN
  BY VaultStoreAssumption DEF IInv, TypeOK
<1>b. ToSet(log) \subseteq Frames /\ ToSet(relay) \subseteq Frames
      /\ Len(relay) \in Nat /\ \A i \in 1..Len(relay) : relay[i] \in ToSet(relay)
  BY <1>a, ToSetFrames
<1>c. /\ Closed \in Handle /\ Closed.clock = 0
      /\ \A lk : HandleOK(p, Closed, meta, log, relay, lk)
  <2>1. Closed \in Handle
    BY DEF Closed, Handle, Meta
  <2>2. Covered(0, log, relay)
    BY <1>b DEF Covered
  <2> QED BY <1>a, <2>1, <2>2 DEF Closed, HandleOK, Meta
<1>3. CASE ReadMeta(p)
  <2> DEFINE v == [h[p] EXCEPT !.pc = "replay", !.meta = meta]
  <2>1. h' = [h EXCEPT ![p] = v]
    BY <1>3, <1>a DEF ReadMeta
  <2>2. v \in Handle /\ v.clock \in {h[p].clock, 0}
    BY <1>a DEF Handle
  <2>3. HandleOK(p, v, meta, log, relay, lock)
    BY <1>a DEF HandleOK, IInv, Handle
  <2> HIDE DEF v
  <2> QED BY <1>3, <1>a, <2>1, <2>2, <2>3, HandleOnlyStep DEF ReadMeta
<1>4. CASE ReplayLog(p)
  <2> DEFINE v == IF torn THEN Closed
                  ELSE [h[p] EXCEPT !.pc = "open", !.state = ToSet(log)]
  <2>1. h' = [h EXCEPT ![p] = v]
    BY <1>4, <1>a DEF ReplayLog
  <2>2. v \in Handle /\ v.clock \in {h[p].clock, 0}
    BY <1>a, <1>b, <1>c DEF Handle
  <2>3. HandleOK(p, v, meta, log, relay, lock)
    BY <1>a, <1>c DEF HandleOK, Handle
  <2> HIDE DEF v
  <2> QED BY <1>4, <1>a, <2>1, <2>2, <2>3, HandleOnlyStep DEF ReplayLog
<1>5. CASE ReadLocal(p)
  <2> DEFINE v == IF torn THEN Closed
                  ELSE [h[p] EXCEPT !.pc = "pull", !.have = ToSet(log)]
  <2>1. h' = [h EXCEPT ![p] = v]
    BY <1>5, <1>a DEF ReadLocal
  <2>2. v \in Handle /\ v.clock \in {h[p].clock, 0}
    BY <1>a, <1>b, <1>c DEF Handle
  <2>3. HandleOK(p, v, meta, log, relay, lock)
    BY <1>a, <1>c DEF HandleOK, Handle
  <2> HIDE DEF v
  <2> QED BY <1>5, <1>a, <2>1, <2>2, <2>3, HandleOnlyStep DEF ReadLocal
<1>6. CASE RoundFails(p)
  <2> DEFINE v == [h[p] EXCEPT !.pc = "idle", !.have = {}]
  <2>1. h' = [h EXCEPT ![p] = v]
    BY <1>6, <1>a DEF RoundFails
  <2>2. v \in Handle /\ v.clock \in {h[p].clock, 0}
    BY <1>a DEF Handle
  <2>3. HandleOK(p, v, meta, log, relay, lock)
    BY <1>a DEF HandleOK, Handle
  <2> HIDE DEF v
  <2> QED BY <1>6, <1>a, <2>1, <2>2, <2>3, HandleOnlyStep DEF RoundFails
<1>7. CASE Pull(p)
  <2> DEFINE v == [h[p] EXCEPT !.pc = "apply", !.since = h[p].meta.cursor,
                               !.next = h[p].meta.cursor + 1,
                               !.head = MaxOf(Len(relay), h[p].meta.cursor)]
  <2>1. h' = [h EXCEPT ![p] = v]
    BY <1>7, <1>a DEF Pull
  <2>2. v \in Handle /\ v.clock \in {h[p].clock, 0}
    <3>1. /\ h[p].meta.cursor \in Nat /\ h[p].meta.cursor + 1 \in Nat
          /\ MaxOf(Len(relay), h[p].meta.cursor) \in Nat
      BY <1>a, <1>b DEF Handle, MaxOf, Meta
    <3> QED BY <1>a, <3>1 DEF Handle
  <2>3. h[p].meta.cursor \in Nat /\ Covered(h[p].meta.cursor, log, relay)
    BY <1>a DEF HandleOK, Handle, Meta
  <2>4. v.next - 1 = h[p].meta.cursor /\ v.next >= 1 /\ v.head = Len(relay)
    BY <1>a, <1>b, <2>3 DEF Handle, MaxOf, Covered
  <2>5. HandleOK(p, v, meta, log, relay, lock)
    BY <1>a, <1>b, <2>3, <2>4 DEF HandleOK, Handle
  <2> HIDE DEF v
  <2> QED BY <1>7, <1>a, <2>1, <2>2, <2>5, HandleOnlyStep DEF Pull
<1>8. CASE SkipKnown(p)
  <2> DEFINE v == [h[p] EXCEPT !.next = @ + 1]
  <2>1. h' = [h EXCEPT ![p] = v]
    BY <1>8, <1>a DEF SkipKnown
  <2>2. v \in Handle /\ v.clock \in {h[p].clock, 0}
    <3>1. h[p].next + 1 \in Nat
      BY <1>a DEF Handle
    <3> QED BY <1>a, <3>1 DEF Handle
  <2>3. Covered(h[p].next, log, relay)
    BY <1>8, <1>a, <1>b DEF SkipKnown, HandleOK, Covered, Handle
  <2>4. v.next - 1 = h[p].next /\ v.next >= 1
    BY <1>a DEF Handle
  <2>5. HandleOK(p, v, meta, log, relay, lock)
    BY <1>8, <1>a, <2>3, <2>4 DEF HandleOK, Handle, SkipKnown
  <2> HIDE DEF v
  <2> QED BY <1>8, <1>a, <2>1, <2>2, <2>5, HandleOnlyStep DEF SkipKnown
<1>9. CASE Crash(p)
  <2>1. lock' = lock \/ (lock = p /\ lock' = NoProc)
    BY <1>9 DEF Crash
  <2> QED BY <1>9, <1>a, <1>c, <2>1, HandleOnlyStep DEF Crash
<1>10. CASE TornAppend(p)
  <2>1. torn' \in BOOLEAN
    BY <1>10 DEF TornAppend
  <2> QED BY <1>10, <1>a, <1>c, <2>1, HandleOnlyStep DEF TornAppend
<1>11. CASE NextClock(p)
  <2> DEFINE m == [Absorbed(p) EXCEPT !.lamport = @ + 1]
             v == [h[p] EXCEPT !.pc = "clocked", !.meta = m, !.clock = m.lamport]
  <2>0. /\ Absorbed(p) \in Meta /\ Absorbed(p).lamport >= meta.lamport
        /\ Absorbed(p).cursor \in {meta.cursor, h[p].meta.cursor}
    BY AbsorbedFacts DEF IInv
  <2>1. m \in Meta /\ m.lamport \in Nat /\ m.lamport > meta.lamport
        /\ m.cursor \in {meta.cursor, h[p].meta.cursor}
    BY <1>a, <2>0 DEF Meta
  <2>2. meta' = m /\ lock = NoProc /\ h[p].pc = "open"
    BY <1>11 DEF NextClock
  <2>3. Covered(m.cursor, log, relay)
    BY <1>a, <2>1 DEF HandleOK, IInv
  <2>4a. h' = [h EXCEPT ![p].pc = "clocked", ![p].meta = m, ![p].clock = m.lamport]
    BY <1>11 DEF NextClock
  <2> HIDE DEF m
  <2>4. h' = [h EXCEPT ![p] = v]
    BY <1>a, <2>4a
  <2>5. v \in Handle /\ v.clock = m.lamport
    BY <1>a, <2>1 DEF Handle
  <2>6. HandleOK(p, v, m, log, relay, lock)
    BY <1>a, <2>1, <2>3, <2>5 DEF HandleOK, Handle
  <2> HIDE DEF v
  <2>7. h'[p].clock = m.lamport /\ \A q \in Procs \ {p} : h'[q] = h[q]
    BY <1>a, <2>4, <2>5
  <2>8. ClockUnique'
    BY <1>11, <2>1, <2>7, FreshClock DEF NextClock
  <2>9. meta.lamport <= m.lamport
    BY <1>a, <2>1 DEF Meta
  <2> QED BY <1>11, <2>1, <2>2, <2>3, <2>4, <2>5, <2>6, <2>8, <2>9, MetaStep DEF NextClock
<1>12. CASE ResetSyncCursor(p)
  <2> DEFINE m == [Absorbed(p) EXCEPT !.cursor = 0]
             v == [h[p] EXCEPT !.meta = m]
  <2>0. Absorbed(p) \in Meta /\ Absorbed(p).lamport >= meta.lamport
    BY AbsorbedFacts DEF IInv
  <2>1. m \in Meta /\ m.lamport >= meta.lamport /\ m.cursor = 0
    BY <1>a, <2>0 DEF Meta
  <2>2. meta' = m /\ lock = NoProc /\ h[p].pc = "pull"
    BY <1>12 DEF ResetSyncCursor, Pushed
  <2>3. Covered(m.cursor, log, relay)
    BY <1>b, <2>1 DEF Covered
  <2>4. h' = [h EXCEPT ![p] = v]
    BY <1>12, <1>a DEF ResetSyncCursor
  <2> HIDE DEF m
  <2>5. v \in Handle /\ v.clock = h[p].clock
    BY <1>a, <2>1 DEF Handle
  <2>9. meta.lamport <= m.lamport
    BY <1>a, <2>1 DEF Meta
  <2>6. HandleOK(p, v, m, log, relay, lock)
    BY <1>a, <2>1, <2>2, <2>3, <2>5, <2>9 DEF HandleOK, Handle, Meta
  <2> HIDE DEF v
  <2>7. h'[p].clock \in {h[p].clock, 0} /\ \A q \in Procs \ {p} : h'[q] = h[q]
    BY <1>a, <2>4, <2>5
  <2>8. ClockUnique'
    BY <1>12, <2>7, UniqueKeeps DEF ResetSyncCursor, IInv
  <2> QED BY <1>12, <2>1, <2>2, <2>3, <2>4, <2>5, <2>6, <2>8, <2>9, MetaStep DEF ResetSyncCursor
<1>13. CASE SetSyncCursor(p)
  <2> DEFINE m == [Absorbed(p) EXCEPT !.cursor = MaxOf(@, h[p].head)]
             v == [h[p] EXCEPT !.pc = "idle", !.meta = m, !.have = {},
                               !.since = 0, !.next = 0, !.head = 0]
  <2>0. /\ Absorbed(p) \in Meta /\ Absorbed(p).lamport >= meta.lamport
        /\ Absorbed(p).cursor \in {meta.cursor, h[p].meta.cursor}
    BY AbsorbedFacts DEF IInv
  <2>1. /\ m \in Meta /\ m.lamport >= meta.lamport
        /\ m.cursor \in {meta.cursor, h[p].meta.cursor, h[p].head}
    BY <1>a, <2>0 DEF Meta, MaxOf, Handle
  <2>2. /\ meta' = m /\ lock = NoProc /\ h[p].pc = "apply"
        /\ h[p].next > h[p].head
    BY <1>13 DEF SetSyncCursor
  <2>3. Covered(h[p].head, log, relay)
    BY <1>a, <1>b, <2>2 DEF HandleOK, Covered, Handle
  <2>4. Covered(m.cursor, log, relay)
    BY <1>a, <2>1, <2>3 DEF HandleOK, IInv
  <2>5. h' = [h EXCEPT ![p] = v]
    BY <1>13, <1>a DEF SetSyncCursor
  <2> HIDE DEF m
  <2>6. v \in Handle /\ v.clock = h[p].clock
    BY <1>a, <2>1 DEF Handle
  <2>7. meta.lamport <= m.lamport
    BY <1>a, <2>1 DEF Meta
  <2>8. HandleOK(p, v, m, log, relay, lock)
    BY <1>a, <2>1, <2>4, <2>6, <2>7 DEF HandleOK, Handle, Meta
  <2> HIDE DEF v
  <2>9. h'[p].clock \in {h[p].clock, 0} /\ \A q \in Procs \ {p} : h'[q] = h[q]
    BY <1>a, <2>5, <2>6
  <2>10. ClockUnique'
    BY <1>13, <2>9, UniqueKeeps DEF SetSyncCursor, IInv
  <2> QED BY <1>13, <2>1, <2>2, <2>4, <2>5, <2>6, <2>7, <2>8, <2>10, MetaStep DEF SetSyncCursor
<1>14. CASE ApplyMeta(p)
  <2> DEFINE f == relay[h[p].next]
             m == [h[p].meta EXCEPT !.lamport = MaxOf(@, LamportOf(f))]
             v == [h[p] EXCEPT !.pc = "apply", !.meta = m,
                               !.state = @ \cup {f}, !.next = @ + 1]
  <2>1. /\ h[p].pc = "applied" /\ lock = p /\ meta' = m /\ lock' = NoProc
        /\ UNCHANGED <<log, torn, relay>>
    BY <1>14, <1>a DEF ApplyMeta, HandleOK
  <2>2. /\ h[p].next \in Nat /\ h[p].next >= 1 /\ h[p].next <= Len(relay)
        /\ meta.lamport <= h[p].meta.lamport /\ meta.cursor <= h[p].meta.cursor
        /\ f \in ToSet(log) /\ Covered(h[p].next - 1, log, relay)
        /\ Covered(h[p].meta.cursor, log, relay)
    BY <1>a, <2>1 DEF HandleOK, Handle
  <2>3. f \in Frames /\ LamportOf(f) \in Nat
    <3>1. f \in Frames
      BY <1>b, <2>2
    <3>2. CASE f.own
      BY <3>1, <3>2 DEF LamportOf, Frames
    <3>3. CASE ~f.own
      <4>1. f.n \in 1..Len(RemoteClock)
        BY <2>2, <3>3 DEF IInv, Counted
      <4> HIDE DEF f
      <4>2. RemoteClock[f.n] \in Nat
        BY <4>1, VaultStoreAssumption
      <4> QED BY <3>1, <3>3, <4>2 DEF LamportOf
    <3> QED BY <3>1, <3>2, <3>3
  <2>4. h' = [h EXCEPT ![p] = v]
    BY <1>14, <1>a DEF ApplyMeta
  <2>5. Covered(h[p].next, log, relay)
    BY <1>b, <2>2 DEF Covered
  <2> HIDE DEF f
  <2>6. m \in Meta /\ m.lamport >= h[p].meta.lamport /\ m.cursor = h[p].meta.cursor
    <3> DEFINE k == MaxOf(h[p].meta.lamport, LamportOf(f))
    <3>1. h[p].meta \in Meta /\ h[p].meta.lamport \in Nat
      BY <1>a DEF Handle, Meta
    <3>2. k \in Nat /\ k >= h[p].meta.lamport
      BY <2>3, <3>1 DEF MaxOf
    <3>3. m = [h[p].meta EXCEPT !.lamport = k]
      OBVIOUS
    <3> HIDE DEF k, m
    <3> QED BY <3>1, <3>2, <3>3 DEF Meta
  <2> HIDE DEF m
  <2>7. meta.lamport <= m.lamport
    BY <1>a, <2>2, <2>6 DEF Meta, Handle
  <2>8. v \in Handle /\ v.clock = h[p].clock /\ v.next = h[p].next + 1 /\ v.pc = "apply"
        /\ v.meta = m /\ v.state = h[p].state \cup {f} /\ v.have = h[p].have
        /\ v.head = h[p].head
    <3>1. h[p].next + 1 \in Nat /\ h[p].state \cup {f} \in SUBSET Frames
      BY <1>a, <2>2, <2>3 DEF Handle
    <3> QED BY <1>a, <2>6, <3>1 DEF Handle
  <2> HIDE DEF v
  <2>9. HandleOK(p, v, m, log, relay, NoProc)
    <3>1. v.clock <= m.lamport
      BY <1>a, <2>7, <2>8, <2>6 DEF HandleOK, Handle, Meta
    <3>2. v.next - 1 = h[p].next /\ v.next >= 1
      BY <2>2, <2>8
    <3> QED BY <1>a, <2>1, <2>2, <2>5, <2>6, <2>8, <3>1, <3>2 DEF HandleOK
  <2>10. h' \in [Procs -> Handle] /\ h'[p] = v /\ \A q \in Procs \ {p} : h'[q] = h[q]
    BY <1>a, <2>4, <2>8
  <2>11. TypeOK'
    BY <2>1, <2>6, <2>10 DEF IInv, TypeOK
  <2>12. Grows(log, log') /\ Extends(relay, relay')
    BY <1>a, <2>1 DEF Grows, Extends
  <2>13. \A q \in Procs : HandleOK(q, h'[q], meta', log', relay', lock')
    BY <2>1, <2>7, <2>9, <2>10, <2>11, <2>12, OthersKeep
  <2>14. ClockUnique'
    BY <2>1, <2>8, <2>10, UniqueKeeps DEF IInv
  <2>15. Counted'
    <3>1. m.lamport \in Nat /\ meta.lamport \in Nat
      BY <1>a, <2>6 DEF Meta
    <3> QED BY <1>b, <2>1, <2>7, <3>1 DEF IInv, Counted, Frames
  <2>16. Covered(meta'.cursor, log', relay')
    BY <2>1, <2>2, <2>6
  <2> QED BY <2>11, <2>13, <2>14, <2>15, <2>16 DEF IInv
<1>15. CASE AppendFrame(p)
  <2> DEFINE f == Own(h[p].clock)
             v == [h[p] EXCEPT !.pc = "open", !.clock = 0, !.state = @ \cup {f}]
  <2>1. /\ h[p].pc = "clocked" /\ lock = NoProc /\ log' = Append(log, f)
        /\ UNCHANGED <<meta, torn, lock, relay>>
    BY <1>15 DEF AppendFrame
  <2>2. f \in Frames /\ f.own /\ f.n = h[p].clock /\ h[p].clock <= meta.lamport
    BY <1>a DEF Own, Frames, Handle, HandleOK
  <2>3. h' = [h EXCEPT ![p] = v]
    BY <1>15, <1>a DEF AppendFrame
  <2>4. /\ log' \in Seq(Frames) /\ Grows(log, log')
        /\ ToSet(log') = ToSet(log) \cup {f}
    BY <1>a, <2>1, <2>2, AppendFacts
  <2>5. \A n : Own(n) = f => n = h[p].clock
    BY DEF Own
  <2> HIDE DEF f
  <2>6. v \in Handle /\ v.clock = 0 /\ v.pc = "open" /\ v.meta = h[p].meta
        /\ v.state = h[p].state \cup {f} /\ v.have = h[p].have
    BY <1>a, <2>2 DEF Handle
  <2> HIDE DEF v
  <2>7. Extends(relay, relay) /\ h[p].meta.cursor \in Int
    BY <1>a, <1>b DEF Extends, Handle, Meta
  <2>8. Covered(h[p].meta.cursor, log', relay)
    BY <1>a, <2>4, <2>7, CoveredGrows DEF HandleOK
  <2>9. HandleOK(p, v, meta, log', relay, lock')
    BY <1>a, <2>4, <2>6, <2>8 DEF HandleOK, Grows, Meta
  <2>10. h'[p].clock = 0 /\ \A q \in Procs \ {p} : h'[q] = h[q]
    BY <1>a, <2>3, <2>6
  <2>11. ClockUnique'
    <3> SUFFICES ASSUME NEW q \in Procs, h'[q].clock # 0
                 PROVE  /\ Own(h'[q].clock) \notin ToSet(log') \cup ToSet(relay')
                        /\ \A r \in Procs \ {q} : h'[q].clock # h'[r].clock
      BY DEF ClockUnique, Own
    <3>1. q # p /\ h'[q] = h[q] /\ h[q].clock # 0
      BY <2>10
    <3>2. /\ Own(h[q].clock) \notin ToSet(log) \cup ToSet(relay)
          /\ \A r \in Procs \ {q} : h[q].clock # h[r].clock
      BY <3>1 DEF IInv, ClockUnique
    <3>3. Own(h[q].clock) # f
      BY <2>5, <3>1, <3>2
    <3> QED BY <2>1, <2>4, <2>10, <3>1, <3>2, <3>3
  <2> QED BY <2>1, <2>2, <2>3, <2>6, <2>9, <2>11, LogStep
<1>16. CASE ApplyFrame(p)
  <2> DEFINE f == relay[h[p].next]
             v == [h[p] EXCEPT !.pc = "applied", !.meta = Absorbed(p)]
  <2>1. /\ h[p].pc = "apply" /\ h[p].next <= h[p].head /\ lock = NoProc /\ lock' = p
        /\ log' = Append(log, f) /\ UNCHANGED <<meta, torn, relay>>
    BY <1>16 DEF ApplyFrame, ToApply
  <2>2. /\ h[p].next \in Nat /\ h[p].next >= 1 /\ h[p].next <= Len(relay)
        /\ h[p].head <= Len(relay) /\ Covered(h[p].next - 1, log, relay)
    BY <1>a, <1>b, <2>1 DEF HandleOK, Handle
  <2>3. f \in ToSet(relay) /\ f \in Frames
    BY <1>b, <2>2
  <2>4. (f.own => f.n <= meta.lamport) /\ (~f.own => f.n \in 1..Len(RemoteClock))
    BY <2>3 DEF IInv, Counted
  <2>5. h' = [h EXCEPT ![p] = v]
    BY <1>16, <1>a DEF ApplyFrame
  <2>6. /\ log' \in Seq(Frames) /\ Grows(log, log')
        /\ ToSet(log') = ToSet(log) \cup {f}
    BY <1>a, <2>1, <2>3, AppendFacts
  <2>7. /\ Absorbed(p) \in Meta /\ Absorbed(p).lamport >= meta.lamport
        /\ Absorbed(p).cursor >= meta.cursor
        /\ Absorbed(p).cursor \in {meta.cursor, h[p].meta.cursor}
    BY AbsorbedFacts DEF IInv
  <2>8. v \in Handle /\ v.clock = h[p].clock /\ v.pc = "applied" /\ v.meta = Absorbed(p)
        /\ v.state = h[p].state /\ v.have = h[p].have
        /\ v.next = h[p].next /\ v.head = h[p].head
    BY <1>a, <2>7 DEF Handle
  <2> HIDE DEF v
  <2>9. Extends(relay, relay) /\ v.meta.cursor \in Int /\ v.next - 1 \in Int
    BY <1>b, <2>2, <2>7, <2>8 DEF Extends, Meta
  <2>10. Covered(v.meta.cursor, log, relay)
    BY <1>a, <2>7, <2>8 DEF IInv, HandleOK
  <2>11. Covered(v.meta.cursor, log', relay) /\ Covered(v.next - 1, log', relay)
    BY <1>a, <2>2, <2>6, <2>8, <2>9, <2>10, CoveredGrows
  <2>12. meta.lamport <= v.meta.lamport /\ meta.cursor <= v.meta.cursor
    BY <1>a, <2>7, <2>8 DEF Meta
  <2>13. HandleOK(p, v, meta, log', relay, lock')
    BY <1>a, <2>1, <2>2, <2>6, <2>8, <2>11, <2>12 DEF HandleOK, Grows
  <2>14. h'[p].clock \in {h[p].clock, 0} /\ \A q \in Procs \ {p} : h'[q] = h[q]
    BY <1>a, <2>5, <2>8
  <2>15. ClockUnique'
    BY <2>1, <2>3, <2>6, <2>14, UniqueKeeps DEF IInv
  <2> HIDE DEF f
  <2> QED BY <2>1, <2>3, <2>4, <2>5, <2>8, <2>13, <2>15, LogStep
<1>17. CASE SetRelayUrl(p)
  <2> DEFINE m == Absorbed(p)
             v == [h[p] EXCEPT !.meta = m]
  <2>1. /\ m \in Meta /\ m.lamport >= meta.lamport
        /\ m.cursor \in {meta.cursor, h[p].meta.cursor}
    BY AbsorbedFacts DEF IInv
  <2>2. meta' = m /\ lock = NoProc /\ h[p].pc = "open"
    BY <1>17 DEF SetRelayUrl, SaveMeta, Unlocked
  <2>3. Covered(m.cursor, log, relay)
    BY <1>a, <2>1 DEF HandleOK, IInv
  <2>4. h' = [h EXCEPT ![p] = v]
    BY <1>17, <1>a DEF SetRelayUrl
  <2> HIDE DEF m
  <2>5. v \in Handle /\ v.clock = h[p].clock
    BY <1>a, <2>1 DEF Handle
  <2>9. meta.lamport <= m.lamport
    BY <1>a, <2>1 DEF Meta
  <2>6. HandleOK(p, v, m, log, relay, lock)
    BY <1>a, <2>1, <2>2, <2>3, <2>5, <2>9 DEF HandleOK, Handle, Meta
  <2> HIDE DEF v
  <2>7. h'[p].clock \in {h[p].clock, 0} /\ \A q \in Procs \ {p} : h'[q] = h[q]
    BY <1>a, <2>4, <2>5
  <2>8. ClockUnique'
    BY <1>17, <2>7, UniqueKeeps DEF SetRelayUrl, IInv
  <2> QED BY <1>17, <2>1, <2>2, <2>3, <2>4, <2>5, <2>6, <2>8, <2>9, MetaStep DEF SetRelayUrl
<1> QED BY <1>3, <1>4, <1>5, <1>6, <1>7, <1>8, <1>9, <1>10, <1>11, <1>12, <1>13,
           <1>14, <1>15, <1>16, <1>17

----------------------------------------------------------------------------
(* The theorems *)

\* The invariant holds in every reachable state.
LEMMA SpecIInv == Spec => []IInv
BY InitIInv, StepIInv, PTL DEF Spec

\* Every file and every handle keeps its type, whatever the processes do.
THEOREM VaultStoreTypeOK == Spec => []TypeOK
<1>1. IInv => TypeOK
  BY DEF IInv
<1> QED BY <1>1, SpecIInv, PTL

\* next_clock persists before use and absorbs the disk first: for any number of
\* processes and crashes no two mutations of a device bear the same clock, the
\* premise on which merge converges.
THEOREM NoClockReuse == Spec => []ClockUnique
<1>1. IInv => ClockUnique
  BY DEF IInv
<1> QED BY <1>1, SpecIInv, PTL

\* sync_once applies before it sets the cursor: for any interleaving of rounds
\* of several processes and any crash, the cursor on disk covers only entries
\* that are in the log.
THEOREM NothingSkipped == Spec => []CursorCovered
<1>1. IInv => CursorCovered
  BY DEF IInv, Covered, CursorCovered
<1> QED BY <1>1, SpecIInv, PTL

\* append and apply_remote_entry write the frame before they merge the record:
\* what any process shows is in log.bin.
THEOREM ShownIsDurable == Spec => []StateIsDurable
<1>1. IInv => StateIsDurable
  BY DEF IInv, HandleOK, StateIsDurable
<1> QED BY <1>1, SpecIInv, PTL

\* absorb_disk_meta, in every writer of meta.json, and the lock held across the
\* two halves of apply_remote_entry: no stale handle takes the counter on disk
\* back, and only reset_sync_cursor takes the cursor back.
THEOREM NoRollBack == Spec => CountersNeverRollBack
<1> DEFINE A == /\ meta'.lamport >= meta.lamport
                /\ meta'.cursor < meta.cursor => \E p \in Procs : ResetSyncCursor(p)
<1>1. ASSUME IInv, Next PROVE A
  <2>1. meta \in Meta /\ meta.lamport \in Nat /\ meta.cursor \in Nat
    BY <1>1 DEF IInv, TypeOK, Meta
  <2>2. CASE meta' = meta
    BY <2>1, <2>2
  <2>3. ASSUME NEW p \in Procs, NextClock(p) PROVE A
    <3>1. /\ Absorbed(p) \in Meta /\ Absorbed(p).lamport >= meta.lamport
          /\ Absorbed(p).cursor >= meta.cursor
      BY <1>1, AbsorbedFacts DEF IInv
    <3>2. meta' = [Absorbed(p) EXCEPT !.lamport = @ + 1]
      BY <2>3 DEF NextClock, SaveMeta
    <3> QED BY <2>1, <3>1, <3>2 DEF Meta
  <2>4. ASSUME NEW p \in Procs, ResetSyncCursor(p) PROVE A
    <3>1. Absorbed(p) \in Meta /\ Absorbed(p).lamport >= meta.lamport
      BY <1>1, AbsorbedFacts DEF IInv
    <3>2. meta' = [Absorbed(p) EXCEPT !.cursor = 0]
      BY <2>4 DEF ResetSyncCursor, SaveMeta
    <3>3. meta'.lamport >= meta.lamport
      BY <2>1, <3>1, <3>2 DEF Meta
    <3> QED BY <2>4, <3>3
  <2>5. ASSUME NEW p \in Procs, SetSyncCursor(p) PROVE A
    <3>1. /\ Absorbed(p) \in Meta /\ Absorbed(p).lamport >= meta.lamport
          /\ Absorbed(p).cursor >= meta.cursor
      BY <1>1, AbsorbedFacts DEF IInv
    <3>2. meta' = [Absorbed(p) EXCEPT !.cursor = MaxOf(@, h[p].head)]
      BY <2>5 DEF SetSyncCursor, SaveMeta
    <3>3. h[p].head \in Nat
      BY <1>1 DEF IInv, TypeOK, Handle
    <3> QED BY <2>1, <3>1, <3>2, <3>3 DEF Meta, MaxOf
  <2>6. ASSUME NEW p \in Procs, ApplyMeta(p) PROVE A
    <3> DEFINE k == MaxOf(h[p].meta.lamport, LamportOf(relay[h[p].next]))
    <3>1. h[p].pc = "applied" /\ meta' = [h[p].meta EXCEPT !.lamport = k]
      BY <2>6 DEF ApplyMeta, SaveMeta
    <3>2. /\ h[p].meta \in Meta
          /\ meta.lamport <= h[p].meta.lamport /\ meta.cursor <= h[p].meta.cursor
      BY <1>1, <3>1 DEF IInv, TypeOK, HandleOK, Handle
    <3>3. meta'.lamport = k /\ meta'.cursor = h[p].meta.cursor
      BY <3>1, <3>2 DEF Meta
    <3>4. meta' \in Meta
      BY <1>1, <2>6, StepIInv DEF IInv, TypeOK
    <3>5. k >= h[p].meta.lamport
      BY <3>2, <3>3, <3>4 DEF MaxOf, Meta
    <3> HIDE DEF k
    <3> QED BY <2>1, <3>2, <3>3, <3>4, <3>5 DEF Meta
  <2>7. ASSUME NEW p \in Procs, SetRelayUrl(p) PROVE A
    <3>1. /\ Absorbed(p) \in Meta /\ Absorbed(p).lamport >= meta.lamport
          /\ Absorbed(p).cursor >= meta.cursor
      BY <1>1, AbsorbedFacts DEF IInv
    <3> QED BY <2>1, <2>7, <3>1 DEF Meta, SetRelayUrl, SaveMeta
  <2> HIDE DEF A
  <2> QED BY <1>1, <2>2, <2>3, <2>4, <2>5, <2>6, <2>7
        DEF Next, RemotePush, PushEntry, ReadMeta, ReplayLog, AppendFrame, ReadLocal,
            Pull, RoundFails, SkipKnown, ApplyFrame, Crash, TornAppend
<1>2. IInv /\ [Next]_vars => [A]_vars
  BY <1>1
<1> QED BY <1>2, SpecIInv, PTL DEF Spec, CountersNeverRollBack
=============================================================================
