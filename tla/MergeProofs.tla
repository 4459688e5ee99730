---------------------------- MODULE MergeProofs ----------------------------
(***************************************************************************)
(* What merge.rs promises of merge ("joins are commutative, associative    *)
(* and idempotent by construction"), proved for every set of devices,      *)
(* names and values, and the description of a fold as a least upper bound  *)
(* that the convergence proof of ReplicasProofs rests on.                  *)
(***************************************************************************)
EXTENDS Merge, TLAPS

\* A clock is its counter and its device, and is determined by them.
LEMMA ClockParts ==
  ASSUME NEW c \in Clock
  PROVE  /\ c.lamport \in Nat /\ c.device \in Nat
         /\ c = [lamport |-> c.lamport, device |-> c.device]
  BY DevicesAssumption DEF Clock

\* Clock derives a total order: of two clocks one is less, or they are equal.
LEMMA ClockLessTrichotomy ==
  ASSUME NEW c \in Clock, NEW d \in Clock
  PROVE  /\ ClockLess(c, d) \/ ClockLess(d, c) \/ c = d
         /\ ~(ClockLess(c, d) /\ ClockLess(d, c))
         /\ ~ClockLess(c, c)
  BY ClockParts DEF ClockLess

\* The order of clocks is transitive.
LEMMA ClockLessTransitive ==
  ASSUME NEW c \in Clock, NEW d \in Clock, NEW e \in Clock
  PROVE  /\ ClockLess(c, d) /\ ClockLess(d, e) => ClockLess(c, e)
         /\ ~ClockLess(c, d) /\ ~ClockLess(d, e) => ~ClockLess(c, e)
  BY ClockParts DEF ClockLess

\* The order of optional clocks, as deleted_at is compared in merge, is total
\* and transitive.
LEMMA OptClockLessOrder ==
  ASSUME NEW c \in Clock \cup {None}, NEW d \in Clock \cup {None},
         NEW e \in Clock \cup {None}
  PROVE  /\ OptClockLess(c, d) \/ OptClockLess(d, c) \/ c = d
         /\ ~(OptClockLess(c, d) /\ OptClockLess(d, c))
         /\ ~OptClockLess(c, d) /\ ~OptClockLess(d, e) => ~OptClockLess(c, e)
  BY ClockLessTrichotomy, ClockLessTransitive, NoneAssumption DEF OptClockLess

\* merge of two records is a record.
LEMMA MergeType ==
  ASSUME NEW a \in Record, NEW b \in Record
  PROVE  Merge(a, b) \in Record
  <1>1. MergeFields(a.fields, b.fields) \in FieldMap
    BY DEF MergeFields, FieldMap, Record
  <1>2. MergeKind(a.kind, b.kind) \in Kinds
    BY DEF MergeKind, Record
  <1>3. MergeDeleted(a.deleted_at, b.deleted_at) \in Clock \cup {None}
    BY DEF MergeDeleted, Record
  <1>4. Newer(a, b).clock \in Clock /\ Newer(a, b).share_id \in Shares
    BY DEF Newer, Record
  <1> QED BY <1>1, <1>2, <1>3, <1>4 DEF Merge, Record

----------------------------------------------------------------------------
(* The semilattice laws *)

\* Two snapshots agree when a clock names one write in them: a field both
\* have with the same clock is the same field, and equal snapshot clocks come
\* with equal headers.
Agree(a, b) ==
  /\ a.id = b.id
  /\ \A n \in Names : (/\ a.fields[n] # None /\ b.fields[n] # None
                       /\ a.fields[n].clock = b.fields[n].clock)
                      => a.fields[n] = b.fields[n]
  /\ a.clock = b.clock => a.share_id = b.share_id

\* Two records with the same parts are the same record.
LEMMA RecordEqual ==
  ASSUME NEW a \in Record, NEW b \in Record,
         a.id = b.id, a.kind = b.kind,
         \A n \in Names : a.fields[n] = b.fields[n],
         a.deleted_at = b.deleted_at, a.clock = b.clock,
         a.share_id = b.share_id
  PROVE  a = b
  <1>1. a.fields = b.fields
    BY DEF Record, FieldMap
  <1> QED BY <1>1 DEF Record

\* merge.rs, merge: merging a snapshot with itself changes nothing, so that a
\* frame applied twice is harmless.
THEOREM MergeIdempotent ==
  ASSUME NEW a \in Record
  PROVE  Merge(a, a) = a
  <1>1. Merge(a, a) \in Record
    BY MergeType
  <1>2. \A n \in Names : Merge(a, a).fields[n] = a.fields[n]
    BY DEF Merge, MergeFields
  <1> QED BY <1>1, <1>2, RecordEqual
          DEF Merge, MergeKind, MergeDeleted, Newer

\* merge.rs, merge: the order in which two snapshots arrive does not matter,
\* given that a clock names one write.
THEOREM MergeCommutative ==
  ASSUME NEW a \in Record, NEW b \in Record, Agree(a, b)
  PROVE  Merge(a, b) = Merge(b, a)
  <1>1. Merge(a, b) \in Record /\ Merge(b, a) \in Record
    BY MergeType
  <1>2. ASSUME NEW n \in Names
        PROVE  Merge(a, b).fields[n] = Merge(b, a).fields[n]
    <2>1. a.fields[n] \in Field \cup {None} /\ b.fields[n] \in Field \cup {None}
      BY DEF Record, FieldMap
    <2> QED BY <2>1, ClockLessTrichotomy, NoneAssumption
            DEF Merge, MergeFields, Agree, Field
  <1>3. Merge(a, b).kind = Merge(b, a).kind
    BY DEF Merge, MergeKind, Record, Kinds
  <1>4. Merge(a, b).deleted_at = Merge(b, a).deleted_at
    BY OptClockLessOrder DEF Merge, MergeDeleted, Record
  <1>5. /\ Merge(a, b).clock = Merge(b, a).clock
        /\ Merge(a, b).share_id = Merge(b, a).share_id
    <2>1. a.clock \in Clock /\ b.clock \in Clock
      BY DEF Record
    <2> QED BY <2>1, ClockLessTrichotomy DEF Merge, Newer, Agree
  <1>6. Merge(a, b).id = Merge(b, a).id
    BY DEF Merge, Agree
  <1> QED BY <1>1, <1>2, <1>3, <1>4, <1>5, <1>6, RecordEqual

\* merge.rs, merge: snapshots may be folded in any grouping, so that a fold
\* seeded from an earlier fold equals the fold of everything.
THEOREM MergeAssociative ==
  ASSUME NEW a \in Record, NEW b \in Record, NEW c \in Record
  PROVE  Merge(Merge(a, b), c) = Merge(a, Merge(b, c))
  <1> DEFINE l == Merge(Merge(a, b), c)
             r == Merge(a, Merge(b, c))
  <1>1. l \in Record /\ r \in Record
    BY MergeType
  <1>2. ASSUME NEW n \in Names
        PROVE  l.fields[n] = r.fields[n]
    <2>1. /\ a.fields[n] \in Field \cup {None}
          /\ b.fields[n] \in Field \cup {None}
          /\ c.fields[n] \in Field \cup {None}
      BY DEF Record, FieldMap
    <2> QED BY <2>1, ClockLessTrichotomy, ClockLessTransitive, NoneAssumption
            DEF Merge, MergeFields, Field
  <1>3. l.kind = r.kind
    BY DEF Merge, MergeKind, Record, Kinds
  <1>4. l.deleted_at = r.deleted_at
    BY OptClockLessOrder, NoneAssumption, ClockLessTransitive, ClockLessTrichotomy
       DEF Merge, MergeDeleted, Record, OptClockLess
  <1>5. l.clock = r.clock /\ l.share_id = r.share_id
    <2>1. a.clock \in Clock /\ b.clock \in Clock /\ c.clock \in Clock
      BY DEF Record
    <2> QED BY <2>1, ClockLessTrichotomy, ClockLessTransitive DEF Merge, Newer
  <1>6. l.id = r.id
    BY DEF Merge
  <1> HIDE DEF l, r
  <1>7. l = r
    BY <1>1, <1>2, <1>3, <1>4, <1>5, <1>6, RecordEqual
  <1> QED BY <1>7 DEF l, r

----------------------------------------------------------------------------
(* A fold as a least upper bound *)

\* s is the join of a set E of snapshots of one record: every component of s
\* occurs in E (clock and share in one and the same snapshot) and is not less
\* than that component of any snapshot of E.
IsJoin(s, E) ==
  /\ s \in Record
  /\ \A r \in E : r.id = s.id
  /\ \E r \in E : s.kind = r.kind
  /\ \A r \in E : r.kind <= s.kind
  /\ \E r \in E : s.deleted_at = r.deleted_at
  /\ \A r \in E : ~OptClockLess(s.deleted_at, r.deleted_at)
  /\ \E r \in E : s.clock = r.clock /\ s.share_id = r.share_id
  /\ \A r \in E : ~ClockLess(s.clock, r.clock)
  /\ \A n \in Names : \E r \in E : s.fields[n] = r.fields[n]
  /\ \A n \in Names : \A r \in E :
       r.fields[n] # None =>
         /\ s.fields[n] # None
         /\ ~ClockLess(s.fields[n].clock, r.fields[n].clock)

\* Inserting under a vacant id: a snapshot is the join of itself.
LEMMA JoinSingle ==
  ASSUME NEW r \in Record
  PROVE  IsJoin(r, {r})
  <1>1. r.clock \in Clock /\ r.deleted_at \in Clock \cup {None} /\ r.kind \in Int
    BY DEF Record, Kinds
  <1>2. \A n \in Names : r.fields[n] \in Field \cup {None}
    BY DEF Record, FieldMap
  <1>3. \A n \in Names : r.fields[n] # None => ~ClockLess(r.fields[n].clock, r.fields[n].clock)
    BY <1>2, ClockLessTrichotomy DEF Field
  <1>4. ~OptClockLess(r.deleted_at, r.deleted_at)
    BY <1>1, OptClockLessOrder
  <1> QED BY <1>1, <1>3, <1>4, ClockLessTrichotomy DEF IsJoin

\* Merging under an occupied id: the merge with one more snapshot is the join
\* of one more snapshot.
LEMMA JoinMerge ==
  ASSUME NEW E \in SUBSET Record, NEW s, IsJoin(s, E), NEW r \in Record, r.id = s.id
  PROVE  IsJoin(Merge(s, r), E \cup {r})
  <1> DEFINE m == Merge(s, r)
             F == E \cup {r}
  <1>0. s \in Record /\ m \in Record
    BY MergeType DEF IsJoin
  <1>1. \A x \in F : x.id = m.id
    BY DEF IsJoin, Merge
  <1>2. (\E x \in F : m.kind = x.kind) /\ (\A x \in F : x.kind <= m.kind)
    <2>1. s.kind \in Int /\ r.kind \in Int /\ \A x \in E : x.kind \in Int
      BY <1>0 DEF Record, Kinds
    <2>2. m.kind = IF s.kind < r.kind THEN r.kind ELSE s.kind
      BY DEF Merge, MergeKind
    <2> QED BY <2>1, <2>2 DEF IsJoin
  <1>3. /\ \E x \in F : m.deleted_at = x.deleted_at
        /\ \A x \in F : ~OptClockLess(m.deleted_at, x.deleted_at)
    <2>1. /\ s.deleted_at \in Clock \cup {None} /\ r.deleted_at \in Clock \cup {None}
          /\ \A x \in E : x.deleted_at \in Clock \cup {None}
      BY <1>0 DEF Record
    <2>2. m.deleted_at = IF OptClockLess(s.deleted_at, r.deleted_at)
                         THEN r.deleted_at ELSE s.deleted_at
      BY DEF Merge, MergeDeleted
    <2>3. \E x \in F : m.deleted_at = x.deleted_at
      BY <2>2 DEF IsJoin
    <2>4. ~OptClockLess(m.deleted_at, r.deleted_at) /\ ~OptClockLess(m.deleted_at, s.deleted_at)
      BY <2>1, <2>2, OptClockLessOrder
    <2>5. ASSUME NEW x \in E PROVE ~OptClockLess(m.deleted_at, x.deleted_at)
      <3>1. ~OptClockLess(s.deleted_at, x.deleted_at)
        BY DEF IsJoin
      <3>2. m.deleted_at \in Clock \cup {None}
        BY <2>1, <2>2
      <3> HIDE DEF m
      <3> QED BY <3>1, <3>2, <2>1, <2>4, OptClockLessOrder
    <2> QED BY <2>3, <2>4, <2>5
  <1>4. /\ \E x \in F : m.clock = x.clock /\ m.share_id = x.share_id
        /\ \A x \in F : ~ClockLess(m.clock, x.clock)
    <2>1. s.clock \in Clock /\ r.clock \in Clock /\ \A x \in E : x.clock \in Clock
      BY <1>0 DEF Record
    <2>2. IF ClockLess(s.clock, r.clock)
          THEN m.clock = r.clock /\ m.share_id = r.share_id
          ELSE m.clock = s.clock /\ m.share_id = s.share_id
      BY DEF Merge, Newer
    <2>3. \E x \in F : m.clock = x.clock /\ m.share_id = x.share_id
      BY <2>2 DEF IsJoin
    <2>4. ~ClockLess(m.clock, r.clock) /\ ~ClockLess(m.clock, s.clock) /\ m.clock \in Clock
      BY <2>1, <2>2, ClockLessTrichotomy
    <2>5. ASSUME NEW x \in E PROVE ~ClockLess(m.clock, x.clock)
      <3>1. ~ClockLess(s.clock, x.clock)
        BY DEF IsJoin
      <3> HIDE DEF m
      <3> QED BY <3>1, <2>1, <2>4, ClockLessTransitive
    <2> QED BY <2>3, <2>4, <2>5
  <1>5. ASSUME NEW n \in Names
        PROVE  /\ \E x \in F : m.fields[n] = x.fields[n]
               /\ \A x \in F : x.fields[n] # None =>
                    m.fields[n] # None /\ ~ClockLess(m.fields[n].clock, x.fields[n].clock)
    <2>1. /\ s.fields[n] \in Field \cup {None} /\ r.fields[n] \in Field \cup {None}
          /\ \A x \in E : x.fields[n] \in Field \cup {None}
      BY <1>0 DEF Record, FieldMap
    <2>2. m.fields[n] =
            IF s.fields[n] # None
               /\ (r.fields[n] # None => ~ClockLess(s.fields[n].clock, r.fields[n].clock))
            THEN s.fields[n] ELSE r.fields[n]
      BY DEF Merge, MergeFields
    <2>3. \E x \in F : m.fields[n] = x.fields[n]
      BY <2>2 DEF IsJoin
    <2>4. /\ m.fields[n] \in Field \cup {None}
          /\ s.fields[n] # None =>
               m.fields[n] # None /\ ~ClockLess(m.fields[n].clock, s.fields[n].clock)
          /\ r.fields[n] # None =>
               m.fields[n] # None /\ ~ClockLess(m.fields[n].clock, r.fields[n].clock)
      BY <2>1, <2>2, ClockLessTrichotomy, NoneAssumption DEF Field
    <2>5. ASSUME NEW x \in E, x.fields[n] # None
          PROVE  m.fields[n] # None /\ ~ClockLess(m.fields[n].clock, x.fields[n].clock)
      <3>1. s.fields[n] # None /\ ~ClockLess(s.fields[n].clock, x.fields[n].clock)
        BY <2>5 DEF IsJoin
      <3> HIDE DEF m
      <3> QED BY <3>1, <2>1, <2>4, <2>5, ClockLessTransitive, NoneAssumption DEF Field
    <2> QED BY <2>3, <2>4, <2>5
  <1> HIDE DEF m, F
  <1>6. IsJoin(m, F)
    BY <1>0, <1>1, <1>2, <1>3, <1>4, <1>5 DEF IsJoin
  <1> QED BY <1>6 DEF m, F

\* A set of snapshots has at most one join when a clock names one write in it.
LEMMA JoinUnique ==
  ASSUME NEW E \in SUBSET Record, NEW s, NEW t, IsJoin(s, E), IsJoin(t, E),
         \A a, b \in E : Agree(a, b)
  PROVE  s = t
  <1>0. s \in Record /\ t \in Record
    BY DEF IsJoin
  <1>1. s.id = t.id
    BY DEF IsJoin
  <1>2. s.kind = t.kind
    <2>1. s.kind \in Int /\ t.kind \in Int
      BY <1>0 DEF Record, Kinds
    <2>2. s.kind <= t.kind /\ t.kind <= s.kind
      BY DEF IsJoin
    <2> QED BY <2>1, <2>2
  <1>3. s.deleted_at = t.deleted_at
    <2>1. s.deleted_at \in Clock \cup {None} /\ t.deleted_at \in Clock \cup {None}
      BY <1>0 DEF Record
    <2>2. ~OptClockLess(s.deleted_at, t.deleted_at) /\ ~OptClockLess(t.deleted_at, s.deleted_at)
      BY DEF IsJoin
    <2> QED BY <2>1, <2>2, OptClockLessOrder
  <1>4. s.clock = t.clock /\ s.share_id = t.share_id
    <2>1. s.clock \in Clock /\ t.clock \in Clock
      BY <1>0 DEF Record
    <2>2. ~ClockLess(s.clock, t.clock) /\ ~ClockLess(t.clock, s.clock)
      BY DEF IsJoin
    <2>3. s.clock = t.clock
      BY <2>1, <2>2, ClockLessTrichotomy
    <2>4. PICK a \in E : s.clock = a.clock /\ s.share_id = a.share_id
      BY DEF IsJoin
    <2>5. PICK b \in E : t.clock = b.clock /\ t.share_id = b.share_id
      BY DEF IsJoin
    <2>6. Agree(a, b)
      OBVIOUS
    <2> QED BY <2>3, <2>4, <2>5, <2>6 DEF Agree
  <1>5. ASSUME NEW n \in Names PROVE s.fields[n] = t.fields[n]
    <2>1. s.fields[n] \in Field \cup {None} /\ t.fields[n] \in Field \cup {None}
      BY <1>0 DEF Record, FieldMap
    <2>2. PICK a \in E : s.fields[n] = a.fields[n]
      BY DEF IsJoin
    <2>3. PICK b \in E : t.fields[n] = b.fields[n]
      BY DEF IsJoin
    <2>4. Agree(a, b)
      OBVIOUS
    <2>5. /\ a.fields[n] # None =>
               t.fields[n] # None /\ ~ClockLess(t.fields[n].clock, a.fields[n].clock)
          /\ b.fields[n] # None =>
               s.fields[n] # None /\ ~ClockLess(s.fields[n].clock, b.fields[n].clock)
      BY DEF IsJoin
    <2> QED BY <2>1, <2>2, <2>3, <2>4, <2>5, ClockLessTrichotomy DEF Agree, Field
  <1> QED BY <1>0, <1>1, <1>2, <1>3, <1>4, <1>5, RecordEqual
=============================================================================
