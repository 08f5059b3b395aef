----------------------------- MODULE WindowProofs -----------------------------
(***************************************************************************)
(* Proofs about the sliding window: its indexes agree with its events, the *)
(* events of an entity are exactly those of the last Duration, and the     *)
(* sink has what Snapshot computes, for any bounds and any set of events.  *)
(***************************************************************************)
EXTENDS Window, FiniteSetTheorems, SequenceTheorems, WellFoundedInduction,
        NaturalsInduction, TLAPS

Sorted(s) == \A i, j \in DOMAIN s : i <= j => s[i].at <= s[j].at
Distinct(s) == \A i, j \in DOMAIN s : s[i].id = s[j].id => i = j

-----------------------------------------------------------------------------
(* Sequences.                                                              *)

\* A set of natural numbers that has an element has a least one.
LEMMA Least ==
  ASSUME NEW T \in SUBSET Nat, T # {}
  PROVE  \E m \in T : \A k \in T : m <= k
<1> DEFINE R == OpToRel(<, Nat)
<1>1. \A k, m \in Nat : k < m => <<k, m>> \in R
  BY Zenon DEF OpToRel
<1>2. IsWellFoundedOn(R, Nat)
  BY NatLessThanWellFounded, Zenon
<1> HIDE DEF R
<1>3. \E m \in T : \A k \in T : ~(<<k, m>> \in R)
  BY <1>2, WFMin, Zenon
<1>4. \E m \in T : \A k \in T : ~(k < m)
  BY <1>1, <1>3, Zenon
<1> QED
  BY <1>4

\* A set of positions that is closed downwards is counted by its last one.
LEMMA Prefix ==
  ASSUME NEW L \in Nat, NEW D \in SUBSET (1..L),
         \A j \in D : \A i \in 1..j : i \in D
  PROVE  Cardinality(D) \in 0..L /\ D = 1..Cardinality(D)
<1>1. \E n \in 0..L : D = 1..n
  <2> DEFINE T == 1..L \ D
  <2>1. CASE T = {}
    <3>1. D = 1..L
      BY <2>1, Zenon
    <3>2. L \in 0..L
      OBVIOUS
    <3> QED
      BY <3>1, <3>2, Zenon
  <2>2. CASE T # {}
    <3>1. T \in SUBSET Nat
      OBVIOUS
    <3>2. PICK m \in T : \A k \in T : m <= k
      BY <2>2, <3>1, Least, Zenon
    <3>3. m \in 1..L /\ m \notin D
      OBVIOUS
    <3>4. \A k \in 1..L : k \in D <=> k < m
      <4> SUFFICES ASSUME NEW k \in 1..L PROVE k \in D <=> k < m
        OBVIOUS
      <4>1. k \notin D => m <= k
        BY <3>2
      <4>2. k \in D => ~(m <= k)
        BY <3>3
      <4> QED
        BY <3>3, <4>1, <4>2
    <3>5. m - 1 \in 0..L
      BY <3>3
    <3>6. ASSUME NEW k PROVE k \in D <=> k \in 1..(m - 1)
      <4>1. k \in D <=> k \in 1..L /\ k < m
        BY <3>4, Zenon
      <4>2. k \in 1..L /\ k < m <=> k \in 1..(m - 1)
        BY <3>3
      <4> QED
        BY <4>1, <4>2, Zenon
    <3>7. D = 1..(m - 1)
      BY <3>6, Zenon
    <3> QED
      BY <3>5, <3>7, Zenon
  <2> QED
    BY <2>1, <2>2, Zenon
<1>2. PICK n \in 0..L : D = 1..n
  BY <1>1
<1>3. Cardinality(1..n) = n
  BY FS_Interval
<1> QED
  BY <1>2, <1>3

\* t is s with x placed behind its first m entries, those not later than x.
Placed(s, x, t, m) ==
  /\ \A i \in 1..Len(s) : i <= m <=> s[i].at <= x.at
  /\ \A i \in 1..m : t[i] = s[i]
  /\ t[m + 1] = x
  /\ \A i \in (m + 2)..(Len(s) + 1) : t[i] = s[i - 1]

\* What Insert makes of a sorted sequence: x comes after the entries that are
\* not later than it, as with a stable sort after an append.
LEMMA InsertShape ==
  ASSUME NEW S, NEW s \in Seq(S), NEW x \in S,
         \A y \in S : y.at \in Nat, Sorted(s)
  PROVE  /\ Insert(s, x) \in Seq(S) /\ Len(Insert(s, x)) = Len(s) + 1
         /\ \E m \in 0..Len(s) : Placed(s, x, Insert(s, x), m)
<1> DEFINE D == {i \in DOMAIN s : s[i].at <= x.at}
           m == Cardinality(D)
           a == SubSeq(s, 1, m)
           b == SubSeq(s, m + 1, Len(s))
<1>1. Len(s) \in Nat /\ DOMAIN s = 1..Len(s) /\ \A i \in 1..Len(s) : s[i] \in S
  OBVIOUS
<1>2. m \in 0..Len(s) /\ D = 1..m
  <2>1. D \in SUBSET (1..Len(s))
    BY <1>1
  <2>2. \A j \in D : \A i \in 1..j : i \in D
    <3> SUFFICES ASSUME NEW j \in D, NEW i \in 1..j PROVE i \in D
      OBVIOUS
    <3>1. i \in DOMAIN s /\ i <= j /\ j \in DOMAIN s /\ s[j].at <= x.at
      BY <1>1
    <3>2. s[i].at <= s[j].at
      BY <3>1 DEF Sorted
    <3>3. s[i].at \in Nat /\ s[j].at \in Nat /\ x.at \in Nat
      BY <1>1, <3>1
    <3>4. s[i].at <= x.at
      BY <3>1, <3>2, <3>3
    <3> QED
      BY <3>1, <3>4
  <2> HIDE DEF D
  <2> QED
    BY <1>1, <2>1, <2>2, Prefix, Zenon
<1>3. \A i \in 1..Len(s) : i <= m <=> s[i].at <= x.at
  <2>1. \A i \in 1..Len(s) : i \in D <=> s[i].at <= x.at
    BY <1>1
  <2> HIDE DEF D
  <2> QED
    BY <1>2, <2>1
<1> HIDE DEF D, m
<1>4. /\ a \in Seq(S) /\ Len(a) = m
      /\ \A i \in 1..m : a[i] = s[i]
  BY <1>1, <1>2, SubSeqProperties
<1>5. /\ b \in Seq(S) /\ Len(b) = Len(s) - m
      /\ \A i \in 1..(Len(s) - m) : b[i] = s[m + i]
  <2>1. \A i \in (m + 1)..Len(s) : s[i] \in S
    BY <1>1, <1>2
  <2>2. m + 1 \in Int /\ Len(s) \in Int
    BY <1>1, <1>2
  <2>3. /\ b \in Seq(S)
        /\ Len(b) = IF m + 1 <= Len(s) THEN Len(s) - (m + 1) + 1 ELSE 0
        /\ \A i \in 1..(Len(s) - (m + 1) + 1) : b[i] = s[m + 1 + i - 1]
    BY <2>1, <2>2, SubSeqProperties
  <2> HIDE DEF b
  <2>4. Len(b) = Len(s) - m
    <3>1. \A l \in Nat : \A k \in 0..l :
            (IF k + 1 <= l THEN l - (k + 1) + 1 ELSE 0) = l - k
      OBVIOUS
    <3> QED
      BY <1>1, <1>2, <2>3, <3>1, Zenon
  <2>5. ASSUME NEW i \in 1..(Len(s) - m) PROVE b[i] = s[m + i]
    <3>1. i \in 1..(Len(s) - (m + 1) + 1) /\ m + 1 + i - 1 = m + i
      BY <1>1, <1>2
    <3> QED
      BY <2>3, <3>1
  <2> QED
    BY <2>3, <2>4, <2>5, Zenon
<1>6. Insert(s, x) = a \o <<x>> \o b
  BY DEF Insert, m, D
<1> HIDE DEF a, b
<1>7. <<x>> \in Seq(S) /\ Len(<<x>>) = 1 /\ <<x>>[1] = x
  OBVIOUS
<1> DEFINE c == a \o <<x>>
<1>8. /\ c \in Seq(S) /\ Len(c) = m + 1
      /\ \A i \in 1..m : c[i] = s[i]
      /\ c[m + 1] = x
  BY <1>2, <1>4, <1>7
<1> HIDE DEF c
<1>9. /\ c \o b \in Seq(S) /\ Len(c \o b) = Len(s) + 1
      /\ \A i \in 1..(m + 1) : (c \o b)[i] = c[i]
      /\ \A i \in (m + 2)..(Len(s) + 1) : (c \o b)[i] = s[i - 1]
  <2>1. /\ c \o b \in Seq(S) /\ Len(c \o b) = Len(c) + Len(b)
        /\ \A i \in 1..(Len(c) + Len(b)) :
             (c \o b)[i] = IF i <= Len(c) THEN c[i] ELSE b[i - Len(c)]
    BY <1>5, <1>8, ConcatProperties, Zenon
  <2>2. Len(c \o b) = Len(s) + 1 /\ Len(c) + Len(b) = Len(s) + 1
    BY <1>1, <1>2, <1>5, <1>8, <2>1
  <2>3. \A i \in 1..(m + 1) : (c \o b)[i] = c[i]
    BY <1>1, <1>2, <1>8, <2>1, <2>2
  <2>4. ASSUME NEW i \in (m + 2)..(Len(s) + 1) PROVE (c \o b)[i] = s[i - 1]
    <3>1. i \in 1..(Len(s) + 1) /\ ~(i <= m + 1)
      BY <1>1, <1>2
    <3>2. (c \o b)[i] = b[i - (m + 1)]
      BY <1>8, <2>1, <2>2, <3>1
    <3>3. i - (m + 1) \in 1..(Len(s) - m) /\ m + (i - (m + 1)) = i - 1
      BY <1>1, <1>2
    <3> QED
      BY <1>5, <3>2, <3>3
  <2> QED
    BY <2>1, <2>2, <2>3, <2>4, Zenon
<1>10. Insert(s, x) = c \o b
  BY <1>6 DEF c
<1>11. \A i \in 1..m : Insert(s, x)[i] = s[i]
  BY <1>2, <1>8, <1>9, <1>10
<1>12. Insert(s, x)[m + 1] = x
  BY <1>2, <1>8, <1>9, <1>10
<1>13. Insert(s, x) \in Seq(S) /\ Len(Insert(s, x)) = Len(s) + 1
  BY <1>9, <1>10, Zenon
<1>14. \A i \in (m + 2)..(Len(s) + 1) : Insert(s, x)[i] = s[i - 1]
  BY <1>9, <1>10, Zenon
<1> QED
  BY <1>2, <1>3, <1>11, <1>12, <1>13, <1>14, Zenon DEF Placed

\* What sort.Search leaves of a sorted sequence: the entries from time c on.
LEMMA KeptShape ==
  ASSUME NEW S, NEW s \in Seq(S), \A y \in S : y.at \in Nat, Sorted(s),
         NEW c \in Int
  PROVE  LET n == Cardinality({i \in DOMAIN s : \A j \in 1..i : s[j].at < c})
             k == SubSeq(s, n + 1, Len(s))
         IN  /\ n \in 0..Len(s)
             /\ k \in Seq(S) /\ Len(k) = Len(s) - n
             /\ \A i \in 1..(Len(s) - n) : k[i] = s[n + i]
             /\ \A i \in 1..Len(s) : i <= n <=> s[i].at < c
<1> DEFINE D == {i \in DOMAIN s : \A j \in 1..i : s[j].at < c}
           n == Cardinality(D)
           k == SubSeq(s, n + 1, Len(s))
<1>1. Len(s) \in Nat /\ DOMAIN s = 1..Len(s) /\ \A i \in 1..Len(s) : s[i] \in S
  OBVIOUS
<1>2. n \in 0..Len(s) /\ D = 1..n
  <2>1. D \in SUBSET (1..Len(s))
    BY <1>1
  <2>2. \A j \in D : \A i \in 1..j : i \in D
    BY <1>1
  <2> HIDE DEF D
  <2> QED
    BY <1>1, <2>1, <2>2, Prefix, Zenon
<1>3. ASSUME NEW i \in 1..Len(s) PROVE i <= n <=> s[i].at < c
  <2>1. i \in D <=> i <= n
    <3> HIDE DEF D, n
    <3> QED
      BY <1>1, <1>2
  <2>2. i \in D => s[i].at < c
    BY <1>1
  <2>3. s[i].at < c => i \in D
    <3> SUFFICES ASSUME s[i].at < c, NEW j \in 1..i PROVE s[j].at < c
      BY <1>1
    <3>1. j \in 1..Len(s) /\ j <= i
      BY <1>1
    <3>2. s[j].at <= s[i].at
      BY <1>1, <3>1 DEF Sorted
    <3>3. s[i].at \in Nat /\ s[j].at \in Nat
      BY <1>1, <3>1
    <3> QED
      BY <3>2, <3>3
  <2> QED
    BY <2>1, <2>2, <2>3, Zenon
<1> HIDE DEF D, n
<1>4. \A i \in (n + 1)..Len(s) : s[i] \in S
  BY <1>1, <1>2
<1>5. n + 1 \in Int /\ Len(s) \in Int
  BY <1>1, <1>2
<1>6. /\ k \in Seq(S)
      /\ Len(k) = IF n + 1 <= Len(s) THEN Len(s) - (n + 1) + 1 ELSE 0
      /\ \A i \in 1..(Len(s) - (n + 1) + 1) : k[i] = s[n + 1 + i - 1]
  BY <1>4, <1>5, SubSeqProperties
<1> HIDE DEF k
<1>7. Len(k) = Len(s) - n
  <2>1. \A l \in Nat : \A p \in 0..l :
          (IF p + 1 <= l THEN l - (p + 1) + 1 ELSE 0) = l - p
    OBVIOUS
  <2> QED
    BY <1>1, <1>2, <1>6, <2>1, Zenon
<1>8. ASSUME NEW i \in 1..(Len(s) - n) PROVE k[i] = s[n + i]
  <2>1. i \in 1..(Len(s) - (n + 1) + 1) /\ n + 1 + i - 1 = n + i
    BY <1>1, <1>2
  <2> QED
    BY <1>6, <2>1
<1> QED
  BY <1>2, <1>3, <1>6, <1>7, <1>8, Zenon DEF D, n, k

-----------------------------------------------------------------------------
(* prepareLocked.                                                          *)

\* The entry an event becomes.
Entry(in) == [id |-> in.id, at |-> in.at, amount |-> in.amount]

\* The events prepareLocked keeps: the first of the entity's events expire, the
\* others stay, and the new one joins them unless it is too old itself.
Prepared(in) ==
  LET n == First(in)
      s == Current(in)
      t == Events(in)
  IN  /\ n \in 0..Len(s)
      /\ \A i \in 1..Len(s) : i <= n <=> s[i].at < Cutoff(in)
      /\ Len(t) = Len(s) - n + (IF Changed(in) THEN 1 ELSE 0)
      /\ Sorted(t)
      /\ \A i \in 1..Len(t) : \/ Changed(in) /\ t[i] = Entry(in)
                              \/ \E j \in (n + 1)..Len(s) : t[i] = s[j]
      /\ \A j \in (n + 1)..Len(s) : \E i \in 1..Len(t) : t[i] = s[j]
      /\ Changed(in) => \E i \in 1..Len(t) : t[i] = Entry(in)
      /\ Distinct(s) /\ in.id \notin Ids(s) => Distinct(t)

\* prepareLocked does that, if the entity's events are sorted.
LEMMA EventsShape ==
  ASSUME NEW in, NEW S, Current(in) \in Seq(S), Entry(in) \in S,
         \A y \in S : y.at \in Nat, Sorted(Current(in)), Cutoff(in) \in Int
  PROVE  Events(in) \in Seq(S) /\ Prepared(in)
<1> DEFINE n == First(in)
           s == Current(in)
           k == Kept(in)
           t == Events(in)
           x == Entry(in)
<1>1. /\ Len(s) \in Nat /\ DOMAIN s = 1..Len(s)
      /\ \A i \in 1..Len(s) : s[i] \in S /\ s[i].at \in Nat
  OBVIOUS
<1>2. /\ n \in 0..Len(s)
      /\ k \in Seq(S) /\ Len(k) = Len(s) - n
      /\ \A i \in 1..(Len(s) - n) : k[i] = s[n + i]
      /\ \A i \in 1..Len(s) : i <= n <=> s[i].at < Cutoff(in)
  BY KeptShape, Zenon DEF First, Kept
<1>3. t = IF Changed(in) THEN Insert(k, x) ELSE k
  BY DEF Events, Entry
<1>4. Sorted(s) /\ x \in S /\ x.at \in Nat /\ x.id = in.id
  BY DEF Entry
<1>5. Ids(s) = {s[i].id : i \in 1..Len(s)}
  BY <1>1 DEF Ids
<1> HIDE DEF n, s, k, t, x
<1>6. Len(k) \in Nat /\ DOMAIN k = 1..Len(k) /\ \A i \in 1..Len(k) : k[i] \in S /\ k[i].at \in Nat
  BY <1>2
<1>7. \A i \in 1..Len(k) : n + i \in (n + 1)..Len(s) /\ n + i \in 1..Len(s) /\ k[i] = s[n + i]
  BY <1>1, <1>2
<1>8. ASSUME NEW j \in (n + 1)..Len(s)
      PROVE  j - n \in 1..Len(k) /\ k[j - n] = s[j]
  <2>1. j - n \in 1..(Len(s) - n) /\ n + (j - n) = j
    BY <1>1, <1>2
  <2> QED
    BY <1>2, <2>1
<1>9. Sorted(k)
  <2> SUFFICES ASSUME NEW i \in 1..Len(k), NEW j \in 1..Len(k), i <= j
               PROVE  k[i].at <= k[j].at
    BY <1>6 DEF Sorted
  <2>1. n + i <= n + j
    BY <1>1, <1>2, <1>6
  <2>2. s[n + i].at <= s[n + j].at
    BY <1>1, <1>4, <1>7, <2>1 DEF Sorted
  <2> QED
    BY <1>7, <2>2
<1>10. Distinct(s) => Distinct(k)
  <2> SUFFICES ASSUME Distinct(s), NEW i \in 1..Len(k), NEW j \in 1..Len(k),
                      k[i].id = k[j].id
               PROVE  i = j
    BY <1>6 DEF Distinct
  <2>1. n + i = n + j
    BY <1>1, <1>7 DEF Distinct
  <2> QED
    BY <1>1, <1>2, <1>6, <2>1
<1>11. CASE ~Changed(in)
  <2>1. t = k /\ Len(t) = Len(s) - n + 0
    <3>1. t = k
      BY <1>3, <1>11, Zenon
    <3>2. Len(s) - n = Len(s) - n + 0
      BY <1>1, <1>2
    <3> QED
      BY <1>2, <3>1, <3>2, Zenon
  <2>2. \A i \in 1..Len(t) : \E j \in (n + 1)..Len(s) : t[i] = s[j]
    BY <1>7, <2>1, Zenon
  <2>3. \A j \in (n + 1)..Len(s) : \E i \in 1..Len(t) : t[i] = s[j]
    BY <1>8, <2>1, Zenon
  <2> QED
    BY <1>2, <1>9, <1>10, <1>11, <2>1, <2>2, <2>3, Zenon DEF n, s, t, x, Prepared
<1>12. CASE Changed(in)
  <2>1. t = Insert(k, x)
    BY <1>3, <1>12
  <2>2. t \in Seq(S) /\ Len(t) = Len(k) + 1
    BY <1>2, <1>4, <1>9, <2>1, InsertShape, Zenon
  <2>0. PICK m \in 0..Len(k) : Placed(k, x, Insert(k, x), m)
    BY <1>2, <1>4, <1>9, InsertShape, Zenon
  <2>3. /\ m \in 0..Len(k)
        /\ \A i \in 1..Len(k) : i <= m <=> k[i].at <= x.at
        /\ \A i \in 1..m : t[i] = k[i]
        /\ t[m + 1] = x
        /\ \A i \in (m + 2)..(Len(k) + 1) : t[i] = k[i - 1]
    BY <2>0, <2>1, Zenon DEF Placed
  <2> DEFINE from(i) == IF i <= m THEN i ELSE i - 1
  <2>4. \A i \in 1..Len(t) : i # m + 1 => from(i) \in 1..Len(k) /\ t[i] = k[from(i)]
    <3> SUFFICES ASSUME NEW i \in 1..Len(t), i # m + 1
                 PROVE  from(i) \in 1..Len(k) /\ t[i] = k[from(i)]
      OBVIOUS
    <3>1. i \in 1..(Len(k) + 1) /\ Len(k) \in Nat /\ m \in 0..Len(k)
      BY <1>6, <2>2, <2>3
    <3>2. CASE i <= m
      <4>1. i \in 1..m /\ i \in 1..Len(k)
        BY <3>1, <3>2
      <4> QED
        BY <2>3, <3>2, <4>1, Zenon
    <3>3. CASE ~(i <= m)
      <4>1. i \in (m + 2)..(Len(k) + 1) /\ i - 1 \in 1..Len(k)
        BY <3>1, <3>3
      <4> QED
        BY <2>3, <3>3, <4>1, Zenon
    <3> QED
      BY <3>2, <3>3
  <2>5. DOMAIN t = 1..Len(t) /\ Len(t) \in Nat
    BY <1>6, <2>2
  <2>6. Sorted(t)
    <3> SUFFICES ASSUME NEW i \in 1..Len(t), NEW j \in 1..Len(t), i <= j
                 PROVE  t[i].at <= t[j].at
      BY <2>5 DEF Sorted
    <3>1. CASE i = m + 1 /\ j = m + 1
      BY <1>4, <2>3, <3>1
    <3>2. CASE i = m + 1 /\ j # m + 1
      <4>1. from(j) \in 1..Len(k) /\ t[j] = k[from(j)]
        BY <2>4, <3>2
      <4>2. ~(from(j) <= m)
        BY <2>3, <2>5, <3>2
      <4> HIDE DEF from
      <4>3. ~(k[from(j)].at <= x.at) /\ k[from(j)].at \in Nat
        BY <1>6, <2>3, <4>1, <4>2, Zenon
      <4>4. t[i] = x /\ x.at \in Nat
        BY <1>4, <2>3, <3>2, Zenon
      <4>5. \A a, b \in Nat : ~(b <= a) => a <= b
        OBVIOUS
      <4> QED
        BY <4>1, <4>3, <4>4, <4>5, Zenon
    <3>3. CASE i # m + 1 /\ j = m + 1
      <4>1. from(i) \in 1..Len(k) /\ t[i] = k[from(i)]
        BY <2>4, <3>3
      <4>2. from(i) <= m
        BY <2>3, <2>5, <3>3
      <4> HIDE DEF from
      <4>3. k[from(i)].at <= x.at
        BY <2>3, <4>1, <4>2, Zenon
      <4> QED
        BY <2>3, <3>3, <4>1, <4>3, Zenon
    <3>4. CASE i # m + 1 /\ j # m + 1
      <4>1. /\ from(i) \in 1..Len(k) /\ t[i] = k[from(i)]
            /\ from(j) \in 1..Len(k) /\ t[j] = k[from(j)]
        BY <2>4, <3>4
      <4>2. from(i) <= from(j)
        BY <2>3, <2>5, <3>4
      <4> HIDE DEF from
      <4>3. k[from(i)].at <= k[from(j)].at
        BY <1>6, <1>9, <4>1, <4>2 DEF Sorted
      <4> QED
        BY <4>1, <4>3
    <3> QED
      BY <3>1, <3>2, <3>3, <3>4, Zenon
  <2>7. ASSUME NEW i \in 1..Len(t)
        PROVE  t[i] = x \/ \E j \in (n + 1)..Len(s) : t[i] = s[j]
    <3> HIDE DEF from
    <3>1. CASE i = m + 1
      BY <2>3, <3>1, Zenon
    <3>2. CASE i # m + 1
      <4>1. from(i) \in 1..Len(k) /\ t[i] = k[from(i)]
        BY <2>4, <3>2, Zenon
      <4>2. \E j \in (n + 1)..Len(s) : k[from(i)] = s[j]
        BY <1>7, <4>1, Zenon
      <4> QED
        BY <4>1, <4>2, Zenon
    <3> QED
      BY <3>1, <3>2
  <2>8. m + 1 \in 1..Len(t)
    BY <2>2, <2>3, <1>6
  <2>9. ASSUME NEW j \in (n + 1)..Len(s) PROVE \E i \in 1..Len(t) : t[i] = s[j]
    <3> DEFINE l == j - n
    <3>1. l \in 1..Len(k) /\ k[l] = s[j]
      BY <1>8
    <3> HIDE DEF l
    <3>2. CASE l <= m
      <4>1. l \in 1..m /\ l \in 1..Len(t)
        BY <1>6, <2>2, <2>3, <3>1, <3>2
      <4> QED
        BY <2>3, <3>1, <4>1, Zenon
    <3>3. CASE ~(l <= m)
      <4>1. l + 1 \in (m + 2)..(Len(k) + 1) /\ l + 1 \in 1..Len(t) /\ (l + 1) - 1 = l
        BY <1>6, <2>2, <2>3, <3>1, <3>3
      <4>2. t[l + 1] = k[l]
        BY <2>3, <4>1
      <4> QED
        BY <3>1, <4>1, <4>2, Zenon
    <3> QED
      BY <3>2, <3>3, Zenon
  <2>10. ASSUME Distinct(s), in.id \notin Ids(s) PROVE Distinct(t)
    <3>1. \A i \in 1..Len(k) : k[i].id # x.id
      BY <1>4, <1>5, <1>7, <2>10
    <3> SUFFICES ASSUME NEW i \in 1..Len(t), NEW j \in 1..Len(t), t[i].id = t[j].id
                 PROVE  i = j
      BY <2>5 DEF Distinct
    <3>2. CASE i = m + 1 /\ j # m + 1
      BY <2>3, <2>4, <3>1, <3>2, Zenon
    <3>3. CASE i # m + 1 /\ j = m + 1
      BY <2>3, <2>4, <3>1, <3>3, Zenon
    <3>4. CASE i # m + 1 /\ j # m + 1
      <4>1. /\ from(i) \in 1..Len(k) /\ t[i] = k[from(i)]
            /\ from(j) \in 1..Len(k) /\ t[j] = k[from(j)]
        BY <2>4, <3>4
      <4>2. from(i) = from(j) => i = j
        BY <2>3, <2>5, <3>4
      <4> HIDE DEF from
      <4>3. from(i) = from(j)
        BY <1>6, <1>10, <2>10, <4>1 DEF Distinct
      <4> QED
        BY <4>2, <4>3
    <3> QED
      BY <3>2, <3>3, <3>4, Zenon
  <2>11. Len(t) = Len(s) - n + 1
    BY <1>2, <2>2
  <2> QED
    BY <1>2, <1>12, <2>2, <2>3, <2>6, <2>7, <2>8, <2>9, <2>10, <2>11, Zenon DEF n, s, t, x, Prepared
<1> QED
  BY <1>11, <1>12, Zenon

-----------------------------------------------------------------------------
(* The invariant.                                                          *)

\* What the window holds of an event.
Stored == [id : seen, at : Nat \ {0}, amount : Nat]

\* The state of one entity: WindowExact, with the order for every pair.
EntityInv(e) ==
  /\ byEntity[e] \in Seq(Stored) /\ Sorted(byEntity[e])
  /\ watermark[e] \in Nat \ {0}
  /\ \A x \in arrived[e] : x.at \in Nat /\ x.at <= watermark[e]
  /\ \E x \in arrived[e] : x.at = watermark[e]
  /\ Range(byEntity[e]) = {x \in arrived[e] : x.at >= watermark[e] - Duration}

\* Between calls the sink has the features of all events of an entity: none of
\* them is outside the window.
SinkInv ==
  \A e \in DOMAIN byEntity \ unsynced :
    /\ e \in DOMAIN sink
    /\ sink[e] = Features(byEntity[e], DOMAIN byEntity[e], watermark[e])

WInv ==
  /\ IndexesAgree
  /\ IsFiniteSet(DOMAIN byEntity) /\ IsFiniteSet(seen)
  /\ \A e \in DOMAIN byEntity : EntityInv(e)
  /\ SinkInv

\* The larger of two numbers.
LEMMA MaxTwo ==
  ASSUME NEW a \in Nat, NEW b \in Nat
  PROVE  /\ Max({a, b}) \in {a, b}
         /\ a <= Max({a, b}) /\ b <= Max({a, b})
<1>1. \E x \in {a, b} : \A y \in {a, b} : x >= y
  OBVIOUS
<1>2. Max({a, b}) \in {a, b} /\ \A y \in {a, b} : Max({a, b}) >= y
  BY <1>1, Zenon DEF Max
<1> QED
  BY <1>2

\* The events of a sequence without repetitions have as many ids.
LEMMA IdsCount ==
  ASSUME NEW S, NEW s \in Seq(S), Distinct(s)
  PROVE  IsFiniteSet(Ids(s)) /\ Cardinality(Ids(s)) = Len(s)
<1> DEFINE f == [i \in 1..Len(s) |-> s[i].id]
<1>1. Len(s) \in Nat /\ DOMAIN s = 1..Len(s)
  OBVIOUS
<1>2. f \in [1..Len(s) -> Ids(s)]
  BY <1>1 DEF Ids
<1>3. \A i, j \in 1..Len(s) : f[i] = f[j] => i = j
  BY <1>1 DEF Distinct
<1>4. \A y \in Ids(s) : \E i \in 1..Len(s) : f[i] = y
  BY <1>1 DEF Ids
<1>f. DOMAIN f = 1..Len(s)
  OBVIOUS
<1> HIDE DEF f
<1>5. f \in Bijection(1..Len(s), Ids(s))
  BY <1>2, <1>3, <1>4, <1>f, Zenon DEF Bijection, Injection, Surjection, IsInjective
<1>6. ExistsBijection(1..Len(s), Ids(s))
  BY <1>5, Zenon DEF ExistsBijection
<1> QED
  BY <1>1, <1>6, FS_CountingElements, FS_NatBijection, Zenon

\* oldestEntityLocked finds an entity, if there is one.
LEMMA OldestIsTracked ==
  ASSUME TypeOK, DOMAIN byEntity # {}
  PROVE  OldestEntity \in DOMAIN byEntity
<1> DEFINE E == DOMAIN lastActive
           V == {lastActive[e] : e \in E}
<1>1. /\ E = DOMAIN byEntity /\ E # {} /\ E \subseteq Nat
      /\ \A e \in E : lastActive[e] \in Nat
  BY DEF TypeOK
<1> HIDE DEF E
<1>2. V \in SUBSET Nat /\ V # {}
  BY <1>1
<1>3. PICK v \in V : \A w \in V : v <= w
  BY <1>2, Least, Zenon
<1> DEFINE T == {e \in E : lastActive[e] = v}
<1>4. T \in SUBSET Nat /\ T # {}
  BY <1>1
<1>5. PICK m \in T : \A e \in T : m <= e
  BY <1>4, Least, Zenon
<1>6. ASSUME NEW f \in E
      PROVE  \/ lastActive[m] < lastActive[f]
             \/ lastActive[m] = lastActive[f] /\ m <= f
  <2>1. m \in E /\ lastActive[m] = v /\ v \in Nat /\ lastActive[f] \in Nat
    BY <1>1, <1>2
  <2>2. v <= lastActive[f]
    BY <1>3
  <2>3. CASE lastActive[f] = v
    BY <1>5, <2>1, <2>3
  <2>4. CASE lastActive[f] # v
    BY <2>1, <2>2, <2>4
  <2> QED
    BY <2>3, <2>4, Zenon
<1>7. m \in E
  OBVIOUS
<1>8. OldestEntity \in E
  BY <1>6, <1>7, Zenon DEF OldestEntity, E
<1> QED
  BY <1>1, <1>8, Zenon

\* The conditions of prepareLocked.
LEMMA AcceptedEvent ==
  ASSUME NEW in \in Inputs, Accepted(in)
  PROVE  /\ in.entity \in Nat /\ in.at \in Nat \ {0} /\ in.amount \in Nat
         /\ in.partition \in 0..(MaxTrackedPartitions - 1) /\ in.offset \in Nat
         /\ in.id \notin seen /\ Entry(in).at = in.at /\ Entry(in).id = in.id
         /\ Entry(in).amount = in.amount
         /\ ProjectedEventCount(in) > MaxEvents => FALSE
         /\ Total(Events(in), DOMAIN Events(in)) \in 0..MaxTotal
<1>1. /\ in.entity \in Nat /\ in.at \in Nat
      /\ in.amount \in Int /\ in.partition \in Int /\ in.offset \in Int
  BY WindowAssumption, Zenon
<1>2. ValidEvent(in) /\ ~Replayed(in)
  BY Zenon DEF Accepted, Refused
<1>3. /\ ~(ProjectedEventCount(in) > MaxEvents)
      /\ Total(Events(in), DOMAIN Events(in)) \in 0..MaxTotal
  BY <1>2, Zenon DEF Accepted, Refused
<1>4. /\ in.amount >= 0 /\ in.at # 0 /\ in.offset >= 0
      /\ in.partition \in 0..(MaxTrackedPartitions - 1)
  BY <1>2, Zenon DEF ValidEvent
<1>5. in.at \in Nat \ {0} /\ in.amount \in Nat /\ in.offset \in Nat
  BY <1>1, <1>4
<1>6. in.id \notin seen
  BY <1>2, Zenon DEF Replayed
<1>7. Entry(in).at = in.at /\ Entry(in).id = in.id /\ Entry(in).amount = in.amount
  BY DEF Entry
<1> QED
  BY <1>1, <1>3, <1>4, <1>5, <1>6, <1>7, Zenon

\* The state of the event's entity, tracked or not.
LEMMA CurrentFacts ==
  ASSUME WInv, NEW in \in Inputs, Accepted(in)
  PROVE  /\ Current(in) \in Seq(Stored)
         /\ Sorted(Current(in)) /\ Distinct(Current(in))
         /\ Ids(Current(in)) \subseteq seen
         /\ Lookup(watermark, in.entity, 0) \in Nat
         /\ NewWatermark(in) \in {in.at, Lookup(watermark, in.entity, 0)}
         /\ in.at <= NewWatermark(in) /\ NewWatermark(in) \in Nat \ {0}
         /\ Lookup(watermark, in.entity, 0) <= NewWatermark(in)
         /\ Cutoff(in) \in Int /\ Cutoff(in) = NewWatermark(in) - Duration
         /\ in.entity \notin DOMAIN byEntity =>
              Current(in) = <<>> /\ NewWatermark(in) = in.at
         /\ in.entity \in DOMAIN byEntity =>
              /\ Current(in) = byEntity[in.entity]
              /\ Lookup(watermark, in.entity, 0) = watermark[in.entity]
<1> DEFINE w == Lookup(watermark, in.entity, 0)
<1>1. in.at \in Nat \ {0}
  BY AcceptedEvent, Zenon
<1>2. DOMAIN watermark = DOMAIN byEntity
  BY Zenon DEF WInv, IndexesAgree, TypeOK
<1>3. CASE in.entity \in DOMAIN byEntity
  <2>1. Current(in) = byEntity[in.entity] /\ w = watermark[in.entity]
    BY <1>2, <1>3, Zenon DEF Current, Lookup
  <2>2. EntityInv(in.entity)
    BY <1>3, Zenon DEF WInv
  <2>3. w \in Nat
    BY <2>1, <2>2 DEF EntityInv
  <2>4. Distinct(Current(in))
    <3>1. \A i, j \in DOMAIN byEntity[in.entity] :
            byEntity[in.entity][i].id = byEntity[in.entity][j].id => i = j
      BY <1>3 DEF WInv, IndexesAgree
    <3> QED
      BY <2>1, <3>1, Zenon DEF Distinct
  <2>5. Ids(Current(in)) \subseteq seen
    <3>1. seen = UNION {Ids(byEntity[e]) : e \in DOMAIN byEntity}
      BY Zenon DEF WInv, IndexesAgree
    <3> QED
      BY <1>3, <2>1, <3>1
  <2>6. NewWatermark(in) \in {in.at, w} /\ in.at <= NewWatermark(in) /\ w <= NewWatermark(in)
    BY <1>1, <2>3, MaxTwo DEF NewWatermark
  <2> HIDE DEF w
  <2>7. NewWatermark(in) \in Nat \ {0} /\ NewWatermark(in) - Duration \in Int
    BY <1>1, <2>3, <2>6, WindowAssumption
  <2> QED
    BY <1>3, <2>1, <2>2, <2>3, <2>4, <2>5, <2>6, <2>7, Zenon DEF EntityInv, Cutoff, w
<1>4. CASE in.entity \notin DOMAIN byEntity
  <2>1. Current(in) = <<>> /\ w = 0
    BY <1>2, <1>4, Zenon DEF Current, Lookup
  <2>2. Sorted(<<>>) /\ Distinct(<<>>) /\ Ids(<<>>) \subseteq seen /\ <<>> \in Seq(Stored)
    BY DEF Sorted, Distinct, Ids
  <2>3. NewWatermark(in) \in {in.at, 0} /\ in.at <= NewWatermark(in) /\ 0 <= NewWatermark(in)
    BY <1>1, <2>1, MaxTwo DEF NewWatermark
  <2>4. /\ NewWatermark(in) = in.at /\ NewWatermark(in) \in Nat \ {0}
        /\ NewWatermark(in) - Duration \in Int /\ 0 \in Nat
    BY <1>1, <2>3, WindowAssumption
  <2> QED
    BY <1>4, <2>1, <2>2, <2>3, <2>4, Zenon DEF Cutoff
<1> QED
  BY <1>3, <1>4, Zenon

\* What prepareLocked makes of an accepted event.
LEMMA PrepareFacts ==
  ASSUME WInv, NEW in \in Inputs, Accepted(in)
  PROVE  /\ Events(in) \in Seq(Stored \cup {Entry(in)})
         /\ Prepared(in) /\ Distinct(Events(in))
         /\ in.id \notin Ids(Current(in))
<1> DEFINE S == Stored \cup {Entry(in)}
<1>1. /\ Current(in) \in Seq(Stored) /\ Sorted(Current(in)) /\ Distinct(Current(in))
      /\ Ids(Current(in)) \subseteq seen /\ Cutoff(in) \in Int
  BY CurrentFacts, Zenon
<1>2. in.at \in Nat \ {0} /\ Entry(in).at = in.at /\ in.id \notin seen
  BY AcceptedEvent, Zenon
<1>3. \A y \in Stored : y.at \in Nat
  BY DEF Stored
<1>4. \A y \in S : y.at \in Nat
  BY <1>2, <1>3
<1>5. Current(in) \in Seq(S) /\ Entry(in) \in S
  BY <1>1
<1> HIDE DEF S
<1>6. Events(in) \in Seq(S) /\ Prepared(in)
  BY <1>1, <1>4, <1>5, EventsShape, Zenon
<1>7. in.id \notin Ids(Current(in))
  BY <1>1, <1>2, Zenon
<1>8. Distinct(Events(in))
  BY <1>1, <1>6, <1>7, Zenon DEF Prepared
<1> QED
  BY <1>6, <1>7, <1>8, Zenon DEF S

\* The entity that makes room is another one, and it is tracked.
LEMMA EvictedFacts ==
  ASSUME WInv, NEW in
  PROVE  /\ NoRoom(in) => OldestEntity \in DOMAIN byEntity
         /\ in.entity \notin Evicted(in)
         /\ Evicted(in) \subseteq DOMAIN byEntity
         /\ NoRoom(in) => in.entity \notin DOMAIN byEntity
<1>1. TypeOK /\ IsFiniteSet(DOMAIN byEntity)
  BY Zenon DEF WInv, IndexesAgree
<1>2. DOMAIN watermark = DOMAIN byEntity
  BY <1>1, Zenon DEF TypeOK
<1>3. NoRoom(in) => DOMAIN byEntity # {} /\ in.entity \notin DOMAIN byEntity
  <2> SUFFICES ASSUME NoRoom(in) PROVE DOMAIN byEntity # {} /\ in.entity \notin DOMAIN byEntity
    OBVIOUS
  <2>1. Cardinality(DOMAIN byEntity) >= MaxEntities /\ in.entity \notin DOMAIN byEntity
    BY <1>2, Zenon DEF NoRoom
  <2>2. MaxEntities \in Nat \ {0}
    BY WindowAssumption, Zenon
  <2>3. DOMAIN byEntity = {} => Cardinality(DOMAIN byEntity) = 0
    BY FS_EmptySet, Zenon
  <2>4. Cardinality(DOMAIN byEntity) # 0
    BY <2>1, <2>2
  <2> QED
    BY <2>1, <2>3, <2>4, Zenon
<1>4. NoRoom(in) => OldestEntity \in DOMAIN byEntity
  BY <1>1, <1>3, OldestIsTracked, Zenon
<1> QED
  BY <1>3, <1>4, Zenon DEF Evicted

\* What commitLocked changes, entity by entity.
LEMMA CommitEffect ==
  ASSUME WInv, NEW in, Commit(in)
  PROVE  /\ DOMAIN byEntity' = (DOMAIN byEntity \ Evicted(in)) \cup {in.entity}
         /\ DOMAIN watermark' = DOMAIN byEntity' /\ DOMAIN arrived' = DOMAIN byEntity'
         /\ lastActive' = watermark'
         /\ byEntity'[in.entity] = Events(in)
         /\ watermark'[in.entity] = NewWatermark(in)
         /\ arrived'[in.entity] = Lookup(arrived, in.entity, {}) \cup {Entry(in)}
         /\ \A e \in DOMAIN byEntity' : e # in.entity =>
              /\ e \in DOMAIN byEntity /\ e \notin Evicted(in)
              /\ byEntity'[e] = byEntity[e] /\ watermark'[e] = watermark[e]
              /\ arrived'[e] = arrived[e]
<1>1. /\ DOMAIN watermark = DOMAIN byEntity /\ lastActive = watermark
      /\ DOMAIN arrived = DOMAIN byEntity
  BY Zenon DEF WInv, IndexesAgree, TypeOK
<1>3. /\ watermark' = With(Restrict(watermark, DOMAIN watermark \ Evicted(in)),
                           in.entity, NewWatermark(in))
      /\ lastActive' = With(Restrict(lastActive, DOMAIN lastActive \ Evicted(in)),
                            in.entity, NewWatermark(in))
      /\ byEntity' = With(Restrict(byEntity, DOMAIN byEntity \ Evicted(in)),
                          in.entity, Events(in))
      /\ arrived' = With(Restrict(arrived, DOMAIN arrived \ Evicted(in)),
                         in.entity, Lookup(arrived, in.entity, {}) \cup {Entry(in)})
  BY DEF Commit, Entry
<1>4. lastActive' = watermark'
  BY <1>1, <1>3, Zenon
<1>5. /\ DOMAIN byEntity' = (DOMAIN byEntity \ Evicted(in)) \cup {in.entity}
      /\ byEntity'[in.entity] = Events(in)
      /\ \A e \in DOMAIN byEntity' : e # in.entity =>
           e \in DOMAIN byEntity /\ e \notin Evicted(in) /\ byEntity'[e] = byEntity[e]
  BY <1>3 DEF With, Restrict
<1>6. /\ DOMAIN watermark' = (DOMAIN byEntity \ Evicted(in)) \cup {in.entity}
      /\ watermark'[in.entity] = NewWatermark(in)
      /\ \A e \in DOMAIN watermark' : e # in.entity => watermark'[e] = watermark[e]
  BY <1>1, <1>3 DEF With, Restrict
<1>7. /\ DOMAIN arrived' = (DOMAIN byEntity \ Evicted(in)) \cup {in.entity}
      /\ arrived'[in.entity] = Lookup(arrived, in.entity, {}) \cup {Entry(in)}
      /\ \A e \in DOMAIN arrived' : e # in.entity => arrived'[e] = arrived[e]
  BY <1>1, <1>3 DEF With, Restrict
<1> QED
  BY <1>4, <1>5, <1>6, <1>7, Zenon

-----------------------------------------------------------------------------
(* The indexes.                                                            *)

\* The ids that are remembered are those of the events.
LEMMA SeenMeaning ==
  ASSUME WInv, NEW x
  PROVE  x \in seen <=> \E e \in DOMAIN byEntity : \E i \in DOMAIN byEntity[e] :
                          byEntity[e][i].id = x
<1>1. seen = UNION {Ids(byEntity[e]) : e \in DOMAIN byEntity}
  BY Zenon DEF WInv, IndexesAgree
<1> QED
  BY <1>1 DEF Ids

\* The ids of the events that expire are as many as the events.
LEMMA ExpiredFacts ==
  ASSUME WInv, NEW in \in Inputs, Accepted(in)
  PROVE  /\ Expired(in) = {Current(in)[i].id : i \in 1..First(in)}
         /\ IsFiniteSet(Expired(in)) /\ Cardinality(Expired(in)) = First(in)
<1> DEFINE s == Current(in)
           n == First(in)
           p == SubSeq(s, 1, n)
<1>1. s \in Seq(Stored) /\ Distinct(s)
  BY CurrentFacts, Zenon
<1>2. n \in 0..Len(s)
  BY PrepareFacts, Zenon DEF Prepared
<1>3. Expired(in) = Ids(p)
  BY Zenon DEF Expired
<1> HIDE DEF s, n
<1>4. \A i \in 1..n : s[i] \in Stored /\ i \in DOMAIN s
  BY <1>1, <1>2
<1>5. p \in Seq(Stored) /\ Len(p) = n /\ \A i \in 1..n : p[i] = s[i]
  BY <1>2, <1>4, SubSeqProperties
<1> HIDE DEF p
<1>6. DOMAIN p = 1..n
  BY <1>5
<1>7. Distinct(p)
  BY <1>1, <1>4, <1>5, <1>6, Zenon DEF Distinct
<1>8. Ids(p) = {s[i].id : i \in 1..n}
  BY <1>5, <1>6 DEF Ids
<1>9. IsFiniteSet(Ids(p)) /\ Cardinality(Ids(p)) = n
  BY <1>5, <1>7, IdsCount, Zenon
<1> QED
  BY <1>3, <1>8, <1>9, Zenon DEF s, n

\* The ids that leave seen: they are in it, and as many as the events that go.
LEMMA ForgottenFacts ==
  ASSUME WInv, NEW in \in Inputs, Accepted(in)
  PROVE  /\ Forgotten(in) \subseteq seen /\ IsFiniteSet(Forgotten(in))
         /\ First(in) \in Nat /\ Released(in) \in Nat
         /\ Cardinality(Forgotten(in)) = First(in) + Released(in)
         /\ \A x : x \in Forgotten(in) <=>
              \/ \E i \in 1..First(in) : Current(in)[i].id = x
              \/ \E e \in Evicted(in) : \E i \in DOMAIN byEntity[e] : byEntity[e][i].id = x
<1>1. /\ Expired(in) = {Current(in)[i].id : i \in 1..First(in)}
      /\ IsFiniteSet(Expired(in)) /\ Cardinality(Expired(in)) = First(in)
  BY ExpiredFacts, Zenon
<1>2. /\ Current(in) \in Seq(Stored) /\ Ids(Current(in)) \subseteq seen
      /\ in.entity \notin DOMAIN byEntity => Current(in) = <<>>
  BY CurrentFacts, Zenon
<1>3. First(in) \in 0..Len(Current(in))
  BY PrepareFacts, Zenon DEF Prepared
<1>4. First(in) \in Nat /\ Expired(in) \subseteq seen
  BY <1>1, <1>2, <1>3 DEF Ids
<1>5. CASE ~NoRoom(in)
  <2>1. Evicted(in) = {} /\ Released(in) = 0
    BY <1>5, Zenon DEF Evicted, Released
  <2>2. Forgotten(in) = Expired(in)
    BY <2>1 DEF Forgotten
  <2>3. First(in) + Released(in) = First(in) /\ Released(in) \in Nat
    BY <1>4, <2>1
  <2> QED
    BY <1>1, <1>4, <2>1, <2>2, <2>3
<1>6. CASE NoRoom(in)
  <2> DEFINE o == OldestEntity
  <2>1. o \in DOMAIN byEntity /\ in.entity \notin DOMAIN byEntity
    BY <1>6, EvictedFacts, Zenon
  <2>2. Evicted(in) = {o} /\ Released(in) = Len(byEntity[o])
    BY <1>6, Zenon DEF Evicted, Released
  <2> HIDE DEF o
  <2>3. byEntity[o] \in Seq(Stored)
    BY <2>1, Zenon DEF WInv, EntityInv
  <2>4. Distinct(byEntity[o])
    BY <2>1 DEF WInv, IndexesAgree, Distinct
  <2>5. IsFiniteSet(Ids(byEntity[o])) /\ Cardinality(Ids(byEntity[o])) = Len(byEntity[o])
    BY <2>3, <2>4, IdsCount, Zenon
  <2>6. First(in) = 0 /\ Expired(in) = {}
    BY <1>1, <1>2, <1>3, <2>1
  <2>7. Forgotten(in) = Ids(byEntity[o])
    BY <2>2, <2>6 DEF Forgotten
  <2>8. Ids(byEntity[o]) \subseteq seen
    BY <2>1, SeenMeaning DEF Ids
  <2>9. Released(in) \in Nat /\ First(in) + Released(in) = Released(in)
    BY <2>2, <2>3, <2>6
  <2>10. \A x : x \in Ids(byEntity[o]) <=>
           \E i \in DOMAIN byEntity[o] : byEntity[o][i].id = x
    BY DEF Ids
  <2>11. \A i : i \notin 1..First(in)
    BY <2>6
  <2> QED
    BY <1>4, <2>2, <2>5, <2>7, <2>8, <2>9, <2>10, <2>11, Zenon
<1> QED
  BY <1>5, <1>6, Zenon

\* After a commit the ids remembered are again those of the events.
LEMMA CommitSeen ==
  ASSUME WInv, NEW in \in Inputs, Accepted(in), Commit(in), NEW x
  PROVE  x \in seen' <=> \E e \in DOMAIN byEntity' : \E i \in DOMAIN byEntity'[e] :
                           byEntity'[e][i].id = x
<1> DEFINE s == Current(in)
           t == Events(in)
           n == First(in)
<1>1. x \in seen' <=> \/ x \in seen /\ x \notin Forgotten(in)
                      \/ Changed(in) /\ x = in.id
  BY DEF Commit
<1>2. x \in Forgotten(in) <=>
        \/ \E i \in 1..n : s[i].id = x
        \/ \E e \in Evicted(in) : \E i \in DOMAIN byEntity[e] : byEntity[e][i].id = x
  BY ForgottenFacts, Zenon
<1>3. /\ DOMAIN byEntity' = (DOMAIN byEntity \ Evicted(in)) \cup {in.entity}
      /\ byEntity'[in.entity] = t
      /\ \A e \in DOMAIN byEntity' : e # in.entity =>
           e \in DOMAIN byEntity /\ e \notin Evicted(in) /\ byEntity'[e] = byEntity[e]
  BY CommitEffect, Zenon
<1>4. /\ s \in Seq(Stored)
      /\ in.entity \notin DOMAIN byEntity => s = <<>>
      /\ in.entity \in DOMAIN byEntity => s = byEntity[in.entity]
  BY CurrentFacts, Zenon
<1>5. /\ n \in 0..Len(s)
      /\ \A i \in 1..Len(t) : \/ Changed(in) /\ t[i] = Entry(in)
                              \/ \E j \in (n + 1)..Len(s) : t[i] = s[j]
      /\ \A j \in (n + 1)..Len(s) : \E i \in 1..Len(t) : t[i] = s[j]
      /\ Changed(in) => \E i \in 1..Len(t) : t[i] = Entry(in)
  BY PrepareFacts, Zenon DEF Prepared
<1>6. t \in Seq(Stored \cup {Entry(in)}) /\ Entry(in).id = in.id
  BY PrepareFacts, AcceptedEvent, Zenon
<1>7. /\ in.entity \notin Evicted(in) /\ Evicted(in) \subseteq DOMAIN byEntity
      /\ \A d, e \in DOMAIN byEntity : \A i \in DOMAIN byEntity[d], j \in DOMAIN byEntity[e] :
           byEntity[d][i].id = byEntity[e][j].id => d = e /\ i = j
  BY EvictedFacts, Zenon DEF WInv, IndexesAgree
<1>8. x \in seen <=> \E e \in DOMAIN byEntity : \E i \in DOMAIN byEntity[e] :
                          byEntity[e][i].id = x
  BY SeenMeaning, Zenon
<1> HIDE DEF s, t, n
<1>9. /\ DOMAIN t = 1..Len(t) /\ DOMAIN s = 1..Len(s)
      /\ Len(s) \in Nat /\ Len(t) \in Nat
      /\ \A j \in (n + 1)..Len(s) : j \in 1..Len(s) /\ j \notin 1..n
      /\ \A j \in 1..Len(s) : j \notin 1..n => j \in (n + 1)..Len(s)
      /\ \A j \in 1..n : j \in 1..Len(s)
  BY <1>4, <1>5, <1>6
<1>10. in.entity \notin DOMAIN byEntity => \A j : j \notin (n + 1)..Len(s)
  <2>1. SUFFICES ASSUME in.entity \notin DOMAIN byEntity PROVE \A j : j \notin (n + 1)..Len(s)
    OBVIOUS
  <2>2. Len(s) = 0 /\ n = 0
    BY <1>4, <1>5, <2>1
  <2> QED
    BY <2>2
<1>11. ASSUME x \in seen, x \notin Forgotten(in)
       PROVE  \E e \in DOMAIN byEntity' : \E i \in DOMAIN byEntity'[e] : byEntity'[e][i].id = x
  <2>1. PICK e \in DOMAIN byEntity : \E i \in DOMAIN byEntity[e] : byEntity[e][i].id = x
    BY <1>8, <1>11, Zenon
  <2>2. PICK i \in DOMAIN byEntity[e] : byEntity[e][i].id = x
    BY <2>1, Zenon
  <2>3. e \notin Evicted(in)
    BY <1>2, <1>11, <2>2, Zenon
  <2>4. CASE e # in.entity
    BY <1>3, <2>2, <2>3, <2>4, Zenon
  <2>5. CASE e = in.entity
    <3>1. s = byEntity[e] /\ i \in 1..Len(s) /\ s[i].id = x
      BY <1>4, <1>9, <2>2, <2>5, Zenon
    <3>2. i \notin 1..n
      BY <1>2, <1>11, <3>1, Zenon
    <3>3. i \in (n + 1)..Len(s)
      BY <1>9, <3>1, <3>2, Zenon
    <3>4. PICK j \in 1..Len(t) : t[j] = s[i]
      BY <1>5, <3>3, Zenon
    <3>5. in.entity \in DOMAIN byEntity' /\ j \in DOMAIN byEntity'[in.entity]
          /\ byEntity'[in.entity][j].id = x
      BY <1>3, <1>9, <3>1, <3>4, Zenon
    <3> QED
      BY <3>5, Zenon
  <2> QED
    BY <2>4, <2>5, Zenon
<1>12. ASSUME Changed(in), x = in.id
       PROVE  \E e \in DOMAIN byEntity' : \E i \in DOMAIN byEntity'[e] : byEntity'[e][i].id = x
  <2>1. PICK j \in 1..Len(t) : t[j] = Entry(in)
    BY <1>5, <1>12, Zenon
  <2>2. in.entity \in DOMAIN byEntity' /\ j \in DOMAIN byEntity'[in.entity]
        /\ byEntity'[in.entity][j].id = x
    BY <1>3, <1>6, <1>9, <1>12, <2>1, Zenon
  <2> QED
    BY <2>2, Zenon
<1>13. ASSUME NEW e \in DOMAIN byEntity', NEW i \in DOMAIN byEntity'[e], byEntity'[e][i].id = x
       PROVE  x \in seen'
  <2>1. CASE e # in.entity
    <3>1. /\ e \in DOMAIN byEntity /\ e \notin Evicted(in)
          /\ i \in DOMAIN byEntity[e] /\ byEntity[e][i].id = x
      BY <1>3, <1>13, <2>1, Zenon
    <3>2. x \in seen
      BY <1>8, <3>1, Zenon
    <3>3. ~ \E j \in 1..n : s[j].id = x
      <4> SUFFICES ASSUME NEW j \in 1..n, s[j].id = x PROVE FALSE
        OBVIOUS
      <4>1. j \in DOMAIN s /\ in.entity \in DOMAIN byEntity
        BY <1>4, <1>9
      <4>2. s = byEntity[in.entity]
        BY <1>4, <4>1, Zenon
      <4> QED
        BY <1>7, <2>1, <3>1, <4>1, <4>2
    <3>4. ~ \E d \in Evicted(in) : \E j \in DOMAIN byEntity[d] : byEntity[d][j].id = x
      <4> SUFFICES ASSUME NEW d \in Evicted(in), NEW j \in DOMAIN byEntity[d],
                          byEntity[d][j].id = x
                   PROVE  FALSE
        BY Zenon
      <4>1. d \in DOMAIN byEntity /\ byEntity[d][j].id = byEntity[e][i].id
        BY <1>7, <3>1, Zenon
      <4>2. d = e
        BY <1>7, <3>1, <4>1, Zenon
      <4> QED
        BY <3>1, <4>2, Zenon
    <3> QED
      BY <1>1, <1>2, <3>2, <3>3, <3>4, Zenon
  <2>2. CASE e = in.entity
    <3>1. i \in 1..Len(t) /\ t[i].id = x
      BY <1>3, <1>9, <1>13, <2>2, Zenon
    <3>2. CASE Changed(in) /\ t[i] = Entry(in)
      BY <1>1, <1>6, <3>1, <3>2, Zenon
    <3>3. ASSUME NEW j \in (n + 1)..Len(s), t[i] = s[j] PROVE x \in seen'
      <4>1. in.entity \in DOMAIN byEntity
        BY <1>10, <3>3, Zenon
      <4>2. s = byEntity[in.entity] /\ j \in DOMAIN byEntity[in.entity]
            /\ byEntity[in.entity][j].id = x
        BY <1>4, <1>9, <3>1, <3>3, <4>1, Zenon
      <4>3. x \in seen
        BY <1>8, <4>1, <4>2, Zenon
      <4>4. ~ \E k \in 1..n : s[k].id = x
        <5> SUFFICES ASSUME NEW k \in 1..n, s[k].id = x PROVE FALSE
          OBVIOUS
        <5>1. k \in DOMAIN byEntity[in.entity] /\ byEntity[in.entity][k].id = x
          BY <1>9, <4>2, Zenon
        <5>2. k = j
          BY <1>7, <4>1, <4>2, <5>1
        <5> QED
          BY <1>9, <5>2, <3>3, Zenon
      <4>5. ~ \E d \in Evicted(in) : \E k \in DOMAIN byEntity[d] : byEntity[d][k].id = x
        <5> SUFFICES ASSUME NEW d \in Evicted(in), NEW k \in DOMAIN byEntity[d],
                            byEntity[d][k].id = x
                     PROVE  FALSE
          BY Zenon
        <5>1. d \in DOMAIN byEntity /\ byEntity[d][k].id = byEntity[in.entity][j].id
          BY <1>7, <4>2, Zenon
        <5>2. d = in.entity
          BY <1>7, <4>1, <4>2, <5>1, Zenon
        <5> QED
          BY <1>7, <5>2, Zenon
      <4> QED
        BY <1>1, <1>2, <4>3, <4>4, <4>5, Zenon
    <3> QED
      BY <1>5, <3>1, <3>2, <3>3, Zenon
  <2> QED
    BY <2>1, <2>2, Zenon
<1> QED
  BY <1>1, <1>11, <1>12, <1>13, Zenon

\* No id is held twice after a commit.
LEMMA CommitDistinct ==
  ASSUME WInv, NEW in \in Inputs, Accepted(in), Commit(in),
         NEW d \in DOMAIN byEntity', NEW e \in DOMAIN byEntity',
         NEW i \in DOMAIN byEntity'[d], NEW j \in DOMAIN byEntity'[e],
         byEntity'[d][i].id = byEntity'[e][j].id
  PROVE  d = e /\ i = j
<1> DEFINE s == Current(in)
           t == Events(in)
           n == First(in)
<1>1. /\ byEntity'[in.entity] = t
      /\ \A f \in DOMAIN byEntity' : f # in.entity =>
           f \in DOMAIN byEntity /\ byEntity'[f] = byEntity[f]
  BY CommitEffect, Zenon
<1>2. /\ s \in Seq(Stored)
      /\ in.entity \notin DOMAIN byEntity => s = <<>>
      /\ in.entity \in DOMAIN byEntity => s = byEntity[in.entity]
  BY CurrentFacts, Zenon
<1>3. /\ n \in 0..Len(s)
      /\ \A k \in 1..Len(t) : \/ t[k] = Entry(in)
                              \/ \E l \in (n + 1)..Len(s) : t[k] = s[l]
  BY PrepareFacts, Zenon DEF Prepared
<1>4. /\ t \in Seq(Stored \cup {Entry(in)}) /\ Distinct(t)
      /\ Entry(in).id = in.id /\ in.id \notin seen
  BY PrepareFacts, AcceptedEvent, Zenon
<1>5. \A f, g \in DOMAIN byEntity : \A k \in DOMAIN byEntity[f], l \in DOMAIN byEntity[g] :
        byEntity[f][k].id = byEntity[g][l].id => f = g /\ k = l
  BY Zenon DEF WInv, IndexesAgree
<1>6. \A f \in DOMAIN byEntity : \A k \in DOMAIN byEntity[f] : byEntity[f][k].id \in seen
  BY SeenMeaning, Zenon
<1> HIDE DEF s, t, n
<1>7. DOMAIN t = 1..Len(t) /\ \A l \in (n + 1)..Len(s) : l \in DOMAIN s
  BY <1>2, <1>3, <1>4
<1>8. ASSUME NEW f \in DOMAIN byEntity, f # in.entity, NEW k \in DOMAIN byEntity[f],
             NEW l \in DOMAIN t
      PROVE  byEntity[f][k].id # t[l].id
  <2>1. CASE t[l] = Entry(in)
    BY <1>4, <1>6, <2>1, Zenon
  <2>2. ASSUME NEW m \in (n + 1)..Len(s), t[l] = s[m] PROVE byEntity[f][k].id # t[l].id
    <3>1. m \in DOMAIN s
      BY <1>7, Zenon
    <3>2. in.entity \in DOMAIN byEntity
      BY <1>2, <3>1
    <3>3. s = byEntity[in.entity]
      BY <1>2, <3>2, Zenon
    <3> QED
      BY <1>5, <1>8, <2>2, <3>1, <3>2, <3>3
  <2> QED
    BY <1>3, <1>7, <2>1, <2>2, Zenon
<1>9. CASE d # in.entity /\ e # in.entity
  <2>1. /\ d \in DOMAIN byEntity /\ e \in DOMAIN byEntity
        /\ byEntity'[d] = byEntity[d] /\ byEntity'[e] = byEntity[e]
    BY <1>1, <1>9, Zenon
  <2> QED
    BY <1>5, <2>1
<1>10. CASE d # in.entity /\ e = in.entity
  <2>1. d \in DOMAIN byEntity /\ byEntity'[d] = byEntity[d] /\ byEntity'[e] = t
    BY <1>1, <1>10, Zenon
  <2>2. byEntity[d][i].id # t[j].id
    BY <1>8, <1>10, <2>1
  <2> QED
    BY <2>1, <2>2, Zenon
<1>11. CASE d = in.entity /\ e # in.entity
  <2>1. e \in DOMAIN byEntity /\ byEntity'[e] = byEntity[e] /\ byEntity'[d] = t
    BY <1>1, <1>11, Zenon
  <2>2. byEntity[e][j].id # t[i].id
    BY <1>8, <1>11, <2>1
  <2> QED
    BY <2>1, <2>2, Zenon
<1>12. CASE d = in.entity /\ e = in.entity
  BY <1>1, <1>4, <1>12, Zenon DEF Distinct
<1> QED
  BY <1>9, <1>10, <1>11, <1>12, Zenon

\* eventCount counts the ids after a commit, and is what prepareLocked projected.
LEMMA CommitCounts ==
  ASSUME WInv, NEW in \in Inputs, Accepted(in), Commit(in)
  PROVE  /\ IsFiniteSet(seen') /\ eventCount' = Cardinality(seen')
         /\ eventCount' <= MaxEvents
<1> DEFINE F == Forgotten(in)
           c == IF Changed(in) THEN 1 ELSE 0
           l == Len(Current(in))
           n == First(in)
           r == Released(in)
<1>1. /\ F \subseteq seen /\ IsFiniteSet(F) /\ n \in Nat /\ r \in Nat
      /\ Cardinality(F) = n + r
  BY ForgottenFacts, Zenon
<1>2. IsFiniteSet(seen) /\ eventCount = Cardinality(seen)
  BY Zenon DEF WInv, IndexesAgree, DedupeSize
<1>3. in.id \notin seen
  BY AcceptedEvent, Zenon
<1>4. /\ seen' = (seen \ F) \cup (IF Changed(in) THEN {in.id} ELSE {})
      /\ eventCount' = eventCount - r + Len(Events(in)) - l
  BY Zenon DEF Commit
<1>5. Len(Events(in)) = l - n + c /\ n \in 0..l
  BY PrepareFacts, Zenon DEF Prepared
<1>6. l \in Nat
  BY CurrentFacts
<1>7. ProjectedEventCount(in) = eventCount - n - r + c
  BY Zenon DEF ProjectedEventCount
<1>8. ~(ProjectedEventCount(in) > MaxEvents)
  BY AcceptedEvent, Zenon
<1>c. c \in {0, 1} /\ (Changed(in) => c = 1) /\ (~Changed(in) => c = 0)
  OBVIOUS
<1> HIDE DEF F, c, l, n, r
<1>9. Cardinality(seen) \in Nat
  BY <1>2, FS_CardinalityType, Zenon
<1>10. IsFiniteSet(seen \ F) /\ Cardinality(seen \ F) = Cardinality(seen) - (n + r)
  <2>1. seen \cap F = F
    BY <1>1
  <2>2. IsFiniteSet(seen \ F) /\ Cardinality(seen \ F) = Cardinality(seen) - Cardinality(seen \cap F)
    BY <1>2, FS_Difference, Zenon
  <2> QED
    BY <1>1, <2>1, <2>2, Zenon
<1>11. IsFiniteSet(seen') /\ Cardinality(seen') = Cardinality(seen \ F) + c
  <2>1. CASE Changed(in)
    <3>1. seen' = (seen \ F) \cup {in.id} /\ in.id \notin seen \ F
      BY <1>3, <1>4, <2>1, Zenon
    <3>2. IsFiniteSet(seen') /\ Cardinality(seen') = Cardinality(seen \ F) + 1
      BY <1>10, <3>1, FS_AddElement, Zenon
    <3> QED
      BY <1>c, <2>1, <3>2, Zenon
  <2>2. CASE ~Changed(in)
    <3>1. seen' = seen \ F
      BY <1>4, <2>2
    <3>2. Cardinality(seen \ F) \in Nat
      BY <1>10, FS_CardinalityType, Zenon
    <3>3. c = 0
      BY <1>c, <2>2, Zenon
    <3> QED
      BY <1>10, <3>1, <3>2, <3>3
  <2> QED
    BY <2>1, <2>2, Zenon
<1>12. eventCount' = eventCount - n - r + c
  BY <1>1, <1>2, <1>4, <1>5, <1>6, <1>9, <1>c
<1>13. eventCount' = Cardinality(seen')
  BY <1>1, <1>2, <1>9, <1>10, <1>11, <1>12, <1>c
<1>14. eventCount' <= MaxEvents
  BY <1>1, <1>2, <1>7, <1>8, <1>9, <1>12, <1>c, WindowAssumption
<1> QED
  BY <1>11, <1>13, <1>14, Zenon

\* A new entity takes the place of another when there is no room.
LEMMA CommitEntities ==
  ASSUME WInv, NEW in \in Inputs, Accepted(in), Commit(in)
  PROVE  /\ IsFiniteSet(DOMAIN byEntity') /\ DOMAIN byEntity' \subseteq Nat
         /\ Cardinality(DOMAIN byEntity') <= MaxEntities
<1> DEFINE D == DOMAIN byEntity
<1>1. /\ IsFiniteSet(D) /\ DOMAIN watermark = D /\ D \subseteq Nat
      /\ Cardinality(D) <= MaxEntities
  BY Zenon DEF WInv, IndexesAgree, EntityCount, TypeOK
<1>2. DOMAIN byEntity' = (D \ Evicted(in)) \cup {in.entity}
  BY CommitEffect, Zenon
<1>3. in.entity \in Nat /\ MaxEntities \in Nat
  BY AcceptedEvent, WindowAssumption, Zenon
<1>4. Cardinality(D) \in Nat
  BY <1>1, FS_CardinalityType, Zenon
<1>5. DOMAIN byEntity' \subseteq Nat
  BY <1>1, <1>2, <1>3
<1>6. CASE NoRoom(in)
  <2> DEFINE o == OldestEntity
  <2>1. o \in D /\ in.entity \notin D /\ Evicted(in) = {o}
    BY <1>6, EvictedFacts, Zenon DEF Evicted
  <2> HIDE DEF o, D
  <2>2. IsFiniteSet(D \ {o}) /\ Cardinality(D \ {o}) = Cardinality(D) - 1
    BY <1>1, <2>1, FS_RemoveElement, Zenon
  <2>3. in.entity \notin D \ {o}
    BY <2>1, Zenon
  <2>4. /\ IsFiniteSet((D \ {o}) \cup {in.entity})
        /\ Cardinality((D \ {o}) \cup {in.entity}) = Cardinality(D \ {o}) + 1
    BY <2>2, <2>3, FS_AddElement, Zenon
  <2>5. Cardinality(D \ {o}) + 1 <= MaxEntities
    BY <1>1, <1>3, <1>4, <2>2
  <2> QED
    BY <1>2, <1>5, <2>1, <2>4, <2>5, Zenon
<1>7. CASE ~NoRoom(in)
  <2>1. DOMAIN byEntity' = D \cup {in.entity}
    BY <1>2, <1>7 DEF Evicted
  <2>2. in.entity \in D \/ ~(Cardinality(D) >= MaxEntities)
    BY <1>1, <1>7, Zenon DEF NoRoom
  <2> HIDE DEF D
  <2>3. /\ IsFiniteSet(D \cup {in.entity})
        /\ Cardinality(D \cup {in.entity}) = IF in.entity \in D THEN Cardinality(D) ELSE Cardinality(D) + 1
    BY <1>1, FS_AddElement, Zenon
  <2>4. Cardinality(D \cup {in.entity}) <= MaxEntities
    BY <1>1, <1>3, <1>4, <2>2, <2>3
  <2> QED
    BY <1>5, <2>1, <2>3, <2>4, Zenon
<1> QED
  BY <1>6, <1>7, Zenon

-----------------------------------------------------------------------------
(* The events of an entity.                                                *)

\* A sequence whose entries are in T is a sequence over T.
LEMMA Retype ==
  ASSUME NEW S, NEW T, NEW s \in Seq(S), \A i \in 1..Len(s) : s[i] \in T
  PROVE  s \in Seq(T)
<1>1. Len(s) \in Nat /\ s = SubSeq(s, 1, Len(s))
  BY SubSeqFull
<1>2. SubSeq(s, 1, Len(s)) \in Seq(T)
  BY <1>1, SubSeqProperties
<1> QED
  BY <1>1, <1>2, Zenon

\* After a commit the events held are of the right type.
LEMMA CommitStored ==
  ASSUME WInv, NEW in \in Inputs, Accepted(in), Commit(in), NEW e \in DOMAIN byEntity'
  PROVE  byEntity'[e] \in Seq(Stored')
<1> DEFINE S == Stored \cup {Entry(in)}
<1>1. byEntity'[e] \in Seq(S)
  <2>1. CASE e = in.entity
    BY <2>1, CommitEffect, PrepareFacts, Zenon
  <2>2. CASE e # in.entity
    <3>1. e \in DOMAIN byEntity /\ byEntity'[e] = byEntity[e]
      BY <2>2, CommitEffect, Zenon
    <3>2. byEntity[e] \in Seq(Stored)
      BY <3>1, Zenon DEF WInv, EntityInv
    <3> QED
      BY <3>1, <3>2
  <2> QED
    BY <2>1, <2>2, Zenon
<1>2. ASSUME NEW x \in S, x.id \in seen' PROVE x \in Stored'
  <2>1. Stored' = [id : seen', at : Nat \ {0}, amount : Nat]
    BY Zenon DEF Stored
  <2>2. CASE x \in Stored
    BY <1>2, <2>1, <2>2 DEF Stored
  <2>3. CASE x = Entry(in)
    <3>1. in.at \in Nat \ {0} /\ in.amount \in Nat /\ in.id \in seen'
      BY <1>2, <2>3, AcceptedEvent, Zenon
    <3> QED
      BY <2>1, <2>3, <3>1 DEF Entry
  <2> QED
    BY <2>2, <2>3, Zenon
<1> HIDE DEF S
<1>3. DOMAIN byEntity'[e] = 1..Len(byEntity'[e]) /\ \A i \in 1..Len(byEntity'[e]) : byEntity'[e][i] \in S
  BY <1>1
<1>4. \A i \in 1..Len(byEntity'[e]) : byEntity'[e][i].id \in seen'
  BY <1>3, CommitSeen, Zenon
<1>5. \A i \in 1..Len(byEntity'[e]) : byEntity'[e][i] \in Stored'
  BY <1>2, <1>3, <1>4, Zenon
<1> QED
  BY <1>1, <1>5, Retype, Zenon

\* After a commit an entity has exactly its events of the last Duration.
LEMMA CommitEntity ==
  ASSUME WInv, NEW in \in Inputs, Accepted(in), Commit(in), NEW e \in DOMAIN byEntity'
  PROVE  EntityInv(e)'
<1>1. byEntity'[e] \in Seq(Stored')
  BY CommitStored, Zenon
<1>2. CASE e # in.entity
  <2>1. /\ e \in DOMAIN byEntity /\ byEntity'[e] = byEntity[e]
        /\ watermark'[e] = watermark[e] /\ arrived'[e] = arrived[e]
    BY <1>2, CommitEffect, Zenon
  <2>2. EntityInv(e)
    BY <2>1, Zenon DEF WInv
  <2>3. /\ Sorted(byEntity'[e]) /\ watermark'[e] \in Nat \ {0}
        /\ \A x \in arrived'[e] : x.at \in Nat /\ x.at <= watermark'[e]
        /\ \E x \in arrived'[e] : x.at = watermark'[e]
        /\ Range(byEntity'[e]) = {x \in arrived'[e] : x.at >= watermark'[e] - Duration}
    BY <2>1, <2>2, Zenon DEF EntityInv
  <2> QED
    BY <1>1, <2>3, Zenon DEF EntityInv
<1>3. CASE e = in.entity
  <2> DEFINE s == Current(in)
             t == Events(in)
             n == First(in)
             w == Lookup(watermark, in.entity, 0)
             W == NewWatermark(in)
             A == Lookup(arrived, in.entity, {})
             X == Entry(in)
  <2>1. byEntity'[e] = t /\ watermark'[e] = W /\ arrived'[e] = A \cup {X}
    BY <1>3, CommitEffect, Zenon
  <2>2. /\ s \in Seq(Stored) /\ w \in Nat /\ W \in {in.at, w} /\ in.at <= W /\ W \in Nat \ {0}
        /\ w <= W /\ Cutoff(in) \in Int /\ Cutoff(in) = W - Duration
        /\ in.entity \notin DOMAIN byEntity => s = <<>> /\ W = in.at
    BY CurrentFacts, Zenon
  <2>3. X.at = in.at /\ in.at \in Nat /\ Duration \in Nat
    BY AcceptedEvent, WindowAssumption, Zenon
  <2>4. /\ \A x \in A : x.at \in Nat /\ x.at <= w
        /\ Range(s) = {x \in A : x.at >= w - Duration}
        /\ in.entity \in DOMAIN byEntity => \E x \in A : x.at = w
    <3>1. DOMAIN arrived = DOMAIN byEntity
      BY Zenon DEF WInv, IndexesAgree, TypeOK
    <3>2. CASE in.entity \in DOMAIN byEntity
      <4>1. A = arrived[in.entity] /\ s = byEntity[in.entity] /\ w = watermark[in.entity]
        BY <3>1, <3>2, CurrentFacts, Zenon DEF Lookup
      <4>2. EntityInv(in.entity)
        BY <3>2, Zenon DEF WInv
      <4> QED
        BY <4>1, <4>2, Zenon DEF EntityInv
    <3>3. CASE in.entity \notin DOMAIN byEntity
      <4>1. A = {} /\ s = <<>>
        BY <2>2, <3>1, <3>3, Zenon DEF Lookup
      <4> QED
        BY <3>3, <4>1 DEF Range
    <3> QED
      BY <3>2, <3>3, Zenon
  <2>5. /\ n \in 0..Len(s)
        /\ \A i \in 1..Len(s) : i <= n <=> s[i].at < Cutoff(in)
        /\ \A i \in 1..Len(t) : \/ Changed(in) /\ t[i] = X
                                \/ \E j \in (n + 1)..Len(s) : t[i] = s[j]
        /\ \A j \in (n + 1)..Len(s) : \E i \in 1..Len(t) : t[i] = s[j]
        /\ Changed(in) => \E i \in 1..Len(t) : t[i] = X
        /\ Sorted(t)
    BY PrepareFacts, Zenon DEF Prepared
  <2>6. t \in Seq(Stored \cup {X})
    BY PrepareFacts, Zenon
  <2>7. Changed(in) <=> in.at >= W - Duration
    BY <2>2, Zenon DEF Changed
  <2> HIDE DEF s, t, n, w, W, A, X
  <2>8. \A x \in A \cup {X} : x.at \in Nat /\ x.at <= W
    BY <2>2, <2>3, <2>4
  <2>9. \E x \in A \cup {X} : x.at = W
    BY <2>2, <2>3, <2>4
  <2>10. /\ DOMAIN s = 1..Len(s) /\ DOMAIN t = 1..Len(t) /\ Len(s) \in Nat
         /\ \A j \in (n + 1)..Len(s) : j \in 1..Len(s) /\ ~(j <= n)
         /\ \A j \in 1..Len(s) : ~(j <= n) => j \in (n + 1)..Len(s)
    BY <2>2, <2>5, <2>6
  <2>11. ASSUME NEW x \in Range(t) PROVE x \in A \cup {X} /\ x.at >= W - Duration
    <3>1. PICK i \in 1..Len(t) : t[i] = x
      BY <2>10 DEF Range
    <3>2. CASE Changed(in) /\ t[i] = X
      BY <2>3, <2>7, <3>1, <3>2, Zenon
    <3>3. ASSUME NEW j \in (n + 1)..Len(s), t[i] = s[j]
          PROVE  x \in A \cup {X} /\ x.at >= W - Duration
      <4>1. j \in 1..Len(s) /\ ~(j <= n) /\ s[j] = x
        BY <2>10, <3>1, <3>3, Zenon
      <4>2. x \in Range(s)
        BY <2>10, <4>1 DEF Range
      <4>3. x \in A /\ x.at \in Nat
        BY <2>4, <4>2, Zenon
      <4>4. ~(x.at < Cutoff(in))
        BY <2>5, <4>1, Zenon
      <4>5. x.at >= W - Duration
        BY <2>2, <2>3, <4>3, <4>4
      <4> QED
        BY <4>3, <4>5, Zenon
    <3> QED
      BY <2>5, <3>2, <3>3, Zenon
  <2>12. ASSUME NEW x \in A \cup {X}, x.at >= W - Duration PROVE x \in Range(t)
    <3>1. CASE x = X
      <4>1. Changed(in)
        BY <2>3, <2>7, <2>12, <3>1, Zenon
      <4> QED
        BY <2>5, <2>10, <3>1, <4>1 DEF Range
    <3>2. CASE x \in A
      <4>1. x.at \in Nat /\ x.at >= w - Duration
        BY <2>2, <2>3, <2>4, <2>12, <3>2
      <4>2. x \in Range(s)
        BY <2>4, <3>2, <4>1, Zenon
      <4>3. PICK j \in 1..Len(s) : s[j] = x
        BY <2>10, <4>2 DEF Range
      <4>4. ~(x.at < Cutoff(in))
        BY <2>2, <2>3, <2>12, <4>1
      <4>5. j \in (n + 1)..Len(s)
        BY <2>5, <2>10, <4>3, <4>4, Zenon
      <4>6. PICK i \in 1..Len(t) : t[i] = s[j]
        BY <2>5, <4>5, Zenon
      <4> QED
        BY <2>10, <4>3, <4>6 DEF Range
    <3> QED
      BY <3>1, <3>2, Zenon
  <2>13. Range(t) = {x \in A \cup {X} : x.at >= W - Duration}
    BY <2>11, <2>12, Zenon
  <2>14. /\ Sorted(byEntity'[e]) /\ watermark'[e] \in Nat \ {0}
         /\ \A x \in arrived'[e] : x.at \in Nat /\ x.at <= watermark'[e]
         /\ \E x \in arrived'[e] : x.at = watermark'[e]
         /\ Range(byEntity'[e]) = {x \in arrived'[e] : x.at >= watermark'[e] - Duration}
    BY <2>1, <2>2, <2>5, <2>8, <2>9, <2>13, Zenon
  <2> QED
    BY <1>1, <2>14, Zenon DEF EntityInv
<1> QED
  BY <1>2, <1>3, Zenon

-----------------------------------------------------------------------------
(* The sink.                                                               *)

\* The largest of finitely many natural numbers is a natural number.
LEMMA LargestType ==
  ASSUME NEW S, NEW s \in Seq(S), \A x \in S : x.amount \in Nat
  PROVE  Largest(s, DOMAIN s) \in Nat
<1> DEFINE L == Len(s)
           f == [i \in 1..L |-> s[i].amount]
           Has(m) == \E k \in 1..m : \A j \in 1..m : f[j] <= f[k]
           Bad == {m \in 1..L : ~Has(m)}
<1>1. L \in Nat /\ DOMAIN s = 1..L /\ \A i \in 1..L : f[i] \in Nat /\ f[i] = s[i].amount
  OBVIOUS
<1> HIDE DEF L, f
<1>2. Bad = {}
  <2> SUFFICES ASSUME Bad # {} PROVE FALSE
    OBVIOUS
  <2>1. Bad \in SUBSET Nat
    BY <1>1
  <2> HIDE DEF Bad
  <2>2. PICK m \in Bad : \A k \in Bad : m <= k
    BY <2>1, Least, Zenon
  <2>3. m \in 1..L /\ ~Has(m)
    BY Zenon DEF Bad
  <2> HIDE DEF Has
  <2>4. f[m] \in Nat /\ m \in Nat
    BY <1>1, <2>3
  <2>5. m # 1
    BY <2>3, <2>4 DEF Has
  <2>6. m - 1 \in 1..L /\ ~(m <= m - 1)
    BY <1>1, <2>3, <2>5
  <2>7. Has(m - 1)
    BY <2>2, <2>6, Zenon DEF Bad
  <2>8. PICK k \in 1..(m - 1) : \A j \in 1..(m - 1) : f[j] <= f[k]
    BY <2>7, Zenon DEF Has
  <2>9. k \in 1..m /\ m \in 1..m /\ \A j \in 1..m : j \in 1..L /\ (j = m \/ j \in 1..(m - 1))
    BY <1>1, <2>3, <2>8
  <2>10. \A j \in 1..m : f[j] \in Nat
    BY <1>1, <2>9, Zenon
  <2>11. ~(f[m] <= f[k])
    BY <2>3, <2>8, <2>9, Zenon DEF Has
  <2>12. \A j \in 1..m : f[j] <= f[m]
    BY <2>4, <2>8, <2>9, <2>10, <2>11
  <2> QED
    BY <2>3, <2>9, <2>12, Zenon DEF Has
<1>3. CASE L = 0
  <2>1. DOMAIN s = {}
    BY <1>1, <1>3
  <2> QED
    BY <2>1 DEF Largest
<1>4. CASE L # 0
  <2> DEFINE T == {s[i].amount : i \in DOMAIN s}
  <2>1. L \in 1..L
    BY <1>1, <1>4
  <2>2. Has(L)
    BY <1>2, <2>1, Zenon
  <2>3. PICK k \in 1..L : \A j \in 1..L : f[j] <= f[k]
    BY <2>2, Zenon
  <2>4. s[k].amount \in T /\ \A y \in T : s[k].amount >= y
    BY <1>1, <2>3
  <2>5. T \subseteq Nat
    BY <1>1
  <2>6. Max(T) \in T
    BY <2>4, Zenon DEF Max
  <2>7. Largest(s, DOMAIN s) = Max(T)
    BY <1>1, <2>1 DEF Largest
  <2> QED
    BY <2>5, <2>6, <2>7, Zenon
<1> QED
  BY <1>3, <1>4, Zenon

FeatureSet == [count : Nat, total : 0..MaxTotal, max : Nat, end : Nat]

\* The features of an accepted event are within the range of the numbers.
LEMMA PendingType ==
  ASSUME WInv, NEW in \in Inputs, Accepted(in)
  PROVE  Pending(in) \in FeatureSet
<1> DEFINE t == Events(in)
           S == Stored \cup {Entry(in)}
<1>1. t \in Seq(S)
  BY PrepareFacts, Zenon
<1>2. \A x \in S : x.amount \in Nat
  <2>1. Entry(in).amount \in Nat
    BY AcceptedEvent, Zenon
  <2> QED
    BY <2>1 DEF Stored
<1>3. Total(t, DOMAIN t) \in 0..MaxTotal
  BY AcceptedEvent, Zenon
<1>4. NewWatermark(in) \in Nat
  BY CurrentFacts
<1>5. Pending(in) = [count |-> Cardinality(DOMAIN t), total |-> Total(t, DOMAIN t),
                     max |-> Largest(t, DOMAIN t), end |-> NewWatermark(in)]
  BY Zenon DEF Pending, Features
<1> HIDE DEF t, S
<1>6. Largest(t, DOMAIN t) \in Nat
  BY <1>1, <1>2, LargestType, Zenon
<1>7. Cardinality(DOMAIN t) \in Nat
  <2>1. Len(t) \in Nat /\ DOMAIN t = 1..Len(t)
    BY <1>1
  <2>2. IsFiniteSet(1..Len(t))
    BY <2>1, FS_Interval
  <2> QED
    BY <2>1, <2>2, FS_CardinalityType, Zenon
<1> QED
  <2>1. \A a, b, c, d : a \in Nat /\ b \in 0..MaxTotal /\ c \in Nat /\ d \in Nat =>
          [count |-> a, total |-> b, max |-> c, end |-> d] \in FeatureSet
    BY DEF FeatureSet
  <2> QED
    BY <1>3, <1>4, <1>5, <1>6, <1>7, <2>1, Zenon

\* An event that needs no write changes neither the events nor the watermark.
LEMMA NothingToWrite ==
  ASSUME WInv, NEW in \in Inputs, Accepted(in), ~NeedsPut(in)
  PROVE  /\ in.entity \in DOMAIN byEntity
         /\ Events(in) = byEntity[in.entity]
         /\ NewWatermark(in) = watermark[in.entity]
<1>1. ~Changed(in) /\ Expired(in) = {}
  BY Zenon DEF NeedsPut
<1>2. First(in) = 0
  <2>1. IsFiniteSet(Expired(in)) /\ Cardinality(Expired(in)) = First(in)
    BY ExpiredFacts, Zenon
  <2> QED
    BY <1>1, <2>1, FS_EmptySet, Zenon
<1>3. Events(in) = Current(in)
  <2>1. Events(in) = SubSeq(Current(in), First(in) + 1, Len(Current(in)))
    BY <1>1, Zenon DEF Events, Kept
  <2>2. First(in) + 1 = 1
    BY <1>2
  <2>3. Current(in) \in Seq(Stored)
    BY CurrentFacts, Zenon
  <2> QED
    BY <2>1, <2>2, <2>3, SubSeqFull, Zenon
<1>4. in.at \in Nat /\ Duration \in Nat
  BY AcceptedEvent, WindowAssumption, Zenon
<1>5. NewWatermark(in) # in.at
  <2>1. ~(in.at >= NewWatermark(in) - Duration)
    BY <1>1, Zenon DEF Changed, Cutoff
  <2> QED
    BY <1>4, <2>1
<1> QED
  BY <1>3, <1>5, CurrentFacts, Zenon

-----------------------------------------------------------------------------
(* The invariant holds in every state.                                     *)

\* What a step does to the sink: the features stored for the event's entity are
\* those of the window after the event, or nothing was stored.
SinkStep(in) ==
  \/ Store(in)
  \/ sink' = sink

\* Whatever is stored is in range.
LEMMA SinkType ==
  ASSUME WInv, NEW in \in Inputs, Accepted(in), SinkStep(in)
  PROVE  \A e \in DOMAIN sink' : sink'[e] \in FeatureSet
<1>1. \A e \in DOMAIN sink : sink[e] \in FeatureSet
  BY Zenon DEF WInv, IndexesAgree, TypeOK, FeatureSet
<1>2. Pending(in) \in FeatureSet
  BY PendingType, Zenon
<1>3. CASE sink' = sink
  BY <1>1, <1>3, Zenon
<1>4. CASE Store(in)
  BY <1>1, <1>2, <1>4 DEF Store, With
<1> QED
  BY <1>3, <1>4, Zenon DEF SinkStep

\* A commit keeps the indexes and the entities right.
LEMMA CommitKeeps ==
  ASSUME WInv, NEW in \in Inputs, Accepted(in), Commit(in), SinkStep(in),
         unsynced' \subseteq unsynced \cup {in.entity}
  PROVE  /\ IndexesAgree'
         /\ IsFiniteSet(DOMAIN byEntity') /\ IsFiniteSet(seen')
         /\ \A e \in DOMAIN byEntity' : EntityInv(e)'
<1>1. \A e \in DOMAIN byEntity' : EntityInv(e)'
  BY CommitEntity, Zenon
<1>2. /\ IsFiniteSet(DOMAIN byEntity') /\ DOMAIN byEntity' \subseteq Nat
      /\ Cardinality(DOMAIN byEntity') <= MaxEntities
  BY CommitEntities, Zenon
<1>3. IsFiniteSet(seen') /\ eventCount' = Cardinality(seen') /\ eventCount' <= MaxEvents
  BY CommitCounts, Zenon
<1>4. /\ DOMAIN watermark' = DOMAIN byEntity' /\ DOMAIN arrived' = DOMAIN byEntity'
      /\ lastActive' = watermark'
  BY CommitEffect, Zenon
<1>5. \A d, e \in DOMAIN byEntity' : \A i \in DOMAIN byEntity'[d], j \in DOMAIN byEntity'[e] :
        byEntity'[d][i].id = byEntity'[e][j].id => d = e /\ i = j
  BY CommitDistinct, Zenon
<1>6. seen' = UNION {Ids(byEntity'[e]) : e \in DOMAIN byEntity'}
  <2>1. \A x : x \in seen' <=> \E e \in DOMAIN byEntity' : \E i \in DOMAIN byEntity'[e] :
                                 byEntity'[e][i].id = x
    BY CommitSeen, Zenon
  <2> QED
    BY <2>1 DEF Ids
<1>7. TypeOK'
  <2>1. \A e \in DOMAIN byEntity' : \A i \in DOMAIN byEntity'[e] :
          byEntity'[e][i] \in [id : seen', at : Nat \ {0}, amount : Nat]
    <3> SUFFICES ASSUME NEW e \in DOMAIN byEntity', NEW i \in DOMAIN byEntity'[e]
                 PROVE  byEntity'[e][i] \in [id : seen', at : Nat \ {0}, amount : Nat]
      OBVIOUS
    <3>1. byEntity'[e] \in Seq(Stored')
      BY CommitStored, Zenon
    <3>2. byEntity'[e][i] \in Stored'
      BY <3>1
    <3> QED
      BY <3>2, Zenon DEF Stored
  <2>2. \A p \in DOMAIN offsets' : p \in 0..(MaxTrackedPartitions - 1) /\ offsets'[p] \in Nat
    <3>1. \A p \in DOMAIN offsets : p \in 0..(MaxTrackedPartitions - 1) /\ offsets[p] \in Nat
      BY Zenon DEF WInv, IndexesAgree, TypeOK
    <3>2. in.partition \in 0..(MaxTrackedPartitions - 1) /\ in.offset \in Nat
      BY AcceptedEvent, Zenon
    <3>3. offsets' = With(offsets, in.partition, in.offset)
      BY Zenon DEF Commit
    <3>4. /\ DOMAIN offsets' = DOMAIN offsets \cup {in.partition}
          /\ offsets'[in.partition] = in.offset
          /\ \A p \in DOMAIN offsets : p # in.partition => offsets'[p] = offsets[p]
      BY <3>3 DEF With
    <3> QED
      BY <3>1, <3>2, <3>4, Zenon
  <2>3. \A e \in DOMAIN watermark' : watermark'[e] \in Nat \ {0}
    BY <1>1, <1>4, Zenon DEF EntityInv
  <2>4. \A e \in DOMAIN sink' :
          sink'[e] \in [count : Nat, total : 0..MaxTotal, max : Nat, end : Nat]
    BY SinkType, Zenon DEF FeatureSet
  <2>5. unsynced' \subseteq Nat
    <3>1. unsynced \subseteq Nat
      BY Zenon DEF WInv, IndexesAgree, TypeOK
    <3>2. in.entity \in Nat
      BY AcceptedEvent, Zenon
    <3> QED
      BY <3>1, <3>2
  <2> QED
    BY <1>2, <1>4, <2>1, <2>2, <2>3, <2>4, <2>5, Zenon DEF TypeOK
<1>8. IndexesAgree'
  BY <1>2, <1>3, <1>4, <1>5, <1>6, <1>7, Zenon DEF IndexesAgree, DedupeSize, EntityCount
<1> QED
  BY <1>1, <1>2, <1>3, <1>8, Zenon

\* A success, with or without a sink, keeps the sink in agreement.
LEMMA CommitSink ==
  ASSUME WInv, NEW in \in Inputs, Accepted(in), Commit(in),
         \/ Store(in) /\ unsynced' = unsynced \ {in.entity}
         \/ sink' = sink /\ unsynced' = unsynced \cup {in.entity}
         \/ ~NeedsPut(in) /\ sink' = sink /\ unsynced' = unsynced
  PROVE  SinkInv'
<1> SUFFICES ASSUME NEW e \in DOMAIN byEntity' \ unsynced'
             PROVE  /\ e \in DOMAIN sink'
                    /\ sink'[e] = Features(byEntity'[e], DOMAIN byEntity'[e], watermark'[e])
  BY Zenon DEF SinkInv
<1>1. byEntity'[in.entity] = Events(in) /\ watermark'[in.entity] = NewWatermark(in)
  BY CommitEffect, Zenon
<1>2. \A f \in DOMAIN byEntity \ unsynced :
        f \in DOMAIN sink /\ sink[f] = Features(byEntity[f], DOMAIN byEntity[f], watermark[f])
  BY Zenon DEF WInv, SinkInv
<1>3. Store(in) => /\ DOMAIN sink' = DOMAIN sink \cup {in.entity}
                   /\ sink'[in.entity] = Pending(in)
                   /\ \A f \in DOMAIN sink : f # in.entity => sink'[f] = sink[f]
  BY DEF Store, With
<1>4. CASE e # in.entity
  <2>1. e \in DOMAIN byEntity /\ byEntity'[e] = byEntity[e] /\ watermark'[e] = watermark[e]
    BY <1>4, CommitEffect, Zenon
  <2>2. e \notin unsynced
    BY <1>4, Zenon
  <2>3. e \in DOMAIN sink /\ sink[e] = Features(byEntity'[e], DOMAIN byEntity'[e], watermark'[e])
    BY <1>2, <2>1, <2>2, Zenon
  <2> QED
    BY <1>3, <1>4, <2>3, Zenon
<1>5. CASE e = in.entity
  <2>1. CASE Store(in)
    <3>1. Pending(in) = Features(byEntity'[e], DOMAIN byEntity'[e], watermark'[e])
      BY <1>1, <1>5, Zenon DEF Pending
    <3> QED
      BY <1>3, <1>5, <2>1, <3>1, Zenon
  <2>2. CASE sink' = sink /\ unsynced' = unsynced \cup {in.entity}
    BY <1>5, <2>2, Zenon
  <2>3. CASE ~NeedsPut(in) /\ sink' = sink /\ unsynced' = unsynced
    <3>1. /\ in.entity \in DOMAIN byEntity /\ Events(in) = byEntity[in.entity]
          /\ NewWatermark(in) = watermark[in.entity]
      BY <2>3, NothingToWrite, Zenon
    <3>2. byEntity'[e] = byEntity[e] /\ watermark'[e] = watermark[e] /\ e \in DOMAIN byEntity
      BY <1>1, <1>5, <3>1, Zenon
    <3> QED
      BY <1>2, <2>3, <3>2, Zenon
  <2> QED
    BY <2>1, <2>2, <2>3, Zenon
<1> QED
  BY <1>4, <1>5, Zenon

\* Nothing happens.
LEMMA Stutter ==
  ASSUME WInv, UNCHANGED vars
  PROVE  WInv'
<1>1. /\ byEntity' = byEntity /\ seen' = seen /\ offsets' = offsets
      /\ watermark' = watermark /\ lastActive' = lastActive /\ eventCount' = eventCount
      /\ sink' = sink /\ unsynced' = unsynced /\ arrived' = arrived
  BY Zenon DEF vars, windowVars, historyVars
<1>2. TypeOK'
  BY <1>1 DEF WInv, IndexesAgree, TypeOK
<1>3. IndexesAgree'
  BY <1>1, <1>2 DEF WInv, IndexesAgree, DedupeSize, EntityCount
<1>4. \A e \in DOMAIN byEntity' : EntityInv(e)'
  BY <1>1, Zenon DEF WInv, EntityInv, Stored
<1>5. SinkInv'
  BY <1>1, Zenon DEF WInv, SinkInv
<1> QED
  BY <1>1, <1>3, <1>4, <1>5, Zenon DEF WInv

\* An error leaves the window alone; what the sink may have stored is in doubt.
LEMMA FailKeeps ==
  ASSUME WInv, NEW in \in Inputs, Fail(in)
  PROVE  WInv'
<1>1. CASE UNCHANGED vars
  BY <1>1, Stutter, Zenon
<1>2. CASE Accepted(in) /\ PutFails(in) /\ UNCHANGED <<windowVars, arrived>>
  <2>1. /\ byEntity' = byEntity /\ seen' = seen /\ offsets' = offsets /\ watermark' = watermark
        /\ lastActive' = lastActive /\ eventCount' = eventCount /\ arrived' = arrived
    BY <1>2, Zenon DEF windowVars
  <2>2. \/ sink' = sink /\ unsynced' = unsynced
        \/ Store(in) /\ unsynced' = unsynced \cup {in.entity}
    BY <1>2, Zenon DEF PutFails, MarkUnsynced
  <2>3. \A e \in DOMAIN sink' : sink'[e] \in FeatureSet
    BY <1>2, <2>2, SinkType, Zenon DEF SinkStep
  <2>4. unsynced' \subseteq Nat
    <3>1. unsynced \subseteq Nat
      BY Zenon DEF WInv, IndexesAgree, TypeOK
    <3>2. in.entity \in Nat
      BY <1>2, AcceptedEvent, Zenon
    <3> QED
      BY <2>2, <3>1, <3>2, Zenon
  <2>5. TypeOK'
    BY <2>1, <2>3, <2>4, Zenon DEF WInv, IndexesAgree, TypeOK, FeatureSet
  <2>6. IndexesAgree'
    BY <2>1, <2>5 DEF WInv, IndexesAgree, DedupeSize, EntityCount
  <2>7. \A e \in DOMAIN byEntity' : EntityInv(e)'
    BY <2>1, Zenon DEF WInv, EntityInv, Stored
  <2>8. SinkInv'
    <3> SUFFICES ASSUME NEW e \in DOMAIN byEntity \ unsynced'
                 PROVE  /\ e \in DOMAIN sink'
                        /\ sink'[e] = Features(byEntity[e], DOMAIN byEntity[e], watermark[e])
      BY <2>1, Zenon DEF SinkInv
    <3>1. e \in DOMAIN byEntity \ unsynced
      BY <2>2, Zenon
    <3>2. e \in DOMAIN sink /\ sink[e] = Features(byEntity[e], DOMAIN byEntity[e], watermark[e])
      BY <3>1, Zenon DEF WInv, SinkInv
    <3>3. CASE sink' = sink
      BY <3>2, <3>3, Zenon
    <3>4. CASE Store(in) /\ unsynced' = unsynced \cup {in.entity}
      <4>1. e # in.entity
        BY <3>4, Zenon
      <4> QED
        BY <3>2, <3>4, <4>1 DEF Store, With
    <3> QED
      BY <2>2, <3>3, <3>4, Zenon
  <2> QED
    BY <2>1, <2>6, <2>7, <2>8, Zenon DEF WInv
<1> QED
  BY <1>1, <1>2, Zenon DEF Fail

\* A success of ApplyAndMaterialize keeps the invariant.
LEMMA MaterializeKeeps ==
  ASSUME WInv, NEW in \in Inputs, Materialize(in)
  PROVE  WInv'
<1>1. Accepted(in) /\ Commit(in)
  BY Zenon DEF Materialize
<1>2. \/ Store(in) /\ unsynced' = unsynced \ {in.entity}
      \/ ~NeedsPut(in) /\ sink' = sink /\ unsynced' = unsynced
  BY Zenon DEF Materialize, Put
<1>3. SinkStep(in) /\ unsynced' \subseteq unsynced \cup {in.entity}
  BY <1>2, Zenon DEF SinkStep
<1> QED
  BY <1>1, <1>2, <1>3, CommitKeeps, CommitSink, Zenon DEF WInv

\* A window that was just created, with whatever an earlier one left in the sink.
Fresh ==
  /\ byEntity = <<>> /\ seen = {} /\ offsets = <<>> /\ watermark = <<>> /\ lastActive = <<>>
  /\ eventCount = 0 /\ arrived = <<>> /\ unsynced \subseteq Nat
  /\ \A e \in DOMAIN sink : sink[e] \in FeatureSet

\* It has the invariant.
LEMMA NewWindow == Fresh => WInv
<1> SUFFICES ASSUME Fresh PROVE WInv
  OBVIOUS
<1>1. /\ DOMAIN byEntity = {} /\ DOMAIN watermark = {} /\ DOMAIN arrived = {}
      /\ DOMAIN offsets = {} /\ lastActive = watermark /\ seen = {} /\ eventCount = 0
  BY DEF Fresh
<1>2. TypeOK
  BY <1>1 DEF Fresh, TypeOK, FeatureSet
<1>3. IsFiniteSet({}) /\ Cardinality({}) = 0
  BY FS_EmptySet, Zenon
<1>4. 0 <= MaxEntities /\ 0 <= MaxEvents
  BY WindowAssumption
<1>5. seen = UNION {Ids(byEntity[e]) : e \in DOMAIN byEntity}
  BY <1>1
<1>6. IndexesAgree
  BY <1>1, <1>2, <1>3, <1>4, <1>5, Zenon DEF IndexesAgree, DedupeSize, EntityCount
<1> QED
  BY <1>1, <1>3, <1>6, Zenon DEF WInv, SinkInv

\* So has the window of a process that starts where another one ended.
LEMMA NextWindow ==
  ASSUME WInv, byEntity' = <<>>, seen' = {}, offsets' = <<>>, watermark' = <<>>,
         lastActive' = <<>>, eventCount' = 0, arrived' = <<>>, UNCHANGED <<sink, unsynced>>
  PROVE  WInv'
<1>1. Fresh'
  BY Zenon DEF WInv, IndexesAgree, TypeOK, FeatureSet, Fresh
<1> QED
  BY <1>1, NewWindow, PTL

\* The window's invariant: it holds whatever events come, in whatever order.
THEOREM Invariance == Spec => []WInv
<1>1. Init => WInv
  BY NewWindow DEF Init, Fresh
<1>2. WInv /\ [Next]_vars => WInv'
  <2> SUFFICES ASSUME WInv, [Next]_vars PROVE WInv'
    OBVIOUS
  <2>1. ASSUME UNCHANGED vars PROVE WInv'
    BY <2>1, Stutter, Zenon
  <2>2. ASSUME NEW in \in Inputs, Fail(in) PROVE WInv'
    BY <2>2, FailKeeps, Zenon
  <2>3. ASSUME NEW in \in Inputs, Materialize(in) PROVE WInv'
    BY <2>3, MaterializeKeeps, Zenon
  <2>4. ASSUME NEW in \in Inputs, Apply(in) PROVE WInv'
    <3>1. Accepted(in) /\ Commit(in)
      BY <2>4, Zenon DEF Apply
    <3>2. \/ sink' = sink /\ unsynced' = unsynced \cup {in.entity}
          \/ ~NeedsPut(in) /\ sink' = sink /\ unsynced' = unsynced
      BY <2>4, Zenon DEF Apply, MarkUnsynced
    <3>3. SinkStep(in) /\ unsynced' \subseteq unsynced \cup {in.entity}
      BY <3>2, Zenon DEF SinkStep
    <3> QED
      BY <3>1, <3>2, <3>3, CommitKeeps, CommitSink, Zenon DEF WInv
  <2> QED
    BY <2>1, <2>2, <2>3, <2>4, Zenon DEF Next, Ignore
<1> QED
  BY <1>1, <1>2, PTL DEF Spec

\* The window's indexes agree with its events and stay within their bounds: an
\* id is remembered exactly while its event is held, none is held twice, and
\* eventCount counts them (prepareLocked, commitLocked, evictEntityLocked).
THEOREM IndexesStayInStep == Spec => []IndexesAgree
<1>1. WInv => IndexesAgree
  BY Zenon DEF WInv
<1> QED
  BY <1>1, Invariance, PTL

\* The invariant says which events an entity has, and in which order.
LEMMA ExactFollows ==
  ASSUME WInv
  PROVE  WindowExact
<1> SUFFICES ASSUME NEW e \in DOMAIN byEntity
             PROVE  /\ watermark[e] = Max({x.at : x \in arrived[e]})
                    /\ Range(byEntity[e]) = {x \in arrived[e] : x.at >= watermark[e] - Duration}
                    /\ \A i \in 2..Len(byEntity[e]) : byEntity[e][i - 1].at <= byEntity[e][i].at
  BY Zenon DEF WindowExact
<1>1. EntityInv(e)
  BY Zenon DEF WInv
<1> DEFINE T == {x.at : x \in arrived[e]}
<1>2. T \subseteq Nat /\ watermark[e] \in T /\ \A y \in T : watermark[e] >= y
  BY <1>1 DEF EntityInv
<1> HIDE DEF T
<1>3. Max(T) \in T /\ \A y \in T : Max(T) >= y
  BY <1>2, Zenon DEF Max
<1>4. watermark[e] = Max(T)
  <2>1. /\ watermark[e] \in Nat /\ Max(T) \in Nat
        /\ watermark[e] >= Max(T) /\ Max(T) >= watermark[e]
    BY <1>2, <1>3, Zenon
  <2>2. \A a, b \in Nat : a >= b /\ b >= a => a = b
    OBVIOUS
  <2> QED
    BY <2>1, <2>2, Zenon
<1>5. ASSUME NEW i \in 2..Len(byEntity[e])
      PROVE  byEntity[e][i - 1].at <= byEntity[e][i].at
  <2>1. byEntity[e] \in Seq(Stored) /\ Sorted(byEntity[e])
    BY <1>1, Zenon DEF EntityInv
  <2>2. i - 1 \in DOMAIN byEntity[e] /\ i \in DOMAIN byEntity[e] /\ i - 1 <= i
    BY <2>1
  <2> QED
    BY <2>1, <2>2, Zenon DEF Sorted
<1> QED
  BY <1>1, <1>4, <1>5, Zenon DEF EntityInv, T

\* An entity's events are exactly those of the last Duration before its
\* watermark, in the order of time.
THEOREM WindowIsExact == Spec => []WindowExact
<1>1. WInv => WindowExact
  BY ExactFollows
<1> QED
  BY <1>1, Invariance, PTL

\* The invariant says what the sink has.
LEMMA AgreesFollows ==
  ASSUME WInv
  PROVE  SinkAgrees
<1> SUFFICES ASSUME NEW e \in DOMAIN byEntity \ unsynced
             PROVE  e \in DOMAIN sink /\ sink[e] = Snapshot(e, 0)
  BY Zenon DEF SinkAgrees
<1> DEFINE w == watermark[e]
           s == byEntity[e]
<1>1. EntityInv(e) /\ DOMAIN watermark = DOMAIN byEntity
  BY Zenon DEF WInv, IndexesAgree, TypeOK
<1>2. Lookup(watermark, e, 0) = w /\ Lookup(byEntity, e, <<>>) = s
  BY <1>1, Zenon DEF Lookup
<1>3. w \in Nat
  BY <1>1 DEF EntityInv
<1>4. Max({0, w}) = w
  <2> HIDE DEF w
  <2>1. Max({0, w}) \in {0, w} /\ 0 <= Max({0, w}) /\ w <= Max({0, w})
    BY <1>3, MaxTwo
  <2> QED
    BY <1>3, <2>1
<1>5. InWindow(s, w - Duration) = DOMAIN s
  <2>1. \A i \in DOMAIN s : s[i].at >= w - Duration
    BY <1>1 DEF EntityInv, Range
  <2> QED
    BY <2>1 DEF InWindow
<1>6. Snapshot(e, 0) = Features(s, DOMAIN s, w)
  BY <1>2, <1>4, <1>5, Zenon DEF Snapshot
<1>7. e \in DOMAIN sink /\ sink[e] = Features(s, DOMAIN s, w)
  BY Zenon DEF WInv, SinkInv
<1> QED
  BY <1>6, <1>7, Zenon

\* Unless a write is in doubt, the sink has what Snapshot computes from the
\* window (ApplyAndMaterialize: the sink first, then the window).
THEOREM SinkStaysInStep == Spec => []SinkAgrees
<1>1. WInv => SinkAgrees
  BY AgreesFollows
<1> QED
  BY <1>1, Invariance, PTL
===============================================================================
