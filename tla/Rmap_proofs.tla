---------------------------- MODULE Rmap_proofs ----------------------------
(***************************************************************************)
(* A resource map stays in order and joined, no unit is given out twice or *)
(* forgotten, and malloc refuses only what there is no room for, for every *)
(* size of the resource and of the map, and all requests.                  *)
(***************************************************************************)
EXTENDS Rmap, FiniteSetTheorems, SequenceTheorems, WellFoundedInduction, TLAPS

(* SequencesExt: what RemoveAt and InsertAt do, index by index.            *)
LEMMA RemoveAtElements ==
  ASSUME NEW S, NEW m \in Seq(S), NEW i \in 1..Len(m)
  PROVE  /\ RemoveAt(m, i) \in Seq(S)
         /\ Len(RemoveAt(m, i)) = Len(m) - 1
         /\ \A j \in 1..(Len(m) - 1) : j < i => RemoveAt(m, i)[j] = m[j]
         /\ \A j \in 1..(Len(m) - 1) : j >= i => RemoveAt(m, i)[j] = m[j + 1]
<1> DEFINE a == SubSeq(m, 1, i - 1)
           b == SubSeq(m, i + 1, Len(m))
<1>1. /\ a \in Seq(S) /\ Len(a) = i - 1
      /\ \A j \in 1..(i - 1) : a[j] = m[j]
  OBVIOUS
<1>2. /\ b \in Seq(S) /\ Len(b) = Len(m) - i
      /\ \A j \in 1..(Len(m) - i) : b[j] = m[i + j]
  OBVIOUS
<1>3. RemoveAt(m, i) = a \o b
  BY DEF RemoveAt
<1> HIDE DEF a, b
<1>4. a \o b \in Seq(S) /\ Len(a \o b) = Len(m) - 1
  <2>1. a \o b \in Seq(S) /\ Len(a \o b) = Len(a) + Len(b)
    BY <1>1, <1>2, ConcatProperties
  <2> QED
    BY <1>1, <1>2, <2>1
<1>5. \A j \in 1..(Len(m) - 1) : j < i => (a \o b)[j] = m[j]
  BY <1>1, <1>2
<1>6. ASSUME NEW j \in 1..(Len(m) - 1), j >= i
      PROVE  (a \o b)[j] = m[j + 1]
  <2>1. (a \o b)[j] = b[j - (i - 1)]
    BY <1>1, <1>2, <1>6
  <2>2. j - (i - 1) \in 1..(Len(m) - i) /\ i + (j - (i - 1)) = j + 1
    BY <1>6
  <2> QED
    BY <1>2, <2>1, <2>2
<1> QED
  BY <1>3, <1>4, <1>5, <1>6

LEMMA InsertAtElements ==
  ASSUME NEW S, NEW m \in Seq(S), NEW i \in 1..(Len(m) + 1), NEW e \in S
  PROVE  /\ InsertAt(m, i, e) \in Seq(S)
         /\ Len(InsertAt(m, i, e)) = Len(m) + 1
         /\ \A j \in 1..(Len(m) + 1) : j < i => InsertAt(m, i, e)[j] = m[j]
         /\ InsertAt(m, i, e)[i] = e
         /\ \A j \in 1..(Len(m) + 1) : j > i => InsertAt(m, i, e)[j] = m[j - 1]
<1> DEFINE a == SubSeq(m, 1, i - 1)
           c == a \o <<e>>
           b == SubSeq(m, i, Len(m))
<1>1. /\ a \in Seq(S) /\ Len(a) = i - 1
      /\ \A j \in 1..(i - 1) : a[j] = m[j]
  OBVIOUS
<1>2. /\ b \in Seq(S) /\ Len(b) = Len(m) + 1 - i
      /\ \A j \in 1..(Len(m) + 1 - i) : b[j] = m[i + j - 1]
  OBVIOUS
<1>3. InsertAt(m, i, e) = c \o b
  BY DEF InsertAt
<1> HIDE DEF a, b
<1>4. /\ c \in Seq(S) /\ Len(c) = i /\ c[i] = e
      /\ \A j \in 1..(i - 1) : c[j] = m[j]
  BY <1>1
<1> HIDE DEF c
<1>5. c \o b \in Seq(S) /\ Len(c \o b) = Len(m) + 1
  <2>1. c \o b \in Seq(S) /\ Len(c \o b) = Len(c) + Len(b)
    BY <1>4, <1>2, ConcatProperties
  <2> QED
    BY <1>4, <1>2, <2>1
<1>6. \A j \in 1..(Len(m) + 1) : j < i => (c \o b)[j] = m[j]
  BY <1>4, <1>2
<1>7. (c \o b)[i] = e
  BY <1>4, <1>2
<1>8. ASSUME NEW j \in 1..(Len(m) + 1), j > i
      PROVE  (c \o b)[j] = m[j - 1]
  <2>1. (c \o b)[j] = b[j - i]
    BY <1>4, <1>2, <1>8
  <2>2. j - i \in 1..(Len(m) + 1 - i) /\ i + (j - i) - 1 = j - 1
    BY <1>8
  <2> QED
    BY <1>2, <2>1, <2>2
<1> QED
  BY <1>3, <1>5, <1>6, <1>7, <1>8

-----------------------------------------------------------------------------
(* Maps.  While malloc3 works an entry may be empty.                       *)

Segment == [addr : Nat \ {0}, size : Nat \ {0}]
Loose == [addr : Nat \ {0}, size : Nat]

Has(m, i, u) == m[i].addr <= u /\ u < m[i].addr + m[i].size
Free(m) == { u \in Nat : \E i \in 1..Len(m) : Has(m, i, u) }
Apart(m) == \A i, j \in 1..Len(m) : i < j => m[i].addr + m[i].size < m[j].addr

(* A sequence t that is m without its entry i.                             *)
Without(t, m, i) ==
  /\ Len(t) = Len(m) - 1
  /\ \A j \in 1..(Len(m) - 1) : j < i => t[j] = m[j]
  /\ \A j \in 1..(Len(m) - 1) : j >= i => t[j] = m[j + 1]

LEMMA WithoutApart ==
  ASSUME NEW m \in Seq(Loose), NEW t \in Seq(Loose), NEW i \in 1..Len(m),
         Without(t, m, i), Apart(m)
  PROVE  Apart(t)
<1>1. Len(t) = Len(m) - 1
  BY DEF Without
<1> SUFFICES ASSUME NEW j \in 1..Len(t), NEW k \in 1..Len(t), j < k
             PROVE  t[j].addr + t[j].size < t[k].addr
  BY DEF Apart
<1>2. CASE j < i /\ k < i
  BY <1>1, <1>2, SMTT(30) DEF Without, Apart
<1>3. CASE j < i /\ k >= i
  <2>1. t[j] = m[j] /\ t[k] = m[k + 1]
    BY <1>1, <1>3 DEF Without
  <2> QED
    BY <1>1, <2>1 DEF Apart
<1>4. CASE j >= i /\ k >= i
  <2>1. t[j] = m[j + 1] /\ t[k] = m[k + 1]
    BY <1>1, <1>4 DEF Without
  <2> QED
    BY <1>1, <2>1 DEF Apart
<1> QED
  BY <1>2, <1>3, <1>4

LEMMA HasNat ==
  ASSUME NEW m \in Seq(Loose), NEW i \in 1..Len(m), NEW u \in Int
  PROVE  /\ m[i].addr \in Nat \ {0} /\ m[i].size \in Nat /\ m[i] \in Loose
         /\ m[i].addr + m[i].size \in Nat
         /\ Units(m[i]) = { v \in Nat : Has(m, i, v) }
         /\ u \in Units(m[i]) <=> Has(m, i, u)
<1>0. m[i] \in Loose
  OBVIOUS
<1>1. m[i].addr \in Nat \ {0} /\ m[i].size \in Nat
  BY <1>0 DEF Loose
<1> QED
  BY <1>0, <1>1, SMTT(30) DEF Units, End, Has

LEMMA EntryNat ==
  ASSUME NEW m \in Seq(Loose), NEW i \in 1..Len(m)
  PROVE  m[i].addr \in Nat \ {0} /\ m[i].size \in Nat
BY HasNat

LEMMA EntryFree ==
  ASSUME NEW m \in Seq(Loose), NEW i \in 1..Len(m)
  PROVE  Units(m[i]) \subseteq Free(m)
<1>1. Units(m[i]) = { v \in Nat : Has(m, i, v) }
  BY HasNat
<1> QED
  BY <1>1 DEF Free

(* An entry's units are in no other.                                       *)
LEMMA HasOnce ==
  ASSUME NEW m \in Seq(Loose), Apart(m), NEW i \in 1..Len(m), NEW j \in 1..Len(m),
         NEW u \in Nat, Has(m, i, u), Has(m, j, u)
  PROVE  i = j
<1>1. m[i].addr \in Nat /\ m[i].size \in Nat /\ m[j].addr \in Nat /\ m[j].size \in Nat
  BY HasNat, SMTT(30)
<1>2. ~ (i < j)
  BY <1>1, SMTT(30) DEF Has, Apart
<1>3. ~ (j < i)
  BY <1>1, SMTT(30) DEF Has, Apart
<1> QED
  BY <1>2, <1>3

LEMMA WithoutFree ==
  ASSUME NEW m \in Seq(Loose), NEW t \in Seq(Loose), NEW i \in 1..Len(m),
         Without(t, m, i), Apart(m)
  PROVE  Free(t) = Free(m) \ Units(m[i])
<1>1. Len(t) = Len(m) - 1
  BY DEF Without
<1>2. ASSUME NEW u \in Nat, u \in Free(t)
      PROVE  u \in Free(m) \ Units(m[i])
  <2>1. PICK j \in 1..Len(t) : Has(t, j, u)
    BY <1>2 DEF Free
  <2>2. \E k \in 1..Len(m) : k # i /\ Has(m, k, u)
    <3>1. CASE j < i
      <4>1. t[j] = m[j]
        BY <1>1, <3>1 DEF Without
      <4>2. j \in 1..Len(m) /\ j # i /\ Has(m, j, u)
        BY <1>1, <2>1, <3>1, <4>1 DEF Has
      <4> QED
        BY <4>2
    <3>2. CASE j >= i
      <4>1. t[j] = m[j + 1]
        BY <1>1, <3>2 DEF Without
      <4>2. j + 1 \in 1..Len(m) /\ j + 1 # i /\ Has(m, j + 1, u)
        BY <1>1, <2>1, <3>2, <4>1 DEF Has
      <4> QED
        BY <4>2
    <3> QED
      BY <3>1, <3>2
  <2>3. PICK k \in 1..Len(m) : k # i /\ Has(m, k, u)
    BY <2>2
  <2>4. ~ Has(m, i, u)
    BY <2>3, HasOnce
  <2> QED
    BY <2>3, <2>4, HasNat DEF Free
<1>3. ASSUME NEW u \in Nat, u \in Free(m), u \notin Units(m[i])
      PROVE  u \in Free(t)
  <2>1. PICK k \in 1..Len(m) : Has(m, k, u)
    BY <1>3 DEF Free
  <2>2. k # i
    BY <1>3, <2>1, HasNat
  <2>3. CASE k < i
    BY <1>1, <2>1, <2>3, SMTT(30) DEF Without, Has, Free
  <2>4. CASE k > i
    <3>1. t[k - 1] = m[k] /\ k - 1 \in 1..Len(t)
      BY <1>1, <2>4 DEF Without
    <3>2. Has(t, k - 1, u)
      BY <2>1, <3>1 DEF Has
    <3> QED
      BY <3>1, <3>2 DEF Free
  <2> QED
    BY <2>2, <2>3, <2>4
<1>4. Free(t) \subseteq Nat /\ Free(m) \subseteq Nat
  BY DEF Free
<1> QED
  BY <1>2, <1>3, <1>4

LEMMA Removed ==
  ASSUME NEW S, S \subseteq Loose, NEW m \in Seq(S), NEW i \in 1..Len(m), Apart(m)
  PROVE  /\ RemoveAt(m, i) \in Seq(S)
         /\ Len(RemoveAt(m, i)) = Len(m) - 1
         /\ Without(RemoveAt(m, i), m, i)
         /\ Apart(RemoveAt(m, i))
         /\ Free(RemoveAt(m, i)) = Free(m) \ Units(m[i])
<1>1. Without(RemoveAt(m, i), m, i) /\ RemoveAt(m, i) \in Seq(S)
  BY RemoveAtElements DEF Without
<1>2. m \in Seq(Loose) /\ RemoveAt(m, i) \in Seq(Loose)
  BY <1>1, SeqDef
<1> QED
  BY <1>1, <1>2, WithoutApart, WithoutFree, RemoveAtElements

-----------------------------------------------------------------------------
LEMMA SegUnits ==
  ASSUME NEW a \in Nat, NEW n \in Nat
  PROVE  Units(Seg(a, n)) = a..(a + n - 1)
BY DEF Units, End, Seg

(* Taking n units from the front of entry i.                               *)
Take(m, i, n) == [m EXCEPT ![i] = Seg(@.addr + n, @.size - n)]

LEMMA Taken ==
  ASSUME NEW m \in Seq(Loose), NEW i \in 1..Len(m), Apart(m),
         NEW n \in Nat, n <= m[i].size
  PROVE  /\ Take(m, i, n) \in Seq(Loose)
         /\ Len(Take(m, i, n)) = Len(m)
         /\ Take(m, i, n)[i] = Seg(m[i].addr + n, m[i].size - n)
         /\ \A j \in 1..Len(m) : j # i => Take(m, i, n)[j] = m[j]
         /\ Apart(Take(m, i, n))
         /\ Units(Seg(m[i].addr, n)) \subseteq Free(m)
         /\ Free(Take(m, i, n)) = Free(m) \ Units(Seg(m[i].addr, n))
<1> DEFINE t == Take(m, i, n)
           e == Seg(m[i].addr + n, m[i].size - n)
           g == Seg(m[i].addr, n)
<1>0. \A j \in 1..Len(m) : m[j].addr \in Nat \ {0} /\ m[j].size \in Nat
  BY HasNat
<1>1. e \in Loose /\ e.addr = m[i].addr + n /\ e.size = m[i].size - n
  BY <1>0, SMTT(30) DEF Seg, Loose
<1>2. t = [m EXCEPT ![i] = e]
  BY DEF Take
<1>3. t \in Seq(Loose) /\ Len(t) = Len(m) /\ t[i] = e
      /\ \A j \in 1..Len(m) : j # i => t[j] = m[j]
  <2> HIDE DEF t, e
  <2> QED BY <1>1, <1>2
<1>g. Units(g) = m[i].addr .. (m[i].addr + n - 1)
  <2>1. m[i].addr \in Nat
    BY <1>0
  <2> QED
    BY <2>1, SegUnits
<1> HIDE DEF t, e, g
<1>4. Apart(t)
  <2> SUFFICES ASSUME NEW j \in 1..Len(m), NEW k \in 1..Len(m), j < k
               PROVE  t[j].addr + t[j].size < t[k].addr
    BY <1>3 DEF Apart
  <2>1. m[j].addr + m[j].size < m[k].addr
    BY DEF Apart
  <2>2. t[j].addr + t[j].size = m[j].addr + m[j].size
    BY <1>0, <1>1, <1>3, SMTT(30)
  <2>3. t[k].addr >= m[k].addr /\ t[k].addr \in Nat
    BY <1>0, <1>1, <1>3, SMTT(30)
  <2> QED
    BY <1>0, <2>1, <2>2, <2>3, SMTT(30)
<1>5. \A u \in Nat : u \in Units(g) <=> m[i].addr <= u /\ u < m[i].addr + n
  BY <1>0, <1>g
<1>6. Units(g) \subseteq Nat
  BY <1>0, <1>g
<1>7. \A u \in Nat : u \in Units(g) => Has(m, i, u)
  BY <1>0, <1>5 DEF Has
<1>8. \A u \in Nat : Has(t, i, u) <=> Has(m, i, u) /\ u \notin Units(g)
  <2>1. t[i].addr = m[i].addr + n /\ t[i].size = m[i].size - n
    BY <1>1, <1>3
  <2>2. m[i].addr \in Nat /\ m[i].size \in Nat
    BY <1>0
  <2> QED
    BY <1>5, <2>1, <2>2, SMTT(30) DEF Has
<1>9. \A u \in Nat, j \in 1..Len(m) : j # i => (Has(t, j, u) <=> Has(m, j, u))
  BY <1>3 DEF Has
<1>10. ASSUME NEW u \in Nat
       PROVE  u \in Free(t) <=> u \in Free(m) /\ u \notin Units(g)
  <2>1. ASSUME u \in Free(t)
        PROVE  u \in Free(m) /\ u \notin Units(g)
    <3>1. PICK j \in 1..Len(m) : Has(t, j, u)
      BY <1>3, <2>1 DEF Free
    <3>2. Has(m, j, u)
      BY <1>8, <1>9, <3>1
    <3>3. j = i => u \notin Units(g)
      BY <1>8, <3>1
    <3>4. j # i => ~ Has(m, i, u)
      BY <3>2, HasOnce
    <3> QED
      BY <1>7, <3>2, <3>3, <3>4 DEF Free
  <2>2. ASSUME u \in Free(m), u \notin Units(g)
        PROVE  u \in Free(t)
    <3>1. PICK j \in 1..Len(m) : Has(m, j, u)
      BY <2>2 DEF Free
    <3>2. Has(t, j, u)
      BY <1>8, <1>9, <2>2, <3>1
    <3> QED
      BY <1>3, <3>2 DEF Free
  <2> QED
    BY <2>1, <2>2
<1>11. Free(t) \subseteq Nat /\ Free(m) \subseteq Nat
  BY DEF Free
<1>12. Units(g) \subseteq Free(m)
  BY <1>6, <1>7 DEF Free
<1>13. Free(t) = Free(m) \ Units(g)
  BY <1>10, <1>11
<1> QED
  BY <1>3, <1>4, <1>12, <1>13 DEF t, e, g

(* Two facts about which set the entries of a sequence are in.             *)
LEMMA SeqLoose ==
  ASSUME NEW m \in Seq(Segment)
  PROVE  m \in Seq(Loose)
<1>1. Segment \subseteq Loose
  BY DEF Segment, Loose
<1> QED
  BY <1>1, SeqDef

LEMMA SeqSegment ==
  ASSUME NEW m \in Seq(Loose), \A i \in 1..Len(m) : m[i].size # 0
  PROVE  m \in Seq(Segment)
<1>1. \A i \in 1..Len(m) : m[i] \in Loose
  OBVIOUS
<1>2. \A i \in 1..Len(m) : m[i] \in Segment
  BY <1>1 DEF Segment, Loose
<1>3. m = [i \in 1..Len(m) |-> m[i]] /\ Len(m) \in Nat
  OBVIOUS
<1> QED
  BY <1>2, <1>3, SeqDef

(* malloc, what it leaves of the map.                                      *)
LEMMA CutMap ==
  ASSUME NEW m \in Seq(Segment), NEW i \in 1..Len(m), Apart(m),
         NEW n \in Nat \ {0}, n <= m[i].size
  PROVE  /\ Cut(m, i, n) \in Seq(Segment)
         /\ Apart(Cut(m, i, n))
         /\ Units(Seg(m[i].addr, n)) \subseteq Free(m)
         /\ Free(Cut(m, i, n)) = Free(m) \ Units(Seg(m[i].addr, n))
<1>0. m \in Seq(Loose)
  BY SeqLoose
<1>1. Units(Seg(m[i].addr, n)) \subseteq Free(m)
  BY <1>0, Taken
<1>2. CASE m[i].size = n
  <2>1. Cut(m, i, n) = RemoveAt(m, i)
    BY <1>2 DEF Cut
  <2>2. Units(Seg(m[i].addr, n)) = Units(m[i])
    BY <1>2 DEF Units, End, Seg
  <2>3. Segment \subseteq Loose
    BY DEF Segment, Loose
  <2> QED
    BY <1>1, <2>1, <2>2, <2>3, Removed
<1>3. CASE m[i].size # n
  <2>1. Cut(m, i, n) = Take(m, i, n)
    BY <1>3 DEF Cut, Take
  <2> DEFINE t == Take(m, i, n)
  <2>2. /\ t \in Seq(Loose) /\ Len(t) = Len(m) /\ Apart(t)
        /\ t[i] = Seg(m[i].addr + n, m[i].size - n)
        /\ \A j \in 1..Len(m) : j # i => t[j] = m[j]
        /\ Free(t) = Free(m) \ Units(Seg(m[i].addr, n))
    BY <1>0, Taken
  <2> HIDE DEF t
  <2>3. \A j \in 1..Len(m) : m[j] \in Segment
    OBVIOUS
  <2>4. \A j \in 1..Len(m) : m[j].size \in Nat \ {0}
    BY <2>3 DEF Segment
  <2>5. t[i].size # 0
    BY <1>3, <2>2, <2>4 DEF Seg
  <2>6. t \in Seq(Segment)
    BY <2>2, <2>4, <2>5, SeqSegment
  <2> QED
    BY <1>1, <2>1, <2>2, <2>6 DEF t
<1> QED
  BY <1>2, <1>3

-----------------------------------------------------------------------------
(* mfree.                                                                  *)

(* A nonempty set of natural numbers has a least element.                  *)
LEMMA LeastOf ==
  ASSUME NEW T, T \subseteq Nat, T # {}
  PROVE  \E k \in T : \A j \in T : k <= j
<1> DEFINE R == OpToRel(<, Nat)
<1>1. IsWellFoundedOn(R, Nat)
  BY NatLessThanWellFounded
<1>2. \A j, k \in Nat : j < k => <<j, k>> \in R
  BY DEF OpToRel
<1> HIDE DEF R
<1>3. PICK k \in T : \A j \in T : ~ (<<j, k>> \in R)
  BY <1>1, WFMin
<1>4. \A j \in T : ~ (j < k)
  BY <1>2, <1>3, Zenon
<1> QED
  BY <1>4

(* Space that is not free goes between the entries k - 1 and k.            *)
Between(m, e, k) ==
  /\ k \in 1..(Len(m) + 1)
  /\ \A j \in 1..Len(m) : j < k => m[j].addr + m[j].size <= e.addr
  /\ \A j \in 1..Len(m) : j >= k => e.addr + e.size <= m[j].addr

LEMMA AfterBetween ==
  ASSUME NEW m \in Seq(Loose), Apart(m), NEW e \in Segment, Free(m) \cap Units(e) = {},
         \A i \in 1..Len(m) : m[i].size # 0
  PROVE  Between(m, e, After(m, e.addr))
<1> DEFINE a == e.addr
           k == After(m, a)
           P(i) == /\ i <= Len(m) => m[i].addr > a
                   /\ \A j \in 1..(i - 1) : m[j].addr <= a
           T == { i \in 1..(Len(m) + 1) : i <= Len(m) => m[i].addr > a }
<1>0. \A j \in 1..Len(m) : m[j].addr \in Nat \ {0} /\ m[j].size \in Nat
  BY HasNat
<1>1. e.addr \in Nat \ {0} /\ e.size \in Nat \ {0} /\ a \in Nat
  BY DEF Segment
<1>2. \E i \in 1..(Len(m) + 1) : P(i)
  <2>1. T \subseteq Nat /\ Len(m) + 1 \in T
    OBVIOUS
  <2>2. PICK i \in T : \A j \in T : i <= j
    <3> HIDE DEF T
    <3> QED BY <2>1, LeastOf
  <2>3. \A j \in 1..(i - 1) : j \in 1..Len(m) /\ j \notin T
    BY <2>2
  <2>4. \A j \in 1..(i - 1) : m[j].addr <= a
    BY <1>0, <1>1, <2>3
  <2> QED
    BY <2>2, <2>4
<1>3. k \in 1..(Len(m) + 1) /\ P(k)
  <2>1. k = CHOOSE i \in 1..(Len(m) + 1) : P(i)
    BY DEF After
  <2> HIDE DEF P, k
  <2> QED BY <1>2, <2>1
<1> HIDE DEF k
<1>4. \A u \in Nat : u \in Units(e) <=> a <= u /\ u < a + e.size
  BY <1>1 DEF Units, End
<1>5. \A u \in Nat, j \in 1..Len(m) : Has(m, j, u) => u \notin Units(e)
  BY DEF Free
<1>6. ASSUME NEW j \in 1..Len(m), j < k
      PROVE  m[j].addr + m[j].size <= e.addr
  <2>1. m[j].addr <= a
    BY <1>3, <1>6
  <2>2. ~ Has(m, j, a)
    BY <1>1, <1>4, <1>5
  <2> QED
    BY <1>0, <1>1, <2>1, <2>2 DEF Has
<1>7. ASSUME NEW j \in 1..Len(m), j >= k
      PROVE  e.addr + e.size <= m[j].addr
  <2>1. m[k].addr > a /\ m[k].addr <= m[j].addr
    BY <1>0, <1>3, <1>7 DEF Apart
  <2>2. m[j].addr \in Nat /\ m[j].size \in Nat \ {0}
    BY <1>0
  <2>3. Has(m, j, m[j].addr)
    BY <2>2 DEF Has
  <2>4. m[j].addr \notin Units(e)
    BY <1>5, <2>2, <2>3
  <2>5. m[k].addr \in Nat
    BY <1>0, <1>3, <1>7
  <2>6. ~ (a <= m[j].addr /\ m[j].addr < a + e.size)
    BY <1>4, <2>2, <2>4
  <2>7. a <= m[j].addr
    BY <1>1, <2>1, <2>2, <2>5
  <2> QED
    BY <1>1, <2>2, <2>6, <2>7
<1> QED
  BY <1>3, <1>6, <1>7 DEF Between, k

LEMMA UnitsOf ==
  ASSUME NEW e \in Loose
  PROVE  /\ e.addr \in Nat \ {0} /\ e.size \in Nat
         /\ Units(e) \subseteq Nat
         /\ \A u \in Nat : u \in Units(e) <=> e.addr <= u /\ u < e.addr + e.size
<1>1. e.addr \in Nat \ {0} /\ e.size \in Nat
  BY DEF Loose
<1> QED
  BY <1>1 DEF Units, End

(* Entry i is replaced by a larger one, which stays apart from the others. *)
Replaced(t, m, i, e) ==
  /\ Len(t) = Len(m)
  /\ t[i] = e
  /\ \A j \in 1..Len(m) : j # i => t[j] = m[j]

LEMMA ReplacedMap ==
  ASSUME NEW m \in Seq(Loose), NEW t \in Seq(Loose), NEW i \in 1..Len(m),
         NEW e \in Loose, Apart(m), Replaced(t, m, i, e), Units(m[i]) \subseteq Units(e),
         \A j \in 1..Len(m) : j < i => m[j].addr + m[j].size < e.addr,
         \A j \in 1..Len(m) : j > i => e.addr + e.size < m[j].addr
  PROVE  Apart(t) /\ Free(t) = Free(m) \cup Units(e)
<1>1. Apart(t)
  <2> SUFFICES ASSUME NEW j \in 1..Len(m), NEW k \in 1..Len(m), j < k
               PROVE  t[j].addr + t[j].size < t[k].addr
    BY DEF Apart, Replaced
  <2>1. CASE j = i
    BY <2>1 DEF Replaced
  <2>2. CASE k = i
    BY <2>2 DEF Replaced
  <2>3. CASE j # i /\ k # i
    BY <2>3 DEF Replaced, Apart
  <2> QED
    BY <2>1, <2>2, <2>3
<1>2. \A u \in Nat : Has(t, i, u) <=> u \in Units(e)
  BY UnitsOf DEF Replaced, Has
<1>3. \A u \in Nat, j \in 1..Len(m) : j # i => (Has(t, j, u) <=> Has(m, j, u))
  BY DEF Replaced, Has
<1>4. \A u \in Nat : Has(m, i, u) => u \in Units(e)
  BY HasNat
<1>5. Free(t) = { u \in Nat : \E j \in 1..Len(m) : Has(t, j, u) }
  BY DEF Free, Replaced
<1>6. ASSUME NEW u \in Nat
      PROVE  u \in Free(t) <=> u \in Free(m) \/ u \in Units(e)
  <2>1. u \in Free(t) => u \in Free(m) \/ u \in Units(e)
    BY <1>2, <1>3, <1>5 DEF Free
  <2>2. u \in Units(e) => u \in Free(t)
    BY <1>2, <1>5
  <2>3. u \in Free(m) => u \in Free(t) \/ u \in Units(e)
    BY <1>3, <1>4, <1>5 DEF Free
  <2> QED
    BY <2>1, <2>2, <2>3
<1>7. Free(t) \subseteq Nat /\ Free(m) \subseteq Nat /\ Units(e) \subseteq Nat
  BY UnitsOf DEF Free
<1> QED
  BY <1>1, <1>6, <1>7

(* A new entry.                                                            *)
WithNew(t, m, k, e) ==
  /\ Len(t) = Len(m) + 1
  /\ \A j \in 1..(Len(m) + 1) : j < k => t[j] = m[j]
  /\ t[k] = e
  /\ \A j \in 1..(Len(m) + 1) : j > k => t[j] = m[j - 1]

LEMMA Inserted ==
  ASSUME NEW S, NEW m \in Seq(S), NEW i \in 1..(Len(m) + 1), NEW e \in S
  PROVE  InsertAt(m, i, e) \in Seq(S) /\ WithNew(InsertAt(m, i, e), m, i, e)
BY InsertAtElements DEF WithNew

LEMMA InsertedMap ==
  ASSUME NEW m \in Seq(Segment), Apart(m), NEW e \in Segment, NEW k \in 1..(Len(m) + 1),
         \A j \in 1..Len(m) : j < k => m[j].addr + m[j].size < e.addr,
         \A j \in 1..Len(m) : j >= k => e.addr + e.size < m[j].addr
  PROVE  /\ InsertAt(m, k, e) \in Seq(Segment)
         /\ Apart(InsertAt(m, k, e))
         /\ Free(InsertAt(m, k, e)) = Free(m) \cup Units(e)
<1> DEFINE t == InsertAt(m, k, e)
<1>1. /\ t \in Seq(Segment) /\ Len(t) = Len(m) + 1
      /\ \A j \in 1..(Len(m) + 1) : j < k => t[j] = m[j]
      /\ t[k] = e
      /\ \A j \in 1..(Len(m) + 1) : j > k => t[j] = m[j - 1]
  <2>1. t \in Seq(Segment) /\ WithNew(t, m, k, e)
    BY Inserted
  <2> QED
    BY <2>1 DEF WithNew
<1> HIDE DEF t
<1>0. e \in Loose
  BY DEF Segment, Loose
<1>2. Apart(t)
  <2> SUFFICES ASSUME NEW i \in 1..(Len(m) + 1), NEW j \in 1..(Len(m) + 1), i < j
               PROVE  t[i].addr + t[i].size < t[j].addr
    BY <1>1 DEF Apart
  <2>1. CASE j < k
    <3>1. t[i] = m[i] /\ t[j] = m[j] /\ i \in 1..Len(m) /\ j \in 1..Len(m)
      BY <1>1, <2>1
    <3> QED
      BY <3>1 DEF Apart
  <2>2. CASE j = k
    BY <1>1, <2>2
  <2>3. CASE j > k /\ i < k
    <3>1. t[i] = m[i] /\ t[j] = m[j - 1] /\ j - 1 \in 1..Len(m) /\ i < j - 1 /\ i \in 1..Len(m)
      BY <1>1, <2>3
    <3> QED
      BY <3>1 DEF Apart
  <2>4. CASE j > k /\ i = k
    <3>1. t[i] = e /\ t[j] = m[j - 1] /\ j - 1 \in 1..Len(m) /\ j - 1 >= k
      BY <1>1, <2>4
    <3> QED
      BY <3>1
  <2>5. CASE j > k /\ i > k
    <3>1. t[i] = m[i - 1] /\ t[j] = m[j - 1] /\ i - 1 \in 1..Len(m) /\ j - 1 \in 1..Len(m)
      BY <1>1, <2>5
    <3> QED
      BY <3>1 DEF Apart
  <2> QED
    BY <2>1, <2>2, <2>3, <2>4, <2>5
<1>3. ASSUME NEW u \in Nat
      PROVE  u \in Free(t) <=> u \in Free(m) \/ u \in Units(e)
  <2>1. ASSUME u \in Free(t)
        PROVE  u \in Free(m) \/ u \in Units(e)
    <3>1. PICK j \in 1..(Len(m) + 1) : Has(t, j, u)
      BY <1>1, <2>1 DEF Free
    <3>2. CASE j < k
      <4>1. j \in 1..Len(m) /\ Has(m, j, u)
        BY <1>1, <3>1, <3>2 DEF Has
      <4> QED
        BY <4>1 DEF Free
    <3>3. CASE j = k
      BY <1>0, <1>1, <3>1, <3>3, UnitsOf DEF Has
    <3>4. CASE j > k
      <4>1. j - 1 \in 1..Len(m) /\ Has(m, j - 1, u)
        BY <1>1, <3>1, <3>4 DEF Has
      <4> QED
        BY <4>1 DEF Free
    <3> QED
      BY <3>2, <3>3, <3>4
  <2>2. ASSUME u \in Units(e)
        PROVE  u \in Free(t)
    <3>1. Has(t, k, u)
      BY <1>0, <1>1, <2>2, UnitsOf DEF Has
    <3> QED
      BY <1>1, <3>1 DEF Free
  <2>3. ASSUME u \in Free(m)
        PROVE  u \in Free(t)
    <3>1. PICK j \in 1..Len(m) : Has(m, j, u)
      BY <2>3 DEF Free
    <3>2. CASE j < k
      <4>1. j \in 1..Len(t) /\ Has(t, j, u)
        BY <1>1, <3>1, <3>2 DEF Has
      <4> QED
        BY <4>1 DEF Free
    <3>3. CASE j >= k
      <4>1. t[j + 1] = m[(j + 1) - 1] /\ j + 1 \in 1..Len(t)
        BY <1>1, <3>3
      <4>2. Has(t, j + 1, u)
        BY <3>1, <4>1 DEF Has
      <4> QED
        BY <4>1, <4>2 DEF Free
    <3> QED
      BY <3>2, <3>3
  <2> QED
    BY <2>1, <2>2, <2>3
<1>4. Free(t) \subseteq Nat /\ Free(m) \subseteq Nat /\ Units(e) \subseteq Nat
  BY <1>0, UnitsOf DEF Free
<1> QED
  BY <1>1, <1>2, <1>3, <1>4 DEF t

(* Two spaces that abut are one.                                           *)
LEMMA JoinUnits ==
  ASSUME NEW x \in Loose, NEW y \in Loose, NEW z \in Loose,
         x.addr = y.addr, x.size = y.size + z.size, y.addr + y.size = z.addr
  PROVE  Units(x) = Units(y) \cup Units(z)
<1>1. /\ x.addr \in Nat /\ y.addr \in Nat /\ y.size \in Nat
      /\ z.addr \in Nat /\ z.size \in Nat
  BY UnitsOf
<1> QED
  BY <1>1 DEF Units, End

LEMMA SegIs ==
  ASSUME NEW a \in Nat \ {0}, NEW n \in Nat \ {0}
  PROVE  /\ Seg(a, n) \in Segment /\ Seg(a, n) \in Loose
         /\ Seg(a, n).addr = a /\ Seg(a, n).size = n
BY DEF Seg, Segment, Loose

LEMMA SizeSet ==
  ASSUME NEW e \in Segment, NEW v
  PROVE  [e EXCEPT !.size = v] = Seg(e.addr, v)
BY DEF Segment, Seg

LEMMA MapFreeCases ==
  ASSUME NEW m, NEW e, NEW k, k = After(m, e.addr)
  PROVE  /\ AbutsLeft(m, e, k) /\ AbutsRight(m, e, k) =>
              MapFree(m, e) = RemoveAt([m EXCEPT ![k - 1].size = @ + e.size + m[k].size], k)
         /\ AbutsLeft(m, e, k) /\ ~ AbutsRight(m, e, k) =>
              MapFree(m, e) = [m EXCEPT ![k - 1].size = @ + e.size]
         /\ ~ AbutsLeft(m, e, k) /\ AbutsRight(m, e, k) =>
              MapFree(m, e) = [m EXCEPT ![k] = Seg(e.addr, @.size + e.size)]
         /\ Overflows(m, e) => MapFree(m, e) = m
         /\ ~ AbutsLeft(m, e, k) /\ ~ AbutsRight(m, e, k) /\ ~ Overflows(m, e) =>
              MapFree(m, e) = InsertAt(m, k, e)
<1>1. Overflows(m, e) => ~ AbutsLeft(m, e, k) /\ ~ AbutsRight(m, e, k)
  BY DEF Overflows
<1> QED
  BY <1>1 DEF MapFree

(* The map after mfree: in order, no two entries abut, and the space is    *)
(* free unless there was no slot for it.                                   *)
Freed(t, m, e) ==
  /\ t \in Seq(Segment)
  /\ Apart(t)
  /\ Overflows(m, e) => Free(t) = Free(m)
  /\ ~ Overflows(m, e) => Free(t) = Free(m) \cup Units(e)

LEMMA MapFreed ==
  ASSUME NEW m \in Seq(Segment), Apart(m), NEW e \in Segment, Free(m) \cap Units(e) = {}
  PROVE  Freed(MapFree(m, e), m, e)
<1> DEFINE k == After(m, e.addr)
           left == AbutsLeft(m, e, k)
           right == AbutsRight(m, e, k)
<1>0. m \in Seq(Loose) /\ e \in Loose
  BY SeqLoose DEF Segment, Loose
<1>1. /\ \A i \in 1..Len(m) : m[i] \in Segment /\ m[i] \in Loose
      /\ \A i \in 1..Len(m) : m[i].addr \in Nat \ {0} /\ m[i].size \in Nat \ {0}
  <2>1. \A i \in 1..Len(m) : m[i] \in Segment
    OBVIOUS
  <2> QED
    BY <2>1 DEF Segment, Loose
<1>2. e.addr \in Nat \ {0} /\ e.size \in Nat \ {0}
  BY DEF Segment
<1>3. Between(m, e, k)
  BY <1>0, <1>1, AfterBetween
<1> HIDE DEF k
<1>4. k \in 1..(Len(m) + 1)
  BY <1>3 DEF Between
<1>5. left => k - 1 \in 1..Len(m) /\ m[k - 1].addr + m[k - 1].size = e.addr
  <2>1. left => k - 1 \in 1..Len(m) /\ m[k - 1].addr + m[k - 1].size >= e.addr
    BY <1>4 DEF AbutsLeft, End
  <2>2. left => m[k - 1].addr + m[k - 1].size <= e.addr
    BY <1>3, <1>4, <2>1 DEF Between
  <2>3. left => m[k - 1].addr + m[k - 1].size \in Nat
    BY <1>1, <2>1
  <2> QED
    BY <1>2, <2>1, <2>2, <2>3
<1>6. right => k \in 1..Len(m) /\ e.addr + e.size = m[k].addr
  <2>1. right => k \in 1..Len(m) /\ e.addr + e.size >= m[k].addr
    BY <1>4 DEF AbutsRight, End
  <2>2. right => e.addr + e.size <= m[k].addr
    BY <1>3, <1>4, <2>1 DEF Between
  <2>3. right => m[k].addr \in Nat
    BY <1>1, <2>1
  <2> QED
    BY <1>2, <2>1, <2>2, <2>3
(* What does not abut is apart.                                            *)
<1>7. ~ left => \A j \in 1..Len(m) : j < k => m[j].addr + m[j].size < e.addr
  <2> SUFFICES ASSUME ~ left, NEW j \in 1..Len(m), j < k
               PROVE  m[j].addr + m[j].size < e.addr
    OBVIOUS
  <2>1. k - 1 \in 1..Len(m) /\ m[k - 1].addr + m[k - 1].size < e.addr
    BY <1>1, <1>2, <1>4, SMTT(30) DEF AbutsLeft, End
  <2>2. j < k - 1 => m[j].addr + m[j].size < m[k - 1].addr
    BY <2>1 DEF Apart
  <2>3. /\ m[j].addr \in Nat /\ m[j].size \in Nat
        /\ m[k - 1].addr \in Nat /\ m[k - 1].size \in Nat
    BY <1>1, <2>1
  <2>4. j = k - 1 \/ j < k - 1
    BY <1>4
  <2>5. CASE j = k - 1
    BY <2>1, <2>5
  <2>6. CASE j < k - 1
    BY <1>2, <2>1, <2>2, <2>3, <2>6, SMTT(30)
  <2> QED
    BY <2>4, <2>5, <2>6
<1>8. ~ right => \A j \in 1..Len(m) : j >= k => e.addr + e.size < m[j].addr
  <2> SUFFICES ASSUME ~ right, NEW j \in 1..Len(m), j >= k
               PROVE  e.addr + e.size < m[j].addr
    OBVIOUS
  <2>1. k \in 1..Len(m) /\ e.addr + e.size < m[k].addr
    BY <1>1, <1>2, <1>4 DEF AbutsRight, End
  <2>2. k < j => m[k].addr + m[k].size < m[j].addr
    BY <2>1 DEF Apart
  <2> QED
    BY <1>1, <1>2, <1>4, <2>1, <2>2, SMTT(30)
<1>9. ~ Overflows(m, e) \/ (~ left /\ ~ right)
  BY DEF Overflows, k
<1>m. /\ left /\ right =>
           MapFree(m, e) = RemoveAt([m EXCEPT ![k - 1].size = @ + e.size + m[k].size], k)
      /\ left /\ ~ right => MapFree(m, e) = [m EXCEPT ![k - 1].size = @ + e.size]
      /\ ~ left /\ right => MapFree(m, e) = [m EXCEPT ![k] = Seg(e.addr, @.size + e.size)]
      /\ Overflows(m, e) => MapFree(m, e) = m
      /\ ~ left /\ ~ right /\ ~ Overflows(m, e) => MapFree(m, e) = InsertAt(m, k, e)
  BY MapFreeCases, Zenon DEF k
<1> HIDE DEF left, right
<1>10. CASE ~ left /\ ~ right /\ ~ Overflows(m, e)
  <2>1. MapFree(m, e) = InsertAt(m, k, e)
    BY <1>m, <1>10
  <2> QED
    BY <1>4, <1>7, <1>8, <1>10, <2>1, InsertedMap DEF Freed
<1>11. CASE Overflows(m, e)
  <2>1. MapFree(m, e) = m
    BY <1>m, <1>9, <1>11
  <2> QED
    BY <1>11, <2>1 DEF Freed
<1>12. CASE left /\ ~ right
  <2> DEFINE i == k - 1
             x == Seg(m[i].addr, m[i].size + e.size)
             t == [m EXCEPT ![i].size = @ + e.size]
  <2>1. MapFree(m, e) = t
    BY <1>m, <1>12
  <2>2. i \in 1..Len(m) /\ i < k /\ k <= i + 1 /\ m[i].addr + m[i].size = e.addr
    BY <1>4, <1>5, <1>12
  <2>3. x \in Segment /\ x \in Loose /\ x.addr = m[i].addr /\ x.size = m[i].size + e.size
    BY <1>1, <1>2, <2>2, SMTT(30) DEF Seg, Segment, Loose
  <2>4. t = [m EXCEPT ![i] = x]
    <3>1. m[i] \in Segment
      BY <1>1, <2>2
    <3>2. [m[i] EXCEPT !.size = @ + e.size] = x
      BY <3>1, SMTT(30) DEF Segment, Seg
    <3> QED
      BY <3>2, <2>2
  <2> HIDE DEF i, x, t
  <2>5. t \in Seq(Segment) /\ Replaced(t, m, i, x)
    BY <2>2, <2>3, <2>4 DEF Replaced
  <2>6. Units(x) = Units(m[i]) \cup Units(e)
    BY <1>0, <1>1, <2>2, <2>3, JoinUnits
  <2>7. \A j \in 1..Len(m) : j < i => m[j].addr + m[j].size < x.addr
    BY <2>2, <2>3 DEF Apart
  <2>8. \A j \in 1..Len(m) : j > i => x.addr + x.size < m[j].addr
    <3> SUFFICES ASSUME NEW j \in 1..Len(m), j > i
                 PROVE  x.addr + x.size < m[j].addr
      OBVIOUS
    <3>1. e.addr + e.size < m[j].addr
      BY <1>4, <1>8, <1>12, <2>2
    <3> QED
      BY <1>1, <1>2, <2>2, <2>3, <3>1
  <2>9. Apart(t) /\ Free(t) = Free(m) \cup Units(x)
    <3>1. t \in Seq(Loose)
      BY <2>5, SeqLoose
    <3>2. Units(m[i]) \subseteq Units(x)
      BY <2>6
    <3> QED
      BY <1>0, <2>2, <2>3, <2>5, <2>7, <2>8, <3>1, <3>2, ReplacedMap
  <2>10. Units(m[i]) \subseteq Free(m)
    BY <1>0, <2>2, EntryFree
  <2> QED
    BY <1>9, <1>12, <2>1, <2>5, <2>6, <2>9, <2>10 DEF Freed
<1>13. CASE ~ left /\ right
  <2> DEFINE x == Seg(e.addr, m[k].size + e.size)
             t == [m EXCEPT ![k] = x]
  <2>1. MapFree(m, e) = t
    BY <1>m, <1>13
  <2>2. k \in 1..Len(m) /\ e.addr + e.size = m[k].addr
    BY <1>6, <1>13
  <2>3. x \in Segment /\ x \in Loose /\ x.addr = e.addr /\ x.size = m[k].size + e.size
    BY <1>1, <1>2, <2>2, SMTT(30) DEF Seg, Segment, Loose
  <2>4. t = [m EXCEPT ![k] = x]
    OBVIOUS
  <2> HIDE DEF x, t
  <2>5. t \in Seq(Segment) /\ Replaced(t, m, k, x)
    BY <2>2, <2>3, <2>4 DEF Replaced
  <2>6. Units(x) = Units(m[k]) \cup Units(e)
    <3>1. m[k] \in Loose /\ m[k].size + e.size = e.size + m[k].size
      BY <1>1, <1>2, <2>2
    <3>2. Units(x) = Units(e) \cup Units(m[k])
      BY <1>0, <2>2, <2>3, <3>1, JoinUnits
    <3> QED
      BY <3>2
  <2>7. \A j \in 1..Len(m) : j < k => m[j].addr + m[j].size < x.addr
    BY <1>7, <1>13, <2>3
  <2>8. \A j \in 1..Len(m) : j > k => x.addr + x.size < m[j].addr
    <3> SUFFICES ASSUME NEW j \in 1..Len(m), j > k
                 PROVE  x.addr + x.size < m[j].addr
      OBVIOUS
    <3>1. m[k].addr + m[k].size < m[j].addr
      BY <2>2 DEF Apart
    <3> QED
      BY <1>1, <1>2, <2>2, <2>3, <3>1
  <2>9. Apart(t) /\ Free(t) = Free(m) \cup Units(x)
    <3>1. t \in Seq(Loose)
      BY <2>5, SeqLoose
    <3> QED
      BY <1>0, <2>2, <2>3, <2>5, <2>6, <2>7, <2>8, <3>1, ReplacedMap
  <2>10. Units(m[k]) \subseteq Free(m)
    BY <1>0, <2>2, EntryFree
  <2> QED
    BY <1>9, <1>13, <2>1, <2>5, <2>6, <2>9, <2>10 DEF Freed
<1>14. CASE left /\ right
  <2> DEFINE i == k - 1
             s == RemoveAt(m, k)
             x == Seg(m[i].addr, m[i].size + e.size + m[k].size)
             y == [m EXCEPT ![i].size = @ + e.size + m[k].size]
             t == RemoveAt(y, k)
  <2>1. MapFree(m, e) = t
    BY <1>m, <1>14
  <2>2. /\ i \in 1..Len(m) /\ k \in 1..Len(m) /\ k = i + 1
        /\ m[i].addr + m[i].size = e.addr /\ e.addr + e.size = m[k].addr
    BY <1>5, <1>6, <1>14
  <2>3. /\ x \in Segment /\ x \in Loose /\ x.addr = m[i].addr
        /\ x.size = m[i].size + e.size + m[k].size
    <3> HIDE DEF i
    <3>1. m[i].addr \in Nat \ {0} /\ m[i].size \in Nat \ {0} /\ m[k].size \in Nat \ {0}
      BY <1>1, <2>2
    <3>2. m[i].size + e.size + m[k].size \in Nat \ {0}
      BY <1>2, <3>1, SMTT(30)
    <3> QED
      BY <3>1, <3>2, SegIs
  <2>4. y = [m EXCEPT ![i] = x]
    <3>1. m[i] \in Segment
      BY <1>1, <2>2
    <3> HIDE DEF i
    <3>2. [m[i] EXCEPT !.size = @ + e.size + m[k].size] = x
      BY <3>1, SizeSet
    <3> HIDE DEF x
    <3> QED
      BY <3>2, <2>2
  <2> HIDE DEF i, x, y
  <2>5. /\ y \in Seq(Segment) /\ Len(y) = Len(m) /\ y[i] = x
        /\ \A j \in 1..Len(m) : j # i => y[j] = m[j]
    BY <2>2, <2>3, <2>4
  <2>6. t \in Seq(Segment) /\ Without(t, y, k)
    <3>1. y \in Seq(Segment) /\ k \in 1..Len(y)
      BY <2>2, <2>5
    <3> QED
      BY <3>1, RemoveAtElements DEF Without
  <2>7. /\ s \in Seq(Segment) /\ Without(s, m, k) /\ Apart(s)
        /\ Free(s) = Free(m) \ Units(m[k])
    <3>1. Segment \subseteq Loose
      BY DEF Segment, Loose
    <3> QED
      BY <2>2, <3>1, Removed, SMTT(30)
  <2> HIDE DEF t, s
  <2>8. /\ Len(s) = Len(m) - 1 /\ i \in 1..Len(s) /\ s[i] = m[i]
        /\ \A j \in 1..Len(s) : j < i => s[j] = m[j]
        /\ \A j \in 1..Len(s) : j > i => s[j] = m[j + 1]
    BY <2>2, <2>7 DEF Without
  <2>9. Replaced(t, s, i, x)
    <3>1. Len(t) = Len(s) /\ t[i] = x
      BY <2>2, <2>5, <2>6, <2>8 DEF Without
    <3>2. ASSUME NEW j \in 1..Len(s), j # i
          PROVE  t[j] = s[j]
      <4>1. CASE j < i
        BY <2>2, <2>5, <2>6, <2>8, <4>1 DEF Without
      <4>2. CASE j > i
        <5>1. t[j] = y[j + 1] /\ s[j] = m[j + 1]
          BY <2>2, <2>5, <2>6, <2>8, <4>2 DEF Without
        <5>2. j + 1 \in 1..Len(m) /\ j + 1 # i
          BY <2>2, <2>8, <4>2
        <5> QED
          BY <2>5, <5>1, <5>2
      <4> QED
        BY <3>2, <4>1, <4>2, <2>2
    <3> QED
      BY <3>1, <3>2 DEF Replaced
  <2>10. Units(x) = Units(m[i]) \cup Units(e) \cup Units(m[k])
    <3> DEFINE z == Seg(m[i].addr, m[i].size + e.size)
    <3>0. /\ m[i].addr \in Nat \ {0} /\ m[i].size \in Nat \ {0} /\ m[i] \in Loose
          /\ m[k].size \in Nat \ {0} /\ m[k] \in Loose
      BY <1>1, <2>2
    <3>1. z \in Loose /\ z.addr = m[i].addr /\ z.size = m[i].size + e.size
      BY <1>2, <3>0 DEF Seg, Loose
    <3> HIDE DEF z
    <3>2. Units(z) = Units(m[i]) \cup Units(e)
      BY <1>0, <2>2, <3>0, <3>1, JoinUnits
    <3>3. x.size = z.size + m[k].size /\ z.addr + z.size = m[k].addr
      BY <1>2, <2>2, <2>3, <3>0, <3>1
    <3>4. Units(x) = Units(z) \cup Units(m[k])
      BY <2>3, <3>0, <3>1, <3>3, JoinUnits
    <3> QED
      BY <3>2, <3>4
  <2>e. x.addr + x.size = m[k].addr + m[k].size
    <3>1. m[i].addr \in Nat /\ m[i].size \in Nat /\ m[k].size \in Nat /\ e.size \in Nat
      BY <1>1, <1>2, <2>2
    <3>2. x.addr = m[i].addr /\ x.size = m[i].size + e.size + m[k].size
          /\ m[i].addr + m[i].size = e.addr /\ e.addr + e.size = m[k].addr
      BY <2>2, <2>3
    <3> QED
      BY <3>1, <3>2, SMTT(30)
  <2>11. \A j \in 1..Len(s) : j < i => s[j].addr + s[j].size < x.addr
    BY <2>2, <2>3, <2>8, SMTT(30) DEF Apart
  <2>12. \A j \in 1..Len(s) : j > i => x.addr + x.size < s[j].addr
    <3> SUFFICES ASSUME NEW j \in 1..Len(s), j > i
                 PROVE  x.addr + x.size < s[j].addr
      OBVIOUS
    <3>1. s[j] = m[j + 1] /\ j + 1 \in 1..Len(m) /\ k < j + 1
      BY <2>2, <2>8
    <3>2. m[k].addr + m[k].size < m[j + 1].addr
      BY <2>2, <3>1 DEF Apart
    <3> QED
      BY <2>e, <3>1, <3>2
  <2>13. Apart(t) /\ Free(t) = Free(s) \cup Units(x)
    <3>1. t \in Seq(Loose) /\ s \in Seq(Loose)
      BY <2>6, <2>7, SeqLoose
    <3>2. Units(s[i]) \subseteq Units(x)
      BY <2>8, <2>10
    <3> QED
      BY <2>3, <2>7, <2>8, <2>9, <2>11, <2>12, <3>1, <3>2, ReplacedMap
  <2>14. Units(m[i]) \subseteq Free(m) /\ Units(m[k]) \subseteq Free(m)
    BY <1>0, <2>2, EntryFree
  <2> QED
    BY <1>9, <1>14, <2>1, <2>6, <2>7, <2>10, <2>13, <2>14 DEF Freed
<1> QED
  BY <1>9, <1>10, <1>11, <1>12, <1>13, <1>14

-----------------------------------------------------------------------------
(* malloc3.                                                                *)

LEMMA FirstFitIs ==
  ASSUME NEW m \in Seq(Loose), NEW n \in Nat, Fits(m, n) # {}
  PROVE  FirstFit(m, n) \in 1..Len(m) /\ m[FirstFit(m, n)].size >= n
<1>1. Fits(m, n) \subseteq 1..Len(m)
  BY DEF Fits
<1>2. \E i \in Fits(m, n) : \A j \in Fits(m, n) : i <= j
  BY <1>1, LeastOf
<1>3. FirstFit(m, n) \in Fits(m, n)
  BY <1>2 DEF FirstFit
<1> QED
  BY <1>3 DEF Fits

LEMMA PickIs ==
  ASSUME NEW m \in Seq(Loose), NEW n \in Nat
  PROVE  /\ Pick(m, n) \in 0..Len(m)
         /\ Pick(m, n) # 0 => m[Pick(m, n)].size >= n
BY FirstFitIs DEF Pick

(* What a request of n units of entry i takes from entry j.                *)
Part(i, j, n) == IF i = j THEN n ELSE 0

LEMMA PartInt ==
  ASSUME NEW i, NEW j, NEW n \in Nat
  PROVE  Part(i, j, n) \in Nat
BY DEF Part

(* In between, nothing is known of addresses and sizes but that they are   *)
(* numbers.                                                                *)
Wide == [addr : Int, size : Int]

LEMMA ReduceIs ==
  ASSUME NEW m \in Seq(Wide), NEW i \in 0..Len(m), NEW n \in Nat
  PROVE  /\ Reduce(m, i, n) \in Seq(Wide)
         /\ Len(Reduce(m, i, n)) = Len(m)
         /\ \A j \in 1..Len(m) : /\ Reduce(m, i, n)[j].addr = m[j].addr
                                 /\ Reduce(m, i, n)[j].size = m[j].size - Part(i, j, n)
<1>0. \A j \in 1..Len(m) : m[j] \in Wide
  OBVIOUS
<1>1. \A j \in 1..Len(m) : m[j].addr \in Int /\ m[j].size \in Int
  BY <1>0 DEF Wide
<1>2. CASE i = 0
  <2>1. Reduce(m, i, n) = m
    BY <1>2 DEF Reduce
  <2>2. \A j \in 1..Len(m) : Part(i, j, n) = 0
    BY <1>2 DEF Part
  <2> QED
    BY <1>1, <2>1, <2>2
<1>3. CASE i # 0
  <2> DEFINE x == [addr |-> m[i].addr, size |-> m[i].size - n]
             t == [m EXCEPT ![i] = x]
  <2>1. i \in 1..Len(m)
    BY <1>3
  <2>2. x \in Wide /\ x.addr = m[i].addr /\ x.size = m[i].size - n
    BY <1>1, <2>1 DEF Wide
  <2>3. Reduce(m, i, n) = t
    <3>1. [m[i] EXCEPT !.size = @ - n] = x
      BY <1>0, <2>1, SMTT(30) DEF Wide
    <3> HIDE DEF x
    <3> QED
      BY <1>3, <3>1 DEF Reduce
  <2> HIDE DEF x
  <2>4. t \in Seq(Wide) /\ Len(t) = Len(m) /\ t[i] = x
        /\ \A j \in 1..Len(m) : j # i => t[j] = m[j]
    BY <2>1, <2>2
  <2> HIDE DEF t
  <2>5. \A j \in 1..Len(m) : Part(i, j, n) = IF i = j THEN n ELSE 0
    BY DEF Part
  <2> QED
    BY <1>1, <2>2, <2>3, <2>4, <2>5
<1> QED
  BY <1>2, <1>3

LEMMA RestoreIs ==
  ASSUME NEW m \in Seq(Wide), NEW i \in 0..Len(m), NEW n \in Nat
  PROVE  /\ Restore(m, i, n) \in Seq(Wide)
         /\ Len(Restore(m, i, n)) = Len(m)
         /\ \A j \in 1..Len(m) : /\ Restore(m, i, n)[j].addr = m[j].addr
                                 /\ Restore(m, i, n)[j].size = m[j].size + Part(i, j, n)
<1>0. \A j \in 1..Len(m) : m[j] \in Wide
  OBVIOUS
<1>1. \A j \in 1..Len(m) : m[j].addr \in Int /\ m[j].size \in Int
  BY <1>0 DEF Wide
<1>2. CASE i = 0
  <2>1. Restore(m, i, n) = m
    BY <1>2 DEF Restore
  <2>2. \A j \in 1..Len(m) : Part(i, j, n) = 0
    BY <1>2 DEF Part
  <2> QED
    BY <1>1, <2>1, <2>2
<1>3. CASE i # 0
  <2> DEFINE x == [addr |-> m[i].addr, size |-> m[i].size + n]
             t == [m EXCEPT ![i] = x]
  <2>1. i \in 1..Len(m)
    BY <1>3
  <2>2. x \in Wide /\ x.addr = m[i].addr /\ x.size = m[i].size + n
    BY <1>1, <2>1 DEF Wide
  <2>3. Restore(m, i, n) = t
    <3>1. [m[i] EXCEPT !.size = @ + n] = x
      BY <1>0, <2>1, SMTT(30) DEF Wide
    <3> HIDE DEF x
    <3> QED
      BY <1>3, <3>1 DEF Restore
  <2> HIDE DEF x
  <2>4. t \in Seq(Wide) /\ Len(t) = Len(m) /\ t[i] = x
        /\ \A j \in 1..Len(m) : j # i => t[j] = m[j]
    BY <2>1, <2>2
  <2> HIDE DEF t
  <2>5. \A j \in 1..Len(m) : Part(i, j, n) = IF i = j THEN n ELSE 0
    BY DEF Part
  <2> QED
    BY <1>1, <2>2, <2>3, <2>4, <2>5
<1> QED
  BY <1>2, <1>3

LEMMA AdvanceIs ==
  ASSUME NEW m \in Seq(Wide), NEW i \in 1..Len(m), NEW n \in Nat
  PROVE  /\ Advance(m, i, n) \in Seq(Wide)
         /\ Len(Advance(m, i, n)) = Len(m)
         /\ \A j \in 1..Len(m) : /\ Advance(m, i, n)[j].addr = m[j].addr + Part(i, j, n)
                                 /\ Advance(m, i, n)[j].size = m[j].size
<1>0. \A j \in 1..Len(m) : m[j] \in Wide
  OBVIOUS
<1>1. \A j \in 1..Len(m) : m[j].addr \in Int /\ m[j].size \in Int
  BY <1>0 DEF Wide
<1> DEFINE x == [addr |-> m[i].addr + n, size |-> m[i].size]
           t == [m EXCEPT ![i] = x]
<1>2. x \in Wide /\ x.addr = m[i].addr + n /\ x.size = m[i].size
  BY <1>1 DEF Wide
<1>3. Advance(m, i, n) = t
  <2>1. [m[i] EXCEPT !.addr = @ + n] = x
    BY <1>0, SMTT(30) DEF Wide
  <2> HIDE DEF x
  <2> QED
    BY <2>1 DEF Advance
<1> HIDE DEF x
<1>4. t \in Seq(Wide) /\ Len(t) = Len(m) /\ t[i] = x
      /\ \A j \in 1..Len(m) : j # i => t[j] = m[j]
  BY <1>2
<1> HIDE DEF t
<1>5. \A j \in 1..Len(m) : Part(i, j, n) = IF i = j THEN n ELSE 0
  BY DEF Part
<1> QED
  BY <1>1, <1>2, <1>3, <1>4, <1>5

LEMMA TakeIs ==
  ASSUME NEW m \in Seq(Wide), NEW i \in 1..Len(m), NEW n \in Nat
  PROVE  /\ Take(m, i, n) \in Seq(Wide)
         /\ Len(Take(m, i, n)) = Len(m)
         /\ \A j \in 1..Len(m) : /\ Take(m, i, n)[j].addr = m[j].addr + Part(i, j, n)
                                 /\ Take(m, i, n)[j].size = m[j].size - Part(i, j, n)
<1>0. \A j \in 1..Len(m) : m[j] \in Wide
  OBVIOUS
<1>1. \A j \in 1..Len(m) : m[j].addr \in Int /\ m[j].size \in Int
  BY <1>0 DEF Wide
<1> DEFINE x == Seg(m[i].addr + n, m[i].size - n)
           t == [m EXCEPT ![i] = x]
<1>2. x \in Wide /\ x.addr = m[i].addr + n /\ x.size = m[i].size - n
  BY <1>1, SMTT(30) DEF Wide, Seg
<1>3. Take(m, i, n) = t
  BY DEF Take
<1> HIDE DEF x
<1>4. t \in Seq(Wide) /\ Len(t) = Len(m) /\ t[i] = x
      /\ \A j \in 1..Len(m) : j # i => t[j] = m[j]
  BY <1>2
<1> HIDE DEF t
<1>5. \A j \in 1..Len(m) : Part(i, j, n) = IF i = j THEN n ELSE 0
  BY DEF Part
<1> QED
  BY <1>1, <1>2, <1>3, <1>4, <1>5

(* Maps with the same entries are the same.                                *)
LEMMA SameMap ==
  ASSUME NEW m \in Seq(Wide), NEW t \in Seq(Wide), Len(t) = Len(m),
         \A j \in 1..Len(m) : t[j].addr = m[j].addr /\ t[j].size = m[j].size
  PROVE  t = m
<1>1. \A j \in 1..Len(m) : m[j] \in Wide /\ t[j] \in Wide
  OBVIOUS
<1>2. \A x \in Wide : x = [addr |-> x.addr, size |-> x.size]
  BY DEF Wide
<1>3. \A j \in 1..Len(m) : t[j] = m[j]
  BY <1>1, <1>2, Zenon
<1> QED
  BY <1>3, SeqEqual

LEMMA SeqWide ==
  ASSUME NEW m \in Seq(Loose)
  PROVE  m \in Seq(Wide)
<1>1. Loose \subseteq Wide
  BY DEF Loose, Wide
<1> QED
  BY <1>1, SeqDef

(* The scan of malloc3, and the map if each request is taken in turn: they *)
(* have the same sizes.                                                    *)
Scanned(m, s, r, t1, t2, t3) ==
  LET i1 == r.madd[1]  i2 == r.madd[2]  i3 == r.madd[3]
  IN  /\ i1 \in 1..Len(m) /\ s[1] <= m[i1].size /\ t1 = Take(m, i1, s[1])
      /\ i2 \in 1..Len(m) /\ s[2] <= t1[i2].size /\ t2 = Take(t1, i2, s[2])
      /\ i3 \in 1..Len(m) /\ s[3] <= t2[i3].size /\ t3 = Take(t2, i3, s[3])

(* The entry j of t, given what the requests took.                         *)
Sizes3At(t, m, r, s) ==
  \A j \in 1..Len(m) :
    t[j].size = m[j].size - Part(r.madd[1], j, s[1]) - Part(r.madd[2], j, s[2])
                          - Part(r.madd[3], j, s[3])
Addrs3At(t, m, r, s) ==
  \A j \in 1..Len(m) :
    t[j].addr = m[j].addr + Part(r.madd[1], j, s[1]) + Part(r.madd[2], j, s[2])
                          + Part(r.madd[3], j, s[3])

LEMMA WideNat ==
  ASSUME NEW m \in Seq(Wide), NEW j \in 1..Len(m)
  PROVE  m[j].addr \in Int /\ m[j].size \in Int
<1>1. m[j] \in Wide
  OBVIOUS
<1> QED
  BY <1>1 DEF Wide

LEMMA ScanIs ==
  ASSUME NEW m \in Seq(Loose), NEW s \in Nat \X Nat \X Nat, Apart(m), NEW r, r = Scan3(m, s)
  PROVE  /\ r.madd[1] \in 0..Len(m) /\ r.madd[2] \in 0..Len(m) /\ r.madd[3] \in 0..Len(m)
         /\ r.map \in Seq(Wide) /\ Len(r.map) = Len(m)
         /\ \A j \in 1..Len(m) : r.map[j].addr = m[j].addr
         /\ Sizes3At(r.map, m, r, s)
         /\ Found3(r) => \E t1, t2, t3 : Scanned(m, s, r, t1, t2, t3)
<1> DEFINE i1 == Pick(m, s[1])    m1 == Reduce(m, i1, s[1])
           i2 == Pick(m1, s[2])   m2 == Reduce(m1, i2, s[2])
           i3 == Pick(m2, s[3])   m3 == Reduce(m2, i3, s[3])
<1>0. s[1] \in Nat /\ s[2] \in Nat /\ s[3] \in Nat
  OBVIOUS
<1>1. r.map = m3 /\ r.madd[1] = i1 /\ r.madd[2] = i2 /\ r.madd[3] = i3
  BY DEF Scan3
<1>2. m \in Seq(Wide)
  BY SeqWide
<1> HIDE DEF m3, i3, m2, i2, m1, i1
<1> USE <1>0
(* Reducing the sizes keeps them natural numbers.                          *)
<1>3. ASSUME NEW t \in Seq(Loose), NEW n \in Nat, NEW i \in 0..Len(t), NEW u,
             i # 0 => t[i].size >= n, u = Reduce(t, i, n)
      PROVE  /\ u \in Seq(Loose) /\ Len(u) = Len(t)
             /\ \A j \in 1..Len(t) : /\ u[j].addr = t[j].addr
                                     /\ u[j].size = t[j].size - Part(i, j, n)
  <2>1. t \in Seq(Wide)
    BY <1>3, SeqWide
  <2>2. /\ u \in Seq(Wide) /\ Len(u) = Len(t)
        /\ \A j \in 1..Len(t) : /\ u[j].addr = t[j].addr
                                /\ u[j].size = t[j].size - Part(i, j, n)
    BY <1>3, <2>1, ReduceIs
  <2>3. \A j \in 1..Len(t) : t[j].addr \in Nat \ {0} /\ t[j].size \in Nat
    BY <1>3, HasNat
  <2>4. \A j \in 1..Len(t) : Part(i, j, n) \in Nat /\ Part(i, j, n) <= t[j].size
    BY <1>3, <2>3 DEF Part
  <2>5. ASSUME NEW j \in 1..Len(t)
        PROVE  u[j] \in Wide /\ u[j].addr \in Nat \ {0} /\ u[j].size \in Nat
    <3>1. u[j] \in Wide
      BY <2>2
    <3>2. u[j].addr = t[j].addr /\ u[j].size = t[j].size - Part(i, j, n)
      BY <2>2
    <3>3. t[j].addr \in Nat \ {0} /\ t[j].size \in Nat
      BY <2>3
    <3>4. Part(i, j, n) \in Nat /\ Part(i, j, n) <= t[j].size
      BY <2>4
    <3> QED
      BY <3>1, <3>2, <3>3, <3>4, SMTT(30)
  <2>6. \A j \in 1..Len(t) : u[j] \in Loose
    BY <2>5 DEF Wide, Loose
  <2>7. u = [j \in 1..Len(t) |-> u[j]] /\ Len(t) \in Nat
    BY <2>2
  <2>8. u \in Seq(Loose)
    BY <2>6, <2>7, SeqDef
  <2> QED
    BY <2>2, <2>8
<1>4. i1 \in 0..Len(m) /\ (i1 # 0 => m[i1].size >= s[1])
  BY PickIs DEF i1
<1>5. /\ m1 \in Seq(Loose) /\ Len(m1) = Len(m)
      /\ \A j \in 1..Len(m) : /\ m1[j].addr = m[j].addr
                              /\ m1[j].size = m[j].size - Part(i1, j, s[1])
  BY <1>3, <1>4 DEF m1
<1>6. i2 \in 0..Len(m) /\ (i2 # 0 => m1[i2].size >= s[2])
  BY <1>5, PickIs DEF i2
<1>7. /\ m2 \in Seq(Loose) /\ Len(m2) = Len(m)
      /\ \A j \in 1..Len(m) : /\ m2[j].addr = m1[j].addr
                              /\ m2[j].size = m1[j].size - Part(i2, j, s[2])
  <2>1. i2 \in 0..Len(m1)
    BY <1>5, <1>6
  <2> QED
    BY <1>3, <1>5, <1>6, <2>1 DEF m2
<1>8. i3 \in 0..Len(m) /\ (i3 # 0 => m2[i3].size >= s[3])
  BY <1>7, PickIs DEF i3
<1>9. /\ m3 \in Seq(Loose) /\ Len(m3) = Len(m)
      /\ \A j \in 1..Len(m) : /\ m3[j].addr = m2[j].addr
                              /\ m3[j].size = m2[j].size - Part(i3, j, s[3])
  <2>1. i3 \in 0..Len(m2)
    BY <1>7, <1>8
  <2> QED
    BY <1>3, <1>7, <1>8, <2>1 DEF m3
<1>10. \A j \in 1..Len(m) : m3[j].addr = m[j].addr
  BY <1>5, <1>7, <1>9
<1>11. Sizes3At(m3, m, r, s)
  BY <1>1, <1>5, <1>7, <1>9 DEF Sizes3At
<1>12. ASSUME Found3(r)
       PROVE  \E t1, t2, t3 : Scanned(m, s, r, t1, t2, t3)
  <2> DEFINE t1 == Take(m, i1, s[1])
             t2 == Take(t1, i2, s[2])
             t3 == Take(t2, i3, s[3])
  <2>1. i1 # 0 /\ i2 # 0 /\ i3 # 0
    BY <1>1, <1>12 DEF Found3
  <2>2. i1 \in 1..Len(m) /\ i2 \in 1..Len(m) /\ i3 \in 1..Len(m)
    BY <1>4, <1>6, <1>8, <2>1
  <2>3. /\ t1 \in Seq(Wide) /\ Len(t1) = Len(m)
        /\ \A j \in 1..Len(m) : t1[j].size = m1[j].size
    BY <1>2, <1>5, <2>2, TakeIs
  <2> HIDE DEF t1
  <2>4. /\ t2 \in Seq(Wide) /\ Len(t2) = Len(m)
        /\ \A j \in 1..Len(m) : t2[j].size = m2[j].size
    <3>1. i2 \in 1..Len(t1)
      BY <2>2, <2>3
    <3>2. \A j \in 1..Len(t1) : t2[j].size = t1[j].size - Part(i2, j, s[2])
      BY <2>3, <3>1, TakeIs
    <3> QED
      BY <1>7, <2>3, <3>1, <3>2, TakeIs
  <2> HIDE DEF t2
  <2>5. s[1] <= m[i1].size /\ s[2] <= t1[i2].size /\ s[3] <= t2[i3].size
    <3>1. m[i1].size \in Int /\ t1[i2].size \in Int /\ t2[i3].size \in Int
      BY <1>2, <2>2, <2>3, <2>4, WideNat
    <3>2. m[i1].size >= s[1] /\ t1[i2].size >= s[2] /\ t2[i3].size >= s[3]
      BY <1>4, <1>6, <1>8, <2>1, <2>2, <2>3, <2>4
    <3> QED
      BY <3>1, <3>2
  <2>6. Scanned(m, s, r, t1, t2, t3)
    BY <1>1, <2>2, <2>5 DEF Scanned, t1, t2
  <2> QED
    BY <2>6
<1>13. m3 \in Seq(Wide)
  BY <1>9, SeqWide
<1> QED
  BY <1>1, <1>4, <1>6, <1>8, <1>9, <1>10, <1>11, <1>12, <1>13

(* A malloc3 that fails leaves the map as it was.                          *)
LEMMA Restored3 ==
  ASSUME NEW m \in Seq(Loose), NEW s \in Nat \X Nat \X Nat, Apart(m)
  PROVE  Restore3(Scan3(m, s), s) = m
<1> DEFINE r == Scan3(m, s)
           i1 == r.madd[1]  i2 == r.madd[2]  i3 == r.madd[3]
           m1 == Restore(r.map, i1, s[1])
           m2 == Restore(m1, i2, s[2])
           m3 == Restore(m2, i3, s[3])
<1>0. s[1] \in Nat /\ s[2] \in Nat /\ s[3] \in Nat /\ m \in Seq(Wide)
  BY SeqWide
<1>1. /\ i1 \in 0..Len(m) /\ i2 \in 0..Len(m) /\ i3 \in 0..Len(m)
      /\ r.map \in Seq(Wide) /\ Len(r.map) = Len(m)
      /\ \A j \in 1..Len(m) : r.map[j].addr = m[j].addr
      /\ Sizes3At(r.map, m, r, s)
  BY ScanIs
<1>2. Restore3(r, s) = m3
  BY DEF Restore3
<1>s. \A j \in 1..Len(m) :
        r.map[j].size = m[j].size - Part(i1, j, s[1]) - Part(i2, j, s[2]) - Part(i3, j, s[3])
  BY <1>1 DEF Sizes3At
<1> HIDE DEF r, i1, i2, i3, m1, m2, m3
<1>3. /\ m1 \in Seq(Wide) /\ Len(m1) = Len(m)
      /\ \A j \in 1..Len(m) : /\ m1[j].addr = m[j].addr
                              /\ m1[j].size = r.map[j].size + Part(i1, j, s[1])
  <2>1. i1 \in 0..Len(r.map)
    BY <1>1
  <2>2. /\ m1 \in Seq(Wide) /\ Len(m1) = Len(r.map)
        /\ \A j \in 1..Len(r.map) : /\ m1[j].addr = r.map[j].addr
                                    /\ m1[j].size = r.map[j].size + Part(i1, j, s[1])
    BY <1>0, <1>1, <2>1, RestoreIs DEF m1
  <2> QED
    BY <1>1, <2>2
<1>4. /\ m2 \in Seq(Wide) /\ Len(m2) = Len(m)
      /\ \A j \in 1..Len(m) : /\ m2[j].addr = m[j].addr
                              /\ m2[j].size = m1[j].size + Part(i2, j, s[2])
  BY <1>0, <1>1, <1>3, RestoreIs, SMTT(30) DEF m2
<1>5. /\ m3 \in Seq(Wide) /\ Len(m3) = Len(m)
      /\ \A j \in 1..Len(m) : /\ m3[j].addr = m[j].addr
                              /\ m3[j].size = m2[j].size + Part(i3, j, s[3])
  BY <1>0, <1>1, <1>4, RestoreIs, SMTT(30) DEF m3
<1>6. ASSUME NEW j \in 1..Len(m)
      PROVE  m3[j].size = m[j].size
  <2>1. m[j].size \in Int
    BY <1>0, WideNat
  <2>2. Part(i1, j, s[1]) \in Nat /\ Part(i2, j, s[2]) \in Nat /\ Part(i3, j, s[3]) \in Nat
    BY <1>0, PartInt
  <2>3. m3[j].size = ((m[j].size - Part(i1, j, s[1]) - Part(i2, j, s[2]) - Part(i3, j, s[3]))
                       + Part(i1, j, s[1]) + Part(i2, j, s[2])) + Part(i3, j, s[3])
    BY <1>s, <1>3, <1>4, <1>5, ZenonT(60)
  <2> QED
    BY <2>1, <2>2, <2>3, SMTT(30)
<1>7. m3 = m
  BY <1>0, <1>5, <1>6, SameMap
<1> QED
  BY <1>2, <1>7 DEF r

(* Squeezing an empty entry out.                                           *)
LEMMA EmptyFinite ==
  ASSUME NEW m \in Seq(Loose)
  PROVE  IsFiniteSet(Empty(m)) /\ Cardinality(Empty(m)) \in Nat
<1>0. Len(m) \in Int /\ 1 \in Int
  OBVIOUS
<1>1. Empty(m) \in SUBSET (1..Len(m))
  BY DEF Empty
<1>2. IsFiniteSet(1..Len(m))
  BY <1>0, FS_Interval
<1> QED
  BY <1>1, <1>2, FS_Subset, FS_CardinalityType

LEMMA EmptyFewer ==
  ASSUME NEW m \in Seq(Loose), NEW t \in Seq(Loose), NEW i \in Empty(m), Without(t, m, i)
  PROVE  Cardinality(Empty(t)) <= Cardinality(Empty(m)) - 1
<1> DEFINE f == [j \in Empty(t) |-> IF j < i THEN j ELSE j + 1]
<1>0. i \in 1..Len(m) /\ Len(t) = Len(m) - 1
  BY DEF Empty, Without
<1>1. ASSUME NEW j \in Empty(t)
      PROVE  f[j] \in Empty(m) \ {i} /\ f[j] = (IF j < i THEN j ELSE j + 1) /\ j \in 1..(Len(m) - 1)
  <2>1. j \in 1..(Len(m) - 1) /\ t[j].size = 0
    BY <1>0 DEF Empty
  <2>2. f[j] = IF j < i THEN j ELSE j + 1
    OBVIOUS
  <2> HIDE DEF f
  <2>3. CASE j < i
    BY <1>0, <2>1, <2>2, <2>3 DEF Empty, Without
  <2>4. CASE j >= i
    <3>1. f[j] = j + 1 /\ j + 1 \in 1..Len(m) /\ j + 1 # i /\ t[j] = m[j + 1]
      BY <1>0, <2>1, <2>2, <2>4 DEF Without
    <3> QED
      BY <2>1, <2>2, <3>1 DEF Empty
  <2> QED
    BY <1>0, <2>1, <2>3, <2>4
<1>2. f \in [Empty(t) -> Empty(m) \ {i}]
  BY <1>1
<1>3. \A j, k \in Empty(t) : f[j] = f[k] => j = k
  <2> HIDE DEF f
  <2> QED BY <1>0, <1>1
<1> HIDE DEF f
<1>4. f \in Injection(Empty(t), Empty(m) \ {i})
  BY <1>2, <1>3 DEF Injection, IsInjective
<1>5. IsFiniteSet(Empty(m) \ {i}) /\ Cardinality(Empty(m) \ {i}) = Cardinality(Empty(m)) - 1
  BY EmptyFinite, FS_RemoveElement
<1> QED
  BY <1>4, <1>5, FS_Injection

LEMMA Squeezed ==
  ASSUME NEW m \in Seq(Loose), Apart(m), NEW n \in Nat, Cardinality(Empty(m)) <= n + 1
  PROVE  /\ Squeeze(m) \in Seq(Loose) /\ Apart(Squeeze(m))
         /\ Free(Squeeze(m)) = Free(m)
         /\ Cardinality(Empty(Squeeze(m))) <= n
<1>1. CASE Empty(m) = {}
  <2>1. Squeeze(m) = m
    BY <1>1 DEF Squeeze
  <2> QED
    BY <1>1, <2>1, FS_EmptySet
<1>2. CASE Empty(m) # {}
  <2> DEFINE i == CHOOSE j \in Empty(m) : TRUE
             t == RemoveAt(m, i)
  <2>1. i \in Empty(m) /\ Squeeze(m) = t
    BY <1>2 DEF Squeeze
  <2> HIDE DEF i
  <2>2. i \in 1..Len(m) /\ m[i].size = 0
    BY <2>1 DEF Empty
  <2>3. t \in Seq(Loose) /\ Without(t, m, i) /\ Apart(t) /\ Free(t) = Free(m) \ Units(m[i])
    BY <2>2, Removed
  <2>4. Units(m[i]) = {}
    <3>1. m[i].addr \in Nat
      BY <2>2, HasNat
    <3> QED
      BY <2>2, <3>1 DEF Units, End
  <2> HIDE DEF t
  <2>5. Cardinality(Empty(t)) <= Cardinality(Empty(m)) - 1
    BY <2>1, <2>3, EmptyFewer
  <2>6. Cardinality(Empty(t)) \in Nat /\ Cardinality(Empty(m)) \in Nat
    BY <2>3, EmptyFinite
  <2> QED
    BY <2>1, <2>3, <2>4, <2>5, <2>6
<1> QED
  BY <1>1, <1>2

LEMMA ThreeAtMost ==
  ASSUME NEW a, NEW b, NEW c, NEW T, T \subseteq {a, b, c}
  PROVE  IsFiniteSet(T) /\ Cardinality(T) <= 3
<1>1. IsFiniteSet({a}) /\ Cardinality({a}) = 1
  BY FS_Singleton
<1>2. IsFiniteSet({a} \cup {b}) /\ Cardinality({a} \cup {b}) \in 1..2
  BY <1>1, FS_AddElement
<1>3. IsFiniteSet(({a} \cup {b}) \cup {c}) /\ Cardinality(({a} \cup {b}) \cup {c}) \in 1..3
  BY <1>2, FS_AddElement
<1>4. T \in SUBSET (({a} \cup {b}) \cup {c})
  OBVIOUS
<1>5. IsFiniteSet(T) /\ Cardinality(T) <= Cardinality(({a} \cup {b}) \cup {c})
  BY <1>3, <1>4, FS_Subset
<1>6. Cardinality(T) \in Nat
  BY <1>5, FS_CardinalityType
<1> QED
  BY <1>3, <1>5, <1>6

(* At most three entries are used up, so three squeezes leave none empty.  *)
LEMMA SqueezedThrice ==
  ASSUME NEW m \in Seq(Loose), Apart(m), NEW a, NEW b, NEW c, Empty(m) \subseteq {a, b, c},
         NEW t, t = Squeeze(Squeeze(Squeeze(m)))
  PROVE  t \in Seq(Segment) /\ Apart(t) /\ Free(t) = Free(m)
<1> DEFINE m1 == Squeeze(m)
           m2 == Squeeze(m1)
<1>0. t = Squeeze(m2)
  OBVIOUS
<1>1. Cardinality(Empty(m)) <= 2 + 1
  <2>1. Cardinality(Empty(m)) <= 3
    BY ThreeAtMost
  <2> QED
    BY <2>1
<1>2. m1 \in Seq(Loose) /\ Apart(m1) /\ Free(m1) = Free(m) /\ Cardinality(Empty(m1)) <= 1 + 1
  BY <1>1, Squeezed
<1> HIDE DEF m1
<1>3. m2 \in Seq(Loose) /\ Apart(m2) /\ Free(m2) = Free(m) /\ Cardinality(Empty(m2)) <= 0 + 1
  BY <1>2, Squeezed
<1> HIDE DEF m2
<1>4. t \in Seq(Loose) /\ Apart(t) /\ Free(t) = Free(m) /\ Cardinality(Empty(t)) <= 0
  BY <1>0, <1>3, Squeezed
<1>5. Empty(t) = {}
  BY <1>4, EmptyFinite, FS_EmptySet
<1>6. \A j \in 1..Len(t) : t[j].size # 0
  BY <1>4, <1>5 DEF Empty
<1> QED
  BY <1>4, <1>6, SeqSegment

-----------------------------------------------------------------------------
(* What a request is granted: segments apart from each other, free before  *)
(* and not after, n units in all.                                          *)

Used(S) == UNION { Units(e) : e \in S }
Disjoint(S) == \A e, f \in S : e # f => Units(e) \cap Units(f) = {}

Grants(S, t, m, n) ==
  /\ t \in Seq(Segment) /\ Apart(t)
  /\ S \subseteq Segment /\ S # {} /\ Disjoint(S)
  /\ Used(S) \subseteq Free(m)
  /\ Free(t) = Free(m) \ Used(S)
  /\ IsFiniteSet(Used(S)) /\ Cardinality(Used(S)) = n

LEMMA SegCount ==
  ASSUME NEW a \in Nat \ {0}, NEW n \in Nat
  PROVE  IsFiniteSet(Units(Seg(a, n))) /\ Cardinality(Units(Seg(a, n))) = n
<1>1. Units(Seg(a, n)) = a..(a + n - 1)
  BY SegUnits
<1>2. a \in Int /\ a + n - 1 \in Int
  OBVIOUS
<1>3. IsFiniteSet(a..(a + n - 1))
      /\ Cardinality(a..(a + n - 1)) = IF a > a + n - 1 THEN 0 ELSE (a + n - 1) - a + 1
  BY <1>2, FS_Interval
<1>4. Cardinality(a..(a + n - 1)) = n
  BY <1>3
<1> QED
  BY <1>1, <1>3, <1>4

LEMMA GrantMalloc ==
  ASSUME NEW m \in Seq(Segment), Apart(m), NEW n \in Nat \ {0}, Fits(m, n) # {},
         NEW i, i = FirstFit(m, n)
  PROVE  Grants({Seg(m[i].addr, n)}, Cut(m, i, n), m, n)
<1> DEFINE a == m[i].addr
           S == {Seg(a, n)}
<1>0. m \in Seq(Loose)
  BY SeqLoose
<1>1. i \in 1..Len(m) /\ m[i].size >= n
  BY <1>0, FirstFitIs
<1>2. a \in Nat \ {0} /\ m[i].size \in Nat
  BY <1>0, <1>1, HasNat
<1>3. n <= m[i].size
  BY <1>1, <1>2
<1>4. /\ Cut(m, i, n) \in Seq(Segment) /\ Apart(Cut(m, i, n))
      /\ Units(Seg(a, n)) \subseteq Free(m)
      /\ Free(Cut(m, i, n)) = Free(m) \ Units(Seg(a, n))
  BY <1>1, <1>3, CutMap
<1> HIDE DEF a
<1>5. Used(S) = Units(Seg(a, n)) /\ Disjoint(S)
  BY DEF Used, Disjoint
<1>6. S \subseteq Segment
  BY <1>2, SegIs
<1>7. IsFiniteSet(Units(Seg(a, n))) /\ Cardinality(Units(Seg(a, n))) = n
  BY <1>2, SegCount
<1>8. Grants(S, Cut(m, i, n), m, n)
  BY <1>4, <1>5, <1>6, <1>7 DEF Grants
<1> QED
  BY <1>8 DEF a

LEMMA DisjointSum ==
  ASSUME NEW S, NEW T, IsFiniteSet(S), IsFiniteSet(T), S \cap T = {}
  PROVE  /\ IsFiniteSet(S \cup T)
         /\ Cardinality(S \cup T) = Cardinality(S) + Cardinality(T)
<1>1. Cardinality(S) \in Nat /\ Cardinality(T) \in Nat
  BY FS_CardinalityType
<1>2. /\ IsFiniteSet(S \cup T)
      /\ Cardinality(S \cup T) = Cardinality(S) + Cardinality(T) - Cardinality(S \cap T)
  BY FS_Union
<1>3. Cardinality(S \cap T) = 0
  BY FS_EmptySet
<1> QED
  BY <1>1, <1>2, <1>3

(* resolve, as the requests taken in turn.                                 *)
LEMMA ResolveIs ==
  ASSUME NEW m \in Seq(Loose), NEW s \in Nat \X Nat \X Nat, Apart(m), NEW r, r = Scan3(m, s),
         NEW t1, NEW t2, NEW t3, Scanned(m, s, r, t1, t2, t3)
  PROVE  /\ t1 \in Seq(Wide) /\ t2 \in Seq(Wide) /\ t3 \in Seq(Wide)
         /\ Len(t1) = Len(m) /\ Len(t2) = Len(m) /\ Len(t3) = Len(m)
         /\ Resolve3(r, s).map = Squeeze(Squeeze(Squeeze(t3)))
         /\ Resolve3(r, s).segs =
              { e \in {Seg(m[r.madd[1]].addr, s[1]), Seg(t1[r.madd[2]].addr, s[2]),
                       Seg(t2[r.madd[3]].addr, s[3])} : e.size # 0 }
<1> DEFINE i1 == r.madd[1]  i2 == r.madd[2]  i3 == r.madd[3]
           a1 == r.map[i1].addr   m1 == Advance(r.map, i1, s[1])
           a2 == m1[i2].addr      m2 == Advance(m1, i2, s[2])
           a3 == m2[i3].addr      m3 == Advance(m2, i3, s[3])
<1>0. s[1] \in Nat /\ s[2] \in Nat /\ s[3] \in Nat /\ m \in Seq(Wide)
  BY SeqWide
<1>1. /\ r.map \in Seq(Wide) /\ Len(r.map) = Len(m)
      /\ \A j \in 1..Len(m) : r.map[j].addr = m[j].addr
      /\ Sizes3At(r.map, m, r, s)
  BY ScanIs
<1>2. /\ i1 \in 1..Len(m) /\ i2 \in 1..Len(m) /\ i3 \in 1..Len(m)
      /\ t1 = Take(m, i1, s[1]) /\ t2 = Take(t1, i2, s[2]) /\ t3 = Take(t2, i3, s[3])
  BY DEF Scanned
<1>3. /\ Resolve3(r, s).map = Squeeze(Squeeze(Squeeze(m3)))
      /\ Resolve3(r, s).segs = { e \in {Seg(a1, s[1]), Seg(a2, s[2]), Seg(a3, s[3])} : e.size # 0 }
  BY DEF Resolve3
<1>s. \A j \in 1..Len(m) :
        r.map[j].size = m[j].size - Part(i1, j, s[1]) - Part(i2, j, s[2]) - Part(i3, j, s[3])
  BY <1>1 DEF Sizes3At
<1> HIDE DEF i1, i2, i3, a1, a2, a3, m1, m2, m3
(* The maps of resolve.                                                    *)
<1>4. /\ m1 \in Seq(Wide) /\ Len(m1) = Len(m)
      /\ \A j \in 1..Len(m) : /\ m1[j].addr = m[j].addr + Part(i1, j, s[1])
                              /\ m1[j].size = r.map[j].size
  <2>1. i1 \in 1..Len(r.map)
    BY <1>1, <1>2
  <2>2. /\ m1 \in Seq(Wide) /\ Len(m1) = Len(r.map)
        /\ \A j \in 1..Len(r.map) : /\ m1[j].addr = r.map[j].addr + Part(i1, j, s[1])
                                    /\ m1[j].size = r.map[j].size
    <3>1. r.map \in Seq(Wide) /\ s[1] \in Nat /\ m1 = Advance(r.map, i1, s[1])
      BY <1>0, <1>1, Zenon DEF m1
    <3> HIDE DEF m1
    <3>2. /\ Advance(r.map, i1, s[1]) \in Seq(Wide)
          /\ Len(Advance(r.map, i1, s[1])) = Len(r.map)
          /\ \A j \in 1..Len(r.map) :
               /\ Advance(r.map, i1, s[1])[j].addr = r.map[j].addr + Part(i1, j, s[1])
               /\ Advance(r.map, i1, s[1])[j].size = r.map[j].size
      BY <2>1, <3>1, AdvanceIs, Zenon
    <3> QED
      BY <3>1, <3>2, Zenon
  <2> QED
    BY <1>1, <2>2
<1>5. /\ m2 \in Seq(Wide) /\ Len(m2) = Len(m)
      /\ \A j \in 1..Len(m) : /\ m2[j].addr = m1[j].addr + Part(i2, j, s[2])
                              /\ m2[j].size = r.map[j].size
  <2>1. i2 \in 1..Len(m1)
    BY <1>4, <1>2
  <2>2. /\ m2 \in Seq(Wide) /\ Len(m2) = Len(m1)
        /\ \A j \in 1..Len(m1) : /\ m2[j].addr = m1[j].addr + Part(i2, j, s[2])
                                 /\ m2[j].size = m1[j].size
    BY <1>0, <1>4, <2>1, AdvanceIs DEF m2
  <2> QED
    BY <1>4, <2>2
<1>6. /\ m3 \in Seq(Wide) /\ Len(m3) = Len(m)
      /\ \A j \in 1..Len(m) : /\ m3[j].addr = m2[j].addr + Part(i3, j, s[3])
                              /\ m3[j].size = r.map[j].size
  <2>1. i3 \in 1..Len(m2)
    BY <1>5, <1>2
  <2>2. /\ m3 \in Seq(Wide) /\ Len(m3) = Len(m2)
        /\ \A j \in 1..Len(m2) : /\ m3[j].addr = m2[j].addr + Part(i3, j, s[3])
                                 /\ m3[j].size = m2[j].size
    BY <1>0, <1>5, <2>1, AdvanceIs DEF m3
  <2> QED
    BY <1>5, <2>2
(* The maps of the requests taken in turn.                                 *)
<1>7. /\ t1 \in Seq(Wide) /\ Len(t1) = Len(m)
      /\ \A j \in 1..Len(m) : /\ t1[j].addr = m[j].addr + Part(i1, j, s[1])
                              /\ t1[j].size = m[j].size - Part(i1, j, s[1])
  BY <1>0, <1>2, TakeIs
<1>8. /\ t2 \in Seq(Wide) /\ Len(t2) = Len(m)
      /\ \A j \in 1..Len(m) : /\ t2[j].addr = t1[j].addr + Part(i2, j, s[2])
                              /\ t2[j].size = t1[j].size - Part(i2, j, s[2])
  <2>1. i2 \in 1..Len(t1)
    BY <1>2, <1>7
  <2>2. /\ t2 \in Seq(Wide) /\ Len(t2) = Len(t1)
        /\ \A j \in 1..Len(t1) : /\ t2[j].addr = t1[j].addr + Part(i2, j, s[2])
                                 /\ t2[j].size = t1[j].size - Part(i2, j, s[2])
    BY <1>0, <1>2, <1>7, <2>1, TakeIs
  <2> QED
    BY <1>7, <2>2
<1>9. /\ t3 \in Seq(Wide) /\ Len(t3) = Len(m)
      /\ \A j \in 1..Len(m) : /\ t3[j].addr = t2[j].addr + Part(i3, j, s[3])
                              /\ t3[j].size = t2[j].size - Part(i3, j, s[3])
  <2>1. i3 \in 1..Len(t2)
    BY <1>2, <1>8
  <2>2. /\ t3 \in Seq(Wide) /\ Len(t3) = Len(t2)
        /\ \A j \in 1..Len(t2) : /\ t3[j].addr = t2[j].addr + Part(i3, j, s[3])
                                 /\ t3[j].size = t2[j].size - Part(i3, j, s[3])
    BY <1>0, <1>2, <1>8, <2>1, TakeIs
  <2> QED
    BY <1>8, <2>2
<1>a. \A j \in 1..Len(m) : m1[j].addr = t1[j].addr
  BY <1>4, <1>7
<1>b. \A j \in 1..Len(m) : m2[j].addr = t2[j].addr
  BY <1>a, <1>5, <1>8
<1>11. \A j \in 1..Len(m) : t3[j].addr = m3[j].addr
  BY <1>b, <1>6, <1>9
<1>10. a1 = m[i1].addr /\ a2 = t1[i2].addr /\ a3 = t2[i3].addr
  BY <1>1, <1>2, <1>a, <1>b DEF a1, a2, a3
<1>12. ASSUME NEW j \in 1..Len(m)
       PROVE  t3[j].size = m3[j].size
  <2>1. t3[j].size = m[j].size - Part(i1, j, s[1]) - Part(i2, j, s[2]) - Part(i3, j, s[3])
    BY <1>7, <1>8, <1>9
  <2> QED
    BY <1>s, <1>6, <2>1
<1>13. t3 = m3
  BY <1>6, <1>9, <1>11, <1>12, SameMap
<1> QED
  BY <1>3, <1>7, <1>8, <1>9, <1>10, <1>13 DEF i1, i2, i3

(* A malloc3 that succeeds.                                                *)
LEMMA GrantMalloc3 ==
  ASSUME NEW m \in Seq(Segment), Apart(m), NEW s \in Nat \X Nat \X (Nat \ {0}),
         NEW r, r = Scan3(m, s), Found3(r)
  PROVE  Grants(Resolve3(r, s).segs, Resolve3(r, s).map, m, s[1] + s[2] + s[3])
<1> DEFINE i1 == r.madd[1]  i2 == r.madd[2]  i3 == r.madd[3]
           t == Resolve3(r, s).map
           S == Resolve3(r, s).segs
<1>0. /\ m \in Seq(Loose) /\ s \in Nat \X Nat \X Nat
      /\ s[1] \in Nat /\ s[2] \in Nat /\ s[3] \in Nat \ {0}
  BY SeqLoose
<1>1. PICK t1, t2, t3 : Scanned(m, s, r, t1, t2, t3)
  BY <1>0, ScanIs
<1> DEFINE a1 == m[i1].addr    e1 == Seg(a1, s[1])   U1 == Units(e1)
           a2 == t1[i2].addr   e2 == Seg(a2, s[2])   U2 == Units(e2)
           a3 == t2[i3].addr   e3 == Seg(a3, s[3])   U3 == Units(e3)
<1>2. /\ i1 \in 1..Len(m) /\ s[1] <= m[i1].size /\ t1 = Take(m, i1, s[1])
      /\ i2 \in 1..Len(m) /\ s[2] <= t1[i2].size /\ t2 = Take(t1, i2, s[2])
      /\ i3 \in 1..Len(m) /\ s[3] <= t2[i3].size /\ t3 = Take(t2, i3, s[3])
  BY <1>1 DEF Scanned
<1>3. t = Squeeze(Squeeze(Squeeze(t3))) /\ S = { e \in {e1, e2, e3} : e.size # 0 }
  BY <1>0, <1>1, ResolveIs, SMTT(30)
<1> HIDE DEF i1, i2, i3, t, S
<1>4. /\ t1 \in Seq(Loose) /\ Len(t1) = Len(m) /\ Apart(t1)
      /\ \A j \in 1..Len(m) : j # i1 => t1[j] = m[j]
      /\ U1 \subseteq Free(m) /\ Free(t1) = Free(m) \ U1
  BY <1>0, <1>2, Taken, SMTT(30)
<1>5. /\ t2 \in Seq(Loose) /\ Len(t2) = Len(m) /\ Apart(t2)
      /\ \A j \in 1..Len(m) : j # i2 => t2[j] = t1[j]
      /\ U2 \subseteq Free(t1) /\ Free(t2) = Free(t1) \ U2
  <2>1. i2 \in 1..Len(t1)
    BY <1>2, <1>4
  <2> HIDE DEF U1
  <2> QED
    BY <1>0, <1>2, <1>4, <2>1, Taken, SMTT(30)
<1>6. /\ t3 \in Seq(Loose) /\ Len(t3) = Len(m) /\ Apart(t3)
      /\ \A j \in 1..Len(m) : j # i3 => t3[j] = t2[j]
      /\ U3 \subseteq Free(t2) /\ Free(t3) = Free(t2) \ U3
  <2>1. i3 \in 1..Len(t2) /\ s[3] \in Nat
    BY <1>0, <1>2, <1>5
  <2> HIDE DEF U1, U2
  <2> QED
    BY <1>2, <1>5, <2>1, Taken
<1>7. a1 \in Nat \ {0} /\ a2 \in Nat \ {0} /\ a3 \in Nat \ {0}
  <2>1. i2 \in 1..Len(t1) /\ i3 \in 1..Len(t2)
    BY <1>2, <1>4, <1>5
  <2> HIDE DEF U1, U2, U3
  <2>2. m[i1].addr \in Nat \ {0}
    BY <1>0, <1>2, EntryNat
  <2>3. t1[i2].addr \in Nat \ {0}
    BY <1>4, <2>1, EntryNat
  <2>4. t2[i3].addr \in Nat \ {0}
    BY <1>5, <2>1, EntryNat
  <2> QED
    BY <2>2, <2>3, <2>4
<1> HIDE DEF a1, a2, a3
<1>8. /\ IsFiniteSet(U1) /\ Cardinality(U1) = s[1]
      /\ IsFiniteSet(U2) /\ Cardinality(U2) = s[2]
      /\ IsFiniteSet(U3) /\ Cardinality(U3) = s[3]
  BY <1>0, <1>7, SegCount
<1>9. /\ e1.size = s[1] /\ e2.size = s[2] /\ e3.size = s[3]
      /\ e1.size = 0 => U1 = {}
      /\ e2.size = 0 => U2 = {}
      /\ e1 \in Loose /\ e2 \in Loose /\ e3 \in Loose
  <2>1. e1.size = s[1] /\ e2.size = s[2] /\ e3.size = s[3]
    BY DEF Seg
  <2>2. e1 \in Loose /\ e2 \in Loose /\ e3 \in Loose
    BY <1>0, <1>7 DEF Seg, Loose
  <2>3. Cardinality(U1) = 0 => U1 = {}
    BY <1>8, FS_EmptySet
  <2>4. Cardinality(U2) = 0 => U2 = {}
    BY <1>8, FS_EmptySet
  <2> HIDE DEF e1, e2, e3, U1, U2
  <2> QED
    BY <1>8, <2>1, <2>2, <2>3, <2>4
<1>10. e3 \in S
  <2> HIDE DEF e1, e2, e3
  <2> QED BY <1>0, <1>3, <1>9
<1>11. \A e \in Loose : e.size # 0 => e \in Segment
  BY DEF Loose, Segment
<1>12. S \subseteq Segment
  <2> HIDE DEF e1, e2, e3
  <2> QED BY <1>3, <1>9, <1>11
<1>u. U1 = Units(e1) /\ U2 = Units(e2) /\ U3 = Units(e3)
  OBVIOUS
<1> HIDE DEF e1, e2, e3, U1, U2, U3
<1>13. U1 \cap U2 = {} /\ U1 \cap U3 = {} /\ U2 \cap U3 = {}
  BY <1>4, <1>5, <1>6
<1>14. Disjoint(S)
  BY <1>3, <1>13, <1>u DEF Disjoint
<1>15. Used(S) = U1 \cup U2 \cup U3
  <2>1. Used(S) \subseteq U1 \cup U2 \cup U3
    BY <1>3, <1>u DEF Used
  <2>2. U1 \subseteq Used(S)
    <3>1. CASE e1.size = 0
      BY <1>9, <3>1
    <3>2. CASE e1.size # 0
      <4>1. e1 \in S
        BY <1>3, <3>2
      <4> QED
        BY <4>1, <1>u DEF Used
    <3> QED
      BY <3>1, <3>2
  <2>3. U2 \subseteq Used(S)
    <3>1. CASE e2.size = 0
      BY <1>9, <3>1
    <3>2. CASE e2.size # 0
      <4>1. e2 \in S
        BY <1>3, <3>2
      <4> QED
        BY <4>1, <1>u DEF Used
    <3> QED
      BY <3>1, <3>2
  <2>4. U3 \subseteq Used(S)
    BY <1>10, <1>u DEF Used
  <2> QED
    BY <2>1, <2>2, <2>3, <2>4
<1>16. IsFiniteSet(Used(S)) /\ Cardinality(Used(S)) = s[1] + s[2] + s[3]
  <2>1. IsFiniteSet(U1 \cup U2) /\ Cardinality(U1 \cup U2) = Cardinality(U1) + Cardinality(U2)
    BY <1>8, <1>13, DisjointSum
  <2>2. (U1 \cup U2) \cap U3 = {}
    BY <1>13
  <2>3. /\ IsFiniteSet((U1 \cup U2) \cup U3)
        /\ Cardinality((U1 \cup U2) \cup U3) = Cardinality(U1 \cup U2) + Cardinality(U3)
    BY <1>8, <2>1, <2>2, DisjointSum
  <2> QED
    BY <1>8, <1>15, <2>1, <2>3
<1>17. Used(S) \subseteq Free(m) /\ Free(t3) = Free(m) \ Used(S)
  BY <1>4, <1>5, <1>6, <1>15
<1>18. Empty(t3) \subseteq {i1, i2, i3}
  <2> SUFFICES ASSUME NEW j \in Empty(t3), j # i1, j # i2, j # i3
               PROVE  FALSE
    OBVIOUS
  <2>1. j \in 1..Len(m) /\ t3[j].size = 0
    BY <1>6 DEF Empty
  <2>2. t3[j] = m[j]
    BY <1>4, <1>5, <1>6, <2>1
  <2>3. m[j] \in Segment
    BY <2>1
  <2> QED
    BY <2>1, <2>2, <2>3 DEF Segment
<1>19. t \in Seq(Segment) /\ Apart(t) /\ Free(t) = Free(t3)
  BY <1>3, <1>6, <1>18, SqueezedThrice
<1>20. Grants(S, t, m, s[1] + s[2] + s[3])
  BY <1>10, <1>12, <1>14, <1>16, <1>17, <1>19 DEF Grants
<1> QED
  BY <1>20 DEF S, t

-----------------------------------------------------------------------------
(* A run of n free units lies within one entry, so malloc finds room for   *)
(* it: this is what joining what abuts is for.                             *)
HasRun(m, n) == \E a \in Nat : a..(a + n - 1) \subseteq Free(m)

LEMMA RunFits ==
  ASSUME NEW m \in Seq(Loose), Apart(m), NEW n \in Nat \ {0}, HasRun(m, n)
  PROVE  Fits(m, n) # {}
<1>1. PICK a \in Nat : a..(a + n - 1) \subseteq Free(m)
  BY DEF HasRun
<1>2. a \in Free(m)
  BY <1>1
<1>3. PICK i \in 1..Len(m) : Has(m, i, a)
  BY <1>2 DEF Free
<1> DEFINE z == m[i].addr + m[i].size
<1>4. m[i].addr \in Nat /\ m[i].size \in Nat /\ z \in Nat
  BY HasNat
<1>5. m[i].addr <= a /\ a < z
  BY <1>3 DEF Has
<1>6. ASSUME m[i].size < n
      PROVE  FALSE
  <2>1. z \in a..(a + n - 1)
    BY <1>4, <1>5, <1>6
  <2>2. PICK j \in 1..Len(m) : Has(m, j, z)
    BY <1>1, <2>1 DEF Free
  <2>3. m[j].addr \in Nat /\ m[j].size \in Nat
    BY HasNat
  <2>4. m[j].addr <= z /\ z < m[j].addr + m[j].size
    BY <2>2 DEF Has
  <2>5. ~ (i < j)
    BY <1>4, <2>3, <2>4 DEF Apart
  <2>6. ~ (j < i)
    <3>1. j < i => m[j].addr + m[j].size < m[i].addr
      BY DEF Apart
    <3> QED
      BY <1>4, <2>3, <2>4, <3>1
  <2>7. i = j
    BY <2>5, <2>6
  <2> QED
    BY <1>4, <2>4, <2>7
<1>7. m[i].size >= n
  BY <1>4, <1>6
<1>8. i \in Fits(m, n)
  BY <1>7 DEF Fits
<1> QED
  BY <1>8

-----------------------------------------------------------------------------
(* The inductive invariant.                                                *)

Owned == held \cup cached

(* The map is in order and no two entries abut.                            *)
MapSorted == map \in Seq(Segment) /\ Apart(map)

(* Two segments have no unit in common.                                    *)
SegsApart ==
  /\ held \subseteq Segment /\ cached \subseteq Segment
  /\ held \cap cached = {}
  /\ Disjoint(Owned)

(* Every unit is free, owned or lost, and no unit is two of these.         *)
Partition ==
  /\ Free(map) \cap Used(Owned) = {}
  /\ Free(map) \cap lost = {}
  /\ Used(Owned) \cap lost = {}
  /\ Free(map) \cup Used(Owned) \cup lost = 1..Top

Meter ==
  /\ which = "coremap" => freemem = Cardinality(Free(map) \cup lost)
  /\ which # "coremap" => freemem = 0

(* What a client waits for is a request the code makes, on this map; one   *)
(* that sleeps has asked for registers that are not there.                 *)
Wish(s) == (\E n \in Sizes : s = <<n>>) \/ (Reclaims /\ s \in Sizes3)
Asks(p) ==
  /\ req[p] = Request(req[p].pc, req[p].sizes, req[p].todo)
  /\ req[p].pc \in {"idle", "reclaim", "again", "asleep"}
  /\ req[p].pc # "idle" => Wish(req[p].sizes)
  /\ req[p].pc = "reclaim" => Reclaims
  /\ req[p].pc = "asleep" => which = "ub_map" /\ ub_wantmr /\ ~ HasRun(map, req[p].sizes[1])
Asked ==
  /\ which \in Maps
  /\ ub_wantmr \in BOOLEAN
  /\ req = [p \in Clients |-> req[p]]
  /\ \A p \in Clients : Asks(p)

RInv == MapSorted /\ SegsApart /\ Partition /\ Meter /\ Asked

(* The constants.                                                          *)
LEMMA WishIs ==
  ASSUME NEW s, Wish(s)
  PROVE  \/ Len(s) = 1 /\ s[1] \in Nat \ {0} /\ s[1] \in Sizes /\ s = <<s[1]>>
         \/ Len(s) = 3 /\ s \in Nat \X Nat \X (Nat \ {0}) /\ Reclaims
<1>1. CASE \E n \in Sizes : s = <<n>>
  <2>1. PICK n \in Sizes : s = <<n>>
    BY <1>1
  <2> QED
    BY <2>1, RmapAssumption
<1>2. CASE Reclaims /\ s \in Sizes3
  <2>1. s \in Nat \X Nat \X (Nat \ {0})
    BY <1>2, RmapAssumption
  <2>2. Len(s) = 3
    BY <2>1
  <2> QED
    BY <1>2, <2>1, <2>2
<1> QED
  BY <1>1, <1>2 DEF Wish

LEMMA RInit == Init => RInv
<1> SUFFICES ASSUME Init PROVE RInv
  OBVIOUS
<1> DEFINE e == Seg(1, Top)
<1>0. Top \in Nat \ {0} /\ Maps \subseteq AllMaps
  BY RmapAssumption
<1>1. e \in Segment /\ e \in Loose /\ e.addr = 1 /\ e.size = Top
  BY <1>0, SegIs
<1>2. map = <<e>>
  BY DEF Init
<1> HIDE DEF e
<1>3. map \in Seq(Segment) /\ Len(map) = 1 /\ map[1] = e
  BY <1>1, <1>2
<1>4. MapSorted
  BY <1>3 DEF MapSorted, Apart
<1>5. Free(map) = 1..Top
  <2>1. \A u \in Nat : Has(map, 1, u) <=> u \in 1..Top
    BY <1>0, <1>1, <1>3 DEF Has
  <2>2. Free(map) = { u \in Nat : Has(map, 1, u) }
    BY <1>3 DEF Free
  <2> QED
    BY <2>1, <2>2
<1>6. held = {} /\ cached = {} /\ lost = {} /\ Owned = {}
  BY DEF Init, Owned
<1>7. SegsApart /\ Used(Owned) = {}
  BY <1>6 DEF SegsApart, Disjoint, Used
<1>8. Partition
  BY <1>5, <1>6, <1>7 DEF Partition
<1>9. Meter
  <2>1. Cardinality(1..Top) = Top
    BY <1>0, FS_Interval
  <2>2. Free(map) \cup lost = 1..Top
    BY <1>5, <1>6
  <2> QED
    BY <2>1, <2>2 DEF Meter, Init
<1>10. Asked
  <2>1. \A p \in Clients : req[p] = Idle
    BY DEF Init
  <2>2. Idle.pc = "idle" /\ Idle = Request(Idle.pc, Idle.sizes, Idle.todo)
    BY DEF Idle, Request
  <2>3. \A p \in Clients : Asks(p)
    BY <2>1, <2>2 DEF Asks
  <2> QED
    BY <2>3 DEF Asked, Init
<1> QED
  BY <1>4, <1>7, <1>8, <1>9, <1>10 DEF RInv

-----------------------------------------------------------------------------
(* Requests.  A step of client p changes its own request only.             *)

LEMMA RunShrinks ==
  ASSUME NEW m, NEW t, Free(t) \subseteq Free(m), NEW n, ~ HasRun(m, n)
  PROVE  ~ HasRun(t, n)
BY DEF HasRun

LEMMA AskedStep ==
  ASSUME Asked, NEW p \in Clients, NEW r, Becomes(p, r), which' = which,
         Free(map') \subseteq Free(map),
         ub_wantmr' \in BOOLEAN, ub_wantmr => ub_wantmr',
         r = Request(r.pc, r.sizes, r.todo),
         r.pc \in {"idle", "reclaim", "again", "asleep"},
         r.pc # "idle" => Wish(r.sizes),
         r.pc = "reclaim" => Reclaims,
         r.pc = "asleep" => which = "ub_map" /\ ub_wantmr' /\ ~ HasRun(map', r.sizes[1])
  PROVE  Asked'
<1>1. req' = [req EXCEPT ![p] = r]
  BY DEF Becomes
<1>2. req = [q \in Clients |-> req[q]]
  BY DEF Asked
<1>3. /\ req' = [q \in Clients |-> req'[q]]
      /\ req'[p] = r
      /\ \A q \in Clients : q # p => req'[q] = req[q]
  BY <1>1, <1>2
<1>4. \A s : Wish(s)' <=> Wish(s)
  BY DEF Wish, Reclaims
<1>5. Reclaims' <=> Reclaims
  BY DEF Reclaims
<1>6. Asks(p)'
  BY <1>3, <1>4, <1>5 DEF Asks
<1>7. ASSUME NEW q \in Clients, q # p
      PROVE  Asks(q)'
  <2>1. req'[q] = req[q]
    BY <1>3, <1>7
  <2>2. Asks(q)
    BY DEF Asked
  <2>3. ~ HasRun(map, req[q].sizes[1]) => ~ HasRun(map', req[q].sizes[1])
    BY RunShrinks
  <2> QED
    BY <1>4, <1>5, <2>1, <2>2, <2>3 DEF Asks
<1> QED
  BY <1>3, <1>6, <1>7 DEF Asked

-----------------------------------------------------------------------------
(* Segments granted.                                                       *)

LEMMA FreeFinite ==
  ASSUME Partition
  PROVE  /\ IsFiniteSet(Free(map)) /\ IsFiniteSet(lost) /\ IsFiniteSet(Free(map) \cup lost)
         /\ Cardinality(Free(map) \cup lost) = Cardinality(Free(map)) + Cardinality(lost)
         /\ Cardinality(Free(map) \cup lost) \in 0..Top
<1>0. Top \in Nat
  BY RmapAssumption
<1>1. IsFiniteSet(1..Top) /\ Cardinality(1..Top) = Top
  BY <1>0, FS_Interval
<1>2. Free(map) \in SUBSET (1..Top) /\ lost \in SUBSET (1..Top) /\ Free(map) \cup lost \in SUBSET (1..Top)
  BY DEF Partition
<1>3. /\ IsFiniteSet(Free(map)) /\ IsFiniteSet(lost) /\ IsFiniteSet(Free(map) \cup lost)
      /\ Cardinality(Free(map) \cup lost) <= Cardinality(1..Top)
  BY <1>1, <1>2, FS_Subset
<1>4. Cardinality(Free(map) \cup lost) = Cardinality(Free(map)) + Cardinality(lost)
  BY <1>3, DisjointSum DEF Partition
<1>5. Cardinality(Free(map) \cup lost) \in Nat
  BY <1>3, FS_CardinalityType
<1> QED
  BY <1>0, <1>1, <1>3, <1>4, <1>5

LEMMA UsedUnion ==
  ASSUME NEW S, NEW T
  PROVE  Used(S \cup T) = Used(S) \cup Used(T)
BY DEF Used

LEMMA UsedHas ==
  ASSUME NEW S, NEW e \in S
  PROVE  Units(e) \subseteq Used(S)
BY DEF Used

LEMMA UnitsSome ==
  ASSUME NEW e \in Segment
  PROVE  e.addr \in Units(e) /\ Units(e) # {}
<1>1. e.addr \in Nat \ {0} /\ e.size \in Nat \ {0}
  BY DEF Segment
<1>2. e.addr \in Units(e)
  BY <1>1 DEF Units, End
<1> QED
  BY <1>2

LEMMA GrantedStep ==
  ASSUME RInv, NEW p \in Clients, NEW S, NEW m, NEW n \in Nat,
         Grants(S, m, map, n), Granted(p, S, m, n), UNCHANGED <<which, cached, lost>>
  PROVE  RInv' /\ held' # held
<1> USE DEF RInv
<1>1. /\ map' = m /\ held' = held \cup S /\ which' = which /\ cached' = cached /\ lost' = lost
      /\ freemem' = (IF which = "coremap" THEN freemem - n ELSE freemem)
      /\ Becomes(p, Idle) /\ ub_wantmr' = ub_wantmr
  BY DEF Granted
<1>2. /\ m \in Seq(Segment) /\ Apart(m)
      /\ S \subseteq Segment /\ S # {} /\ Disjoint(S)
      /\ Used(S) \subseteq Free(map)
      /\ Free(m) = Free(map) \ Used(S)
      /\ IsFiniteSet(Used(S)) /\ Cardinality(Used(S)) = n
  BY DEF Grants
<1>3. MapSorted'
  BY <1>1, <1>2 DEF MapSorted
<1>4. Owned' = Owned \cup S
  BY <1>1 DEF Owned
<1>5. ASSUME NEW e \in S, NEW f \in Owned
      PROVE  Units(e) \cap Units(f) = {} /\ e # f
  <2>1. Units(e) \subseteq Free(map) /\ Units(f) \subseteq Used(Owned)
    BY <1>2, UsedHas
  <2>2. Units(e) \cap Units(f) = {}
    BY <2>1 DEF Partition
  <2>3. Units(e) # {}
    BY <1>2, UnitsSome
  <2> QED
    BY <2>2, <2>3
<1>6. held' # held
  BY <1>1, <1>2, <1>5 DEF Owned
<1>7. SegsApart'
  <2>1. held' \subseteq Segment /\ cached' \subseteq Segment
    BY <1>1, <1>2 DEF SegsApart
  <2>2. held' \cap cached' = {}
    BY <1>1, <1>5 DEF SegsApart, Owned
  <2>3. Disjoint(Owned \cup S)
    BY <1>2, <1>5 DEF SegsApart, Disjoint
  <2>4. Disjoint(Owned)' <=> Disjoint(Owned')
    BY DEF Disjoint
  <2> QED
    BY <1>4, <2>1, <2>2, <2>3, <2>4 DEF SegsApart
<1>8. Used(Owned') = Used(Owned) \cup Used(S)
  BY <1>4, UsedUnion
<1>9. Free(map') = Free(map) \ Used(S)
  BY <1>1, <1>2
<1>10. Partition'
  <2>1. Used(Owned)' = Used(Owned') /\ Free(map)' = Free(map')
    BY DEF Used, Free, Has
  <2> QED
    BY <1>1, <1>2, <1>8, <1>9, <2>1 DEF Partition
<1>11. Meter'
  <2>1. CASE which = "coremap"
    <3>1. freemem = Cardinality(Free(map) \cup lost) /\ freemem' = freemem - n
      BY <1>1, <2>1 DEF Meter
    <3> DEFINE F == Free(map') \cup lost
    <3>2. F \cap Used(S) = {} /\ F \cup Used(S) = Free(map) \cup lost
      BY <1>2, <1>9 DEF Partition
    <3>3. F \in SUBSET (Free(map) \cup lost) /\ IsFiniteSet(Free(map) \cup lost)
      BY <1>9, FreeFinite
    <3> HIDE DEF F
    <3>4. IsFiniteSet(F)
      BY <3>3, FS_Subset
    <3>5. Cardinality(Free(map) \cup lost) = Cardinality(F) + n
      BY <1>2, <3>2, <3>4, DisjointSum
    <3>6. Cardinality(F) \in Nat
      BY <3>4, FS_CardinalityType
    <3>7. freemem' = Cardinality(F)
      BY <3>1, <3>5, <3>6
    <3> QED
      BY <1>1, <2>1, <3>7 DEF Meter, F
  <2>2. CASE which # "coremap"
    BY <1>1, <2>2 DEF Meter
  <2> QED
    BY <2>1, <2>2
<1>12. Asked'
  <2>1. Idle.pc = "idle" /\ Idle = Request(Idle.pc, Idle.sizes, Idle.todo)
    BY DEF Idle, Request
  <2>2. Free(map') \subseteq Free(map)
    BY <1>9
  <2>3. ub_wantmr \in BOOLEAN
    BY DEF Asked
  <2> QED
    BY <1>1, <2>1, <2>2, <2>3, AskedStep
<1> QED
  BY <1>3, <1>6, <1>7, <1>10, <1>11, <1>12

-----------------------------------------------------------------------------
(* No room.                                                                *)

(* Everything but the requests is as it was.                               *)
LEMMA SameSpace ==
  ASSUME MapSorted, SegsApart, Partition, Meter,
         UNCHANGED <<which, map, freemem, held, cached, lost>>
  PROVE  MapSorted' /\ SegsApart' /\ Partition' /\ Meter'
BY DEF MapSorted, SegsApart, Partition, Meter, Owned

LEMMA NoRoomStep ==
  ASSUME RInv, NEW p \in Clients, NEW s, NEW retry \in BOOLEAN, Wish(s), NoRoom(p, s, retry),
         ~ Reclaims => ~ HasRun(map, s[1]),
         UNCHANGED <<which, map, cached, lost>>
  PROVE  RInv'
<1> USE DEF RInv
<1>1. MapSorted' /\ SegsApart' /\ Partition' /\ Meter'
  BY SameSpace DEF NoRoom
<1>2. Free(map') \subseteq Free(map) /\ ub_wantmr \in BOOLEAN /\ which' = which
  BY DEF Asked
<1>3. which \in AllMaps
  BY RmapAssumption DEF Asked
<1>4. Asked'
  <2>1. CASE Reclaims /\ ~ retry
    <3> DEFINE t == IF which = "swapmap" THEN <<Top + 1>> ELSE Reverse(s)
               r == Request("reclaim", s, t)
    <3>1. Becomes(p, r) /\ ub_wantmr' = ub_wantmr
      BY <2>1 DEF NoRoom
    <3> HIDE DEF t
    <3>2. r.pc = "reclaim" /\ r.sizes = s /\ r = Request(r.pc, r.sizes, r.todo)
      BY DEF Request
    <3> QED
      BY <1>2, <2>1, <3>1, <3>2, AskedStep
  <2>2. CASE Reclaims /\ retry
    <3>1. Becomes(p, Idle) /\ ub_wantmr' = ub_wantmr
      BY <2>2 DEF NoRoom
    <3>2. Idle.pc = "idle" /\ Idle = Request(Idle.pc, Idle.sizes, Idle.todo)
      BY DEF Idle, Request
    <3> QED
      BY <1>2, <3>1, <3>2, AskedStep
  <2>3. CASE ~ Reclaims
    <3> DEFINE r == Request("asleep", s, <<>>)
    <3>1. Becomes(p, r) /\ ub_wantmr' = TRUE
      BY <2>3 DEF NoRoom
    <3>2. r.pc = "asleep" /\ r.sizes = s /\ r = Request(r.pc, r.sizes, r.todo)
      BY DEF Request
    <3>3. which = "ub_map"
      BY <1>3, <2>3 DEF AllMaps, Reclaims
    <3>4. ~ HasRun(map', s[1])
      BY <2>3
    <3> HIDE DEF r
    <3> QED
      BY <1>2, <3>1, <3>2, <3>3, <3>4, AskedStep
  <2> QED
    BY <2>1, <2>2, <2>3
<1> QED
  BY <1>1, <1>4

-----------------------------------------------------------------------------
(* Segments given back.                                                    *)

LEMMA UsedMinus ==
  ASSUME NEW S, S \subseteq Segment, Disjoint(S), NEW e \in S
  PROVE  Used(S \ {e}) = Used(S) \ Units(e) /\ Disjoint(S \ {e})
BY DEF Used, Disjoint

(* e gives up the part f and keeps the part x.                             *)
LEMMA UsedShrunk ==
  ASSUME NEW S, S \subseteq Segment, Disjoint(S), NEW e \in S, NEW x \in Segment, NEW f \in Segment,
         Units(e) = Units(x) \cup Units(f), Units(x) \cap Units(f) = {}
  PROVE  /\ Used((S \ {e}) \cup {x}) = Used(S) \ Units(f)
         /\ Disjoint((S \ {e}) \cup {x})
         /\ x \notin S \ {e}
<1>1. Used(S \ {e}) = Used(S) \ Units(e) /\ Disjoint(S \ {e}) /\ Units(e) \subseteq Used(S)
  BY UsedMinus, UsedHas
<1>2. \A g \in S \ {e} : Units(g) \cap Units(e) = {}
  BY DEF Disjoint
<1>3. Used({x}) = Units(x)
  BY DEF Used
<1>4. Used((S \ {e}) \cup {x}) = (Used(S) \ Units(e)) \cup Units(x)
  BY <1>1, <1>3, UsedUnion
<1>5. \A g \in S \ {e} : Units(g) \cap Units(x) = {}
  BY <1>2
<1>6. Disjoint((S \ {e}) \cup {x})
  BY <1>1, <1>5 DEF Disjoint
<1>7. Units(x) # {}
  BY UnitsSome
<1> QED
  BY <1>1, <1>4, <1>5, <1>6, <1>7

(* mfree of a segment f whose units were owned.                            *)
LEMMA MfreeSpace ==
  ASSUME MapSorted, Partition, Meter, NEW f \in Segment, Units(f) \subseteq Used(Owned), Mfree(f),
         which' = which, Used(Owned') = Used(Owned) \ Units(f)
  PROVE  MapSorted' /\ Partition' /\ Meter'
<1>1. Free(map) \cap Units(f) = {} /\ lost \cap Units(f) = {}
  BY DEF Partition
<1>2. Freed(map', map, f)
  BY <1>1, MapFreed DEF Mfree, MapSorted
<1>3. /\ map' \in Seq(Segment) /\ Apart(map')
      /\ Overflows(map, f) => Free(map') = Free(map)
      /\ ~ Overflows(map, f) => Free(map') = Free(map) \cup Units(f)
  BY <1>2 DEF Freed
<1>4. /\ Overflows(map, f) => lost' = lost \cup Units(f)
      /\ ~ Overflows(map, f) => lost' = lost
      /\ freemem' = IF which = "coremap" THEN freemem + f.size ELSE freemem
  BY DEF Mfree
<1>5. MapSorted'
  BY <1>3 DEF MapSorted
<1>6. Free(map') \cup lost' = (Free(map) \cup lost) \cup Units(f) /\ Free(map') \cap lost' = {}
  <2>1. CASE Overflows(map, f)
    BY <1>1, <1>3, <1>4, <2>1 DEF Partition
  <2>2. CASE ~ Overflows(map, f)
    BY <1>1, <1>3, <1>4, <2>2 DEF Partition
  <2> QED
    BY <2>1, <2>2
<1>7. Partition'
  <2>1. Used(Owned)' = Used(Owned') /\ Free(map)' = Free(map')
    BY DEF Used, Free, Has
  <2>2. (Free(map') \cup lost') \cap Used(Owned') = {}
    BY <1>6 DEF Partition
  <2>3. Free(map') \cup Used(Owned') \cup lost' = 1..Top
    BY <1>6 DEF Partition
  <2> QED
    BY <1>6, <2>1, <2>2, <2>3 DEF Partition
<1>8. Meter'
  <2>1. CASE which = "coremap"
    <3>1. freemem = Cardinality(Free(map) \cup lost) /\ freemem' = freemem + f.size
      BY <1>4, <2>1 DEF Meter
    <3>2. f = Seg(f.addr, f.size) /\ f.addr \in Nat \ {0} /\ f.size \in Nat
      BY DEF Seg, Segment
    <3>3. IsFiniteSet(Units(f)) /\ Cardinality(Units(f)) = f.size
      BY <3>2, SegCount
    <3>4. (Free(map) \cup lost) \cap Units(f) = {}
      BY <1>1
    <3>5. IsFiniteSet(Free(map) \cup lost)
      BY FreeFinite
    <3>6. Cardinality((Free(map) \cup lost) \cup Units(f)) = Cardinality(Free(map) \cup lost) + f.size
      BY <3>3, <3>4, <3>5, DisjointSum
    <3>7. freemem' = Cardinality(Free(map') \cup lost')
      BY <1>6, <3>1, <3>6
    <3> QED
      BY <2>1, <3>7 DEF Meter
  <2>2. CASE which # "coremap"
    BY <1>4, <2>2 DEF Meter
  <2> QED
    BY <2>1, <2>2
<1> QED
  BY <1>5, <1>7, <1>8

(* Nobody sleeps for units of a map other than ub_map.                     *)
LEMMA AskedSame ==
  ASSUME Asked, which # "ub_map", UNCHANGED <<which, req, ub_wantmr>>
  PROVE  Asked'
<1>1. \A s : Wish(s)' <=> Wish(s)
  BY DEF Wish, Reclaims
<1>2. Reclaims' <=> Reclaims
  BY DEF Reclaims
<1>3. ASSUME NEW p \in Clients
      PROVE  Asks(p)'
  <2>1. Asks(p)
    BY DEF Asked
  <2>2. req[p].pc # "asleep"
    BY <2>1 DEF Asks
  <2> QED
    BY <1>1, <1>2, <2>1, <2>2 DEF Asks
<1> QED
  BY <1>3 DEF Asked

-----------------------------------------------------------------------------
(* The steps.                                                              *)

LEMMA MallocStep ==
  ASSUME RInv, NEW p \in Clients, NEW s, NEW retry \in BOOLEAN, Wish(s), Len(s) = 1,
         Malloc(p, s, retry), UNCHANGED <<which, cached, lost>>
  PROVE  RInv' /\ (held' = held => ~ HasRun(map, s[1]))
<1>0. s[1] \in Nat \ {0}
  BY WishIs
<1>1. map \in Seq(Segment) /\ Apart(map) /\ map \in Seq(Loose)
  BY SeqLoose DEF RInv, MapSorted
<1>2. CASE Fits(map, s[1]) # {}
  <2> DEFINE i == FirstFit(map, s[1])
  <2>1. Granted(p, {Seg(map[i].addr, s[1])}, Cut(map, i, s[1]), s[1])
    BY <1>2 DEF Malloc
  <2>2. Grants({Seg(map[i].addr, s[1])}, Cut(map, i, s[1]), map, s[1])
    BY <1>0, <1>1, <1>2, GrantMalloc
  <2> HIDE DEF i
  <2> QED
    BY <1>0, <2>1, <2>2, GrantedStep
<1>3. CASE Fits(map, s[1]) = {}
  <2>1. NoRoom(p, s, retry) /\ UNCHANGED map
    BY <1>3 DEF Malloc
  <2>2. ~ HasRun(map, s[1])
    BY <1>0, <1>1, <1>3, RunFits
  <2> QED
    BY <2>1, <2>2, NoRoomStep
<1> QED
  BY <1>2, <1>3

LEMMA Malloc3Step ==
  ASSUME RInv, NEW p \in Clients, NEW s, NEW retry \in BOOLEAN, Wish(s), Len(s) # 1,
         Malloc3(p, s, retry), UNCHANGED <<which, cached, lost>>
  PROVE  RInv'
<1>0. s \in Nat \X Nat \X (Nat \ {0}) /\ s \in Nat \X Nat \X Nat /\ Reclaims
  BY WishIs
<1>1. map \in Seq(Segment) /\ Apart(map) /\ map \in Seq(Loose)
  BY SeqLoose DEF RInv, MapSorted
<1> DEFINE r == Scan3(map, s)
<1>2. CASE Found3(r)
  <2>1. Granted(p, Resolve3(r, s).segs, Resolve3(r, s).map, s[1] + s[2] + s[3])
    BY <1>2 DEF Malloc3
  <2>2. Grants(Resolve3(r, s).segs, Resolve3(r, s).map, map, s[1] + s[2] + s[3])
    BY <1>0, <1>1, <1>2, GrantMalloc3
  <2>3. s[1] + s[2] + s[3] \in Nat
    BY <1>0
  <2> HIDE DEF r
  <2> QED
    BY <2>1, <2>2, <2>3, GrantedStep
<1>3. CASE ~ Found3(r)
  <2>1. NoRoom(p, s, retry) /\ map' = Restore3(r, s)
    BY <1>3 DEF Malloc3
  <2>2. map' = map
    BY <1>0, <1>1, <2>1, Restored3
  <2> QED
    BY <1>0, <2>1, <2>2, NoRoomStep
<1> QED
  BY <1>2, <1>3

LEMMA CallMallocStep ==
  ASSUME RInv, NEW p \in Clients, CallMalloc(p)
  PROVE  RInv'
<1>1. PICK n \in Sizes : Malloc(p, <<n>>, FALSE)
  BY DEF CallMalloc
<1>2. Wish(<<n>>) /\ Len(<<n>>) = 1
  BY DEF Wish
<1> QED
  BY <1>1, <1>2, MallocStep DEF CallMalloc

LEMMA CallMalloc3Step ==
  ASSUME RInv, NEW p \in Clients, CallMalloc3(p)
  PROVE  RInv'
<1>1. PICK s \in Sizes3 : Malloc3(p, s, FALSE)
  BY DEF CallMalloc3
<1>2. Wish(s)
  BY DEF Wish, CallMalloc3
<1>3. Len(s) = 3
  <2>1. s \in Nat \X Nat \X (Nat \ {0})
    BY RmapAssumption
  <2> QED
    BY <2>1
<1>4. UNCHANGED <<which, cached, lost>> /\ FALSE \in BOOLEAN /\ Len(s) # 1
  BY <1>3 DEF CallMalloc3
<1> QED
  BY <1>1, <1>2, <1>4, Malloc3Step

LEMMA AgainStep ==
  ASSUME RInv, NEW p \in Clients, Again(p)
  PROVE  /\ RInv'
         /\ held' = held /\ Len(req[p].sizes) = 1 => ~ HasRun(map, req[p].sizes[1])
<1>1. Wish(req[p].sizes)
  BY DEF RInv, Asked, Asks, Again, At
<1>2. CASE Len(req[p].sizes) = 1
  <2>1. Malloc(p, req[p].sizes, TRUE)
    BY <1>2 DEF Again
  <2> QED
    BY <1>1, <1>2, <2>1, MallocStep DEF Again
<1>3. CASE Len(req[p].sizes) # 1
  <2>1. Malloc3(p, req[p].sizes, TRUE)
    BY <1>3 DEF Again
  <2> QED
    BY <1>1, <1>3, <2>1, Malloc3Step DEF Again
<1> QED
  BY <1>2, <1>3

LEMMA XuncoreStep ==
  ASSUME RInv, NEW p \in Clients, Xuncore(p)
  PROVE  RInv'
<1> USE DEF RInv
<1>1. PICK e \in cached :
        /\ Mfree(e)
        /\ cached' = cached \ {e}
        /\ Becomes(p, [req[p] EXCEPT !.todo = IF e.size >= Head(@) THEN Tail(@) ELSE @])
  BY DEF Xuncore
<1>2. At(p, "reclaim") /\ UNCHANGED <<which, held, ub_wantmr>>
  BY DEF Xuncore
<1>3. e \in Segment /\ e \in Owned /\ Owned' = Owned \ {e} /\ Owned \subseteq Segment
  BY <1>1, <1>2 DEF SegsApart, Owned
<1>4. Used(Owned \ {e}) = Used(Owned) \ Units(e) /\ Disjoint(Owned \ {e})
  BY <1>3, UsedMinus DEF SegsApart
<1>5. MapSorted' /\ Partition' /\ Meter'
  <2>1. Units(e) \subseteq Used(Owned)
    BY <1>3, UsedHas
  <2> QED
    BY <1>1, <1>2, <1>3, <1>4, <2>1, MfreeSpace
<1>6. SegsApart'
  <2>1. Disjoint(Owned)' <=> Disjoint(Owned')
    BY DEF Disjoint
  <2> QED
    BY <1>1, <1>2, <1>3, <1>4, <2>1 DEF SegsApart
<1>7. Asked'
  <2> DEFINE t == IF e.size >= Head(req[p].todo) THEN Tail(req[p].todo) ELSE req[p].todo
             r == [req[p] EXCEPT !.todo = t]
  <2>1. Asks(p) /\ req[p].pc = "reclaim"
    BY <1>2 DEF Asked, At
  <2>2. req[p] = Request(req[p].pc, req[p].sizes, req[p].todo) /\ Wish(req[p].sizes) /\ Reclaims
    BY <2>1 DEF Asks
  <2>3. Becomes(p, r)
    BY <1>1
  <2> HIDE DEF t
  <2>4. r.pc = req[p].pc /\ r.sizes = req[p].sizes /\ r = Request(r.pc, r.sizes, r.todo)
    BY <2>2 DEF Request
  <2> HIDE DEF r
  <2>5. which # "ub_map"
    BY <2>2 DEF Reclaims
  <2>6. req' = [req EXCEPT ![p] = r] /\ req = [q \in Clients |-> req[q]]
    BY <2>3 DEF Becomes, Asked
  <2>7. \A s : Wish(s)' <=> Wish(s)
    BY <1>2 DEF Wish, Reclaims
  <2>8. Reclaims' <=> Reclaims
    BY <1>2 DEF Reclaims
  <2>9. Asks(p)'
    BY <2>1, <2>2, <2>4, <2>6, <2>7, <2>8 DEF Asks
  <2>10. ASSUME NEW q \in Clients, q # p
         PROVE  Asks(q)'
    <3>1. req'[q] = req[q] /\ Asks(q)
      BY <2>6, <2>10 DEF Asked
    <3>2. req[q].pc # "asleep"
      BY <2>5, <3>1 DEF Asks
    <3> QED
      BY <2>7, <2>8, <3>1, <3>2 DEF Asks
  <2>11. req' = [q \in Clients |-> req'[q]]
    BY <2>6
  <2> QED
    BY <1>2, <2>9, <2>10, <2>11 DEF Asked
<1> QED
  BY <1>5, <1>6, <1>7

LEMMA XuncoreDoneStep ==
  ASSUME RInv, NEW p \in Clients, XuncoreDone(p)
  PROVE  RInv'
<1> USE DEF RInv
<1> DEFINE t == Tail(req[p].todo)
           r == [req[p] EXCEPT !.todo = t]
<1>1. /\ At(p, "reclaim") /\ Becomes(p, r)
      /\ UNCHANGED <<which, map, freemem, held, cached, lost, ub_wantmr>>
  BY DEF XuncoreDone
<1> HIDE DEF t
<1>2. MapSorted' /\ SegsApart' /\ Partition' /\ Meter'
  BY <1>1, SameSpace
<1>3. /\ req[p] = Request(req[p].pc, req[p].sizes, req[p].todo)
      /\ req[p].pc = "reclaim" /\ Wish(req[p].sizes) /\ Reclaims /\ ub_wantmr \in BOOLEAN
  BY <1>1 DEF Asked, Asks, At
<1>4. r.pc = "reclaim" /\ r.sizes = req[p].sizes /\ r = Request(r.pc, r.sizes, r.todo)
  BY <1>3 DEF Request
<1> HIDE DEF r
<1>5. Asked'
  BY <1>1, <1>3, <1>4, AskedStep
<1> QED
  BY <1>2, <1>5

LEMMA RetryStep ==
  ASSUME RInv, NEW p \in Clients, Retry(p)
  PROVE  RInv'
<1> USE DEF RInv
<1> DEFINE r == Request("again", req[p].sizes, <<>>)
<1>1. /\ At(p, "reclaim") /\ Becomes(p, r)
      /\ UNCHANGED <<which, map, freemem, held, cached, lost, ub_wantmr>>
  BY DEF Retry
<1>2. MapSorted' /\ SegsApart' /\ Partition' /\ Meter'
  BY <1>1, SameSpace
<1>3. Wish(req[p].sizes) /\ ub_wantmr \in BOOLEAN
  BY <1>1 DEF Asked, Asks, At
<1>4. r.pc = "again" /\ r.sizes = req[p].sizes /\ r = Request(r.pc, r.sizes, r.todo)
  BY DEF Request
<1> HIDE DEF r
<1>5. Asked'
  BY <1>1, <1>3, <1>4, AskedStep
<1> QED
  BY <1>2, <1>5

(* mapfree sends every sleeper to try again.                               *)
LEMMA WakeupStep ==
  ASSUME Asked, Wakeup, which' = which
  PROVE  Asked'
<1>1. req' = [p \in Clients |-> IF At(p, "asleep") /\ ub_wantmr
                                  THEN [req[p] EXCEPT !.pc = "again"] ELSE req[p]]
      /\ ub_wantmr' = FALSE
  BY DEF Wakeup
<1>2. \A s : Wish(s)' <=> Wish(s)
  BY DEF Wish, Reclaims
<1>3. Reclaims' <=> Reclaims
  BY DEF Reclaims
<1>4. ASSUME NEW p \in Clients
      PROVE  Asks(p)'
  <2>0. Asks(p)
    BY DEF Asked
  <2>1. CASE req[p].pc = "asleep"
    <3> DEFINE r == [req[p] EXCEPT !.pc = "again"]
    <3>1. ub_wantmr /\ Wish(req[p].sizes) /\ req[p] = Request(req[p].pc, req[p].sizes, req[p].todo)
      BY <2>0, <2>1 DEF Asks
    <3>2. req'[p] = r
      BY <1>1, <2>1, <3>1 DEF At
    <3>3. r.pc = "again" /\ r.sizes = req[p].sizes /\ r = Request(r.pc, r.sizes, r.todo)
      BY <3>1 DEF Request
    <3> HIDE DEF r
    <3> QED
      BY <1>2, <3>1, <3>2, <3>3 DEF Asks
  <2>2. CASE req[p].pc # "asleep"
    <3>1. req'[p] = req[p]
      BY <1>1, <2>2 DEF At
    <3> QED
      BY <1>2, <1>3, <2>0, <2>2, <3>1 DEF Asks
  <2> QED
    BY <2>1, <2>2
<1>5. req' = [p \in Clients |-> req'[p]]
  BY <1>1
<1> QED
  BY <1>1, <1>4, <1>5 DEF Asked

LEMMA CallMfreeStep ==
  ASSUME RInv, CallMfree
  PROVE  RInv'
<1> USE DEF RInv
<1>1. PICK e \in held : Mfree(e) /\ held' = held \ {e}
  BY DEF CallMfree
<1>2. UNCHANGED <<which, cached>>
  BY DEF CallMfree
<1>3. e \in Segment /\ e \in Owned /\ Owned' = Owned \ {e} /\ Owned \subseteq Segment
  BY <1>1, <1>2 DEF SegsApart, Owned
<1>4. Used(Owned \ {e}) = Used(Owned) \ Units(e) /\ Disjoint(Owned \ {e})
  BY <1>3, UsedMinus DEF SegsApart
<1>5. MapSorted' /\ Partition' /\ Meter'
  <2>1. Units(e) \subseteq Used(Owned)
    BY <1>3, UsedHas
  <2> QED
    BY <1>1, <1>2, <1>3, <1>4, <2>1, MfreeSpace
<1>6. SegsApart'
  <2>1. Disjoint(Owned)' <=> Disjoint(Owned')
    BY DEF Disjoint
  <2> QED
    BY <1>1, <1>2, <1>3, <1>4, <2>1 DEF SegsApart
<1>7. Asked'
  <2>1. CASE which = "ub_map"
    BY <1>2, <2>1, WakeupStep DEF CallMfree
  <2>2. CASE which # "ub_map"
    BY <1>2, <2>2, AskedSame DEF CallMfree
  <2> QED
    BY <2>1, <2>2
<1> QED
  BY <1>5, <1>6, <1>7

(* A segment of coremap shrinks: it gives f up and keeps x.                *)
LEMMA ShrinkStep ==
  ASSUME RInv, NEW e \in held, NEW x \in Segment, NEW f \in Segment,
         Units(e) = Units(x) \cup Units(f), Units(x) \cap Units(f) = {},
         Mfree(f), held' = (held \ {e}) \cup {x},
         which = "coremap", UNCHANGED <<which, cached, req, ub_wantmr>>
  PROVE  RInv'
<1> USE DEF RInv
<1>1. e \in Owned /\ Owned \subseteq Segment /\ e \notin cached
  BY DEF SegsApart, Owned
<1>2. Owned' = (Owned \ {e}) \cup {x}
  BY <1>1 DEF Owned
<1>3. /\ Used((Owned \ {e}) \cup {x}) = Used(Owned) \ Units(f)
      /\ Disjoint((Owned \ {e}) \cup {x})
      /\ x \notin Owned \ {e}
  BY <1>1, UsedShrunk DEF SegsApart
<1>4. Units(f) \subseteq Used(Owned)
  BY <1>1, UsedHas
<1>5. MapSorted' /\ Partition' /\ Meter'
  BY <1>2, <1>3, <1>4, MfreeSpace
<1>6. SegsApart'
  <2>1. Disjoint(Owned)' <=> Disjoint(Owned')
    BY DEF Disjoint
  <2>2. held' \cap cached' = {}
    BY <1>1, <1>3 DEF SegsApart, Owned
  <2> QED
    BY <1>2, <1>3, <2>1, <2>2 DEF SegsApart
<1>7. Asked'
  BY AskedSame
<1> QED
  BY <1>5, <1>6, <1>7

(* A segment cut in two.                                                   *)
Splits(e, x, f) ==
  /\ x \in Segment /\ f \in Segment
  /\ Units(e) = Units(x) \cup Units(f)
  /\ Units(x) \cap Units(f) = {}

LEMMA Halves ==
  ASSUME NEW e \in Segment, NEW x \in Segment, NEW f \in Segment,
         e.addr = x.addr, e.size = x.size + f.size, x.addr + x.size = f.addr
  PROVE  Splits(e, x, f)
<1>1. e \in Loose /\ x \in Loose /\ f \in Loose
  BY DEF Segment, Loose
<1>2. Units(e) = Units(x) \cup Units(f)
  BY <1>1, JoinUnits
<1>3. /\ x.addr \in Nat /\ x.size \in Nat /\ f.size \in Nat /\ f.addr \in Nat
  BY DEF Segment
<1>4. Units(x) \cap Units(f) = {}
  BY <1>3 DEF Units, End
<1> QED
  BY <1>2, <1>4 DEF Splits

LEMMA CutInTwo ==
  ASSUME NEW e \in Segment, NEW n \in 1..(e.size - 1)
  PROVE  Splits(e, Seg(e.addr, n), Seg(e.addr + n, e.size - n))
<1> DEFINE x == Seg(e.addr, n)
           f == Seg(e.addr + n, e.size - n)
<1>1. e.addr \in Nat \ {0} /\ e.size \in Nat \ {0}
  BY DEF Segment
<1>2. n \in Nat \ {0} /\ e.addr + n \in Nat \ {0} /\ e.size - n \in Nat \ {0}
  BY <1>1
<1>3. x \in Segment /\ x.addr = e.addr /\ x.size = n
  BY <1>1, <1>2, SegIs
<1>4. f \in Segment /\ f.addr = e.addr + n /\ f.size = e.size - n
  BY <1>2, SegIs
<1> HIDE DEF x, f
<1>5. e.addr = x.addr /\ x.addr + x.size = f.addr
  BY <1>3, <1>4
<1>6. e.size = x.size + f.size
  BY <1>1, <1>2, <1>3, <1>4
<1>7. Splits(e, x, f)
  BY <1>3, <1>4, <1>5, <1>6, Halves
<1> QED
  BY <1>7 DEF x, f

LEMMA ExpandDataStep ==
  ASSUME RInv, ExpandData
  PROVE  RInv'
<1>1. PICK e \in held : \E n \in 1..(e.size - 1) :
        /\ Mfree(Seg(e.addr + n, e.size - n))
        /\ held' = (held \ {e}) \cup {Seg(e.addr, n)}
  BY DEF ExpandData
<1>2. PICK n \in 1..(e.size - 1) :
        /\ Mfree(Seg(e.addr + n, e.size - n))
        /\ held' = (held \ {e}) \cup {Seg(e.addr, n)}
  BY <1>1
<1>3. e \in Segment
  BY DEF RInv, SegsApart
<1> DEFINE x == Seg(e.addr, n)
           f == Seg(e.addr + n, e.size - n)
<1>4. Splits(e, x, f)
  BY <1>3, CutInTwo
<1>5. Mfree(f) /\ held' = (held \ {e}) \cup {x}
  BY <1>2
<1>6. which = "coremap" /\ UNCHANGED <<which, cached, req, ub_wantmr>>
  BY DEF ExpandData
<1> HIDE DEF x, f
<1> QED
  BY <1>4, <1>5, <1>6, ShrinkStep DEF Splits

LEMMA ExpandStackStep ==
  ASSUME RInv, ExpandStack
  PROVE  RInv'
<1>1. PICK e \in held : \E n \in 1..(e.size - 1) :
        /\ Mfree(Seg(e.addr, n))
        /\ held' = (held \ {e}) \cup {Seg(e.addr + n, e.size - n)}
  BY DEF ExpandStack
<1>2. PICK n \in 1..(e.size - 1) :
        /\ Mfree(Seg(e.addr, n))
        /\ held' = (held \ {e}) \cup {Seg(e.addr + n, e.size - n)}
  BY <1>1
<1>3. e \in Segment
  BY DEF RInv, SegsApart
<1> DEFINE x == Seg(e.addr + n, e.size - n)
           f == Seg(e.addr, n)
<1>4. Splits(e, f, x)
  BY <1>3, CutInTwo
<1>5. Mfree(f) /\ held' = (held \ {e}) \cup {x}
  BY <1>2
<1>6. which = "coremap" /\ UNCHANGED <<which, cached, req, ub_wantmr>>
  BY DEF ExpandStack
<1> HIDE DEF x, f
<1>7. /\ x \in Segment /\ f \in Segment
      /\ Units(e) = Units(x) \cup Units(f) /\ Units(x) \cap Units(f) = {}
  BY <1>4 DEF Splits
<1> QED
  BY <1>5, <1>6, <1>7, ShrinkStep

(* A text changes hands: nothing is freed.                                 *)
LEMMA TextStep ==
  ASSUME RInv, Xfree \/ Xalloc
  PROVE  RInv'
<1> USE DEF RInv
<1>1. UNCHANGED <<which, map, freemem, lost, req, ub_wantmr>>
  BY DEF Xfree, Xalloc
<1>2. /\ held' \cup cached' = held \cup cached /\ held' \cap cached' = {}
      /\ held' \subseteq Segment /\ cached' \subseteq Segment
  <2>1. CASE Xfree
    <3>1. PICK e \in held : held' = held \ {e} /\ cached' = cached \cup {e}
      BY <2>1 DEF Xfree
    <3> QED
      BY <3>1 DEF SegsApart
  <2>2. CASE Xalloc
    <3>1. PICK e \in cached : cached' = cached \ {e} /\ held' = held \cup {e}
      BY <2>2 DEF Xalloc
    <3> QED
      BY <3>1 DEF SegsApart
  <2> QED
    BY <2>1, <2>2
<1>3. Owned' = Owned
  BY <1>2 DEF Owned
<1>4. MapSorted' /\ Meter'
  BY <1>1 DEF MapSorted, Meter
<1>5. SegsApart'
  <2>1. Disjoint(Owned)' <=> Disjoint(Owned')
    BY DEF Disjoint
  <2> QED
    BY <1>2, <1>3, <2>1 DEF SegsApart
<1>6. Partition'
  <2>1. Used(Owned)' = Used(Owned') /\ Free(map)' = Free(map')
    BY DEF Used, Free, Has
  <2> QED
    BY <1>1, <1>3, <2>1 DEF Partition
<1>7. Asked'
  BY <1>1 DEF Asked, Asks, Wish, Reclaims
<1> QED
  BY <1>4, <1>5, <1>6, <1>7

LEMMA RStep ==
  ASSUME RInv, [Next]_vars
  PROVE  RInv'
<1>1. CASE UNCHANGED vars
  <2> USE <1>1 DEF vars
  <2>1. MapSorted' /\ SegsApart' /\ Partition' /\ Meter'
    BY SameSpace DEF RInv
  <2>2. Asked'
    BY DEF RInv, Asked, Asks, Wish, Reclaims
  <2> QED
    BY <2>1, <2>2 DEF RInv
<1>2. ASSUME NEW p \in Clients,
             \/ CallMalloc(p) \/ CallMalloc3(p)
             \/ Xuncore(p) \/ XuncoreDone(p) \/ Retry(p) \/ Again(p)
      PROVE  RInv'
  BY <1>2, CallMallocStep, CallMalloc3Step, XuncoreStep, XuncoreDoneStep, RetryStep, AgainStep
<1>3. CASE CallMfree \/ ExpandData \/ ExpandStack
  BY <1>3, CallMfreeStep, ExpandDataStep, ExpandStackStep
<1>4. CASE Xfree \/ Xalloc
  BY <1>4, TextStep
<1> QED
  BY <1>1, <1>2, <1>3, <1>4 DEF Next

(* The inductive invariant holds in every state of subr_rmap.c's callers.  *)
THEOREM RmapInvariant == Spec => []RInv
<1>1. Init => RInv
  BY RInit
<1>2. RInv /\ [Next]_vars => RInv'
  BY RStep
<1> QED
  BY <1>1, <1>2, PTL DEF Spec

-----------------------------------------------------------------------------
(* What follows from it.                                                   *)

(* The units of a segment within the resource bound its address and size.  *)
LEMMA WithinTop ==
  ASSUME NEW e \in Segment, Units(e) \subseteq 1..Top
  PROVE  e \in [addr : 1..Top, size : 1..Top]
<1>0. Top \in Nat
  BY RmapAssumption
<1>1. e.addr \in Nat \ {0} /\ e.size \in Nat \ {0} /\ e = [addr |-> e.addr, size |-> e.size]
  BY DEF Segment
<1>2. e.addr \in Units(e) /\ e.addr + e.size - 1 \in Units(e)
  BY <1>1 DEF Units, End
<1>3. e.addr \in 1..Top /\ e.addr + e.size - 1 \in 1..Top
  BY <1>2
<1>4. e.size \in 1..Top
  BY <1>0, <1>1, <1>3
<1> QED
  BY <1>1, <1>3, <1>4

LEMMA RInvSorted ==
  ASSUME RInv
  PROVE  SortedApart
<1> USE DEF RInv
<1>1. map \in Seq(Segment) /\ Apart(map) /\ map \in Seq(Loose)
  BY SeqLoose DEF MapSorted
<1>2. map \in Seq([addr : 1..Top, size : 1..Top])
  <2> DEFINE T == [addr : 1..Top, size : 1..Top]
  <2>1. ASSUME NEW i \in 1..Len(map)
        PROVE  map[i] \in T
    <3>1. map[i] \in Segment
      BY <1>1
    <3>2. Units(map[i]) \subseteq 1..Top
      BY <1>1, EntryFree DEF Partition
    <3> QED
      BY <3>1, <3>2, WithinTop
  <2>2. map = [i \in 1..Len(map) |-> map[i]] /\ Len(map) \in Nat
    BY <1>1
  <2> HIDE DEF T
  <2>3. map \in Seq(T)
    BY <2>1, <2>2, SeqDef
  <2> QED
    BY <2>3 DEF T
<1>3. ASSUME NEW e \in Owned
      PROVE  e \in [addr : 1..Top, size : 1..Top]
  <2>1. e \in Segment
    BY DEF SegsApart, Owned
  <2>2. Units(e) \subseteq 1..Top
    BY UsedHas DEF Partition
  <2> QED
    BY <2>1, <2>2, WithinTop
<1>4. held \subseteq [addr : 1..Top, size : 1..Top] /\ cached \subseteq [addr : 1..Top, size : 1..Top]
  BY <1>3 DEF Owned
<1>5. freemem \in 0..Top
  <2>1. Cardinality(Free(map) \cup lost) \in 0..Top /\ 0 \in 0..Top
    BY FreeFinite, RmapAssumption
  <2> QED
    BY <2>1 DEF Meter
<1>6. lost \subseteq 1..Top
  BY DEF Partition
<1>7. /\ which \in AllMaps /\ ub_wantmr \in BOOLEAN
      /\ \A p \in Clients : req[p].pc \in {"idle", "reclaim", "again", "asleep"}
  BY RmapAssumption DEF Asked, Asks
<1>8. \A i \in 1..(Len(map) - 1) : End(map[i]) < map[i + 1].addr
  <2> SUFFICES ASSUME NEW i \in 1..(Len(map) - 1)
               PROVE  End(map[i]) < map[i + 1].addr
    OBVIOUS
  <2>1. Len(map) \in Nat
    BY <1>1
  <2>2. i \in 1..Len(map) /\ i + 1 \in 1..Len(map) /\ i < i + 1
    BY <2>1
  <2> QED
    BY <1>1, <2>2 DEF Apart, End
<1> QED
  BY <1>2, <1>4, <1>5, <1>6, <1>7, <1>8 DEF SortedApart, TypeOK

(* A set with at most one element has none or one.                         *)
LEMMA AtMostOne ==
  ASSUME NEW T, \A x, y \in T : x = y
  PROVE  /\ T = {} => Cardinality(T) = 0
         /\ T # {} => Cardinality(T) = 1
<1>1. T = {} => Cardinality(T) = 0
  BY FS_EmptySet
<1>2. ASSUME T # {}
      PROVE  Cardinality(T) = 1
  <2>1. PICK x \in T : TRUE
    BY <1>2
  <2>2. T = {x}
    BY <2>1
  <2> QED
    BY <2>2, FS_Singleton
<1> QED
  BY <1>1, <1>2

LEMMA FreeUnitsIs ==
  ASSUME MapSorted
  PROVE  FreeUnits = Free(map)
<1>1. map \in Seq(Loose)
  BY SeqLoose DEF MapSorted
<1>2. Range(map) = { map[i] : i \in 1..Len(map) }
  BY <1>1 DEF Range
<1>3. FreeUnits = UNION { Units(map[i]) : i \in 1..Len(map) }
  BY <1>2 DEF FreeUnits
<1>4. \A i \in 1..Len(map) : Units(map[i]) = { u \in Nat : Has(map, i, u) }
  BY <1>1, HasNat
<1> QED
  BY <1>3, <1>4 DEF Free

LEMMA RInvConserved ==
  ASSUME RInv
  PROVE  UnitsConserved
<1> USE DEF RInv
<1>0. map \in Seq(Loose) /\ Apart(map)
  BY SeqLoose DEF MapSorted
<1> DEFINE I(u) == { i \in DOMAIN map : u \in Units(map[i]) }
           H(u) == { e \in held : u \in Units(e) }
           C(u) == { e \in cached : u \in Units(e) }
           L(u) == IF u \in lost THEN 1 ELSE 0
<1>1. ASSUME NEW u \in 1..Top
      PROVE  Cardinality(I(u)) + Cardinality(H(u)) + Cardinality(C(u)) + L(u) = 1
  <2>0. u \in Nat
    OBVIOUS
  <2>1. \A i \in 1..Len(map) : u \in Units(map[i]) <=> Has(map, i, u)
    BY <1>0, <2>0, HasNat
  <2>2. I(u) = { i \in 1..Len(map) : Has(map, i, u) }
    BY <1>0, <2>1
  <2>3. \A i, j \in I(u) : i = j
    BY <1>0, <2>0, <2>2, HasOnce
  <2>4. I(u) # {} <=> u \in Free(map)
    BY <2>0, <2>2 DEF Free
  <2>5. \A e, f \in H(u) : e = f
    BY DEF SegsApart, Disjoint, Owned
  <2>6. \A e, f \in C(u) : e = f
    BY DEF SegsApart, Disjoint, Owned
  <2>7. ~ (H(u) # {} /\ C(u) # {})
    BY DEF SegsApart, Disjoint, Owned
  <2>8. (H(u) # {} \/ C(u) # {}) <=> u \in Used(Owned)
    BY DEF Used, Owned
  <2> HIDE DEF I, H, C
  <2>9. /\ I(u) = {} => Cardinality(I(u)) = 0
        /\ I(u) # {} => Cardinality(I(u)) = 1
    BY <2>3, AtMostOne
  <2>10. /\ H(u) = {} => Cardinality(H(u)) = 0
         /\ H(u) # {} => Cardinality(H(u)) = 1
    BY <2>5, AtMostOne
  <2>11. /\ C(u) = {} => Cardinality(C(u)) = 0
         /\ C(u) # {} => Cardinality(C(u)) = 1
    BY <2>6, AtMostOne
  <2>12. CASE u \in Free(map)
    <3>1. u \notin Used(Owned) /\ u \notin lost
      BY <2>12 DEF Partition
    <3> QED
      BY <2>4, <2>8, <2>9, <2>10, <2>11, <2>12, <3>1
  <2>13. CASE u \in Used(Owned)
    <3>1. u \notin Free(map) /\ u \notin lost
      BY <2>13 DEF Partition
    <3> QED
      BY <2>4, <2>7, <2>8, <2>9, <2>10, <2>11, <2>13, <3>1
  <2>14. CASE u \in lost
    <3>1. u \notin Free(map) /\ u \notin Used(Owned)
      BY <2>14 DEF Partition
    <3> QED
      BY <2>4, <2>8, <2>9, <2>10, <2>11, <2>14, <3>1
  <2>15. u \in Free(map) \/ u \in Used(Owned) \/ u \in lost
    BY DEF Partition
  <2> QED
    BY <2>12, <2>13, <2>14, <2>15
<1>2. held \cap cached = {}
  BY DEF SegsApart
<1>3. which = "coremap" => freemem = Cardinality(FreeUnits) + Cardinality(lost)
  BY FreeUnitsIs, FreeFinite DEF Meter
<1> QED
  BY <1>1, <1>2, <1>3 DEF UnitsConserved

(* The map of malloc, malloc3 and mfree is always in order of addresses    *)
(* and joined: no entry touches the next, whatever was allocated, freed,   *)
(* shrunk and lost before.                                                 *)
THEOREM RmapSorted == Spec => []SortedApart
<1>1. RInv => SortedApart
  BY RInvSorted
<1> QED
  BY <1>1, RmapInvariant, PTL

(* malloc, malloc3 and mfree neither give a unit to two owners nor forget  *)
(* one but those an overflow reports, and the meter counts them.           *)
THEOREM RmapConserved == Spec => []UnitsConserved
<1>1. RInv => UnitsConserved
  BY RInvConserved
<1> QED
  BY <1>1, RmapInvariant, PTL

LEMMA RunIs ==
  ASSUME RInv, NEW n, Run(n)
  PROVE  HasRun(map, n)
<1>1. FreeUnits = Free(map)
  BY FreeUnitsIs DEF RInv
<1>2. PICK a \in 1..(Top + 1 - n) : a..(a + n - 1) \subseteq Free(map)
  BY <1>1 DEF Run
<1>3. a \in Nat
  BY <1>2
<1> QED
  BY <1>2, <1>3 DEF HasRun

(* mapalloc's sleepers: nobody sleeps while there is a large enough run of *)
(* registers, and every sleeper is recorded in ub_wantmr for mapfree.      *)
THEOREM RmapSleepers == Spec => []SleepersBlocked
<1>1. RInv => SleepersBlocked
  <2> SUFFICES ASSUME RInv, NEW p \in Clients, At(p, "asleep")
               PROVE  ub_wantmr /\ ~ Run(req[p].sizes[1])
    BY DEF SleepersBlocked
  <2>1. Asks(p) /\ req[p].pc = "asleep"
    BY DEF RInv, Asked, At
  <2>2. ub_wantmr /\ ~ HasRun(map, req[p].sizes[1])
    BY <2>1 DEF Asks
  <2> QED
    BY <2>2, RunIs
<1> QED
  BY <1>1, RmapInvariant, PTL

-----------------------------------------------------------------------------
(* Refusals.                                                               *)

(* A step of client q gives it the request r and leaves the others theirs. *)
LEMMA OnlyOwn ==
  ASSUME Asked, NEW q \in Clients, NEW r, Becomes(q, r)
  PROVE  req'[q] = r /\ \A p \in Clients : p # q => req'[p] = req[p]
<1>1. req = [p \in Clients |-> req[p]] /\ req' = [req EXCEPT ![q] = r]
  BY DEF Asked, Becomes
<1> QED
  BY <1>1

(* What malloc and malloc3 make of a request for s.                        *)
Outcome(q, s) ==
  \E r : /\ Becomes(q, r)
         /\ r.pc \in {"reclaim", "asleep"} => r.sizes = s /\ held' = held

LEMMA GrantedOutcome ==
  ASSUME NEW q, NEW s, NEW S, NEW m, NEW n, Granted(q, S, m, n)
  PROVE  Outcome(q, s)
<1>1. Becomes(q, Idle)
  BY DEF Granted
<1>2. Idle.pc = "idle"
  BY DEF Idle, Request
<1> QED
  BY <1>1, <1>2 DEF Outcome

LEMMA NoRoomOutcome ==
  ASSUME NEW q, NEW s, NEW retry \in BOOLEAN, NoRoom(q, s, retry)
  PROVE  Outcome(q, s)
<1>1. held' = held
  BY DEF NoRoom
<1>2. \A l, t : Request(l, s, t).sizes = s
  BY DEF Request
<1>3. Idle.pc = "idle"
  BY DEF Idle, Request
<1>4. CASE Reclaims /\ ~ retry
  <2> DEFINE t == IF which = "swapmap" THEN <<Top + 1>> ELSE Reverse(s)
  <2>1. Becomes(q, Request("reclaim", s, t))
    BY <1>4 DEF NoRoom
  <2> HIDE DEF t
  <2> QED
    BY <1>1, <1>2, <2>1 DEF Outcome
<1>5. CASE Reclaims /\ retry
  <2>1. Becomes(q, Idle)
    BY <1>5 DEF NoRoom
  <2> QED
    BY <1>3, <2>1 DEF Outcome
<1>6. CASE ~ Reclaims
  <2>1. Becomes(q, Request("asleep", s, <<>>))
    BY <1>6 DEF NoRoom
  <2> QED
    BY <1>1, <1>2, <2>1 DEF Outcome
<1> QED
  BY <1>4, <1>5, <1>6

LEMMA MallocOutcome ==
  ASSUME NEW q, NEW s, NEW retry \in BOOLEAN, Malloc(q, s, retry) \/ Malloc3(q, s, retry)
  PROVE  Outcome(q, s)
<1>1. CASE Malloc(q, s, retry)
  <2> DEFINE i == FirstFit(map, s[1])
             S == {Seg(map[i].addr, s[1])}
             m == Cut(map, i, s[1])
  <2>1. Granted(q, S, m, s[1]) \/ NoRoom(q, s, retry)
    BY <1>1 DEF Malloc
  <2> HIDE DEF S, m
  <2> QED
    BY <2>1, GrantedOutcome, NoRoomOutcome
<1>2. CASE Malloc3(q, s, retry)
  <2> DEFINE r == Scan3(map, s)
             S == Resolve3(r, s).segs
             m == Resolve3(r, s).map
  <2>1. Granted(q, S, m, s[1] + s[2] + s[3]) \/ NoRoom(q, s, retry)
    BY <1>2 DEF Malloc3
  <2> HIDE DEF S, m
  <2> QED
    BY <2>1, GrantedOutcome, NoRoomOutcome
<1> QED
  BY <1>1, <1>2

(* Only client p itself moves from "idle" or from "again".                 *)
LEMMA OwnMove ==
  ASSUME RInv, Next, NEW p \in Clients, req[p].pc \in {"idle", "again"}, req'[p] # req[p]
  PROVE  CallMalloc(p) \/ CallMalloc3(p) \/ Again(p)
<1>0. Asked
  BY DEF RInv
<1>1. ASSUME NEW q \in Clients, NEW r, Becomes(q, r)
      PROVE  q = p
  BY <1>0, <1>1, OnlyOwn
<1>2. ASSUME NEW q \in Clients, NEW s, Outcome(q, s)
      PROVE  q = p
  BY <1>1, <1>2 DEF Outcome
<1>3. ASSUME NEW q \in Clients, CallMalloc(q)
      PROVE  q = p
  <2>1. PICK n \in Sizes : Malloc(q, <<n>>, FALSE)
    BY <1>3 DEF CallMalloc
  <2> QED
    BY <1>2, <2>1, MallocOutcome
<1>4. ASSUME NEW q \in Clients, CallMalloc3(q)
      PROVE  q = p
  <2>1. PICK s \in Sizes3 : Malloc3(q, s, FALSE)
    BY <1>4 DEF CallMalloc3
  <2> QED
    BY <1>2, <2>1, MallocOutcome
<1>5. ASSUME NEW q \in Clients, Again(q)
      PROVE  q = p
  <2>1. Malloc(q, req[q].sizes, TRUE) \/ Malloc3(q, req[q].sizes, TRUE)
    BY <1>5 DEF Again
  <2> QED
    BY <1>2, <2>1, MallocOutcome
<1>6. ASSUME NEW q \in Clients, Xuncore(q)
      PROVE  FALSE
  <2>1. \E r : Becomes(q, r)
    BY <1>6 DEF Xuncore
  <2>2. q = p
    BY <1>1, <2>1
  <2> QED
    BY <1>6, <2>2 DEF Xuncore, At
<1>7. ASSUME NEW q \in Clients, XuncoreDone(q) \/ Retry(q)
      PROVE  FALSE
  <2>1. \E r : Becomes(q, r)
    BY <1>7 DEF XuncoreDone, Retry
  <2>2. q = p
    BY <1>1, <2>1
  <2> QED
    BY <1>7, <2>2 DEF XuncoreDone, Retry, At
<1>8. ~ CallMfree
  <2>1. Wakeup => req'[p] = req[p]
    BY DEF Wakeup, At
  <2> QED
    BY <2>1 DEF CallMfree
<1>9. ~ ExpandData /\ ~ ExpandStack /\ ~ Xfree /\ ~ Xalloc
  BY DEF ExpandData, ExpandStack, Xfree, Xalloc
<1> QED
  BY <1>3, <1>4, <1>5, <1>6, <1>7, <1>8, <1>9 DEF Next

(* malloc refuses, sleeps or has texts thrown out only if no run of free   *)
(* units is long enough: joining what abuts keeps every run in one entry.  *)
THEOREM RmapRefused == Spec => RefusedOnlyWhenFull
<1> DEFINE X(p) == (IF At(p, "again") THEN req ELSE req')[p]
           A == \A p \in Clients :
                  Refused(p) /\ Len(X(p).sizes) = 1 => ~ Run(X(p).sizes[1])
<1>1. ASSUME RInv, Next, NEW p \in Clients, Refused(p), Len(X(p).sizes) = 1
      PROVE  ~ Run(X(p).sizes[1])
  <2>0. Asked
    BY <1>1 DEF RInv
  <2>1. CASE At(p, "again")
    <3>1. X(p) = req[p] /\ held' = held /\ req'[p] # req[p] /\ req[p].pc = "again"
      BY <1>1, <2>1 DEF Refused, At
    <3>2. Again(p)
      <4>1. CallMalloc(p) \/ CallMalloc3(p) \/ Again(p)
        BY <1>1, <3>1, OwnMove
      <4> QED
        BY <3>1, <4>1 DEF CallMalloc, CallMalloc3, At
    <3>3. ~ HasRun(map, req[p].sizes[1])
      BY <1>1, <3>1, <3>2, AgainStep
    <3> QED
      BY <1>1, <3>1, <3>3, RunIs
  <2>2. CASE ~ At(p, "again")
    <3>1. X(p) = req'[p] /\ req[p].pc = "idle" /\ req'[p].pc \in {"reclaim", "asleep"}
      BY <1>1, <2>2 DEF Refused, At
    <3>2. req'[p] # req[p]
      BY <3>1
    <3>3. CallMalloc(p) \/ CallMalloc3(p)
      <4>1. CallMalloc(p) \/ CallMalloc3(p) \/ Again(p)
        BY <1>1, <3>1, <3>2, OwnMove
      <4> QED
        BY <2>2, <4>1 DEF Again
    <3>4. ASSUME NEW s, Outcome(p, s)
          PROVE  req'[p].sizes = s /\ held' = held
      <4>1. PICK r : Becomes(p, r) /\ (r.pc \in {"reclaim", "asleep"} => r.sizes = s /\ held' = held)
        BY <3>4 DEF Outcome
      <4>2. req'[p] = r
        BY <2>0, <4>1, OnlyOwn
      <4> QED
        BY <3>1, <4>1, <4>2
    <3>5. CASE CallMalloc(p)
      <4>1. PICK n \in Sizes : Malloc(p, <<n>>, FALSE)
        BY <3>5 DEF CallMalloc
      <4>2. req'[p].sizes = <<n>> /\ held' = held
        BY <3>4, <4>1, MallocOutcome
      <4>3. Wish(<<n>>) /\ Len(<<n>>) = 1 /\ UNCHANGED <<which, cached, lost>>
        BY <3>5 DEF Wish, CallMalloc
      <4>4. ~ HasRun(map, <<n>>[1])
        BY <1>1, <4>1, <4>2, <4>3, MallocStep
      <4> QED
        BY <1>1, <3>1, <4>2, <4>4, RunIs
    <3>6. CASE CallMalloc3(p)
      <4>1. PICK s \in Sizes3 : Malloc3(p, s, FALSE)
        BY <3>6 DEF CallMalloc3
      <4>2. req'[p].sizes = s
        BY <3>4, <4>1, MallocOutcome
      <4>3. s \in Nat \X Nat \X (Nat \ {0})
        BY RmapAssumption
      <4>4. Len(s) = 3
        BY <4>3
      <4> QED
        BY <1>1, <3>1, <4>2, <4>4
    <3> QED
      BY <3>3, <3>5, <3>6
  <2> QED
    BY <2>1, <2>2
<1>2. RInv /\ [Next]_vars => [A]_vars
  <2> HIDE DEF X
  <2> QED BY <1>1
<1>3. Spec => [][A]_vars
  <2> HIDE DEF A
  <2> QED
    BY <1>2, RmapInvariant, PTL DEF Spec
<1> QED
  BY <1>3 DEF RefusedOnlyWhenFull
=============================================================================
