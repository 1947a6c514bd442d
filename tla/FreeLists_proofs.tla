-------------------------- MODULE FreeLists_proofs --------------------------
(***************************************************************************)
(* What the queue operations do to the set of linked buffers.  The proofs  *)
(* about the cache use only these facts, never an index.                   *)
(***************************************************************************)
EXTENDS FreeLists, TLAPS

(* The elements of a queue come from the set it is a queue of.             *)
LEMMA ElemsType ==
  ASSUME NEW S, NEW s \in Seq(S)
  PROVE  Elems(s) \subseteq S
BY DEF Elems

(* A queue is empty exactly when it links no buffer, and otherwise its     *)
(* head is linked: what getnewbuf tests and takes.                         *)
LEMMA HeadInElems ==
  ASSUME NEW S, NEW s \in Seq(S)
  PROVE  /\ s = <<>> <=> Elems(s) = {}
         /\ s # <<>> => Head(s) \in Elems(s)
<1>1. s = <<>> => Elems(s) = {}
  BY DEF Elems
<1>2. s # <<>> => Head(s) \in Elems(s)
  BY DEF Elems
<1> QED
  BY <1>1, <1>2

(* bremfree unlinks exactly the one buffer.                                *)
LEMMA UnlinkFacts ==
  ASSUME NEW S, NEW s \in Seq(S), Distinct(s), NEW b
  PROVE  /\ Unlink(s, b) \in Seq(S)
         /\ Distinct(Unlink(s, b))
         /\ Elems(Unlink(s, b)) = Elems(s) \ {b}
<1>1. CASE b \notin Elems(s)
  BY <1>1 DEF Unlink
<1>2. CASE b \in Elems(s)
  <2> DEFINE n == Len(s)
             k == Position(s, b)
             t == Unlink(s, b)
  <2>1. k \in 1..n /\ s[k] = b
    BY <1>2 DEF Elems, Position
  <2>2. n \in Nat /\ DOMAIN s = 1..n /\ \A i \in 1..n : s[i] \in S
    OBVIOUS
  <2>3. t = [ j \in 1..(n - 1) |-> IF j < k THEN s[j] ELSE s[j + 1] ]
    BY <1>2 DEF Unlink, Delete
  <2> HIDE DEF t, k, n
  <2>4. t \in Seq(S) /\ Len(t) = n - 1 /\ DOMAIN t = 1..(n - 1)
    <3>1. n - 1 \in Nat
      BY <2>1, <2>2
    <3>2. \A j \in 1..(n - 1) : t[j] \in S
      BY <2>1, <2>2, <2>3
    <3> QED
      BY <3>1, <3>2, <2>3
  <2>5. \A j \in 1..(n - 1) : t[j] = IF j < k THEN s[j] ELSE s[j + 1]
    BY <2>3
  <2>6. \A i \in 1..n : s[i] = b => i = k
    BY <2>1, <2>2 DEF Distinct
  <2>7. Elems(t) \subseteq Elems(s) \ {b}
    <3> SUFFICES ASSUME NEW j \in 1..(n - 1)
                 PROVE  t[j] \in Elems(s) \ {b}
      BY <2>4 DEF Elems
    <3>1. CASE j < k
      <4>1. j \in 1..n /\ t[j] = s[j] /\ j # k
        BY <3>1, <2>1, <2>2, <2>5
      <4> QED
        BY <4>1, <2>2, <2>6 DEF Elems
    <3>2. CASE ~ (j < k)
      <4>1. j + 1 \in 1..n /\ t[j] = s[j + 1] /\ j + 1 # k
        BY <3>2, <2>1, <2>2, <2>5
      <4> QED
        BY <4>1, <2>2, <2>6 DEF Elems
    <3> QED
      BY <3>1, <3>2
  <2>8. Elems(s) \ {b} \subseteq Elems(t)
    <3> SUFFICES ASSUME NEW i \in 1..n, s[i] # b
                 PROVE  s[i] \in Elems(t)
      BY <2>2 DEF Elems
    <3>1. i # k
      BY <2>1
    <3>2. CASE i < k
      <4>1. i \in 1..(n - 1) /\ t[i] = s[i]
        BY <3>2, <2>1, <2>2, <2>5
      <4> QED
        BY <4>1, <2>4 DEF Elems
    <3>3. CASE i > k
      <4>1. i - 1 \in 1..(n - 1) /\ t[i - 1] = s[i]
        BY <3>3, <2>1, <2>2, <2>5
      <4> QED
        BY <4>1, <2>4 DEF Elems
    <3> QED
      BY <3>1, <3>2, <3>3, <2>1, <2>2
  <2>9. Distinct(t)
    <3> SUFFICES ASSUME NEW i \in 1..(n - 1), NEW j \in 1..(n - 1), t[i] = t[j]
                 PROVE  i = j
      BY <2>4 DEF Distinct
    <3> DEFINE up(x) == IF x < k THEN x ELSE x + 1
    <3>1. up(i) \in 1..n /\ up(j) \in 1..n /\ t[i] = s[up(i)] /\ t[j] = s[up(j)]
      BY <2>1, <2>2, <2>5
    <3>2. up(i) = up(j)
      <4> HIDE DEF up
      <4> QED
        BY <3>1, <2>2 DEF Distinct
    <3> QED
      BY <3>2, <2>1, <2>2
  <2> QED
    BY <2>4, <2>7, <2>8, <2>9 DEF t
<1> QED
  BY <1>1, <1>2

(* Linking a buffer in, wherever, adds exactly that buffer.                *)
LEMMA InsertFacts ==
  ASSUME NEW S, NEW s \in Seq(S), Distinct(s), NEW b \in S, b \notin Elems(s),
         NEW k \in 1..(Len(s) + 1)
  PROVE  /\ Insert(s, k, b) \in Seq(S)
         /\ Distinct(Insert(s, k, b))
         /\ Elems(Insert(s, k, b)) = Elems(s) \cup {b}
<1> DEFINE n == Len(s)
           t == Insert(s, k, b)
<1>1. n \in Nat /\ DOMAIN s = 1..n /\ (\A i \in 1..n : s[i] \in S) /\ k \in 1..(n + 1)
  OBVIOUS
<1>2. t = [ j \in 1..(n + 1) |-> IF j < k THEN s[j] ELSE IF j = k THEN b ELSE s[j - 1] ]
  BY DEF Insert
<1> HIDE DEF t, n
<1>3. t \in Seq(S) /\ DOMAIN t = 1..(n + 1)
  <2>1. \A j \in 1..(n + 1) : t[j] \in S
    BY <1>1, <1>2
  <2> QED
    BY <2>1, <1>1, <1>2
<1>4. \A j \in 1..(n + 1) : t[j] = IF j < k THEN s[j] ELSE IF j = k THEN b ELSE s[j - 1]
  BY <1>2
<1>5. \A i \in 1..n : s[i] # b /\ s[i] \in Elems(s)
  BY <1>1 DEF Elems
<1>6. Elems(t) \subseteq Elems(s) \cup {b}
  <2> SUFFICES ASSUME NEW j \in 1..(n + 1)
               PROVE  t[j] \in Elems(s) \cup {b}
    BY <1>3 DEF Elems
  <2>1. CASE j < k
    BY <2>1, <1>1, <1>4, <1>5
  <2>2. CASE j = k
    BY <2>2, <1>1, <1>4
  <2>3. CASE j > k
    <3>1. j - 1 \in 1..n /\ t[j] = s[j - 1]
      BY <2>3, <1>1, <1>4
    <3> QED
      BY <3>1, <1>5
  <2> QED
    BY <2>1, <2>2, <2>3, <1>1
<1>7. Elems(s) \cup {b} \subseteq Elems(t)
  <2>1. b \in Elems(t)
    <3>1. t[k] = b
      BY <1>1, <1>4
    <3> QED
      BY <3>1, <1>1, <1>3 DEF Elems
  <2>2. ASSUME NEW i \in 1..n PROVE s[i] \in Elems(t)
    <3>1. CASE i < k
      <4>1. i \in 1..(n + 1) /\ t[i] = s[i]
        BY <3>1, <1>1, <1>4
      <4> QED
        BY <4>1, <1>3 DEF Elems
    <3>2. CASE ~ (i < k)
      <4>1. i + 1 \in 1..(n + 1) /\ t[i + 1] = s[i]
        BY <3>2, <1>1, <1>4
      <4> QED
        BY <4>1, <1>3 DEF Elems
    <3> QED
      BY <3>1, <3>2
  <2> QED
    BY <2>1, <2>2, <1>1 DEF Elems
<1>8. Distinct(t)
  <2> SUFFICES ASSUME NEW i \in 1..(n + 1), NEW j \in 1..(n + 1), t[i] = t[j]
               PROVE  i = j
    BY <1>3 DEF Distinct
  <2> DEFINE down(x) == IF x < k THEN x ELSE x - 1
  <2>1. \A x \in 1..(n + 1) : x # k => down(x) \in 1..n /\ t[x] = s[down(x)]
    BY <1>1, <1>4
  <2>2. \A x \in 1..(n + 1) : x # k => t[x] # b
    BY <2>1, <1>5
  <2>3. t[k] = b
    BY <1>1, <1>4
  <2>4. CASE i = k \/ j = k
    BY <2>2, <2>3, <2>4, <1>1
  <2>5. CASE i # k /\ j # k
    <3>1. s[down(i)] = s[down(j)] /\ down(i) \in 1..n /\ down(j) \in 1..n
      BY <2>1, <2>5
    <3>2. down(i) = down(j)
      <4> HIDE DEF down
      <4> QED
        BY <3>1, <1>1 DEF Distinct
    <3> QED
      BY <3>2, <2>5, <1>1
  <2> QED
    BY <2>4, <2>5
<1> QED
  BY <1>3, <1>6, <1>7, <1>8 DEF t

(* binsheadfree and binstailfree.                                          *)
LEMMA PushFacts ==
  ASSUME NEW S, NEW s \in Seq(S), Distinct(s), NEW b \in S, b \notin Elems(s)
  PROVE  /\ PushHead(s, b) \in Seq(S) /\ PushTail(s, b) \in Seq(S)
         /\ Distinct(PushHead(s, b)) /\ Distinct(PushTail(s, b))
         /\ Elems(PushHead(s, b)) = Elems(s) \cup {b}
         /\ Elems(PushTail(s, b)) = Elems(s) \cup {b}
<1>1. 1 \in 1..(Len(s) + 1) /\ Len(s) + 1 \in 1..(Len(s) + 1)
  OBVIOUS
<1> QED
  BY <1>1, InsertFacts DEF PushHead, PushTail
=============================================================================
