--------------------------- MODULE Callout_proofs ---------------------------
(***************************************************************************)
(* The increments of the callout list add up, and the list implements the  *)
(* abstract timers, for every table size, set of functions and times.      *)
(***************************************************************************)
EXTENDS Callout, WellFoundedInduction, TLAPS

(* A nonempty set of natural numbers has a least element.                  *)
LEMMA LeastNat ==
  ASSUME NEW T, T \subseteq Nat, T # {}
  PROVE  \E m \in T : \A k \in T : m <= k
<1> DEFINE R == OpToRel(<, Nat)
<1>1. IsWellFoundedOn(R, Nat)
  BY NatLessThanWellFounded
<1>2. \E m \in T : \A k \in T : ~ (<<k, m>> \in R)
  <2> HIDE DEF R
  <2> QED BY <1>1, WFMin
<1>3. \A k, m \in Nat : k < m => <<k, m>> \in R
  BY DEF OpToRel
<1>4. PICK m \in T : \A k \in T : ~ (<<k, m>> \in R)
  BY <1>2
<1>5. \A k \in T : ~ (k < m)
  <2> HIDE DEF R
  <2> QED BY <1>3, <1>4, Zenon
<1>6. \A k \in T : m <= k
  BY <1>5
<1> QED
  BY <1>6

(* What Insert and Delete do to a sequence, index by index.                *)
LEMMA InsertIndex ==
  ASSUME NEW S, NEW s \in Seq(S), NEW k \in 1..(Len(s) + 1), NEW b \in S
  PROVE  /\ Insert(s, k, b) \in Seq(S)
         /\ Len(Insert(s, k, b)) = Len(s) + 1
         /\ \A j \in 1..(Len(s) + 1) :
              Insert(s, k, b)[j] = IF j < k THEN s[j] ELSE IF j = k THEN b ELSE s[j - 1]
<1> DEFINE t == Insert(s, k, b)
<1>1. t = [j \in 1..(Len(s) + 1) |->
             IF j < k THEN s[j] ELSE IF j = k THEN b ELSE s[j - 1]]
  BY DEF Insert
<1>2. \A j \in 1..(Len(s) + 1) :
        (IF j < k THEN s[j] ELSE IF j = k THEN b ELSE s[j - 1]) \in S
  OBVIOUS
<1>3. t \in [1..(Len(s) + 1) -> S]
  BY <1>1, <1>2
<1>4. Len(s) + 1 \in Nat
  OBVIOUS
<1> HIDE DEF t
<1>5. t \in Seq(S) /\ Len(t) = Len(s) + 1
  BY <1>3, <1>4
<1> QED
  BY <1>1, <1>5 DEF t

(* What Delete leaves of a sequence, index by index.                       *)
LEMMA DeleteIndex ==
  ASSUME NEW S, NEW s \in Seq(S), NEW i \in 1..Len(s)
  PROVE  /\ Delete(s, i) \in Seq(S)
         /\ Len(Delete(s, i)) = Len(s) - 1
         /\ \A j \in 1..(Len(s) - 1) :
              Delete(s, i)[j] = IF j < i THEN s[j] ELSE s[j + 1]
<1> DEFINE t == Delete(s, i)
<1>1. t = [j \in 1..(Len(s) - 1) |-> IF j < i THEN s[j] ELSE s[j + 1]]
  BY DEF Delete
<1>2. \A j \in 1..(Len(s) - 1) : (IF j < i THEN s[j] ELSE s[j + 1]) \in S
  OBVIOUS
<1>3. t \in [1..(Len(s) - 1) -> S]
  BY <1>1, <1>2
<1>4. Len(s) - 1 \in Nat
  OBVIOUS
<1> HIDE DEF t
<1>5. t \in Seq(S) /\ Len(t) = Len(s) - 1
  BY <1>3, <1>4
<1> QED
  BY <1>1, <1>5 DEF t

(* A function on 1..n is a sequence.                                       *)
LEMMA IsSeq ==
  ASSUME NEW n \in Nat, NEW U, NEW t \in [1..n -> U]
  PROVE  t \in Seq(U) /\ Len(t) = n
OBVIOUS

(* t is the sequence of integers s with b linked in as its k-th element.   *)
InsertShape(t, s, k, b) ==
  /\ t \in Seq(Int)
  /\ Len(t) = Len(s) + 1
  /\ \A j \in 1..(Len(s) + 1) :
       t[j] = IF j < k THEN s[j] ELSE IF j = k THEN b ELSE s[j - 1]

(* The same for a sequence of integers.                                    *)
LEMMA InsertInt ==
  ASSUME NEW s \in Seq(Int), NEW k \in 1..(Len(s) + 1), NEW b \in Int
  PROVE  InsertShape(Insert(s, k, b), s, k, b)
<1> DEFINE Z == Int
<1>1. s \in Seq(Z) /\ b \in Z
  OBVIOUS
<1> HIDE DEF Z
<1>2. /\ Insert(s, k, b) \in Seq(Z)
      /\ Len(Insert(s, k, b)) = Len(s) + 1
      /\ \A j \in 1..(Len(s) + 1) :
           Insert(s, k, b)[j] = IF j < k THEN s[j] ELSE IF j = k THEN b ELSE s[j - 1]
  BY <1>1, InsertIndex
<1> QED
  BY <1>2 DEF Z, InsertShape

(* What Delete leaves of one.                                              *)
LEMMA DeleteInt ==
  ASSUME NEW s \in Seq(Int), NEW i \in 1..Len(s)
  PROVE  /\ Delete(s, i) \in Seq(Int)
         /\ Len(Delete(s, i)) = Len(s) - 1
         /\ \A j \in 1..(Len(s) - 1) :
              Delete(s, i)[j] = IF j < i THEN s[j] ELSE s[j + 1]
<1> DEFINE Z == Int
<1>1. s \in Seq(Z)
  OBVIOUS
<1> HIDE DEF Z
<1>2. /\ Delete(s, i) \in Seq(Z)
      /\ Len(Delete(s, i)) = Len(s) - 1
      /\ \A j \in 1..(Len(s) - 1) :
           Delete(s, i)[j] = IF j < i THEN s[j] ELSE s[j + 1]
  BY <1>1, DeleteIndex
<1> QED
  BY <1>2 DEF Z

-----------------------------------------------------------------------------
EntryType == [fn : Funs, time : Int]

(* The later an entry stands, the later it is due.                         *)
Ordered == \A i, j \in 1..Len(left) : i < j => left[i] <= left[j]

(* timeout's loop: everything before p2 is due earlier than the new call,  *)
(* and t is what is left of it after the calls before p2.                  *)
InsExact ==
  ins # NoIns =>
    /\ ins.fn \in Funs
    /\ ins.asked \in { Abstract!Ticks(t) : t \in Times }
    /\ ins.pos \in 1..(Len(calltodo) + 1)
    /\ ins.t >= 1
    /\ \A j \in 1..(ins.pos - 1) : left[j] < ins.asked
    /\ ins.t = IF ins.pos > 1 /\ left[ins.pos - 1] > 0
                 THEN ins.asked - left[ins.pos - 1] ELSE ins.asked

(* Every entry is on one of the lists or about to be linked in.            *)
AllCounted ==
  /\ nfree + Len(calltodo) + (IF ins = NoIns THEN 0 ELSE 1) = NCALL
  /\ panicked => ins = NoIns /\ nfree = 0

CInv == TypeOK /\ Ordered /\ IncrementsExact /\ InsExact /\ AllCounted

(* The types, entry by entry.                                              *)
LEMMA Types ==
  ASSUME TypeOK
  PROVE  /\ Len(calltodo) \in Nat /\ Len(left) = Len(calltodo)
         /\ DOMAIN calltodo = 1..Len(calltodo) /\ DOMAIN left = 1..Len(calltodo)
         /\ \A j \in 1..Len(calltodo) :
              calltodo[j] \in EntryType /\ calltodo[j].time \in Int
                /\ calltodo[j].fn \in Funs /\ left[j] \in Int
         /\ ins.asked \in Int /\ ins.t \in Int /\ ins.pos \in Nat
         /\ nfree \in Int
<1>1. calltodo \in Seq(EntryType) /\ left \in Seq(Int) /\ Len(left) = Len(calltodo)
  BY DEF TypeOK, EntryType
<1>2. \A j \in 1..Len(calltodo) : calltodo[j] \in EntryType /\ left[j] \in Int
  BY <1>1
<1>3. \A e \in EntryType : e.time \in Int /\ e.fn \in Funs
  BY DEF EntryType
<1>4. Len(calltodo) \in Nat /\ DOMAIN calltodo = 1..Len(calltodo)
      /\ DOMAIN left = 1..Len(calltodo)
  BY <1>1
<1>5. ins.asked \in Int /\ ins.t \in Int /\ ins.pos \in Nat /\ nfree \in Int
  BY CalloutAssumption DEF TypeOK
<1> QED
  BY <1>1, <1>2, <1>3, <1>4, <1>5

(* hardclock's loop goes on to an entry exactly if the one before is due.  *)
LEMMA CountsMeansDue ==
  ASSUME TypeOK, Ordered, IncrementsExact, NEW i \in 1..Len(calltodo)
  PROVE  Counts(i) <=> (i = 1 \/ left[i - 1] <= 0)
<1> DEFINE n == Len(calltodo)
<1>a. n \in Nat /\ \A j \in 1..n : left[j] \in Int /\ calltodo[j].time \in Int
  BY Types
<1>b. \A j, k \in 1..n : j < k => left[j] <= left[k]
  BY Types DEF Ordered
<1>c. \A j \in 1..n : ~ (j > 1 /\ left[j - 1] > 0) => calltodo[j].time = left[j]
  BY Types DEF IncrementsExact
<1> HIDE DEF n
<1>d. i \in 1..n
  BY DEF n
<1>1. ASSUME i = 1 \/ left[i - 1] <= 0
      PROVE  Counts(i)
  <2>1. ASSUME NEW j \in 1..(i - 1)
        PROVE  calltodo[j].time <= 0
    <3>1. j \in 1..n /\ i - 1 \in 1..n /\ left[i - 1] <= 0
      BY <1>a, <1>d, <1>1
    <3>2. left[j] <= 0
      BY <1>a, <1>b, <3>1
    <3>3. ASSUME j > 1, left[j - 1] > 0 PROVE FALSE
      <4>1. j - 1 \in 1..n /\ left[j - 1] \in Int /\ left[j] \in Int
        BY <1>a, <3>1, <3>3
      <4>2. left[j - 1] <= left[j]
        BY <1>b, <3>1, <4>1
      <4> QED
        BY <3>2, <3>3, <4>1, <4>2
    <3>4. ~ (j > 1 /\ left[j - 1] > 0)
      BY <3>3
    <3>5. calltodo[j].time = left[j]
      BY <1>c, <3>1, <3>4
    <3> QED
      BY <3>2, <3>5
  <2> QED
    BY <2>1 DEF Counts, Due
<1>2. ASSUME Counts(i), i # 1, left[i - 1] > 0
      PROVE  FALSE
  <2> DEFINE T == { j \in 1..(i - 1) : left[j] > 0 }
  <2>0. i - 1 \in 1..(i - 1)
    BY <1>2, <1>d, <1>a
  <2>1. T \subseteq Nat /\ T # {}
    <3>1. T \subseteq Nat
      BY <1>d, <1>a
    <3>2. i - 1 \in T
      BY <1>2, <2>0
    <3> QED
      BY <3>1, <3>2
  <2>2. PICK m \in T : \A k \in T : m <= k
    <3> HIDE DEF T
    <3> QED BY <2>1, LeastNat
  <2>3. m \in 1..n /\ m \in 1..(i - 1) /\ left[m] > 0
    BY <1>a, <1>d
  <2>4. ~ (m > 1 /\ left[m - 1] > 0)
    <3> SUFFICES ASSUME m > 1, left[m - 1] > 0 PROVE FALSE
      OBVIOUS
    <3>1. i \in Int /\ m \in Int
      BY <1>a, <1>d, <2>3
    <3>2. m - 1 \in 1..(i - 1)
      BY <2>3, <3>1
    <3>3. m <= m - 1
      BY <2>2, <3>2
    <3> QED
      BY <3>1, <3>3
  <2>5. calltodo[m].time = left[m]
    BY <2>3, <2>4, <1>c
  <2>6. calltodo[m].time <= 0
    BY <1>2, <2>3 DEF Counts, Due
  <2> QED
    BY <2>3, <2>5, <2>6, <1>a
<1>3. i # 1 => left[i - 1] \in Int
  BY <1>a, <1>d
<1> QED
  BY <1>1, <1>2, <1>3

-----------------------------------------------------------------------------
(* The empty list, with every entry on callfree, satisfies the invariant.  *)
LEMMA InitCInv == Init => CInv
<1> SUFFICES ASSUME Init PROVE CInv
  OBVIOUS
<1>1. <<>> \in Seq(EntryType) /\ <<>> \in Seq(Int) /\ Len(<<>>) = 0
  OBVIOUS
<1>2. NoIns \in [fn : Funs \cup {NoFun}, asked : Int, t : Int, pos : Nat]
      /\ Nobody \in [fn : Funs \cup {NoFun}, late : Int]
  BY DEF NoIns, Nobody
<1>3. NCALL \in 0..NCALL
  BY CalloutAssumption
<1>4. TypeOK
  BY <1>1, <1>2, <1>3 DEF Init, TypeOK, EntryType
<1> QED
  BY <1>1, <1>4, CalloutAssumption
     DEF Init, CInv, Ordered, IncrementsExact, InsExact, AllCounted

(* timeout taking an entry off callfree preserves the invariant.           *)
LEMMA TimeoutCInv ==
  ASSUME CInv, NEW f \in Funs, NEW t \in Times, Timeout(f, t)
  PROVE  CInv'
<1> USE CalloutAssumption DEF CInv, Timeout, Interruptible
<1>1. UNCHANGED <<calltodo, left>>
  OBVIOUS
<1>2. CASE nfree = 0
  BY <1>1, <1>2 DEF TypeOK, Ordered, IncrementsExact, InsExact, AllCounted, Nobody
<1>3. CASE nfree # 0
  <2> DEFINE n == IF t <= 0 THEN 1 ELSE t
  <2>1. ins' = [fn |-> f, asked |-> n, t |-> n, pos |-> 1] /\ nfree' = nfree - 1
        /\ panicked' = FALSE /\ n \in Nat /\ n >= 1
    BY <1>3 DEF TypeOK
  <2>2. ins' # NoIns
    BY <2>1 DEF NoIns
  <2>3. n = Abstract!Ticks(t)
    BY DEF Abstract!Ticks
  <2> HIDE DEF n
  <2>4. TypeOK'
    BY <1>1, <1>3, <2>1 DEF TypeOK, Nobody
  <2>5. InsExact'
    BY <1>1, <2>1, <2>3 DEF TypeOK, InsExact
  <2>6. AllCounted'
    BY <1>1, <1>3, <2>1, <2>2 DEF TypeOK, AllCounted
  <2> QED
    BY <1>1, <2>4, <2>5, <2>6 DEF Ordered, IncrementsExact
<1> QED
  BY <1>2, <1>3

(* The arithmetic of a step of timeout's loop: a is what was asked for, t  *)
(* what is left of it, e the increment of the entry, L when that is due, M *)
(* when the one before it is, if there is one (b).                         *)
LEMMA ScanArith ==
  ASSUME NEW a \in Int, NEW t \in Int, NEW e \in Int, NEW L \in Int, NEW M \in Int,
         NEW b \in BOOLEAN,
         e < t, b => M <= L,
         t = IF b /\ M > 0 THEN a - M ELSE a,
         e = IF b /\ M > 0 THEN L - M ELSE L
  PROVE  /\ L < a
         /\ (IF e <= 0 THEN t ELSE t - e) = IF L > 0 THEN a - L ELSE a
<1>1. CASE b /\ M > 0
  BY <1>1
<1>2. CASE ~ (b /\ M > 0)
  BY <1>2
<1> QED
  BY <1>1, <1>2

(* A step of timeout's loop past an entry preserves the invariant.         *)
LEMMA ScanCInv ==
  ASSUME CInv, TimeoutScan
  PROVE  CInv'
<1> USE DEF CInv
<1>1. UNCHANGED <<calltodo, left, nfree, panicked, soft>> /\ called' = Nobody
  BY DEF TimeoutScan
<1> DEFINE k == ins.pos
           e == calltodo[k].time
           n == Len(calltodo)
           u == IF e <= 0 THEN ins.t ELSE ins.t - e
<1>2. ins # NoIns /\ k <= n /\ e < ins.t
  BY DEF TimeoutScan, Scanning
<1>3. /\ k \in 1..n /\ ins.asked \in Int /\ ins.t \in Int /\ e \in Int /\ left[k] \in Int
      /\ n \in Nat /\ ins.fn \in Funs /\ (k > 1 => left[k - 1] \in Int)
  BY <1>2, Types, SMTT(30) DEF InsExact
<1>4. ins' = [fn |-> ins.fn, asked |-> ins.asked, t |-> u, pos |-> k + 1]
  BY Types DEF TypeOK, TimeoutScan, Due
<1>5. u \in Int /\ u >= 1
  BY <1>2, <1>3 DEF InsExact
<1>6. ins.t = IF k > 1 /\ left[k - 1] > 0 THEN ins.asked - left[k - 1] ELSE ins.asked
  BY <1>2 DEF InsExact
<1>7. k > 1 => left[k - 1] <= left[k]
  BY <1>3, Types, SMTT(30) DEF Ordered
<1>8. e = IF k > 1 /\ left[k - 1] > 0 THEN left[k] - left[k - 1] ELSE left[k]
  BY <1>3, Types DEF IncrementsExact
<1>9. left[k] < ins.asked
      /\ u = IF left[k] > 0 THEN ins.asked - left[k] ELSE ins.asked
  <2> DEFINE b == k > 1
             M == IF b THEN left[k - 1] ELSE 0
             a == ins.asked
             t == ins.t
             L == left[k]
  <2>1. a \in Int /\ t \in Int /\ e \in Int /\ L \in Int /\ M \in Int /\ b \in BOOLEAN
    BY <1>3
  <2>2. e < t /\ (b => M <= L)
    BY <1>2, <1>7
  <2>3. t = IF b /\ M > 0 THEN a - M ELSE a
    BY <1>6
  <2>4. e = IF b /\ M > 0 THEN L - M ELSE L
    BY <1>8
  <2>5. u = IF e <= 0 THEN t ELSE t - e
    OBVIOUS
  <2> HIDE DEF b, M, a, t, L, e, u
  <2>6. L < a /\ u = IF L > 0 THEN a - L ELSE a
    BY <2>1, <2>2, <2>3, <2>4, <2>5, ScanArith
  <2> QED
    BY <2>6 DEF L, a
<1>10. \A j \in 1..k : left[j] < ins.asked
  <2>1. \A j \in 1..(k - 1) : left[j] < ins.asked
    BY <1>2 DEF InsExact
  <2>2. \A j \in 1..k : j \in 1..(k - 1) \/ j = k
    BY <1>3
  <2> QED
    BY <2>1, <2>2, <1>9, Zenon
<1>11. ins'.pos = k + 1 /\ ins'.t = u /\ ins'.asked = ins.asked /\ ins'.fn = ins.fn
  BY <1>4
<1> HIDE DEF u, k, e, n
<1>12. TypeOK'
  BY <1>1, <1>3, <1>4, <1>5 DEF TypeOK, Nobody, n
<1>13. InsExact'
  <2>1. k + 1 \in 1..(n + 1) /\ k + 1 > 1 /\ (k + 1) - 1 = k
    BY <1>3
  <2>2. ins.asked \in { Abstract!Ticks(t) : t \in Times }
    BY <1>2 DEF InsExact
  <2> QED
    BY <1>1, <1>3, <1>5, <1>9, <1>10, <1>11, <2>1, <2>2 DEF InsExact, n
<1>14. ins' # NoIns
  BY <1>11, <1>3 DEF NoIns
<1> QED
  BY <1>1, <1>2, <1>12, <1>13, <1>14 DEF Ordered, IncrementsExact, AllCounted

(* The list after TimeoutLink, index by index.                             *)
LEMMA LinkShape ==
  ASSUME CInv, TimeoutLink
  PROVE  LET n == Len(calltodo)
             k == ins.pos
         IN  /\ n \in Nat /\ k \in 1..(n + 1) /\ ins # NoIns
             /\ k <= n => calltodo[k].time >= ins.t
             /\ calltodo' \in Seq(EntryType) /\ Len(calltodo') = n + 1
             /\ left' \in Seq(Int) /\ Len(left') = n + 1
             /\ \A j \in 1..(n + 1) :
                  left'[j] = IF j < k THEN left[j]
                             ELSE IF j = k THEN ins.asked ELSE left[j - 1]
             /\ \A j \in 1..(n + 1) :
                  calltodo'[j].fn = IF j < k THEN calltodo[j].fn
                                    ELSE IF j = k THEN ins.fn ELSE calltodo[j - 1].fn
             /\ \A j \in 1..(n + 1) :
                  calltodo'[j].time = IF j < k THEN calltodo[j].time
                                      ELSE IF j = k THEN ins.t
                                      ELSE IF j = k + 1 THEN calltodo[k].time - ins.t
                                      ELSE calltodo[j - 1].time
<1> DEFINE n == Len(calltodo)
           k == ins.pos
           b == Entry(ins.fn, ins.t)
           l == [ j \in DOMAIN calltodo |->
                    IF j = ins.pos THEN [calltodo[j] EXCEPT !.time = @ - ins.t]
                    ELSE calltodo[j] ]
<1> USE DEF CInv
<1>1. ins # NoIns /\ n \in Nat /\ k \in 1..(n + 1) /\ ins.fn \in Funs
      /\ ins.t \in Int /\ ins.asked \in Int
  BY Types DEF TimeoutLink, InsExact
<1>2. k <= n => calltodo[k].time >= ins.t
  BY <1>1, Types DEF TimeoutLink, Scanning
<1>3. calltodo \in Seq(EntryType) /\ left \in Seq(Int) /\ Len(left) = n
  BY DEF TypeOK, EntryType
<1>4. b \in EntryType /\ b.fn = ins.fn /\ b.time = ins.t
  BY <1>1 DEF Entry, EntryType
<1>5. \A e \in EntryType : \A d \in Int :
        /\ [e EXCEPT !.time = @ - d] \in EntryType
        /\ [e EXCEPT !.time = @ - d].fn = e.fn
        /\ [e EXCEPT !.time = @ - d].time = e.time - d
  BY DEF EntryType
<1>6. \A j \in 1..n : /\ l[j] \in EntryType
                      /\ l[j].fn = calltodo[j].fn
                      /\ l[j].time = IF j = k THEN calltodo[j].time - ins.t
                                      ELSE calltodo[j].time
  BY <1>1, <1>5, Types
<1>7. l \in Seq(EntryType) /\ Len(l) = n
  <2>1. l \in [1..n -> EntryType]
    <3>1. DOMAIN calltodo = 1..n
      BY Types
    <3> QED
      BY <1>6, <3>1
  <2> HIDE DEF l, n
  <2> QED
    BY <1>1, <2>1, IsSeq
<1>8. calltodo' = Insert(l, k, b) /\ left' = Insert(left, k, ins.asked)
  BY DEF TimeoutLink
<1> HIDE DEF l, b
<1>9. /\ calltodo' \in Seq(EntryType) /\ Len(calltodo') = n + 1
      /\ \A j \in 1..(n + 1) :
           calltodo'[j] = IF j < k THEN l[j] ELSE IF j = k THEN b ELSE l[j - 1]
  BY <1>1, <1>4, <1>7, <1>8, InsertIndex, SMTT(30)
<1>10. /\ left' \in Seq(Int) /\ Len(left') = n + 1
       /\ \A j \in 1..(n + 1) :
            left'[j] = IF j < k THEN left[j] ELSE IF j = k THEN ins.asked ELSE left[j - 1]
  <2>1. k \in 1..(Len(left) + 1) /\ ins.asked \in Int /\ left \in Seq(Int)
    BY <1>1, <1>3
  <2> HIDE DEF k
  <2>2. InsertShape(Insert(left, k, ins.asked), left, k, ins.asked)
    BY <2>1, InsertInt, Zenon
  <2> QED
    BY <1>3, <1>8, <2>2 DEF InsertShape
<1>11. ASSUME NEW j \in 1..(n + 1)
       PROVE  /\ calltodo'[j].fn = IF j < k THEN calltodo[j].fn
                                   ELSE IF j = k THEN ins.fn ELSE calltodo[j - 1].fn
              /\ calltodo'[j].time = IF j < k THEN calltodo[j].time
                                     ELSE IF j = k THEN ins.t
                                     ELSE IF j = k + 1 THEN calltodo[k].time - ins.t
                                     ELSE calltodo[j - 1].time
  <2>1. CASE j < k
    <3>1. j \in 1..n
      BY <1>1, <2>1
    <3> QED
      BY <1>1, <1>6, <1>9, <2>1, <3>1
  <2>2. CASE j = k
    BY <1>1, <1>4, <1>9, <2>2
  <2>3. CASE j > k
    <3>1. j - 1 \in 1..n /\ (j - 1 = k <=> j = k + 1)
      BY <1>1, <2>3
    <3> QED
      BY <1>1, <1>6, <1>9, <2>3, <3>1, SMTT(30)
  <2> QED
    BY <1>1, <2>1, <2>2, <2>3
<1> QED
  BY <1>1, <1>2, <1>9, <1>10, <1>11

(* timeout's loop stops before the first entry due no earlier than the new *)
(* call.                                                                   *)
LEMMA LinkPlace ==
  ASSUME CInv, TimeoutLink
  PROVE  \A j \in ins.pos..Len(calltodo) : left[j] >= ins.asked
<1> DEFINE n == Len(calltodo)
           k == ins.pos
           a == ins.asked
<1> USE DEF CInv
<1>1. /\ n \in Nat /\ k \in 1..(n + 1) /\ ins # NoIns
      /\ k <= n => calltodo[k].time >= ins.t
  BY LinkShape
<1>2. \A j \in 1..n : left[j] \in Int /\ calltodo[j].time \in Int
  BY Types
<1>3. a \in Int /\ ins.t \in Int
  BY Types
<1>4. ins.t = IF k > 1 /\ left[k - 1] > 0 THEN a - left[k - 1] ELSE a
  BY <1>1 DEF InsExact
<1>5. \A i, j \in 1..n : i < j => left[i] <= left[j]
  BY Types DEF Ordered
<1>6. \A j \in 1..n :
         calltodo[j].time = IF j > 1 /\ left[j - 1] > 0
                              THEN left[j] - left[j - 1] ELSE left[j]
  BY Types DEF IncrementsExact
<1> HIDE DEF n, k, a
<1>7. ASSUME k <= n PROVE left[k] >= a
  <2>1. k \in 1..n /\ calltodo[k].time >= ins.t
    BY <1>1, <1>7
  <2>2. left[k] \in Int /\ calltodo[k].time \in Int /\ (k > 1 => left[k - 1] \in Int)
    BY <1>1, <1>2, <2>1
  <2>3. calltodo[k].time = IF k > 1 /\ left[k - 1] > 0
                             THEN left[k] - left[k - 1] ELSE left[k]
    BY <1>6, <2>1
  <2> QED
    BY <1>3, <1>4, <2>1, <2>2, <2>3
<1>8. ASSUME NEW j \in k..n PROVE left[j] >= a
  <2>1. j \in 1..n /\ k \in 1..n /\ k <= n
    BY <1>1
  <2>2. k = j \/ left[k] <= left[j]
    BY <1>2, <1>5, <2>1
  <2> QED
    BY <1>2, <1>3, <1>7, <2>1, <2>2
<1> QED
  BY <1>8 DEF n, k, a

(* Linking the new entry in preserves the invariant: it takes its ticks    *)
(* from the increment of the entry it goes before.                         *)
LEMMA LinkCInv ==
  ASSUME CInv, TimeoutLink
  PROVE  CInv'
<1> DEFINE n == Len(calltodo)
           k == ins.pos
           a == ins.asked
<1> USE DEF CInv
<1>1. /\ n \in Nat /\ k \in 1..(n + 1) /\ ins # NoIns
      /\ k <= n => calltodo[k].time >= ins.t
  BY LinkShape
<1>2. \A j \in 1..(n + 1) :
        left'[j] = IF j < k THEN left[j] ELSE IF j = k THEN a ELSE left[j - 1]
  BY LinkShape
<1>3. \A j \in 1..(n + 1) :
        calltodo'[j].time = IF j < k THEN calltodo[j].time
                            ELSE IF j = k THEN ins.t
                            ELSE IF j = k + 1 THEN calltodo[k].time - ins.t
                            ELSE calltodo[j - 1].time
  BY LinkShape
<1>4. Len(calltodo') = n + 1 /\ Len(left') = n + 1 /\ DOMAIN calltodo' = 1..(n + 1)
      /\ ins' = NoIns /\ UNCHANGED <<nfree, soft, panicked>> /\ called' = Nobody
  BY LinkShape DEF TimeoutLink
<1>5. \A j \in 1..n : left[j] \in Int /\ calltodo[j].time \in Int
  BY Types
<1>6. a \in Int /\ a >= 1 /\ ins.t \in Int
  BY <1>1, Types, CalloutAssumption DEF InsExact, Abstract!Ticks
<1>7. ins.t = IF k > 1 /\ left[k - 1] > 0 THEN a - left[k - 1] ELSE a
  BY <1>1 DEF InsExact
<1>8. \A j \in 1..(k - 1) : left[j] < a
  BY <1>1 DEF InsExact
<1>9. \A i, j \in 1..n : i < j => left[i] <= left[j]
  BY Types DEF Ordered
<1>10. \A j \in 1..n :
         calltodo[j].time = IF j > 1 /\ left[j - 1] > 0
                              THEN left[j] - left[j - 1] ELSE left[j]
  BY Types DEF IncrementsExact
<1>11. \A j \in k..n : left[j] >= a
  BY LinkPlace
<1> HIDE DEF n, k, a
<1>12. TypeOK'
  <2>1. calltodo' \in Seq(EntryType) /\ left' \in Seq(Int)
    BY LinkShape
  <2>2. ins' \in [fn : Funs \cup {NoFun}, asked : Int, t : Int, pos : Nat]
        /\ called' \in [fn : Funs \cup {NoFun}, late : Int]
    BY <1>4 DEF NoIns, Nobody
  <2> QED
    BY <1>4, <2>1, <2>2 DEF TypeOK, EntryType
<1>13. Ordered'
  <2> SUFFICES ASSUME NEW i \in 1..(n + 1), NEW j \in 1..(n + 1), i < j
               PROVE  left'[i] <= left'[j]
    BY <1>4 DEF Ordered
  <2>1. CASE j < k
    <3>1. i \in 1..n /\ j \in 1..n /\ i < k
      BY <1>1, <2>1
    <3> QED BY <1>2, <1>9, <2>1, <3>1
  <2>2. CASE j = k
    <3>1. i \in 1..(k - 1) /\ i \in 1..n
      BY <1>1, <2>2
    <3>2. left[i] < a /\ left[i] \in Int
      BY <1>5, <1>8, <3>1
    <3>3. left'[i] = left[i] /\ left'[j] = a
      BY <1>1, <1>2, <2>2, <3>1
    <3> QED BY <1>6, <3>2, <3>3
  <2>3. CASE j > k /\ i < k
    <3>1. i \in 1..(k - 1) /\ i \in 1..n /\ j - 1 \in k..n /\ j - 1 \in 1..n
      BY <1>1, <2>3
    <3>2. left[i] < a /\ left[j - 1] >= a /\ left[i] \in Int /\ left[j - 1] \in Int
      BY <1>5, <1>8, <1>11, <3>1
    <3>3. left'[i] = left[i] /\ left'[j] = left[j - 1]
      BY <1>1, <1>2, <2>3
    <3> QED BY <1>6, <3>2, <3>3
  <2>4. CASE j > k /\ i = k
    <3>1. j - 1 \in k..n
      BY <1>1, <2>4
    <3>2. left'[i] = a /\ left'[j] = left[j - 1]
      BY <1>1, <1>2, <2>4
    <3> QED BY <1>6, <1>11, <3>1, <3>2
  <2>5. CASE j > k /\ i > k
    <3>1. i - 1 \in 1..n /\ j - 1 \in 1..n /\ i - 1 < j - 1
      BY <1>1, <2>5
    <3>2. left'[i] = left[i - 1] /\ left'[j] = left[j - 1]
      BY <1>1, <1>2, <2>5
    <3> QED BY <1>9, <3>1, <3>2
  <2> QED
    BY <1>1, <2>1, <2>2, <2>3, <2>4, <2>5
<1>14. IncrementsExact'
  <2> SUFFICES ASSUME NEW j \in 1..(n + 1)
               PROVE  calltodo'[j].time = IF j > 1 /\ left'[j - 1] > 0
                                            THEN left'[j] - left'[j - 1] ELSE left'[j]
    BY <1>4 DEF IncrementsExact
  <2>0. j > 1 => j - 1 \in 1..(n + 1)
    BY <1>1
  <2>1. CASE j < k
    <3>1. j \in 1..n /\ (j > 1 => j - 1 < k)
      BY <1>1, <2>1
    <3>2. left'[j] = left[j] /\ (j > 1 => left'[j - 1] = left[j - 1])
      BY <1>2, <2>0, <2>1, <3>1
    <3>3. calltodo'[j].time = calltodo[j].time
      BY <1>3, <2>1
    <3> QED BY <1>10, <3>1, <3>2, <3>3
  <2>2. CASE j = k
    <3>1. left'[j] = a /\ (j > 1 => left'[j - 1] = left[j - 1]) /\ calltodo'[j].time = ins.t
      BY <1>1, <1>2, <1>3, <2>0, <2>2
    <3> QED BY <1>7, <2>2, <3>1
  <2>3. CASE j = k + 1
    <3>1. k \in 1..n /\ j > 1 /\ j - 1 = k
      BY <1>1, <2>3
    <3>2. left'[j] = left[k] /\ left'[j - 1] = a /\ calltodo'[j].time = calltodo[k].time - ins.t
      BY <1>1, <1>2, <1>3, <2>0, <2>3, <3>1
    <3>3. calltodo[k].time - ins.t = left[k] - a
      <4>1. calltodo[k].time = IF k > 1 /\ left[k - 1] > 0
                                 THEN left[k] - left[k - 1] ELSE left[k]
        BY <1>10, <3>1
      <4>2. left[k] \in Int /\ calltodo[k].time \in Int /\ (k > 1 => left[k - 1] \in Int)
        BY <1>1, <1>5, <3>1
      <4> QED BY <1>6, <1>7, <4>1, <4>2
    <3> QED BY <1>6, <3>1, <3>2, <3>3
  <2>4. CASE j > k + 1
    <3>1. j - 1 \in 1..n /\ j - 1 > 1 /\ (j - 1) - 1 \in 1..n /\ j - 1 > k /\ j # k + 1
      BY <1>1, <2>4
    <3>2. left'[j] = left[j - 1] /\ left'[j - 1] = left[(j - 1) - 1]
          /\ calltodo'[j].time = calltodo[j - 1].time
      BY <1>1, <1>2, <1>3, <2>0, <2>4, <3>1
    <3> QED BY <1>10, <3>1, <3>2
  <2> QED
    BY <1>1, <2>1, <2>2, <2>3, <2>4
<1>15. AllCounted'
  <2>1. nfree + n + 1 = NCALL /\ ~ panicked /\ nfree \in Int
    BY <1>1, Types DEF AllCounted, n
  <2> QED
    BY <1>1, <1>4, <2>1, CalloutAssumption DEF AllCounted
<1>16. InsExact'
  BY <1>4 DEF InsExact
<1> QED
  BY <1>12, <1>13, <1>14, <1>15, <1>16

(* The arithmetic of a deletion: C are the increments and L the ticks left *)
(* before it, D and M after it; entry i + 1 gets the increment of entry i, *)
(* unless that was due.                                                    *)
Sorted(L, n) == \A i, j \in 1..n : i < j => L[i] <= L[j]
Exact(C, L, n) ==
  \A j \in 1..n : C[j] = IF j > 1 /\ L[j - 1] > 0 THEN L[j] - L[j - 1] ELSE L[j]

(* Such a deletion keeps the increments exact.                             *)
LEMMA DeleteArith ==
  ASSUME NEW n \in Nat, NEW i \in 1..n,
         NEW C, NEW L, NEW D, NEW M,
         \A j \in 1..n : C[j] \in Int /\ L[j] \in Int,
         Sorted(L, n), Exact(C, L, n),
         \A j \in 1..(n - 1) : M[j] = IF j < i THEN L[j] ELSE L[j + 1],
         \A j \in 1..(n - 1) :
           D[j] = IF j < i THEN C[j]
                  ELSE IF j = i /\ C[i] > 0 THEN C[j + 1] + C[i] ELSE C[j + 1]
  PROVE  Sorted(M, n - 1) /\ Exact(D, M, n - 1)
<1>1. ASSUME NEW j \in 1..(n - 1), NEW k \in 1..(n - 1), j < k
      PROVE  M[j] <= M[k]
  <2>1. j \in 1..n /\ j + 1 \in 1..n /\ k \in 1..n /\ k + 1 \in 1..n
    OBVIOUS
  <2>2. CASE k < i
    BY <1>1, <2>1, <2>2 DEF Sorted
  <2>3. CASE j < i /\ ~ (k < i)
    BY <1>1, <2>1, <2>3 DEF Sorted
  <2>4. CASE ~ (j < i)
    BY <1>1, <2>1, <2>4 DEF Sorted
  <2> QED
    BY <2>2, <2>3, <2>4
<1>2. ASSUME NEW j \in 1..(n - 1)
      PROVE  D[j] = IF j > 1 /\ M[j - 1] > 0 THEN M[j] - M[j - 1] ELSE M[j]
  <2>1. j \in 1..n /\ j + 1 \in 1..n /\ (j > 1 => j - 1 \in 1..n /\ j - 1 \in 1..(n - 1))
    OBVIOUS
  <2>2. CASE j < i
    BY <2>1, <2>2 DEF Exact
  <2>3. CASE j = i
    <3>1. C[i] = IF i > 1 /\ L[i - 1] > 0 THEN L[i] - L[i - 1] ELSE L[i]
      BY DEF Exact
    <3>2. C[i + 1] = IF L[i] > 0 THEN L[i + 1] - L[i] ELSE L[i + 1]
      BY <2>1, <2>3 DEF Exact
    <3>3. L[i] \in Int /\ L[i + 1] \in Int /\ (i > 1 => L[i - 1] \in Int /\ L[i - 1] <= L[i])
      BY <2>1, <2>3 DEF Sorted
    <3>4. M[j] = L[i + 1] /\ (i > 1 => M[j - 1] = L[i - 1])
      BY <2>1, <2>3
    <3>5. D[j] = IF C[i] > 0 THEN C[i + 1] + C[i] ELSE C[i + 1]
      BY <2>1, <2>3
    <3> QED
      BY <2>3, <3>1, <3>2, <3>3, <3>4, <3>5
  <2>4. CASE j > i
    <3>1. D[j] = C[j + 1] /\ M[j] = L[j + 1] /\ M[j - 1] = L[j] /\ j > 1
      BY <2>1, <2>4
    <3> QED
      BY <2>1, <3>1 DEF Exact
  <2> QED
    BY <2>2, <2>3, <2>4
<1> QED
  BY <1>1, <1>2 DEF Sorted, Exact

(* The invariant after the i-th entry is deleted from l, the list with the *)
(* increment of entry i passed on.                                         *)
LEMMA DeleteCInv ==
  ASSUME CInv, ins = NoIns, ~ panicked,
         NEW i \in 1..Len(calltodo), NEW l \in Seq(EntryType),
         Len(l) = Len(calltodo),
         \A j \in 1..Len(calltodo) :
           l[j].time = IF j = i + 1 /\ ~ Due(i)
                         THEN calltodo[j].time + calltodo[i].time ELSE calltodo[j].time,
         calltodo' = Delete(l, i), left' = Delete(left, i),
         nfree' = nfree + 1, UNCHANGED <<ins, soft, panicked>>,
         called' \in [fn : Funs \cup {NoFun}, late : Int]
  PROVE  CInv'
<1> DEFINE n == Len(calltodo)
           C == [j \in 1..n |-> calltodo[j].time]
           D == [j \in 1..(n - 1) |-> calltodo'[j].time]
<1> USE DEF CInv
<1>1. n \in Nat /\ i \in 1..n /\ Len(left) = n /\ left \in Seq(Int)
  BY Types DEF TypeOK
<1>2. \A j \in 1..n : C[j] \in Int /\ left[j] \in Int
  BY Types
<1>3. /\ calltodo' \in Seq(EntryType) /\ Len(calltodo') = n - 1
      /\ \A j \in 1..(n - 1) : calltodo'[j] = IF j < i THEN l[j] ELSE l[j + 1]
  BY DeleteIndex, ZenonT(60)
<1>4. /\ left' \in Seq(Int) /\ Len(left') = n - 1
      /\ \A j \in 1..(n - 1) : left'[j] = IF j < i THEN left[j] ELSE left[j + 1]
  BY <1>1, DeleteInt, ZenonT(60)
<1>5. Sorted(left, n) /\ Exact(C, left, n)
  BY Types DEF Ordered, IncrementsExact, Sorted, Exact
<1>6. \A j \in 1..n :
        l[j].time = IF j = i + 1 /\ C[i] > 0 THEN C[j] + C[i] ELSE C[j]
  BY <1>1, <1>2 DEF Due
<1>7. \A j \in 1..(n - 1) :
        D[j] = IF j < i THEN C[j]
               ELSE IF j = i /\ C[i] > 0 THEN C[j + 1] + C[i] ELSE C[j + 1]
  <2> SUFFICES ASSUME NEW j \in 1..(n - 1)
               PROVE  D[j] = IF j < i THEN C[j]
                             ELSE IF j = i /\ C[i] > 0 THEN C[j + 1] + C[i] ELSE C[j + 1]
    OBVIOUS
  <2>1. D[j] = calltodo'[j].time /\ j \in 1..n /\ j + 1 \in 1..n
    BY <1>1
  <2>2. D[j] = IF j < i THEN l[j].time ELSE l[j + 1].time
    BY <1>3, <2>1
  <2>3. (j + 1 = i + 1 <=> j = i) /\ (j < i => j # i + 1)
    BY <1>1, <2>1, SMTT(30)
  <2> HIDE DEF C, D, n
  <2> QED
    BY <1>6, <2>1, <2>2, <2>3
<1> HIDE DEF C
<1>8. Sorted(left', n - 1) /\ Exact(D, left', n - 1)
  <2> HIDE DEF n, D
  <2> QED
    BY <1>1, <1>2, <1>4, <1>5, <1>7, DeleteArith, ZenonT(60)
<1>9. Ordered'
  BY <1>4, <1>8 DEF Ordered, Sorted
<1>10. IncrementsExact'
  <2>1. DOMAIN calltodo' = 1..(n - 1)
    BY <1>1, <1>3
  <2>2. \A j \in 1..(n - 1) : D[j] = calltodo'[j].time
    OBVIOUS
  <2> HIDE DEF D, n
  <2> QED
    BY <1>8, <2>1, <2>2 DEF IncrementsExact, Exact
<1> HIDE DEF n, D
<1>11. TypeOK'
  <2>1. nfree \in 0..NCALL /\ nfree + n = NCALL
    BY DEF TypeOK, AllCounted, n
  <2>2. nfree' \in 0..NCALL
    BY <1>1, <2>1, CalloutAssumption
  <2> QED
    BY <1>3, <1>4, <2>2 DEF TypeOK, EntryType
<1>12. AllCounted'
  <2>1. nfree + n = NCALL /\ nfree \in Int
    BY Types DEF AllCounted, n
  <2> QED
    BY <1>1, <1>3, <2>1, CalloutAssumption DEF AllCounted
<1>13. InsExact'
  BY DEF InsExact
<1> QED
  BY <1>9, <1>10, <1>11, <1>12, <1>13

(* PassOn is the list that DeleteCInv wants.                               *)
LEMMA PassOnShape ==
  ASSUME TypeOK, NEW i \in 1..Len(calltodo)
  PROVE  /\ PassOn(i) \in Seq(EntryType) /\ Len(PassOn(i)) = Len(calltodo)
         /\ \A j \in 1..Len(calltodo) :
              /\ PassOn(i)[j].fn = calltodo[j].fn
              /\ PassOn(i)[j].time = IF j = i + 1 /\ ~ Due(i)
                                       THEN calltodo[j].time + calltodo[i].time
                                       ELSE calltodo[j].time
<1> DEFINE n == Len(calltodo)
           l == PassOn(i)
           d == calltodo[i].time
<1>1. n \in Nat /\ DOMAIN calltodo = 1..n /\ d \in Int
      /\ \A j \in 1..n : calltodo[j] \in EntryType
  BY Types
<1>2. \A e \in EntryType :
        /\ [e EXCEPT !.time = @ + d] \in EntryType
        /\ [e EXCEPT !.time = @ + d].fn = e.fn
        /\ [e EXCEPT !.time = @ + d].time = e.time + d
  BY <1>1 DEF EntryType
<1>3. l = [ j \in 1..n |-> IF j = i + 1 /\ ~ Due(i)
                              THEN [calltodo[j] EXCEPT !.time = @ + d] ELSE calltodo[j] ]
  BY <1>1 DEF PassOn
<1> HIDE DEF n, d, l
<1>4. \A j \in 1..n : /\ l[j] \in EntryType
                      /\ l[j].fn = calltodo[j].fn
                      /\ l[j].time = IF j = i + 1 /\ ~ Due(i)
                                       THEN calltodo[j].time + d ELSE calltodo[j].time
  BY <1>1, <1>2, <1>3
<1>5. l \in [1..n -> EntryType]
  BY <1>3, <1>4
<1>6. l \in Seq(EntryType) /\ Len(l) = n
  BY <1>1, <1>5, IsSeq
<1> QED
  BY <1>4, <1>6 DEF n, d, l

(* untimeout preserves the invariant.                                      *)
LEMMA UntimeoutCInv ==
  ASSUME CInv, NEW f \in Funs, Untimeout(f)
  PROVE  CInv'
<1>1. TypeOK /\ DOMAIN calltodo = 1..Len(calltodo)
  BY Types DEF CInv
<1>2. PICK i \in 1..Len(calltodo) :
        calltodo' = Delete(PassOn(i), i) /\ left' = Delete(left, i)
  BY <1>1 DEF Untimeout
<1>3. /\ ins = NoIns /\ ~ panicked /\ nfree' = nfree + 1
      /\ UNCHANGED <<ins, soft, panicked>>
      /\ called' \in [fn : Funs \cup {NoFun}, late : Int]
  BY DEF Untimeout, Interruptible, Nobody
<1> QED
  BY <1>1, <1>2, <1>3, PassOnShape, DeleteCInv

(* softclock unlinking a due entry preserves the invariant: nothing that is *)
(* due is passed on.                                                       *)
LEMMA SoftclockCInv ==
  ASSUME CInv, Softclock
  PROVE  CInv'
<1>1. TypeOK /\ calltodo \in Seq(EntryType) /\ Len(calltodo) \in Nat
  BY Types DEF CInv, TypeOK, EntryType
<1>2. 1 \in 1..Len(calltodo) /\ Due(1)
  BY <1>1 DEF Softclock, DueNow
<1>3. calltodo[1].fn \in Funs /\ calltodo[1].time \in Int
  BY <1>1, <1>2, Types
<1>4. /\ ins = NoIns /\ ~ panicked /\ nfree' = nfree + 1
      /\ UNCHANGED <<ins, soft, panicked>>
      /\ calltodo' = Delete(calltodo, 1) /\ left' = Delete(left, 1)
  BY DEF Softclock, Interruptible
<1>5. called' \in [fn : Funs \cup {NoFun}, late : Int]
  BY <1>3 DEF Softclock
<1>6. \A j \in 1..Len(calltodo) :
        calltodo[j].time = IF j = 1 + 1 /\ ~ Due(1)
                             THEN calltodo[j].time + calltodo[1].time
                             ELSE calltodo[j].time
  BY <1>2
<1> QED
  BY <1>1, <1>2, <1>4, <1>5, <1>6, DeleteCInv

(* The arithmetic of a tick: an entry is decremented if the one before it  *)
(* is due.                                                                 *)
LEMMA TickArith ==
  ASSUME NEW n \in Nat, NEW C, NEW L, NEW D, NEW M,
         \A j \in 1..n : C[j] \in Int /\ L[j] \in Int,
         Sorted(L, n), Exact(C, L, n),
         \A j \in 1..n : M[j] = L[j] - 1,
         \A j \in 1..n : D[j] = IF j = 1 \/ L[j - 1] <= 0 THEN C[j] - 1 ELSE C[j]
  PROVE  Sorted(M, n) /\ Exact(D, M, n)
<1>1. Sorted(M, n)
  <2> SUFFICES ASSUME NEW j \in 1..n, NEW k \in 1..n, j < k
               PROVE  M[j] <= M[k]
    BY DEF Sorted
  <2>1. L[j] \in Int /\ L[k] \in Int /\ L[j] <= L[k]
    BY DEF Sorted
  <2>2. M[j] = L[j] - 1 /\ M[k] = L[k] - 1
    OBVIOUS
  <2> QED
    BY <2>1, <2>2
<1>2. ASSUME NEW j \in 1..n
      PROVE  D[j] = IF j > 1 /\ M[j - 1] > 0 THEN M[j] - M[j - 1] ELSE M[j]
  <2>1. CASE j = 1
    <3>1. C[j] = L[j] /\ D[j] = C[j] - 1 /\ M[j] = L[j] - 1
      BY <2>1 DEF Exact
    <3> QED
      BY <2>1, <3>1
  <2>2. CASE j > 1
    <3>1. j - 1 \in 1..n
      BY <2>2
    <3>2. /\ L[j] \in Int /\ L[j - 1] \in Int /\ C[j] \in Int
          /\ M[j] = L[j] - 1 /\ M[j - 1] = L[j - 1] - 1
      BY <3>1
    <3>3. C[j] = IF L[j - 1] > 0 THEN L[j] - L[j - 1] ELSE L[j]
      BY <2>2 DEF Exact
    <3>4. D[j] = IF L[j - 1] <= 0 THEN C[j] - 1 ELSE C[j]
      BY <2>2
    <3> QED
      BY <2>2, <3>2, <3>3, <3>4
  <2> QED
    BY <2>1, <2>2
<1> QED
  BY <1>1, <1>2 DEF Exact

(* A tick preserves the invariant.                                         *)
LEMMA HardclockCInv ==
  ASSUME CInv, NEW basepri \in BOOLEAN, Hardclock(basepri)
  PROVE  CInv'
<1> DEFINE n == Len(calltodo)
           C == [j \in 1..n |-> calltodo[j].time]
           D == [j \in 1..n |-> calltodo'[j].time]
<1> USE DEF CInv
<1>1. /\ n \in Nat /\ DOMAIN calltodo = 1..n /\ DOMAIN left = 1..n
      /\ \A j \in 1..n : C[j] \in Int /\ left[j] \in Int /\ calltodo[j] \in EntryType
  BY Types
<1>2. calltodo' = [ j \in 1..n |->
                      IF Counts(j) THEN [calltodo[j] EXCEPT !.time = @ - 1] ELSE calltodo[j] ]
      /\ left' = [ j \in 1..n |-> left[j] - 1 ]
  BY <1>1 DEF Hardclock
<1>3. \A e \in EntryType :
        [e EXCEPT !.time = @ - 1] \in EntryType /\ [e EXCEPT !.time = @ - 1].time = e.time - 1
  BY DEF EntryType
<1>4. \A j \in 1..n : /\ calltodo'[j] \in EntryType
                      /\ calltodo'[j].time = IF Counts(j) THEN calltodo[j].time - 1
                                             ELSE calltodo[j].time
  BY <1>1, <1>2, <1>3
<1>5. \A j \in 1..n : Counts(j) <=> (j = 1 \/ left[j - 1] <= 0)
  BY CountsMeansDue
<1>6. \A j \in 1..n : C[j] = calltodo[j].time /\ D[j] = calltodo'[j].time
  OBVIOUS
<1>7. Sorted(left, n) /\ Exact(C, left, n)
  BY Types DEF Ordered, IncrementsExact, Sorted, Exact
<1> HIDE DEF n, C, D
<1>8. \A j \in 1..n : D[j] = IF j = 1 \/ left[j - 1] <= 0 THEN C[j] - 1 ELSE C[j]
  BY <1>4, <1>5, <1>6
<1>9. Sorted(left', n) /\ Exact(D, left', n)
  <2>1. \A j \in 1..n : left'[j] = left[j] - 1
    BY <1>2
  <2>2. \A j \in 1..n : C[j] \in Int /\ left[j] \in Int
    BY <1>1
  <2>3. n \in Nat
    BY <1>1
  <2> QED
    BY <2>1, <2>2, <2>3, <1>7, <1>8, TickArith
<1>10. /\ calltodo' \in Seq(EntryType) /\ Len(calltodo') = n
       /\ left' \in Seq(Int) /\ Len(left') = n /\ DOMAIN calltodo' = 1..n
  <2>1. calltodo' \in [1..n -> EntryType]
    BY <1>2, <1>4
  <2>2. left' \in [1..n -> Int]
    BY <1>1, <1>2
  <2>3. calltodo' \in Seq(EntryType) /\ Len(calltodo') = n
    BY <1>1, <2>1, IsSeq
  <2>4. left' \in Seq(Int) /\ Len(left') = n
    BY <1>1, <2>2
  <2> QED
    BY <1>2, <2>3, <2>4
<1>11. Ordered' /\ IncrementsExact'
  BY <1>6, <1>9, <1>10 DEF Ordered, IncrementsExact, Sorted, Exact
<1>12. UNCHANGED <<nfree, ins, panicked>> /\ ins = NoIns /\ called' = Nobody
  BY DEF Hardclock, Interruptible
<1>13. soft' \in BOOLEAN
  BY DEF Hardclock
<1>14. TypeOK'
  BY <1>10, <1>12, <1>13 DEF TypeOK, EntryType, Nobody
<1>15. AllCounted' /\ InsExact'
  BY <1>10, <1>12 DEF AllCounted, InsExact, n
<1> QED
  BY <1>11, <1>14, <1>15

(* The end of softclock preserves the invariant.                           *)
LEMMA SoftclockDoneCInv ==
  ASSUME CInv, SoftclockDone
  PROVE  CInv'
<1>1. UNCHANGED <<calltodo, nfree, ins, panicked, left>> /\ soft' = FALSE /\ called' = Nobody
  BY DEF SoftclockDone
<1>2. TypeOK'
  <2>1. called' \in [fn : Funs \cup {NoFun}, late : Int]
    <3>1. called' = Nobody
      BY <1>1, Zenon
    <3> QED
      BY <3>1 DEF Nobody
  <2>2. soft' \in BOOLEAN
    BY <1>1, Zenon
  <2> QED
    BY <1>1, <2>1, <2>2, Zenon DEF CInv, TypeOK
<1>3. Ordered' /\ IncrementsExact'
  BY <1>1 DEF CInv, Ordered, IncrementsExact
<1>4. InsExact' /\ AllCounted'
  BY <1>1 DEF CInv, InsExact, AllCounted
<1> QED
  BY <1>2, <1>3, <1>4 DEF CInv

(* So does a step that changes nothing.                                    *)
LEMMA StutterCInv == CInv /\ UNCHANGED vars => CInv'
BY DEF CInv, TypeOK, Ordered, IncrementsExact, InsExact, AllCounted, vars

(* The invariant holds throughout: every step of timeout's loop, ticks and *)
(* cancellations in any order preserve it.                                 *)
THEOREM CalloutInvariance == Spec => []CInv
<1>1. CInv /\ [Next]_vars => CInv'
  <2> SUFFICES ASSUME CInv, [Next]_vars PROVE CInv'
    OBVIOUS
  <2>1. CASE \E f \in Funs : Untimeout(f) \/ \E t \in Times : Timeout(f, t)
    BY <2>1, UntimeoutCInv, TimeoutCInv
  <2>2. CASE TimeoutScan
    BY <2>2, ScanCInv
  <2>3. CASE TimeoutLink
    BY <2>3, LinkCInv
  <2>4. CASE \E basepri \in BOOLEAN : Hardclock(basepri)
    BY <2>4, HardclockCInv
  <2>5. CASE Softclock
    BY <2>5, SoftclockCInv
  <2>6. CASE SoftclockDone
    BY <2>6, SoftclockDoneCInv
  <2>7. CASE UNCHANGED vars
    BY <2>7, StutterCInv
  <2> QED
    BY <2>1, <2>2, <2>3, <2>4, <2>5, <2>6, <2>7 DEF Next
<1> QED
  BY <1>1, InitCInv, PTL DEF Spec

(* The variables of the callout table keep their types.                    *)
THEOREM CalloutTypes == Spec => []TypeOK
<1>1. CInv => TypeOK
  BY DEF CInv
<1> QED
  BY <1>1, CalloutInvariance, PTL

(* The increments of the list always add up to the ticks left.             *)
THEOREM CalloutIncrements == Spec => []IncrementsExact
<1>1. CInv => IncrementsExact
  BY DEF CInv
<1> QED
  BY <1>1, CalloutInvariance, PTL

(* timeout panics only when every entry of the table is in use: no order   *)
(* of calls leaks one.                                                     *)
THEOREM CalloutPanic == Spec => []PanicOnlyWhenFull
<1>1. CInv => PanicOnlyWhenFull
  <2> SUFFICES ASSUME CInv, panicked PROVE Len(calltodo) = NCALL
    BY DEF PanicOnlyWhenFull
  <2>1. Len(calltodo) \in Nat
    BY Types DEF CInv
  <2> QED
    BY <2>1, CalloutAssumption DEF CInv, AllCounted
<1> QED
  BY <1>1, CalloutInvariance, PTL

-----------------------------------------------------------------------------
(* The abstract list of pending calls.                                     *)
Pend == [ i \in DOMAIN calltodo |-> [fn |-> calltodo[i].fn, left |-> left[i]] ]

(* The pending calls, one by one, before and after a step.                 *)
LEMMA PendShape ==
  ASSUME TypeOK, TypeOK'
  PROVE  /\ DOMAIN Pend = 1..Len(calltodo) /\ Len(Pend) = Len(calltodo)
         /\ Pend' = [ i \in 1..Len(calltodo') |->
                        [fn |-> calltodo'[i].fn, left |-> left'[i]] ]
         /\ \A i \in 1..Len(calltodo) :
              Pend[i].fn = calltodo[i].fn /\ Pend[i].left = left[i]
                /\ Pend[i] = [fn |-> calltodo[i].fn, left |-> left[i]]
<1>1. DOMAIN calltodo = 1..Len(calltodo) /\ Len(calltodo) \in Nat
      /\ DOMAIN calltodo' = 1..Len(calltodo')
  BY DEF TypeOK
<1> QED
  BY <1>1 DEF Pend

(* A deletion at the same place in both lists deletes the pending call.    *)
LEMMA PendDelete ==
  ASSUME TypeOK, TypeOK', NEW i \in 1..Len(calltodo), NEW l \in Seq(EntryType),
         Len(l) = Len(calltodo),
         \A j \in 1..Len(calltodo) : l[j].fn = calltodo[j].fn,
         calltodo' = Delete(l, i), left' = Delete(left, i)
  PROVE  Pend' = Delete(Pend, i)
<1> DEFINE n == Len(calltodo)
<1>1. n \in Nat /\ left \in Seq(Int) /\ Len(left) = n
  BY Types DEF TypeOK
<1>2. /\ Len(calltodo') = n - 1
      /\ \A j \in 1..(n - 1) : calltodo'[j] = IF j < i THEN l[j] ELSE l[j + 1]
  <2>1. l \in Seq(EntryType) /\ i \in 1..Len(l) /\ Len(l) = n /\ calltodo' = Delete(l, i)
    BY Zenon
  <2>2. /\ Len(Delete(l, i)) = Len(l) - 1
        /\ \A j \in 1..(Len(l) - 1) : Delete(l, i)[j] = IF j < i THEN l[j] ELSE l[j + 1]
    BY <2>1, DeleteIndex, Zenon
  <2> HIDE DEF n
  <2> QED
    BY <2>1, <2>2, Zenon
<1>3. \A j \in 1..(n - 1) : left'[j] = IF j < i THEN left[j] ELSE left[j + 1]
  BY <1>1, DeleteInt
<1>4. Delete(Pend, i) = [ j \in 1..(n - 1) |-> IF j < i THEN Pend[j] ELSE Pend[j + 1] ]
  BY PendShape DEF Delete
<1>5. ASSUME NEW j \in 1..(n - 1)
      PROVE  [fn |-> calltodo'[j].fn, left |-> left'[j]]
               = IF j < i THEN Pend[j] ELSE Pend[j + 1]
  <2>1. j \in 1..n /\ j + 1 \in 1..n
    BY <1>1
  <2>2. calltodo'[j].fn = IF j < i THEN calltodo[j].fn ELSE calltodo[j + 1].fn
    BY <1>2, <2>1
  <2>3. left'[j] = IF j < i THEN left[j] ELSE left[j + 1]
    BY <1>3
  <2> QED
    BY <2>1, <2>2, <2>3, PendShape
<1>6. Pend' = [ j \in 1..(n - 1) |-> [fn |-> calltodo'[j].fn, left |-> left'[j]] ]
  BY <1>2, PendShape
<1> QED
  BY <1>4, <1>5, <1>6

(* untimeout is the cancellation of a pending call.                        *)
LEMMA CancelStep ==
  ASSUME CInv, CInv', NEW f \in Funs, Untimeout(f)
  PROVE  Abstract!Cancel(f)
<1>1. TypeOK /\ TypeOK' /\ DOMAIN calltodo = 1..Len(calltodo)
  BY Types DEF CInv
<1>2. PICK i \in 1..Len(calltodo) :
        /\ calltodo[i].fn = f
        /\ \A j \in 1..(i - 1) : calltodo[j].fn # f
        /\ calltodo' = Delete(PassOn(i), i) /\ left' = Delete(left, i)
  BY <1>1 DEF Untimeout
<1>3. Pend' = Delete(Pend, i)
  BY <1>1, <1>2, PassOnShape, PendDelete
<1>4. /\ i \in DOMAIN Pend /\ Pend[i].fn = f
      /\ \A j \in 1..(i - 1) : Pend[j].fn # f
  <2>1. \A j \in 1..(i - 1) : j \in 1..Len(calltodo)
    BY <1>1, Types
  <2> QED
    BY <1>1, <1>2, <2>1, PendShape
<1>5. called' = Nobody
  BY DEF Untimeout
<1> QED
  BY <1>3, <1>4, <1>5, Zenon
     DEF Abstract!Cancel, Abstract!Delete, Delete, Abstract!Nobody, Nobody, Pend

(* A turn of softclock makes the first call, which is due.                 *)
LEMMA ExpireStep ==
  ASSUME CInv, CInv', Softclock
  PROVE  Abstract!Expire
<1>1. TypeOK /\ TypeOK' /\ calltodo \in Seq(EntryType)
  BY DEF CInv, TypeOK, EntryType
<1>2. 1 \in 1..Len(calltodo) /\ calltodo[1].time <= 0
  BY <1>1, Types DEF Softclock, DueNow, Due
<1>3. calltodo[1].time = left[1]
  BY <1>1, <1>2, Types DEF CInv, IncrementsExact
<1>4. Pend' = Delete(Pend, 1)
  BY <1>1, <1>2, PendDelete DEF Softclock
<1>5. Pend # <<>> /\ Pend[1].left <= 0
  BY <1>1, <1>2, <1>3, PendShape
<1>6. called' = [fn |-> Pend[1].fn, late |-> - Pend[1].left]
  BY <1>1, <1>2, <1>3, PendShape DEF Softclock
<1> QED
  BY <1>4, <1>5, <1>6 DEF Abstract!Expire, Abstract!Delete, Delete, Pend

(* hardclock is a tick of every pending call.                              *)
LEMMA TickStep ==
  ASSUME CInv, CInv', NEW basepri \in BOOLEAN, Hardclock(basepri)
  PROVE  Abstract!Tick
<1> DEFINE n == Len(calltodo)
<1>1. TypeOK /\ TypeOK' /\ n \in Nat /\ DOMAIN calltodo = 1..n /\ DOMAIN left = 1..n
      /\ \A j \in 1..n : calltodo[j] \in EntryType
  BY Types DEF CInv
<1>2. \A e \in EntryType : [e EXCEPT !.time = @ - 1].fn = e.fn
  BY DEF EntryType
<1>3. calltodo' = [ j \in 1..n |->
                      IF Counts(j) THEN [calltodo[j] EXCEPT !.time = @ - 1] ELSE calltodo[j] ]
      /\ left' = [ j \in 1..n |-> left[j] - 1 ] /\ called' = Nobody
  BY <1>1 DEF Hardclock
<1>4. \A j \in 1..n : calltodo'[j].fn = calltodo[j].fn /\ left'[j] = left[j] - 1
  BY <1>1, <1>2, <1>3
<1>5. Len(calltodo') = n
  <2>1. DOMAIN calltodo' = 1..n /\ calltodo' \in Seq(EntryType)
    BY <1>1, <1>3 DEF TypeOK, EntryType
  <2> QED
    BY <1>1, <2>1
<1>6. Pend' = [ i \in DOMAIN Pend |-> [Pend[i] EXCEPT !.left = @ - 1] ]
  <2>1. Pend' = [ i \in 1..n |-> [fn |-> calltodo'[i].fn, left |-> left'[i]] ]
    BY <1>1, <1>5, PendShape
  <2>2. ASSUME NEW i \in 1..n
        PROVE  [fn |-> calltodo'[i].fn, left |-> left'[i]] = [Pend[i] EXCEPT !.left = @ - 1]
    <3>1. Pend[i] = [fn |-> calltodo[i].fn, left |-> left[i]]
      BY <1>1, PendShape
    <3> QED
      BY <1>4, <3>1
  <2> QED
    BY <1>1, <2>1, <2>2, PendShape
<1> QED
  BY <1>3, <1>6 DEF Abstract!Tick, Abstract!Nobody, Nobody, Pend

(* timeout's loop ends where the abstract list takes the new call: it is   *)
(* due after all before it and no later than those behind it.              *)
LEMMA SetStep ==
  ASSUME CInv, CInv', TimeoutLink
  PROVE  \E f \in Funs, t \in Times : Abstract!Set(f, t)
<1> DEFINE n == Len(calltodo)
           k == ins.pos
           a == ins.asked
<1>1. TypeOK /\ TypeOK'
  BY DEF CInv
<1>2. /\ n \in Nat /\ k \in 1..(n + 1) /\ ins # NoIns /\ Len(calltodo') = n + 1
      /\ k <= n => calltodo[k].time >= ins.t
  BY LinkShape
<1>3. \A j \in 1..(n + 1) :
        left'[j] = IF j < k THEN left[j] ELSE IF j = k THEN a ELSE left[j - 1]
  BY LinkShape
<1>4. \A j \in 1..(n + 1) :
        calltodo'[j].fn = IF j < k THEN calltodo[j].fn
                          ELSE IF j = k THEN ins.fn ELSE calltodo[j - 1].fn
  BY LinkShape
<1>5. /\ ins.fn \in Funs /\ a \in Int /\ ins.t \in Int
      /\ ins.t = IF k > 1 /\ left[k - 1] > 0 THEN a - left[k - 1] ELSE a
      /\ \A j \in 1..(k - 1) : left[j] < a
  BY <1>1, <1>2, Types DEF CInv, InsExact
<1>6. PICK t \in Times : a = Abstract!Ticks(t)
  BY <1>2 DEF CInv, InsExact
<1>7. \A j \in k..n : left[j] >= a
  BY LinkPlace
<1>10. called' = Nobody
  BY DEF TimeoutLink
<1>11. /\ DOMAIN Pend = 1..n /\ Len(Pend) = n
       /\ \A i \in 1..n : Pend[i].left = left[i]
                           /\ Pend[i] = [fn |-> calltodo[i].fn, left |-> left[i]]
       /\ Pend' = [ i \in 1..(n + 1) |-> [fn |-> calltodo'[i].fn, left |-> left'[i]] ]
  BY <1>1, <1>2, PendShape
<1> HIDE DEF n, k, a
<1> DEFINE e == [fn |-> ins.fn, left |-> a]
<1>13. Pend' = Insert(Pend, k, e)
  <2>1. Insert(Pend, k, e)
          = [ j \in 1..(n + 1) |->
                IF j < k THEN Pend[j] ELSE IF j = k THEN e ELSE Pend[j - 1] ]
    BY <1>11 DEF Insert
  <2>2. ASSUME NEW j \in 1..(n + 1)
        PROVE  [fn |-> calltodo'[j].fn, left |-> left'[j]]
                 = IF j < k THEN Pend[j] ELSE IF j = k THEN e ELSE Pend[j - 1]
    <3>1. CASE j < k
      <4>1. j \in 1..n
        BY <1>2, <3>1
      <4> QED
        BY <1>3, <1>4, <1>11, <3>1, <4>1
    <3>2. CASE j = k
      BY <1>2, <1>3, <1>4, <3>2
    <3>3. CASE j > k
      <4>1. j - 1 \in 1..n /\ ~ (j < k) /\ j # k
        BY <1>2, <3>3
      <4> QED
        BY <1>3, <1>4, <1>11, <4>1
    <3> QED
      BY <1>2, <3>1, <3>2, <3>3
  <2> QED
    BY <1>11, <2>1, <2>2
<1>14. /\ \A j \in 1..(k - 1) : Pend[j].left < a
       /\ \A j \in k..Len(Pend) : Pend[j].left >= a
       /\ k \in 1..(Len(Pend) + 1)
  <2>1. \A j \in 1..(k - 1) : j \in 1..n
    BY <1>2
  <2>2. \A j \in k..n : j \in 1..n
    BY <1>2
  <2> QED
    BY <1>2, <1>5, <1>7, <1>11, <2>1, <2>2
<1>15. Abstract!Set(ins.fn, t)
  <2> DEFINE b == [fn |-> ins.fn, left |-> Abstract!Ticks(t)]
  <2>1. Pend' = Insert(Pend, k, b)
    BY <1>6, <1>13
  <2>2. /\ \A j \in 1..(k - 1) : Pend[j].left < Abstract!Ticks(t)
        /\ \A j \in k..Len(Pend) : Pend[j].left >= Abstract!Ticks(t)
    BY <1>6, <1>14
  <2>3. Insert(Pend, k, b) = Abstract!Insert(Pend, k, b)
    BY DEF Insert, Abstract!Insert
  <2>4. called' = Abstract!Nobody
    BY <1>10 DEF Nobody, Abstract!Nobody
  <2> QED
    BY <1>14, <2>1, <2>2, <2>3, <2>4 DEF Abstract!Set, Pend
<1> QED
  BY <1>5, <1>15

(* The callout table implements the abstract timers.                       *)
THEOREM CalloutImplementsTimers == Spec => TimersSpec
<1>1. Init => Abstract!TInit
  BY DEF Init, Abstract!TInit, Nobody, Abstract!Nobody
<1>2. CInv /\ CInv' /\ [Next]_vars => [Abstract!TNext]_(Abstract!tvars)
  <2> SUFFICES ASSUME CInv, CInv', [Next]_vars
               PROVE  Abstract!TNext \/ UNCHANGED Abstract!tvars
    OBVIOUS
  <2>0. ASSUME UNCHANGED <<calltodo, left>>, called' = Nobody
        PROVE  Abstract!Rest
    BY <2>0 DEF Abstract!Rest, Nobody, Abstract!Nobody
  <2>1. CASE \E f \in Funs : Untimeout(f)
    BY <2>1, CancelStep DEF Abstract!TNext
  <2>2. CASE \E f \in Funs, t \in Times : Timeout(f, t)
    <3>1. UNCHANGED <<calltodo, left>> /\ called' = Nobody
      BY <2>2 DEF Timeout
    <3> QED
      BY <2>0, <3>1 DEF Abstract!TNext
  <2>3. CASE TimeoutScan
    BY <2>0, <2>3 DEF TimeoutScan, Abstract!TNext
  <2>4. CASE TimeoutLink
    BY <2>4, SetStep DEF Abstract!TNext
  <2>5. CASE \E basepri \in BOOLEAN : Hardclock(basepri)
    BY <2>5, TickStep DEF Abstract!TNext
  <2>6. CASE Softclock
    BY <2>6, ExpireStep DEF Abstract!TNext
  <2>7. CASE SoftclockDone
    BY <2>0, <2>7 DEF SoftclockDone, Abstract!TNext
  <2>8. CASE UNCHANGED vars
    BY <2>8 DEF vars, Abstract!tvars
  <2> QED
    BY <2>1, <2>2, <2>3, <2>4, <2>5, <2>6, <2>7, <2>8 DEF Next
<1> QED
  BY <1>1, <1>2, CalloutInvariance, PTL DEF Spec, TimersSpec, Abstract!TSpec
=============================================================================
