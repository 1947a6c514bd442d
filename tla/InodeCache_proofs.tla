-------------------------- MODULE InodeCache_proofs --------------------------
(***************************************************************************)
(* The inode table, the name lookup and the allocation of inodes: the      *)
(* references and locks are exact, no call is left behind, and no file is  *)
(* lost, for any number of processes, slots, entries, names and inodes.    *)
(***************************************************************************)
EXTENDS InodeCache, FreeLists_proofs, FiniteSetTheorems, WellFoundedInduction, TLAPS

-----------------------------------------------------------------------------
(* Where a call is, as far as what it may hold goes: inside iget or irele  *)
(* it is where these go on.                                                *)
Fetching == {"iget", "iget_read"}
Ireles == {"irele", "itrunc", "ifree", "irele_iupdat"}
At(l, f) == IF l \in Ireles THEN f.then ELSE IF l \in Fetching THEN f.back ELSE l

(* It has a slot and its lock; it may have one; it has none.               *)
Locking == {"iget_read", "itrunc", "ifree", "irele_iupdat", "haveino", "dirremove",
            "sync_iupdat", "maknode_iupdat", "direnter"}
MayLock == {"child", "ialloc_got"}
Slotless == {"user", "namei", "search", "iget", "igrab", "relock", "unlinked", "ialloc",
             "ialloc_loop", "ialloc_bread", "ialloc_scanned", "closei", "ino_rw", "rwip"}
Labels == Locking \cup MayLock \cup Slotless \cup {"irele"}

(* In ialloc and maknode; with the directory locked; with a name.          *)
Creating == {"ialloc", "ialloc_loop", "ialloc_bread", "ialloc_scanned", "ialloc_got",
             "maknode_iupdat", "direnter"}
InDir == Creating \cup {"search", "igrab", "child", "dirremove", "unlinked"}
Opening == Creating \cup {"igrab", "relock", "haveino"}
Looking == InDir \cup Opening \cup {"namei"}

Backs == {"user", "child", "ialloc_got"}
Thens == Backs \cup {"closei", "relock", "unlinked", "ialloc_loop"}
Calls == {"none", "open", "creat", "unlink", "close", "sync"}
Frames ==
  [call: Calls, name: Names \cup {NoName}, slot: Slots \cup {NoSlot}, seen: Slots \cup {NoSlot},
   ncp: Entries \cup {NoEntry}, ino: 0 .. NINO, first: BOOLEAN, blk: Int,
   back: Backs, then: Thens]
Records ==
  [ino: 0 .. NINO, count: Nat, mode: BOOLEAN, nlink: MinNlink .. 1, dirty: BOOLEAN,
   lock: Procs \cup {Nobody}, want: BOOLEAN]
Cached == [name: Names \cup {NoName}, slot: Slots \cup {NoSlot}, ok: BOOLEAN]
OnDisk == [mode: BOOLEAN, nlink: MinNlink .. 1]

(* The slots and the directories that a call at l, with the frame f and    *)
(* the file o, has locked.                                                 *)
HeldSlots(l, f, o) ==
  IF l = "rwip" THEN {o}
  ELSE IF l \in Locking \cup MayLock /\ f.slot # NoSlot THEN {f.slot} ELSE {}
HeldDirs(l, f) == IF At(l, f) \in InDir THEN {DirOf[f.name]} ELSE {}

(* What is true of a call at l, when the table has the slots T.            *)
Placed(l, f, o, T) ==
  /\ l \in Slotless => f.slot = NoSlot
  /\ l \in Locking \cup {"irele"} => f.slot \in T
  /\ l \in MayLock => f.slot \in T \cup {NoSlot}
  /\ l \in {"ino_rw", "rwip"} => o \in T
  /\ l = "igrab" => f.seen \in T
  /\ l \in Fetching => f.back # "user" /\ f.ino # 0
  /\ l = "sync_iupdat" => f.then = "user"
  /\ At(l, f) \in {"igrab", "relock"} => f.ncp # NoEntry
  /\ At(l, f) \in Opening => f.call # "unlink"
  /\ At(l, f) \in Looking => f.name # NoName /\ (f.call # "unlink" => o = NoSlot)

SlotsOf(p) == {s \in Slots : x[s].lock = p}
DirsOf(p) == {d \in Dirs : dlock[d] = p}

CallOK(p) ==
  /\ Placed(pc[p], fr[p], file[p], load.slots)
  /\ SlotsOf(p) = HeldSlots(pc[p], fr[p], file[p])
  /\ DirsOf(p) = HeldDirs(pc[p], fr[p])
CallsOK == \A p \in Procs : CallOK(p)

-----------------------------------------------------------------------------
ProcsTyped ==
  /\ load \in Loads /\ load.slots \subseteq Slots
  /\ file \in [Procs -> load.slots \cup {NoSlot}] /\ slp \in [Procs -> Slots \cup {NoSlot}]
  /\ cpu \in Procs \cup {Nobody}
  /\ pc \in [Procs -> Labels] /\ fr \in [Procs -> Frames]
TableTyped ==
  /\ x \in [Slots -> Records] /\ free \in Seq(Slots)
  /\ dlock \in [Dirs -> Procs \cup {Nobody}]

(* The name cache leads to slots the table has, and is in one order; the   *)
(* disk, the directories and the super-block.                              *)
StoreOK ==
  /\ nc \in [Entries -> Cached]
  /\ \A e \in Entries : nc[e].ok => nc[e].slot \in load.slots
  /\ lru \in Seq(Entries) /\ Distinct(lru) /\ Elems(lru) = Entries
  /\ disk \in [Inodes -> OnDisk] /\ dir \in [Names -> 0 .. NINO]
  /\ DOMAIN fs = {"list", "ilock", "lasti", "nbehind", "tinode"}
  /\ fs.ilock \in Nat /\ fs.lasti \in Int

(* An inode is in one slot.                                                *)
InodeOnce == \A s, t \in Slots : x[s].ino = x[t].ino /\ x[s].ino # 0 => s = t

(* The slots that the table does not have are not used.                    *)
InTable == \A s \in Slots : s \notin load.slots => x[s] = NoInode

(* The references to a slot: open files and calls.                         *)
Having(f, v) == {p \in Procs : f[p] = v}
CallSlots == [p \in Procs |-> fr[p].slot]
Refs(s) == Cardinality(Having(file, s)) + Cardinality(Having(CallSlots, s))
RefsExact == \A s \in Slots : x[s].count = Refs(s)

FreeExact == Distinct(free) /\ Elems(free) = {s \in load.slots : x[s].count = 0}

(* While irele truncates or writes the inode nobody else gets it, and      *)
(* while iget reads it it has its number.                                  *)
Working == {"itrunc", "ifree", "irele_iupdat", "iget_read"}
WorkOK(l, r) == IF l = "iget_read" THEN r.ino # 0 ELSE r.count = 1
LastAlone == \A p \in Procs : pc[p] \in Working => WorkOK(pc[p], x[fr[p].slot])

(* Who sleeps will be woken when the lock is released.                     *)
Waits == {"iget", "igrab", "ino_rw"}
SleepersOK ==
  \A p \in Procs : slp[p] # NoSlot =>
    pc[p] \in Waits /\ Locked(slp[p]) /\ x[slp[p]].want

(* The cpu: who is neither in a transfer nor back from a sleep has it.     *)
OnCpu == Labels \ (Asleep \cup Waits \cup {"relock", "ialloc"})
CpuOK ==
  \A p \in Procs :
    /\ cpu = p => pc[p] \notin Asleep /\ slp[p] = NoSlot
    /\ pc[p] \in OnCpu => cpu = p

(* fs_ilock: somebody fills the list.                                      *)
Scanning == {"ialloc_bread", "ialloc_scanned"}
IlockOK == fs.ilock > 0 => \E p \in Procs : pc[p] \in Scanning

TableInv ==
  /\ ProcsTyped /\ TableTyped /\ StoreOK /\ CallsOK /\ InodeOnce /\ InTable
  /\ RefsExact /\ FreeExact /\ LastAlone /\ SleepersOK /\ CpuOK /\ IlockOK
-----------------------------------------------------------------------------
(* Lists and counts.                                                       *)

(* A set as a sequence: each element once.                                 *)
LEMMA SetToSeqsFacts ==
  ASSUME NEW S, IsFiniteSet(S), NEW s \in SetToSeqs(S)
  PROVE  s \in Seq(S) /\ Distinct(s) /\ Elems(s) = S
<1> DEFINE n == Cardinality(S)
<1>1. n \in Nat
  BY FS_CardinalityType
<1>2. s \in [1..n -> S] /\ \A i, j \in 1..n : i # j => s[i] # s[j]
  BY DEF SetToSeqs
<1>3. IsFiniteSet(1..n) /\ Cardinality(1..n) = n
  <2>1. /\ IsFiniteSet(1..n)
        /\ Cardinality(1..n) = IF 1 > n THEN 0 ELSE n - 1 + 1
    BY <1>1, FS_Interval
  <2> QED
    BY <1>1, <2>1
<1> HIDE DEF n
<1>4. s \in Injection(1..n, S)
  BY <1>2 DEF Injection, IsInjective
<1>5. Cardinality(1..n) = Cardinality(S) => s \in Surjection(1..n, S)
  BY <1>4, FS_Injection
<1>6. s \in Surjection(1..n, S)
  BY <1>5, <1>3 DEF n
<1>7. Elems(s) = S
  BY <1>6, <1>2 DEF Surjection, Elems
<1>8. s \in Seq(S) /\ Distinct(s)
  BY <1>1, <1>2 DEF Distinct
<1> QED
  BY <1>7, <1>8

(* The head of a list without doubles is linked once.                      *)
LEMMA TailFacts ==
  ASSUME NEW S, NEW s \in Seq(S), Distinct(s), s # <<>>
  PROVE  /\ Tail(s) \in Seq(S) /\ Distinct(Tail(s))
         /\ Elems(Tail(s)) = Elems(s) \ {Head(s)}
<1> DEFINE n == Len(s)
           t == Tail(s)
<1>1. n \in Nat /\ n > 0 /\ DOMAIN s = 1..n /\ Head(s) = s[1]
  OBVIOUS
<1>2. t \in Seq(S) /\ Len(t) = n - 1 /\ DOMAIN t = 1..(n - 1)
  BY <1>1
<1>3. \A i \in 1..(n - 1) : t[i] = s[i + 1]
  OBVIOUS
<1> HIDE DEF n, t
<1>4. Distinct(t)
  <2> SUFFICES ASSUME NEW i \in 1..(n - 1), NEW j \in 1..(n - 1), t[i] = t[j]
               PROVE  i = j
    BY <1>2 DEF Distinct
  <2>1. i + 1 \in 1..n /\ j + 1 \in 1..n /\ s[i + 1] = s[j + 1]
    BY <1>1, <1>3
  <2>2. i + 1 = j + 1
    BY <2>1, <1>1 DEF Distinct
  <2> QED
    BY <2>2
<1>5. Elems(t) \subseteq Elems(s) \ {s[1]}
  <2> SUFFICES ASSUME NEW i \in 1..(n - 1)
               PROVE  t[i] \in Elems(s) \ {s[1]}
    BY <1>2 DEF Elems
  <2>1. i + 1 \in 1..n /\ 1 \in 1..n /\ i + 1 # 1 /\ t[i] = s[i + 1]
    BY <1>1, <1>3
  <2>2. s[i + 1] # s[1]
    BY <2>1, <1>1 DEF Distinct
  <2> QED
    BY <2>1, <2>2, <1>1 DEF Elems
<1>6. Elems(s) \ {s[1]} \subseteq Elems(t)
  <2> SUFFICES ASSUME NEW i \in 1..n, i # 1
               PROVE  s[i] \in Elems(t)
    BY <1>1 DEF Elems
  <2>1. i - 1 \in 1..(n - 1) /\ t[i - 1] = s[i]
    BY <1>1, <1>3
  <2> QED
    BY <2>1, <1>2 DEF Elems
<1> QED
  BY <1>1, <1>2, <1>4, <1>5, <1>6 DEF t

(* How many processes have v, when one of them changes its own.            *)
LEMMA HavingFinite ==
  ASSUME NEW f, NEW v
  PROVE  IsFiniteSet(Having(f, v)) /\ Cardinality(Having(f, v)) \in Nat
         /\ Cardinality(Having(f, v)) <= Cardinality(Procs) /\ Cardinality(Procs) \in Nat
<1>1. Having(f, v) \in SUBSET Procs /\ IsFiniteSet(Procs)
  BY InodeAssumption DEF Having
<1> QED
  BY <1>1, FS_Subset, FS_CardinalityType

LEMMA HavingStep ==
  ASSUME NEW f, NEW g, NEW p \in Procs, NEW v,
         \A q \in Procs : q # p => f[q] = g[q]
  PROVE  /\ f[p] = g[p] => Cardinality(Having(g, v)) = Cardinality(Having(f, v))
         /\ f[p] # v /\ g[p] # v => Cardinality(Having(g, v)) = Cardinality(Having(f, v))
         /\ f[p] # v /\ g[p] = v => Cardinality(Having(g, v)) = Cardinality(Having(f, v)) + 1
         /\ f[p] = v /\ g[p] # v => Cardinality(Having(g, v)) = Cardinality(Having(f, v)) - 1
<1>1. IsFiniteSet(Having(f, v))
  BY HavingFinite
<1>2. ASSUME f[p] = g[p] \/ (f[p] # v /\ g[p] # v)
      PROVE  Cardinality(Having(g, v)) = Cardinality(Having(f, v))
  <2>1. Having(g, v) = Having(f, v)
    BY <1>2 DEF Having
  <2> QED
    BY <2>1
<1>3. ASSUME f[p] # v, g[p] = v
      PROVE  Cardinality(Having(g, v)) = Cardinality(Having(f, v)) + 1
  <2>1. Having(g, v) = Having(f, v) \cup {p} /\ p \notin Having(f, v)
    BY <1>3 DEF Having
  <2> QED
    BY <1>1, <2>1, FS_AddElement
<1>4. ASSUME f[p] = v, g[p] # v
      PROVE  Cardinality(Having(g, v)) = Cardinality(Having(f, v)) - 1
  <2>1. Having(g, v) = Having(f, v) \ {p} /\ p \in Having(f, v)
    BY <1>4 DEF Having
  <2> QED
    BY <1>1, <2>1, FS_RemoveElement
<1> QED
  BY <1>2, <1>3, <1>4

(* Somebody has v exactly when the number is positive; two who have it are *)
(* two.                                                                    *)
LEMMA HavingSome ==
  ASSUME NEW f, NEW v, NEW p \in Procs, f[p] = v
  PROVE  /\ Cardinality(Having(f, v)) >= 1
         /\ \A q \in Procs : q # p /\ f[q] = v => Cardinality(Having(f, v)) >= 2
<1>1. ASSUME NEW S \in SUBSET Having(f, v)
      PROVE  Cardinality(S) <= Cardinality(Having(f, v))
  BY HavingFinite, FS_Subset
<1>2. Cardinality({p}) = 1 /\ IsFiniteSet({p})
  BY FS_Singleton
<1>3. {p} \in SUBSET Having(f, v)
  BY DEF Having
<1>4. Cardinality({p}) <= Cardinality(Having(f, v))
  BY <1>1, <1>3
<1>5. ASSUME NEW q \in Procs, q # p, f[q] = v
      PROVE  Cardinality(Having(f, v)) >= 2
  <2>1. Cardinality({p} \cup {q}) = 2
    BY <1>2, <1>5, FS_AddElement
  <2>2. {p} \cup {q} \in SUBSET Having(f, v)
    BY <1>5 DEF Having
  <2>3. Cardinality({p} \cup {q}) <= Cardinality(Having(f, v))
    BY <1>1, <2>2
  <2> QED
    BY <2>1, <2>3, HavingFinite
<1> QED
  BY <1>2, <1>4, <1>5, HavingFinite
-----------------------------------------------------------------------------
(* A step of p, which goes to l with the frame f and the file o.           *)
Moves(p, l, f, o) ==
  /\ load' = load
  /\ pc' = [pc EXCEPT ![p] = l] /\ fr' = [fr EXCEPT ![p] = f] /\ file' = [file EXCEPT ![p] = o]
Fits(l, f, o) ==
  /\ l \in Labels /\ f \in Frames /\ o \in load.slots \cup {NoSlot}
  /\ Placed(l, f, o, load.slots)
DirStep(p, l, f) ==
  /\ dlock' \in [Dirs -> Procs \cup {Nobody}]
  /\ \A q \in Procs \ {p} : DirsOf(q)' = DirsOf(q)
  /\ DirsOf(p)' = HeldDirs(l, f)
SlotStep(p, l, f, o) ==
  /\ \A q \in Procs \ {p} : SlotsOf(q)' = SlotsOf(q)
  /\ SlotsOf(p)' = HeldSlots(l, f, o)
CpuStep(p, l) ==
  /\ cpu \in {p, Nobody} /\ slp[p] = NoSlot
  /\ cpu' = IF l \in Asleep THEN Nobody ELSE p
IlockStep(p, l) == fs'.ilock > 0 => l \in Scanning \/ (fs.ilock > 0 /\ pc[p] \notin Scanning)

LEMMA MovesOwn ==
  ASSUME ProcsTyped, NEW p \in Procs, NEW l, NEW f, NEW o, Moves(p, l, f, o)
  PROVE  /\ pc'[p] = l /\ fr'[p] = f /\ file'[p] = o /\ load' = load
         /\ \A q \in Procs \ {p} : pc'[q] = pc[q] /\ fr'[q] = fr[q] /\ file'[q] = file[q]
BY DEF ProcsTyped, Moves

LEMMA ProcsTypedStep ==
  ASSUME ProcsTyped, NEW p \in Procs, NEW l, NEW f, NEW o, Moves(p, l, f, o), Fits(l, f, o),
         slp' \in [Procs -> Slots \cup {NoSlot}], CpuStep(p, l)
  PROVE  ProcsTyped'
<1>1. cpu' \in Procs \cup {Nobody}
  BY DEF CpuStep
<1> QED
  BY <1>1 DEF ProcsTyped, Moves, Fits

LEMMA CallsStep ==
  ASSUME ProcsTyped, CallsOK, NEW p \in Procs, NEW l, NEW f, NEW o, Moves(p, l, f, o),
         Fits(l, f, o), DirStep(p, l, f), SlotStep(p, l, f, o)
  PROVE  CallsOK'
<1> SUFFICES ASSUME NEW q \in Procs PROVE CallOK(q)'
  BY DEF CallsOK
<1>1. CallOK(q)
  BY DEF CallsOK
<1>2. CASE q = p
  <2>1. Placed(l, f, o, load.slots)
    BY DEF Fits
  <2>2. SlotsOf(p)' = HeldSlots(l, f, o) /\ DirsOf(p)' = HeldDirs(l, f)
    BY DEF DirStep, SlotStep
  <2> QED
    BY <1>2, <2>1, <2>2, MovesOwn DEF CallOK
<1>3. CASE q # p
  <2>1. SlotsOf(q)' = SlotsOf(q) /\ DirsOf(q)' = DirsOf(q)
    BY <1>3 DEF DirStep, SlotStep
  <2>2. pc'[q] = pc[q] /\ fr'[q] = fr[q] /\ file'[q] = file[q] /\ load' = load
    BY <1>3, MovesOwn
  <2> QED
    BY <1>1, <2>1, <2>2 DEF CallOK
<1> QED
  BY <1>2, <1>3

LEMMA CpuOKStep ==
  ASSUME ProcsTyped, CpuOK, NEW p \in Procs, NEW l \in Labels, NEW f, NEW o, Moves(p, l, f, o),
         CpuStep(p, l), slp'[p] = NoSlot
  PROVE  CpuOK'
<1> SUFFICES ASSUME NEW q \in Procs
             PROVE  /\ cpu' = q => pc'[q] \notin Asleep /\ slp'[q] = NoSlot
                    /\ pc'[q] \in OnCpu => cpu' = q
  BY DEF CpuOK
<1>0. Nobody \notin Procs
  BY InodeAssumption
<1>1. CASE q = p
  <2>1. pc'[p] = l
    BY MovesOwn
  <2> QED
    BY <1>0, <1>1, <2>1 DEF CpuStep, OnCpu
<1>2. CASE q # p
  <2>1. pc'[q] = pc[q]
    BY <1>2, MovesOwn
  <2>2. cpu' # q /\ cpu # q
    BY <1>0, <1>2 DEF CpuStep
  <2>3. pc[q] \notin OnCpu
    BY <2>2 DEF CpuOK
  <2> QED
    BY <2>1, <2>2, <2>3
<1> QED
  BY <1>1, <1>2

LEMMA IlockOKStep ==
  ASSUME ProcsTyped, IlockOK, NEW p \in Procs, NEW l, NEW f, NEW o, Moves(p, l, f, o),
         IlockStep(p, l)
  PROVE  IlockOK'
<1>1. pc'[p] = l /\ \A q \in Procs \ {p} : pc'[q] = pc[q]
  BY MovesOwn
<1> QED
  BY <1>1 DEF IlockOK, IlockStep

-----------------------------------------------------------------------------
(* References.                                                             *)
One(b) == IF b THEN 1 ELSE 0
Delta(p, f, o, s) == One(f.slot = s) - One(fr[p].slot = s) + One(o = s) - One(file[p] = s)

LEMMA RefsStep ==
  ASSUME ProcsTyped, NEW p \in Procs, NEW l, NEW f, NEW o, Moves(p, l, f, o), NEW s
  PROVE  Refs(s)' = Refs(s) + Delta(p, f, o, s) /\ Refs(s) \in Nat
<1> DEFINE a == file
           b == file'
           c == CallSlots
           d == CallSlots'
<1>1. /\ \A q \in Procs : q # p => a[q] = b[q]
      /\ a[p] = file[p] /\ b[p] = o
  BY MovesOwn
<1>2. /\ \A q \in Procs : q # p => c[q] = d[q]
      /\ c[p] = fr[p].slot /\ d[p] = f.slot
  BY MovesOwn DEF CallSlots
<1>3. /\ Refs(s) = Cardinality(Having(a, s)) + Cardinality(Having(c, s))
      /\ Refs(s)' = Cardinality(Having(b, s)) + Cardinality(Having(d, s))
  BY DEF Refs, Having
<1> HIDE DEF a, b, c, d
<1>4. /\ Cardinality(Having(a, s)) \in Nat /\ Cardinality(Having(b, s)) \in Nat
      /\ Cardinality(Having(c, s)) \in Nat /\ Cardinality(Having(d, s)) \in Nat
  BY HavingFinite
<1>5. Cardinality(Having(b, s)) = Cardinality(Having(a, s)) + One(o = s) - One(file[p] = s)
  <2>1. /\ a[p] = b[p] => Cardinality(Having(b, s)) = Cardinality(Having(a, s))
        /\ a[p] # s /\ b[p] # s => Cardinality(Having(b, s)) = Cardinality(Having(a, s))
        /\ a[p] # s /\ b[p] = s => Cardinality(Having(b, s)) = Cardinality(Having(a, s)) + 1
        /\ a[p] = s /\ b[p] # s => Cardinality(Having(b, s)) = Cardinality(Having(a, s)) - 1
    <3>1. \A q \in Procs : q # p => a[q] = b[q]
      BY <1>1
    <3> QED
      BY <3>1, HavingStep
  <2> QED
    BY <1>1, <1>4, <2>1 DEF One
<1>6. Cardinality(Having(d, s)) = Cardinality(Having(c, s)) + One(f.slot = s) - One(fr[p].slot = s)
  <2>1. /\ c[p] = d[p] => Cardinality(Having(d, s)) = Cardinality(Having(c, s))
        /\ c[p] # s /\ d[p] # s => Cardinality(Having(d, s)) = Cardinality(Having(c, s))
        /\ c[p] # s /\ d[p] = s => Cardinality(Having(d, s)) = Cardinality(Having(c, s)) + 1
        /\ c[p] = s /\ d[p] # s => Cardinality(Having(d, s)) = Cardinality(Having(c, s)) - 1
    <3>1. \A q \in Procs : q # p => c[q] = d[q]
      BY <1>2
    <3> QED
      BY <3>1, HavingStep
  <2> QED
    BY <1>2, <1>4, <2>1 DEF One
<1> QED
  BY <1>3, <1>4, <1>5, <1>6 DEF Delta, One

(* A slot that a call or a file has is counted, and two calls count two.   *)
LEMMA RefsSome ==
  ASSUME ProcsTyped, NEW s, NEW p \in Procs
  PROVE  /\ fr[p].slot = s \/ file[p] = s => Refs(s) >= 1
         /\ fr[p].slot = s =>
              \A q \in Procs : (q # p /\ fr[q].slot = s) \/ file[q] = s => Refs(s) >= 2
<1>1. \A q \in Procs : CallSlots[q] = fr[q].slot
  BY DEF CallSlots
<1>2. Cardinality(Having(file, s)) \in Nat /\ Cardinality(Having(CallSlots, s)) \in Nat
  BY HavingFinite
<1>3. ASSUME NEW q \in Procs, file[q] = s PROVE Cardinality(Having(file, s)) >= 1
  BY <1>3, HavingSome
<1>4. ASSUME fr[p].slot = s
      PROVE  /\ Cardinality(Having(CallSlots, s)) >= 1
             /\ \A q \in Procs : q # p /\ fr[q].slot = s => Cardinality(Having(CallSlots, s)) >= 2
  <2>1. CallSlots[p] = s
    BY <1>1, <1>4
  <2>2. /\ Cardinality(Having(CallSlots, s)) >= 1
        /\ \A q \in Procs : q # p /\ CallSlots[q] = s => Cardinality(Having(CallSlots, s)) >= 2
    BY <2>1, HavingSome
  <2> QED
    BY <2>2, <1>1
<1> QED
  BY <1>2, <1>3, <1>4 DEF Refs

-----------------------------------------------------------------------------
(* The step changes the slot s to r.                                       *)
XStep(p, s, r) ==
  /\ s \in load.slots /\ r \in Records /\ x' = [x EXCEPT ![s] = r]
  /\ r.lock # x[s].lock => x[s].lock \in {Nobody, p} /\ r.lock \in {Nobody, p}
  /\ r.ino # x[s].ino => r.ino = 0 \/ InCore(r.ino) = {}
  /\ x[s].lock \notin {Nobody, p} =>
       r.ino = x[s].ino /\ (r.count = x[s].count \/ x[s].count > 1)
Wakes(s, r) ==
  \/ slp' = slp /\ (Locked(s) => r.lock # Nobody /\ r.want = x[s].want)
  \/ slp' = Woken(s)
Counted(p, f, o, s, r) ==
  /\ \A t \in Slots \ {s} : Delta(p, f, o, t) = 0
  /\ r.count = x[s].count + Delta(p, f, o, s)
Freed(s, r) ==
  /\ free' \in Seq(Slots) /\ Distinct(free')
  /\ Elems(free') = (IF r.count = 0 THEN Elems(free) \cup {s} ELSE Elems(free) \ {s})
AloneStep(l, f, s, r) == l \in Working => f.slot = s /\ WorkOK(l, r)
Relocks(p, l, f, o, s, r) ==
  HeldSlots(l, f, o) = IF r.lock = p THEN SlotsOf(p) \cup {s} ELSE SlotsOf(p) \ {s}

LEMMA XOwn ==
  ASSUME ProcsTyped, TableTyped, NEW p, NEW s, NEW r, XStep(p, s, r)
  PROVE  /\ s \in Slots /\ x'[s] = r /\ x' \in [Slots -> Records]
         /\ \A t \in Slots : t # s => x'[t] = x[t]
BY DEF ProcsTyped, TableTyped, XStep

LEMMA SlotUpdate ==
  ASSUME ProcsTyped, TableTyped, NEW p \in Procs, NEW s, NEW r, XStep(p, s, r),
         NEW l, NEW f, NEW o, Relocks(p, l, f, o, s, r)
  PROVE  SlotStep(p, l, f, o)
<1>1. s \in Slots /\ x'[s] = r /\ \A t \in Slots : t # s => x'[t] = x[t]
  BY XOwn
<1>2. r.lock # x[s].lock => x[s].lock \in {Nobody, p} /\ r.lock \in {Nobody, p}
  BY DEF XStep
<1>3. ASSUME NEW q \in Procs \ {p} PROVE SlotsOf(q)' = SlotsOf(q)
  <2>0. q # Nobody
    BY InodeAssumption
  <2> QED
    BY <1>1, <1>2, <2>0 DEF SlotsOf
<1>4. SlotsOf(p)' = IF r.lock = p THEN SlotsOf(p) \cup {s} ELSE SlotsOf(p) \ {s}
  BY <1>1 DEF SlotsOf
<1> QED
  BY <1>3, <1>4 DEF SlotStep, Relocks

LEMMA InodeOnceUpdate ==
  ASSUME ProcsTyped, TableTyped, InodeOnce, NEW p, NEW s, NEW r, XStep(p, s, r)
  PROVE  InodeOnce'
<1>1. s \in Slots /\ x'[s] = r /\ \A t \in Slots : t # s => x'[t] = x[t]
  BY XOwn
<1>2. r.ino # x[s].ino => r.ino = 0 \/ \A t \in Slots : x[t].ino # r.ino
  BY DEF XStep, InCore
<1> QED
  BY <1>1, <1>2 DEF InodeOnce

LEMMA InTableUpdate ==
  ASSUME ProcsTyped, TableTyped, InTable, NEW p, NEW s, NEW r, XStep(p, s, r), load' = load
  PROVE  InTable'
<1>1. s \in load.slots /\ \A t \in Slots : t # s => x'[t] = x[t]
  BY XOwn DEF XStep
<1> QED
  BY <1>1 DEF InTable

LEMMA SleepersUpdate ==
  ASSUME ProcsTyped, TableTyped, SleepersOK, NEW p \in Procs, NEW l, NEW f, NEW o,
         Moves(p, l, f, o), slp[p] = NoSlot, NEW s, NEW r, XStep(p, s, r), Wakes(s, r)
  PROVE  SleepersOK' /\ slp' \in [Procs -> Slots \cup {NoSlot}] /\ slp'[p] = NoSlot
<1>1. s \in Slots /\ x'[s] = r /\ \A t \in Slots : t # s => x'[t] = x[t]
  BY XOwn
<1>2. \A q \in Procs \ {p} : pc'[q] = pc[q]
  BY MovesOwn
<1>3. CASE slp' = slp /\ (Locked(s) => r.lock # Nobody /\ r.want = x[s].want)
  <2>1. slp' \in [Procs -> Slots \cup {NoSlot}] /\ slp'[p] = NoSlot
    BY <1>3 DEF ProcsTyped
  <2>2. ASSUME NEW q \in Procs, slp[q] # NoSlot
        PROVE  pc'[q] \in Waits /\ x'[slp[q]].lock # Nobody /\ x'[slp[q]].want
    <3>1. pc[q] \in Waits /\ x[slp[q]].lock # Nobody /\ x[slp[q]].want /\ slp[q] \in Slots
      BY <2>2 DEF SleepersOK, Locked, ProcsTyped
    <3>2. q # p
      BY <2>2
    <3>3. pc'[q] = pc[q]
      BY <1>2, <3>2
    <3> QED
      BY <1>1, <1>3, <3>1, <3>3 DEF Locked
  <2> QED
    BY <1>3, <2>1, <2>2 DEF SleepersOK, Locked
<1>4. CASE slp' = Woken(s)
  <2>1. slp' \in [Procs -> Slots \cup {NoSlot}]
        /\ \A q \in Procs : slp'[q] \in {slp[q], NoSlot}
    BY <1>4 DEF ProcsTyped, Woken
  <2>2. \A q \in Procs : slp'[q] # s
    <3>0. s # NoSlot
      BY <1>1, InodeAssumption
    <3>1. CASE x[s].want
      BY <3>0, <3>1, <1>4 DEF Woken
    <3>2. CASE ~ x[s].want
      BY <3>2, <3>0, <1>4 DEF Woken, SleepersOK
    <3> QED
      BY <3>1, <3>2
  <2>3. ASSUME NEW q \in Procs, slp'[q] # NoSlot
        PROVE  pc'[q] \in Waits /\ x'[slp'[q]].lock # Nobody /\ x'[slp'[q]].want
    <3>1. slp'[q] = slp[q] /\ q # p
      BY <2>1, <2>3
    <3>2. pc[q] \in Waits /\ x[slp[q]].lock # Nobody /\ x[slp[q]].want /\ slp[q] \in Slots
      BY <2>3, <3>1 DEF SleepersOK, Locked, ProcsTyped
    <3>3. slp[q] # s
      BY <2>2, <3>1
    <3>4. pc'[q] = pc[q]
      BY <1>2, <3>1
    <3> QED
      BY <1>1, <3>1, <3>2, <3>3, <3>4
  <2>4. slp'[p] = NoSlot
    BY <2>1
  <2> QED
    BY <2>1, <2>3, <2>4 DEF SleepersOK, Locked
<1> QED
  BY <1>3, <1>4 DEF Wakes

LEMMA RefsUpdate ==
  ASSUME ProcsTyped, TableTyped, RefsExact, FreeExact, NEW p \in Procs, NEW l, NEW f, NEW o,
         Moves(p, l, f, o), NEW s, NEW r, XStep(p, s, r), Counted(p, f, o, s, r), Freed(s, r)
  PROVE  RefsExact' /\ FreeExact'
<1>1. /\ s \in Slots /\ x'[s] = r /\ \A t \in Slots : t # s => x'[t] = x[t]
      /\ s \in load.slots /\ load' = load
  BY XOwn DEF Moves, XStep
<1>2. \A t \in Slots : Refs(t)' = Refs(t) + Delta(p, f, o, t) /\ Refs(t) \in Nat
  BY RefsStep
<1>3. ASSUME NEW t \in Slots PROVE x'[t].count = Refs(t)'
  <2>1. CASE t = s
    BY <1>1, <1>2, <2>1 DEF Counted, RefsExact
  <2>2. CASE t # s
    <3>1. Delta(p, f, o, t) = 0
      BY <2>2 DEF Counted
    <3> QED
      BY <1>1, <1>2, <2>2, <3>1 DEF RefsExact
  <2> QED
    BY <2>1, <2>2
<1>4. RefsExact'
  BY <1>3 DEF RefsExact
<1>5. Elems(free') = {t \in load.slots : x'[t].count = 0}
  <2>1. Elems(free) = {t \in load.slots : x[t].count = 0}
    BY DEF FreeExact
  <2>2. load.slots \subseteq Slots
    BY DEF ProcsTyped
  <2>3. Elems(free') = (IF r.count = 0 THEN Elems(free) \cup {s} ELSE Elems(free) \ {s})
    BY DEF Freed
  <2> QED
    BY <1>1, <2>1, <2>2, <2>3
<1>6. Elems(free)' = Elems(free') /\ (Distinct(free') <=> Distinct(free)')
  BY DEF Elems, Distinct
<1>7. Distinct(free')
  BY DEF Freed
<1> QED
  BY <1>1, <1>4, <1>5, <1>6, <1>7 DEF FreeExact

LEMMA AloneUpdate ==
  ASSUME ProcsTyped, TableTyped, CallsOK, LastAlone, NEW p \in Procs, NEW l, NEW f, NEW o,
         Moves(p, l, f, o), NEW s, NEW r, XStep(p, s, r), AloneStep(l, f, s, r)
  PROVE  LastAlone'
<1> SUFFICES ASSUME NEW q \in Procs, pc'[q] \in Working
             PROVE  WorkOK(pc'[q], x'[fr'[q].slot])
  BY DEF LastAlone, WorkOK
<1>1. s \in Slots /\ x'[s] = r /\ \A t \in Slots : t # s => x'[t] = x[t]
  BY XOwn
<1>2. CASE q = p
  <2>1. pc'[p] = l /\ fr'[p] = f
    BY MovesOwn
  <2> QED
    BY <1>1, <1>2, <2>1 DEF AloneStep
<1>3. CASE q # p
  <2>1. pc'[q] = pc[q] /\ fr'[q] = fr[q]
    BY <1>3, MovesOwn
  <2>2. fr[q].slot \in load.slots /\ SlotsOf(q) = HeldSlots(pc[q], fr[q], file[q])
    BY <2>1 DEF CallsOK, CallOK, Placed, Locking, Working
  <2>3. fr[q].slot \in SlotsOf(q)
    <3>1. fr[q].slot # NoSlot
      BY <2>2, InodeAssumption DEF ProcsTyped
    <3> QED
      BY <2>1, <2>2, <3>1 DEF HeldSlots, Locking, Working
  <2>4. WorkOK(pc[q], x[fr[q].slot]) /\ x[fr[q].slot].lock = q /\ fr[q].slot \in Slots
    BY <2>1, <2>3 DEF LastAlone, SlotsOf
  <2>5. CASE fr[q].slot = s
    <3>1. x[s].lock \notin {Nobody, p}
      BY <1>3, <2>4, <2>5, InodeAssumption
    <3>2. r.ino = x[s].ino /\ (r.count = x[s].count \/ x[s].count > 1)
      BY <3>1 DEF XStep
    <3> QED
      BY <1>1, <2>1, <2>4, <2>5, <3>2 DEF WorkOK
  <2>6. CASE fr[q].slot # s
    BY <1>1, <2>1, <2>4, <2>6
  <2> QED
    BY <2>5, <2>6
<1> QED
  BY <1>2, <1>3
-----------------------------------------------------------------------------
(* A step that changes one slot keeps the invariant.                       *)
LEMMA Updated ==
  ASSUME TableInv, NEW p \in Procs, NEW l, NEW f, NEW o, NEW s, NEW r,
         Moves(p, l, f, o), Fits(l, f, o), DirStep(p, l, f), CpuStep(p, l), IlockStep(p, l),
         XStep(p, s, r), Wakes(s, r), Counted(p, f, o, s, r), Freed(s, r),
         AloneStep(l, f, s, r), Relocks(p, l, f, o, s, r), StoreOK'
  PROVE  TableInv'
<1>1. /\ ProcsTyped /\ TableTyped /\ StoreOK /\ CallsOK /\ InodeOnce /\ InTable
      /\ RefsExact /\ FreeExact /\ LastAlone /\ SleepersOK /\ CpuOK /\ IlockOK
  BY DEF TableInv
<1>2. slp[p] = NoSlot /\ l \in Labels /\ load' = load
  BY DEF CpuStep, Fits, Moves
<1>3. SleepersOK' /\ slp' \in [Procs -> Slots \cup {NoSlot}] /\ slp'[p] = NoSlot
  BY <1>1, <1>2, SleepersUpdate
<1>4. ProcsTyped'
  BY <1>1, <1>3, ProcsTypedStep
<1>5. TableTyped'
  <2>1. x' \in [Slots -> Records]
    BY <1>1, XOwn
  <2> QED
    BY <2>1 DEF TableTyped, Freed, DirStep
<1>6. SlotStep(p, l, f, o)
  BY <1>1, SlotUpdate
<1>7. CallsOK'
  BY <1>1, <1>6, CallsStep
<1>8. InodeOnce' /\ InTable'
  BY <1>1, <1>2, InodeOnceUpdate, InTableUpdate
<1>9. RefsExact' /\ FreeExact'
  BY <1>1, RefsUpdate
<1>10. LastAlone'
  BY <1>1, AloneUpdate
<1>11. CpuOK' /\ IlockOK'
  BY <1>1, <1>2, <1>3, CpuOKStep, IlockOKStep
<1> QED
  BY <1>3, <1>4, <1>5, <1>7, <1>8, <1>9, <1>10, <1>11 DEF TableInv

(* A step that leaves the table alone keeps it too.                        *)
SameRefs(p, f, o) == \A s \in Slots : Delta(p, f, o, s) = 0
LEMMA Untouched ==
  ASSUME TableInv, NEW p \in Procs, NEW l, NEW f, NEW o,
         Moves(p, l, f, o), Fits(l, f, o), DirStep(p, l, f), CpuStep(p, l), IlockStep(p, l),
         UNCHANGED <<x, free, slp>>, SameRefs(p, f, o), l \notin Working,
         HeldSlots(l, f, o) = SlotsOf(p), StoreOK'
  PROVE  TableInv'
<1>1. /\ ProcsTyped /\ TableTyped /\ StoreOK /\ CallsOK /\ InodeOnce /\ InTable
      /\ RefsExact /\ FreeExact /\ LastAlone /\ SleepersOK /\ CpuOK /\ IlockOK
  BY DEF TableInv
<1>2. slp[p] = NoSlot /\ l \in Labels /\ load' = load /\ x' = x /\ free' = free /\ slp' = slp
  BY DEF CpuStep, Fits, Moves
<1>3. slp' \in [Procs -> Slots \cup {NoSlot}] /\ slp'[p] = NoSlot
  BY <1>1, <1>2 DEF ProcsTyped
<1>4. ProcsTyped'
  BY <1>1, <1>3, ProcsTypedStep
<1>5. TableTyped'
  BY <1>1, <1>2 DEF TableTyped, DirStep
<1>6. SlotStep(p, l, f, o)
  BY <1>2 DEF SlotStep, SlotsOf
<1>7. CallsOK'
  BY <1>1, <1>6, CallsStep
<1>8. InodeOnce' /\ InTable'
  BY <1>1, <1>2 DEF InodeOnce, InTable
<1>9. RefsExact'
  <2>1. \A t \in Slots : Refs(t)' = Refs(t) + Delta(p, f, o, t) /\ Refs(t) \in Nat
    BY <1>1, RefsStep
  <2>2. \A t \in Slots : Delta(p, f, o, t) = 0
    BY DEF SameRefs
  <2> QED
    BY <1>1, <1>2, <2>1, <2>2 DEF RefsExact
<1>10. FreeExact'
  BY <1>1, <1>2 DEF FreeExact, Elems, Distinct
<1>11. pc'[p] = l /\ \A q \in Procs \ {p} : pc'[q] = pc[q] /\ fr'[q] = fr[q]
  BY <1>1, MovesOwn
<1>12. LastAlone'
  BY <1>1, <1>2, <1>11 DEF LastAlone, WorkOK
<1>13. SleepersOK'
  BY <1>1, <1>2, <1>11 DEF SleepersOK, Locked
<1>14. CpuOK' /\ IlockOK'
  BY <1>1, <1>2, <1>3, CpuOKStep, IlockOKStep
<1> QED
  BY <1>4, <1>5, <1>7, <1>8, <1>9, <1>10, <1>12, <1>13, <1>14 DEF TableInv

(* A process that waits keeps what it has.                                 *)
LEMMA Waited ==
  ASSUME TableInv, NEW p \in Procs, NEW s \in Slots, pc[p] \in Waits, cpu \in {p, Nobody},
         LockWait(p, s)
  PROVE  TableInv'
<1>1. /\ ProcsTyped /\ TableTyped /\ StoreOK /\ CallsOK /\ InodeOnce /\ InTable
      /\ RefsExact /\ FreeExact /\ LastAlone /\ SleepersOK /\ CpuOK /\ IlockOK
  BY DEF TableInv
<1>2. /\ Locked(s) /\ x' = [x EXCEPT ![s].want = TRUE]
      /\ slp' = [slp EXCEPT ![p] = s] /\ cpu' = Nobody
      /\ load' = load /\ free' = free /\ nc' = nc /\ lru' = lru /\ disk' = disk /\ dir' = dir
      /\ dlock' = dlock /\ fs' = fs /\ file' = file /\ pc' = pc /\ fr' = fr
  BY DEF LockWait
<1>3. /\ x' \in [Slots -> Records] /\ x'[s].want /\ (\A t \in Slots : t # s => x'[t] = x[t])
      /\ x'[s].ino = x[s].ino /\ x'[s].count = x[s].count /\ x'[s].lock = x[s].lock
  BY <1>1, <1>2 DEF TableTyped, Records
<1>4. ProcsTyped' /\ TableTyped'
  BY <1>1, <1>2, <1>3 DEF ProcsTyped, TableTyped
<1>5. StoreOK'
  BY <1>1, <1>2 DEF StoreOK, Elems, Distinct
<1>6. \A q \in Procs : SlotsOf(q)' = SlotsOf(q) /\ DirsOf(q)' = DirsOf(q)
  BY <1>2, <1>3 DEF SlotsOf, DirsOf
<1>7. CallsOK'
  BY <1>1, <1>2, <1>6 DEF CallsOK, CallOK
<1>8. InodeOnce'
  BY <1>1, <1>3 DEF InodeOnce
<1>9. InTable'
  <2>1. s \in load.slots
    <3>1. CASE s \notin load.slots
      <4>1. x[s].lock = Nobody
        BY <3>1, <1>1 DEF InTable, NoInode
      <4> QED
        BY <4>1, <1>2 DEF Locked
    <3> QED
      BY <3>1
  <2> QED
    BY <1>1, <1>2, <1>3, <2>1 DEF InTable
<1>10. \A t \in Slots : x'[t].count = x[t].count
  BY <1>3
<1>11. RefsExact'
  BY <1>1, <1>2, <1>10 DEF RefsExact, Refs, Having, CallSlots
<1>12. FreeExact'
  <2>1. load.slots \subseteq Slots
    BY <1>1 DEF ProcsTyped
  <2> QED
    BY <1>1, <1>2, <1>10, <2>1 DEF FreeExact, Elems, Distinct
<1>13. LastAlone'
  <2> SUFFICES ASSUME NEW q \in Procs, pc[q] \in Working
               PROVE  WorkOK(pc[q], x'[fr[q].slot])
    BY <1>2 DEF LastAlone, WorkOK
  <2>1. fr[q].slot \in Slots
    BY <1>1 DEF CallsOK, CallOK, Placed, Locking, ProcsTyped, Working
  <2>2. x'[fr[q].slot].count = x[fr[q].slot].count /\ x'[fr[q].slot].ino = x[fr[q].slot].ino
    BY <1>3, <2>1
  <2> QED
    BY <1>1, <2>2 DEF LastAlone, WorkOK
<1>14. SleepersOK'
  <2> SUFFICES ASSUME NEW q \in Procs, slp'[q] # NoSlot
               PROVE  pc[q] \in Waits /\ x'[slp'[q]].lock # Nobody /\ x'[slp'[q]].want
    BY <1>2 DEF SleepersOK, Locked
  <2>1. CASE slp'[q] = s
    <3>1. pc[q] \in Waits
      BY <1>1, <1>2, <2>1 DEF ProcsTyped, SleepersOK
    <3> QED
      BY <1>2, <1>3, <2>1, <3>1 DEF Locked
  <2>2. CASE slp'[q] # s
    <3>1. slp'[q] = slp[q] /\ slp[q] \in Slots
      BY <1>1, <1>2, <2>2 DEF ProcsTyped
    <3> QED
      BY <1>1, <1>3, <2>2, <3>1 DEF SleepersOK, Locked
  <2> QED
    BY <2>1, <2>2
<1>15. CpuOK'
  <2> SUFFICES ASSUME NEW q \in Procs
               PROVE  cpu' # q /\ pc[q] \notin OnCpu
    BY <1>2 DEF CpuOK
  <2>1. cpu' # q
    BY <1>2, InodeAssumption
  <2>2. CASE q = p
    BY <2>1, <2>2 DEF OnCpu
  <2>3. CASE q # p
    <3>1. cpu # q
      BY <2>3, InodeAssumption
    <3> QED
      BY <1>1, <2>1, <3>1 DEF CpuOK
  <2> QED
    BY <2>2, <2>3
<1>16. IlockOK'
  BY <1>1, <1>2 DEF IlockOK
<1> QED
  BY <1>4, <1>5, <1>7, <1>8, <1>9, <1>11, <1>12, <1>13, <1>14, <1>15, <1>16 DEF TableInv

LEMMA GaveUp ==
  ASSUME TableInv, NEW p \in Procs, pc[p] \notin OnCpu, GiveUpCpu(p)
  PROVE  TableInv'
<1>1. /\ ProcsTyped /\ TableTyped /\ StoreOK /\ CallsOK /\ InodeOnce /\ InTable
      /\ RefsExact /\ FreeExact /\ LastAlone /\ SleepersOK /\ CpuOK /\ IlockOK
  BY DEF TableInv
<1>2. /\ cpu = p /\ cpu' = Nobody
      /\ load' = load /\ x' = x /\ free' = free /\ nc' = nc /\ lru' = lru /\ disk' = disk
      /\ dir' = dir /\ dlock' = dlock /\ fs' = fs /\ file' = file /\ pc' = pc /\ fr' = fr
      /\ slp' = slp
  BY DEF GiveUpCpu
<1>3. ProcsTyped' /\ TableTyped' /\ StoreOK'
  BY <1>1, <1>2 DEF ProcsTyped, TableTyped, StoreOK, Elems, Distinct
<1>4. CallsOK' /\ InodeOnce' /\ InTable'
  BY <1>1, <1>2 DEF CallsOK, CallOK, InodeOnce, InTable, SlotsOf, DirsOf
<1>5. RefsExact' /\ FreeExact' /\ LastAlone'
  BY <1>1, <1>2 DEF RefsExact, Refs, Having, CallSlots, FreeExact, LastAlone, WorkOK, Elems,
       Distinct
<1>6. SleepersOK' /\ IlockOK'
  BY <1>1, <1>2 DEF SleepersOK, Locked, IlockOK
<1>7. CpuOK'
  <2> SUFFICES ASSUME NEW q \in Procs
               PROVE  cpu' # q /\ pc[q] \notin OnCpu
    BY <1>2 DEF CpuOK
  <2>1. cpu' # q
    BY <1>2, InodeAssumption
  <2>2. pc[q] \notin OnCpu
    BY <1>1, <1>2 DEF CpuOK
  <2> QED
    BY <2>1, <2>2
<1> QED
  BY <1>3, <1>4, <1>5, <1>6, <1>7 DEF TableInv
-----------------------------------------------------------------------------
(* The parts of a step.                                                    *)
LEMMA RunsFacts ==
  ASSUME TableInv, NEW p \in Procs, NEW l, Runs(p, l)
  PROVE  /\ pc[p] = l /\ slp[p] = NoSlot /\ cpu \in {p, Nobody}
         /\ fr[p] \in Frames /\ file[p] \in load.slots \cup {NoSlot}
         /\ Placed(l, fr[p], file[p], load.slots)
         /\ SlotsOf(p) = HeldSlots(l, fr[p], file[p])
         /\ DirsOf(p) = HeldDirs(l, fr[p])
         /\ load.slots \subseteq Slots
<1>1. CallOK(p) /\ ProcsTyped
  BY DEF TableInv, CallsOK
<1> QED
  BY <1>1 DEF Runs, CallOK, ProcsTyped

LEMMA GotoFacts ==
  ASSUME TableInv, NEW p \in Procs, NEW l, NEW m, Runs(p, l), Goto(p, m)
  PROVE  /\ CpuStep(p, m)
         /\ fr' = fr /\ file' = file => Moves(p, m, fr[p], file[p])
         /\ \A f : Frame(p, f) /\ file' = file => Moves(p, m, f, file[p])
<1>1. CpuStep(p, m)
  BY DEF CpuStep, Runs, Goto
<1>2. fr = [fr EXCEPT ![p] = fr[p]] /\ file = [file EXCEPT ![p] = file[p]]
  BY DEF TableInv, ProcsTyped
<1> QED
  BY <1>1, <1>2 DEF Moves, Goto, Frame

LEMMA StoreKept ==
  ASSUME StoreOK, UNCHANGED <<load, nc, lru, disk, dir, fs>>
  PROVE  StoreOK'
BY DEF StoreOK, Elems, Distinct

FsTyped(s) ==
  /\ DOMAIN s = {"list", "ilock", "lasti", "nbehind", "tinode"}
  /\ s.ilock \in Nat /\ s.lasti \in Int
LEMMA StoreFs ==
  ASSUME StoreOK, UNCHANGED <<load, nc, lru, disk, dir>>, FsTyped(fs')
  PROVE  StoreOK'
BY DEF StoreOK, Elems, Distinct, FsTyped

LEMMA DirKept ==
  ASSUME TableInv, NEW p \in Procs, NEW l, NEW f, dlock' = dlock, DirsOf(p) = HeldDirs(l, f)
  PROVE  DirStep(p, l, f)
<1>1. dlock \in [Dirs -> Procs \cup {Nobody}]
  BY DEF TableInv, TableTyped
<1> QED
  BY <1>1 DEF DirStep, DirsOf

LEMMA DirTaken ==
  ASSUME TableInv, NEW p \in Procs, NEW l, NEW f, DirLock(p), fr[p].name \in Names,
         DirsOf(p) = {}, HeldDirs(l, f) = {Dir(p)}
  PROVE  DirStep(p, l, f)
<1> DEFINE d == Dir(p)
<1>1. dlock \in [Dirs -> Procs \cup {Nobody}] /\ d \in Dirs
  BY InodeAssumption DEF TableInv, TableTyped, Dir
<1>2. dlock[d] = Nobody /\ dlock' = [dlock EXCEPT ![d] = p]
  BY DEF DirLock
<1> HIDE DEF d
<1>3. ASSUME NEW q \in Procs \ {p} PROVE DirsOf(q)' = DirsOf(q)
  BY <1>1, <1>2, InodeAssumption DEF DirsOf
<1>4. DirsOf(p)' = {d}
  BY <1>1, <1>2 DEF DirsOf
<1> QED
  BY <1>1, <1>2, <1>3, <1>4 DEF DirStep, d

LEMMA DirGiven ==
  ASSUME TableInv, NEW p \in Procs, NEW l, NEW f, DirUnlock(p), fr[p].name \in Names,
         DirsOf(p) = {Dir(p)}, HeldDirs(l, f) = {}
  PROVE  DirStep(p, l, f)
<1> DEFINE d == Dir(p)
<1>1. dlock \in [Dirs -> Procs \cup {Nobody}] /\ d \in Dirs
  BY InodeAssumption DEF TableInv, TableTyped, Dir
<1>2. dlock[d] = p /\ dlock' = [dlock EXCEPT ![d] = Nobody]
  BY DEF DirUnlock, DirsOf
<1> HIDE DEF d
<1>3. ASSUME NEW q \in Procs \ {p} PROVE DirsOf(q)' = DirsOf(q)
  BY <1>1, <1>2, InodeAssumption DEF DirsOf
<1>4. DirsOf(p)' = {}
  BY <1>1, <1>2, InodeAssumption DEF DirsOf, d
<1> QED
  BY <1>1, <1>2, <1>3, <1>4 DEF DirStep

LEMMA IlockKept ==
  ASSUME NEW p \in Procs, NEW l, NEW m, Runs(p, l), l \notin Scanning, fs'.ilock = fs.ilock
  PROVE  IlockStep(p, m)
BY DEF IlockStep, Runs

(* A step that touches nothing of the table.                               *)
LEMMA Quiet ==
  ASSUME TableInv, NEW p \in Procs, NEW l, NEW m, NEW f, Runs(p, l),
         Moves(p, m, f, file[p]), Fits(m, f, file[p]), f.slot = fr[p].slot,
         DirStep(p, m, f), CpuStep(p, m), IlockStep(p, m), UNCHANGED <<x, free, slp>>,
         m \notin Working,
         HeldSlots(m, f, file[p]) = SlotsOf(p), StoreOK'
  PROVE  TableInv'
<1>1. SameRefs(p, f, file[p])
  BY DEF SameRefs, Delta, One
<1> QED
  BY <1>1, Untouched

(* The free list after a step.                                             *)
LEMMA FreedKept ==
  ASSUME TableInv, NEW s \in load.slots, NEW r, free' = free, r.count = 0 <=> x[s].count = 0
  PROVE  Freed(s, r)
<1>1. free \in Seq(Slots) /\ Distinct(free) /\ Elems(free) = {t \in load.slots : x[t].count = 0}
  BY DEF TableInv, TableTyped, FreeExact
<1> QED
  BY <1>1 DEF Freed

LEMMA FreedOff ==
  ASSUME TableInv, NEW s \in load.slots, NEW r, free' = OffFree(s), r.count # 0
  PROVE  Freed(s, r)
<1>1. free \in Seq(Slots) /\ Distinct(free) /\ Elems(free) = {t \in load.slots : x[t].count = 0}
  BY DEF TableInv, TableTyped, FreeExact
<1>2. /\ Unlink(free, s) \in Seq(Slots) /\ Distinct(Unlink(free, s))
      /\ Elems(Unlink(free, s)) = Elems(free) \ {s}
  BY <1>1, UnlinkFacts
<1>3. CASE x[s].count = 0
  BY <1>2, <1>3 DEF Freed, OffFree
<1>4. CASE x[s].count # 0
  BY <1>1, <1>4 DEF Freed, OffFree
<1> QED
  BY <1>3, <1>4

LEMMA FreedHead ==
  ASSUME TableInv, NEW r, free # <<>>, free' = Tail(free), r.count # 0
  PROVE  Freed(Head(free), r) /\ Head(free) \in load.slots /\ x[Head(free)].count = 0
<1>1. free \in Seq(Slots) /\ Distinct(free) /\ Elems(free) = {t \in load.slots : x[t].count = 0}
  BY DEF TableInv, TableTyped, FreeExact
<1>2. /\ Tail(free) \in Seq(Slots) /\ Distinct(Tail(free))
      /\ Elems(Tail(free)) = Elems(free) \ {Head(free)}
  BY <1>1, TailFacts
<1>3. Head(free) \in Elems(free)
  BY <1>1, HeadInElems
<1> QED
  BY <1>1, <1>2, <1>3 DEF Freed

LEMMA FreedTail ==
  ASSUME TableInv, NEW s \in load.slots, NEW r, free' = PushTail(free, s), r.count = 0,
         x[s].count # 0
  PROVE  Freed(s, r)
<1>1. free \in Seq(Slots) /\ Distinct(free) /\ Elems(free) = {t \in load.slots : x[t].count = 0}
  BY DEF TableInv, TableTyped, FreeExact
<1>2. s \in Slots /\ s \notin Elems(free)
  BY <1>1 DEF TableInv, ProcsTyped
<1>3. /\ PushTail(free, s) \in Seq(Slots) /\ Distinct(PushTail(free, s))
      /\ Elems(PushTail(free, s)) = Elems(free) \cup {s}
  BY <1>1, <1>2, PushFacts
<1> QED
  BY <1>3 DEF Freed

(* What a call knows of a slot it has locked, and of one it has.           *)
LEMMA OwnSlot ==
  ASSUME TableInv, NEW p \in Procs, NEW s \in SlotsOf(p)
  PROVE  s \in load.slots /\ s \in Slots /\ x[s] \in Records /\ x[s].lock = p /\ Locked(s)
<1>1. s \in Slots /\ x[s].lock = p /\ p # Nobody
  BY InodeAssumption DEF SlotsOf
<1>2. x[s] \in Records
  BY <1>1 DEF TableInv, TableTyped
<1>3. s \in load.slots
  BY <1>1 DEF TableInv, InTable, NoInode
<1> QED
  BY <1>1, <1>2, <1>3 DEF Locked

(* A step that changes the inode p has locked, but not who has it.         *)
SameHold(s, r) ==
  r.lock = x[s].lock /\ r.want = x[s].want /\ r.count = x[s].count /\ r.ino = x[s].ino
LEMMA Edited ==
  ASSUME TableInv, NEW p \in Procs, NEW m, NEW f, NEW r, NEW s \in SlotsOf(p),
         Moves(p, m, f, file[p]), Fits(m, f, file[p]), f.slot = fr[p].slot,
         DirStep(p, m, f), CpuStep(p, m), IlockStep(p, m),
         Update(s, r), free' = free, r \in Records, SameHold(s, r), AloneStep(m, f, s, r),
         HeldSlots(m, f, file[p]) = SlotsOf(p), StoreOK'
  PROVE  TableInv'
<1>1. s \in load.slots /\ x[s].lock = p
  BY OwnSlot
<1>2. XStep(p, s, r)
  BY <1>1 DEF XStep, Update, SameHold
<1>3. Wakes(s, r)
  BY DEF Wakes, Update, SameHold, Locked
<1>4. Counted(p, f, file[p], s, r)
  <2>1. x[s].count \in Nat
    BY OwnSlot DEF Records
  <2> QED
    BY <2>1 DEF Counted, SameHold, Delta, One
<1>5. Freed(s, r)
  BY <1>1, FreedKept DEF SameHold
<1>6. Relocks(p, m, f, file[p], s, r)
  BY <1>1 DEF Relocks, SameHold
<1> QED
  BY <1>2, <1>3, <1>4, <1>5, <1>6, Updated

(* A step that locks a slot that p has a reference to.                     *)
LEMMA Lock ==
  ASSUME TableInv, NEW p \in Procs, NEW m, NEW f, NEW s \in load.slots,
         Moves(p, m, f, file[p]), Fits(m, f, file[p]), f.slot = fr[p].slot,
         DirStep(p, m, f), CpuStep(p, m), IlockStep(p, m),
         ~ Locked(s), Update(s, [x[s] EXCEPT !.lock = p]), free' = free,
         AloneStep(m, f, s, x[s]),
         HeldSlots(m, f, file[p]) = SlotsOf(p) \cup {s}, StoreOK'
  PROVE  TableInv'
<1> DEFINE r == [x[s] EXCEPT !.lock = p]
<1>1. x[s] \in Records /\ x[s].lock = Nobody
  BY DEF TableInv, TableTyped, ProcsTyped, Locked
<1>2. /\ r \in Records /\ r.lock = p /\ r.want = x[s].want /\ r.count = x[s].count
      /\ r.ino = x[s].ino /\ x[s].count \in Nat
  BY <1>1 DEF Records
<1>0. x' = [x EXCEPT ![s] = r] /\ slp' = slp
  BY DEF Update
<1> HIDE DEF r
<1>3. XStep(p, s, r)
  BY <1>0, <1>1, <1>2 DEF XStep
<1>4. Wakes(s, r)
  BY <1>0 DEF Wakes
<1>5. Counted(p, f, file[p], s, r)
  BY <1>2 DEF Counted, Delta, One
<1>6. Freed(s, r)
  BY <1>2, FreedKept
<1>7. Relocks(p, m, f, file[p], s, r) /\ AloneStep(m, f, s, r)
  BY <1>2 DEF Relocks, AloneStep, WorkOK
<1> QED
  BY <1>3, <1>4, <1>5, <1>6, <1>7, Updated

(* A step that takes a reference: p gets the slot, locked or, when igrab   *)
(* found that it was for nothing, unlocked again.                          *)
Takes(p, s, r) ==
  /\ x' = [x EXCEPT ![s] = r] /\ r \in Records /\ r.count = x[s].count + 1
  /\ r.lock \in {Nobody, p}
  /\ r.ino = x[s].ino \/ InCore(r.ino) = {}
  /\ slp' = slp \/ slp' = Woken(s)
LEMMA Taken ==
  ASSUME TableInv, NEW p \in Procs, NEW m, NEW f, NEW r, NEW s \in load.slots,
         Moves(p, m, f, file[p]), Fits(m, f, file[p]), fr[p].slot = NoSlot, f.slot = s,
         DirStep(p, m, f), CpuStep(p, m), IlockStep(p, m),
         ~ Locked(s), Takes(p, s, r), Freed(s, r), AloneStep(m, f, s, r),
         Relocks(p, m, f, file[p], s, r), StoreOK'
  PROVE  TableInv'
<1>1. s \in Slots /\ x[s] \in Records /\ x[s].lock = Nobody /\ s # NoSlot
  BY InodeAssumption DEF TableInv, TableTyped, ProcsTyped, Locked
<1>2. XStep(p, s, r)
  BY <1>1 DEF XStep, Takes
<1>3. Wakes(s, r)
  BY DEF Wakes, Takes
<1>4. Counted(p, f, file[p], s, r)
  <2>1. x[s].count \in Nat
    BY <1>1 DEF Records
  <2>2. \A t \in Slots : t # NoSlot
    BY InodeAssumption
  <2> QED
    BY <1>1, <2>1, <2>2 DEF Counted, Takes, Delta, One
<1> QED
  BY <1>2, <1>3, <1>4, Updated

(* A step that unlocks the slot s, with r in it.                           *)
LEMMA PutBack ==
  ASSUME TableInv, NEW p \in Procs, NEW m, NEW f, NEW o, NEW r, NEW s \in SlotsOf(p),
         Moves(p, m, f, o), Fits(m, f, o), SameRefs(p, f, o),
         DirStep(p, m, f), CpuStep(p, m), IlockStep(p, m),
         Release(s, r), free' = free, r \in Records, r.count = x[s].count,
         r.ino = x[s].ino \/ r.ino = 0, m \notin Working,
         HeldSlots(m, f, o) = SlotsOf(p) \ {s}, StoreOK'
  PROVE  TableInv'
<1> DEFINE u == Unlocked(r)
<1>1. s \in load.slots /\ x[s].lock = p /\ x[s].count \in Nat /\ s \in Slots
  BY OwnSlot DEF Records
<1>2. u \in Records /\ u.lock = Nobody /\ u.count = r.count /\ u.ino = r.ino
  BY DEF Unlocked, Records
<1>3. x' = [x EXCEPT ![s] = u] /\ slp' = Woken(s)
  BY DEF Release
<1> HIDE DEF u
<1>4. XStep(p, s, u)
  BY <1>1, <1>2, <1>3 DEF XStep
<1>5. Wakes(s, u)
  BY <1>3 DEF Wakes
<1>6. Counted(p, f, o, s, u)
  BY <1>1, <1>2 DEF Counted, SameRefs
<1>7. Freed(s, u)
  BY <1>1, <1>2, FreedKept
<1>8. Relocks(p, m, f, o, s, u)
  BY <1>2, InodeAssumption DEF Relocks
<1>9. AloneStep(m, f, s, u)
  BY DEF AloneStep
<1> QED
  BY <1>4, <1>5, <1>6, <1>7, <1>8, <1>9, Updated

(* A step that drops a reference to s, and with the last one frees s.      *)
DropsTo(p, s, r) ==
  /\ x' = [x EXCEPT ![s] = r] /\ r \in Records /\ r.count = x[s].count - 1
  /\ r.ino = x[s].ino
  /\ \/ /\ x[s].count > 1 /\ slp' = slp /\ free' = free
        /\ r.lock = x[s].lock /\ r.want = x[s].want
     \/ /\ x[s].count = 1 /\ slp' = Woken(s) /\ free' = PushTail(free, s)
        /\ x[s].lock \in {Nobody, p} /\ r.lock = Nobody
LEMMA DroppedOK ==
  ASSUME TableInv, NEW p \in Procs, NEW m, NEW f, NEW r, NEW s \in load.slots,
         Moves(p, m, f, file[p]), Fits(m, f, file[p]), fr[p].slot = s, f.slot = NoSlot,
         DirStep(p, m, f), CpuStep(p, m), IlockStep(p, m), DropsTo(p, s, r),
         m \notin Working,
         Relocks(p, m, f, file[p], s, r), StoreOK'
  PROVE  TableInv'
<1>1. s \in Slots /\ x[s] \in Records /\ s # NoSlot /\ x[s].count \in Nat
  BY InodeAssumption DEF TableInv, TableTyped, ProcsTyped, Records
<1>2. XStep(p, s, r)
  BY <1>1 DEF XStep, DropsTo
<1>3. Wakes(s, r)
  BY DEF Wakes, Locked, DropsTo
<1>4. Counted(p, f, file[p], s, r)
  <2>1. \A t \in Slots : t # NoSlot
    BY InodeAssumption
  <2> QED
    BY <1>1, <2>1 DEF Counted, Delta, One, DropsTo
<1>5. Freed(s, r)
  <2>1. CASE x[s].count > 1 /\ free' = free
    BY <2>1, <1>1, FreedKept DEF DropsTo
  <2>2. CASE x[s].count = 1 /\ free' = PushTail(free, s)
    BY <2>2, <1>1, FreedTail DEF DropsTo
  <2> QED
    BY <2>1, <2>2 DEF DropsTo
<1>6. AloneStep(m, f, s, r)
  BY DEF AloneStep
<1> QED
  BY <1>2, <1>3, <1>4, <1>5, <1>6, Updated

-----------------------------------------------------------------------------
(* The order of the name cache.                                            *)

(* A nonempty set of natural numbers below a bound has a greatest element. *)
LEMMA GreatestOf ==
  ASSUME NEW T, NEW n \in Nat, T \subseteq 0..n, T # {}
  PROVE  \E k \in T : \A j \in T : j <= k
<1> DEFINE R == OpToRel(<, Nat)
           U == {n - k : k \in T}
<1>1. IsWellFoundedOn(R, Nat)
  BY NatLessThanWellFounded
<1>2. \A j, k \in Nat : j < k => <<j, k>> \in R
  BY DEF OpToRel
<1>3. U \subseteq Nat /\ U # {}
  <2>1. \A k \in T : n - k \in Nat
    OBVIOUS
  <2>2. PICK k \in T : TRUE
    OBVIOUS
  <2>3. n - k \in U
    OBVIOUS
  <2> QED
    BY <2>1, <2>3
<1> HIDE DEF R
<1>4. PICK u \in U : \A j \in U : ~ (<<j, u>> \in R)
  <2> HIDE DEF U
  <2> QED
    BY <1>1, <1>3, WFMin
<1>5. PICK k \in T : u = n - k
  OBVIOUS
<1>6. ASSUME NEW j \in T PROVE j <= k
  <2>1. n - j \in U /\ n - j \in Nat /\ u \in Nat
    BY <1>3
  <2>2. ~ (n - j < u)
    <3> HIDE DEF U
    <3> QED
      BY <1>2, <1>4, <2>1
  <2> QED
    BY <1>5, <2>2
<1> QED
  BY <1>6

LEMMA LatestFacts ==
  ASSUME StoreOK, NEW es, es \subseteq Entries, es # {}
  PROVE  Latest(es) \in es
<1> DEFINE T == {Age(e) : e \in es}
           n == Len(lru)
<1>1. lru \in Seq(Entries) /\ n \in Nat /\ DOMAIN lru = 1..n /\ Elems(lru) = Entries
  BY DEF StoreOK
<1>2. \A e \in es : Age(e) \in 1..n
  BY <1>1 DEF Age, Position, Elems
<1>3. T \subseteq 0..n /\ T # {}
  BY <1>1, <1>2
<1> HIDE DEF n
<1>4. \E k \in T : \A j \in T : j <= k
  <2> HIDE DEF T
  <2> QED
    BY <1>1, <1>3, GreatestOf
<1>5. \E e \in es : \A d \in es : Age(d) <= Age(e)
  BY <1>4
<1> QED
  BY <1>5 DEF Latest

LEMMA LruFacts ==
  ASSUME StoreOK, NEW e \in Entries
  PROVE  /\ ToTail(e) \in Seq(Entries) /\ Distinct(ToTail(e)) /\ Elems(ToTail(e)) = Entries
         /\ ToHead(e) \in Seq(Entries) /\ Distinct(ToHead(e)) /\ Elems(ToHead(e)) = Entries
<1> DEFINE t == Unlink(lru, e)
<1>1. lru \in Seq(Entries) /\ Distinct(lru) /\ Elems(lru) = Entries
  BY DEF StoreOK
<1>2. t \in Seq(Entries) /\ Distinct(t) /\ Elems(t) = Entries \ {e}
  BY <1>1, UnlinkFacts
<1>0. ToTail(e) = PushTail(t, e) /\ ToHead(e) = PushHead(t, e)
  BY DEF ToTail, ToHead
<1> HIDE DEF t
<1>3. e \notin Elems(t)
  BY <1>2
<1>4. /\ PushHead(t, e) \in Seq(Entries) /\ PushTail(t, e) \in Seq(Entries)
      /\ Distinct(PushHead(t, e)) /\ Distinct(PushTail(t, e))
      /\ Elems(PushHead(t, e)) = Elems(t) \cup {e}
      /\ Elems(PushTail(t, e)) = Elems(t) \cup {e}
  BY <1>2, <1>3, PushFacts
<1> QED
  BY <1>0, <1>2, <1>4

(* The store after a step that changes the name cache and its order.       *)
CacheOK(c) ==
  c \in [Entries -> Cached] /\ \A e \in Entries : c[e].ok => c[e].slot \in load.slots
LEMMA StoreLru ==
  ASSUME StoreOK, UNCHANGED <<load, disk, dir, fs>>, NEW e \in Entries,
         lru' = ToTail(e) \/ lru' = ToHead(e), CacheOK(nc')
  PROVE  StoreOK'
<1>1. lru' \in Seq(Entries) /\ Distinct(lru') /\ Elems(lru') = Entries
  BY LruFacts
<1>2. (Distinct(lru)' <=> Distinct(lru')) /\ Elems(lru)' = Elems(lru')
  BY DEF Distinct, Elems
<1>3. CacheOK(nc') /\ load' = load /\ disk' = disk /\ dir' = dir /\ fs' = fs
  OBVIOUS
<1> QED
  BY <1>1, <1>2, <1>3 DEF StoreOK, CacheOK

LEMMA CacheNow ==
  ASSUME StoreOK
  PROVE  /\ CacheOK(nc) /\ lru # <<>> /\ Head(lru) \in Entries
         /\ \A e \in Entries : CacheOK([nc EXCEPT ![e].name = NoName])
<1>1. CacheOK(nc)
  BY DEF StoreOK, CacheOK
<1>2. lru \in Seq(Entries) /\ Elems(lru) = Entries /\ Entries # {}
  BY InodeAssumption DEF StoreOK
<1>3. lru # <<>> /\ Head(lru) \in Entries
  BY <1>2, HeadInElems
<1>4. ASSUME NEW e \in Entries PROVE CacheOK([nc EXCEPT ![e].name = NoName])
  BY <1>1 DEF CacheOK, Cached
<1> QED
  BY <1>1, <1>3, <1>4

(* The frame of a scan of the disk.                                        *)
ScanFrame(g, b, k) == [g EXCEPT !.first = b, !.blk = k]
LEMMA ScanFrameFacts ==
  ASSUME NEW g \in Frames, NEW b \in BOOLEAN, NEW k \in Int
  PROVE  /\ ScanFrame(g, b, k) \in Frames
         /\ ScanFrame(g, b, k).call = g.call /\ ScanFrame(g, b, k).name = g.name
         /\ ScanFrame(g, b, k).slot = g.slot /\ ScanFrame(g, b, k).seen = g.seen
         /\ ScanFrame(g, b, k).ncp = g.ncp /\ ScanFrame(g, b, k).ino = g.ino
         /\ ScanFrame(g, b, k).back = g.back /\ ScanFrame(g, b, k).then = g.then
BY DEF ScanFrame, Frames

LEMMA StoreCache ==
  ASSUME StoreOK, UNCHANGED <<load, lru, disk, dir, fs>>, CacheOK(nc')
  PROVE  StoreOK'
BY DEF StoreOK, Elems, Distinct, CacheOK

LEMMA StoreDir ==
  ASSUME StoreOK, UNCHANGED <<load, nc, lru, disk, fs>>, dir' \in [Names -> 0 .. NINO]
  PROVE  StoreOK'
BY DEF StoreOK, Elems, Distinct

LEMMA StoreDisk ==
  ASSUME StoreOK, UNCHANGED <<load, nc, lru, dir, fs>>, disk' \in [Inodes -> OnDisk]
  PROVE  StoreOK'
BY DEF StoreOK, Elems, Distinct

(* The frame of a call that has been made.                                 *)
LEMMA NoFrameFacts ==
  /\ NoFrame \in Frames /\ NoFrame.call = "none" /\ NoFrame.name = NoName
  /\ NoFrame.slot = NoSlot /\ NoFrame.seen = NoSlot /\ NoFrame.ncp = NoEntry
  /\ NoFrame.ino = 0 /\ NoFrame.back = "user" /\ NoFrame.then = "user"
BY InodeAssumption DEF NoFrame, Frames, Backs, Thens, Calls

CallFrame(c, n) == [NoFrame EXCEPT !.call = c, !.name = n]
LEMMA CallFrameFacts ==
  ASSUME NEW c \in Calls, NEW n \in Names
  PROVE  /\ CallFrame(c, n) \in Frames /\ CallFrame(c, n).call = c /\ CallFrame(c, n).name = n
         /\ CallFrame(c, n).slot = NoSlot /\ CallFrame(c, n).seen = NoSlot
         /\ CallFrame(c, n).ncp = NoEntry /\ CallFrame(c, n).ino = 0
         /\ CallFrame(c, n).back = "user" /\ CallFrame(c, n).then = "user"
BY NoFrameFacts DEF CallFrame, Frames

SlotFrame(c, s, v, t) == [NoFrame EXCEPT !.call = c, !.slot = s, !.seen = v, !.then = t]
LEMMA SlotFrameFacts ==
  ASSUME NEW c \in Calls, NEW s \in Slots, NEW v \in Slots \cup {NoSlot}, NEW t \in Thens
  PROVE  /\ SlotFrame(c, s, v, t) \in Frames /\ SlotFrame(c, s, v, t).call = c
         /\ SlotFrame(c, s, v, t).name = NoName /\ SlotFrame(c, s, v, t).slot = s
         /\ SlotFrame(c, s, v, t).seen = v /\ SlotFrame(c, s, v, t).ncp = NoEntry
         /\ SlotFrame(c, s, v, t).ino = 0 /\ SlotFrame(c, s, v, t).back = "user"
         /\ SlotFrame(c, s, v, t).then = t
BY NoFrameFacts DEF SlotFrame, Frames

SyncFrame(s) == [NoFrame EXCEPT !.call = "sync", !.slot = s]
LEMMA SyncFrameFacts ==
  ASSUME NEW s \in Slots
  PROVE  /\ SyncFrame(s) \in Frames /\ SyncFrame(s).call = "sync" /\ SyncFrame(s).name = NoName
         /\ SyncFrame(s).slot = s /\ SyncFrame(s).seen = NoSlot /\ SyncFrame(s).ncp = NoEntry
         /\ SyncFrame(s).ino = 0 /\ SyncFrame(s).back = "user" /\ SyncFrame(s).then = "user"
BY NoFrameFacts DEF SyncFrame, Frames, Calls

(* What a step does to the record of an inode.                             *)
LEMMA RecordEdits ==
  ASSUME NEW r \in Records
  PROVE  /\ [r EXCEPT !.ino = 0] \in Records /\ [r EXCEPT !.ino = 0].count = r.count
         /\ [r EXCEPT !.ino = 0].ino = 0
         /\ Unnamed(r) \in Records /\ Unnamed(r).count = r.count /\ Unnamed(r).ino = r.ino
<1>1. /\ [r EXCEPT !.ino = 0] \in Records /\ [r EXCEPT !.ino = 0].count = r.count
      /\ [r EXCEPT !.ino = 0].ino = 0
  BY InodeAssumption DEF Records
<1>2. Max({r.nlink - 1, MinNlink}) \in MinNlink .. 1
  <2>1. r.nlink - 1 \in Int /\ r.nlink - 1 <= 0 /\ r.nlink - 1 >= -2 /\ MinNlink = -1
    BY DEF Records, MinNlink
  <2> DEFINE a == r.nlink - 1
  <2>2. a \in Int /\ a <= 0
    BY <2>1
  <2> HIDE DEF a
  <2>3. Max({a, -1}) = IF a >= -1 THEN a ELSE -1
    BY <2>2 DEF Max
  <2>4. Max({a, -1}) \in -1 .. 1
    BY <2>2, <2>3
  <2> QED
    BY <2>4 DEF a, MinNlink
<1>3. Unnamed(r) \in Records /\ Unnamed(r).count = r.count /\ Unnamed(r).ino = r.ino
  <2> DEFINE k == Max({r.nlink - 1, MinNlink})
  <2>1. k \in MinNlink .. 1
    BY <1>2
  <2>2. Unnamed(r) = [r EXCEPT !.nlink = k, !.dirty = TRUE]
    BY DEF Unnamed
  <2> HIDE DEF k
  <2> QED
    BY <2>1, <2>2 DEF Records
<1> QED
  BY <1>1, <1>3

LEMMA DirtyEdit ==
  ASSUME NEW r \in Records, NEW b \in BOOLEAN
  PROVE  /\ [r EXCEPT !.dirty = b] \in Records /\ [r EXCEPT !.dirty = b].count = r.count
         /\ [r EXCEPT !.dirty = b].ino = r.ino /\ [r EXCEPT !.dirty = b].lock = r.lock
         /\ [r EXCEPT !.dirty = b].want = r.want
BY DEF Records

LEMMA CoreEdit ==
  ASSUME NEW r \in Records, NEW a \in BOOLEAN, NEW k \in MinNlink .. 1, NEW b \in BOOLEAN
  PROVE  LET u == [r EXCEPT !.mode = a, !.nlink = k, !.dirty = b]
         IN  /\ u \in Records /\ u.count = r.count /\ u.ino = r.ino /\ u.lock = r.lock
             /\ u.want = r.want
BY DEF Records

LEMMA GrabEdit ==
  ASSUME NEW r \in Records, NEW p \in Procs
  PROVE  /\ Grabbed(p, r) \in Records /\ Grabbed(p, r).lock = p
         /\ Grabbed(p, r).count = r.count + 1 /\ Grabbed(p, r).ino = r.ino
<1> DEFINE k == r.count + 1
<1>1. k \in Nat
  BY DEF Records
<1>2. Grabbed(p, r) = [r EXCEPT !.lock = p, !.count = k]
  BY DEF Grabbed
<1> HIDE DEF k
<1>3. /\ Grabbed(p, r) \in Records /\ Grabbed(p, r).lock = p
      /\ Grabbed(p, r).count = k /\ Grabbed(p, r).ino = r.ino
  BY <1>1, <1>2 DEF Records
<1> QED
  BY <1>3 DEF k

ReadRecord(r, a, k) == [r EXCEPT !.mode = a, !.nlink = k]
LEMMA ReadEdit ==
  ASSUME NEW r \in Records, NEW a \in BOOLEAN, NEW k \in MinNlink .. 1
  PROVE  /\ ReadRecord(r, a, k) \in Records /\ ReadRecord(r, a, k).count = r.count
         /\ ReadRecord(r, a, k).ino = r.ino /\ ReadRecord(r, a, k).lock = r.lock
         /\ ReadRecord(r, a, k).want = r.want
BY DEF Records, ReadRecord

LEMMA TruncEdit ==
  ASSUME NEW r \in Records, NEW a \in BOOLEAN, NEW b \in BOOLEAN
  PROVE  LET u == [r EXCEPT !.mode = a, !.dirty = b]
         IN  /\ u \in Records /\ u.count = r.count /\ u.ino = r.ino /\ u.lock = r.lock
             /\ u.want = r.want
BY DEF Records

LEMMA RenameEdit ==
  ASSUME NEW r \in Records, NEW i \in 0 .. NINO, NEW a \in BOOLEAN, NEW b \in BOOLEAN
  PROVE  LET u == [r EXCEPT !.ino = i, !.want = a, !.dirty = b]
         IN  /\ u \in Records /\ u.count = r.count /\ u.ino = i /\ u.lock = r.lock
BY DEF Records

LEMMA UnlockEdit ==
  ASSUME NEW r \in Records
  PROVE  /\ Unlocked(r) \in Records /\ Unlocked(r).count = r.count
         /\ Unlocked(r).ino = r.ino /\ Unlocked(r).lock = Nobody
BY DEF Unlocked, Records

LEMMA DropEdit ==
  ASSUME NEW r \in Records, r.count > 0
  PROVE  /\ [r EXCEPT !.count = @ - 1] \in Records
         /\ [r EXCEPT !.count = @ - 1].count = r.count - 1
         /\ [r EXCEPT !.count = @ - 1].ino = r.ino /\ [r EXCEPT !.count = @ - 1].lock = r.lock
         /\ [r EXCEPT !.count = @ - 1].want = r.want
<1> DEFINE k == r.count - 1
<1>1. k \in Nat
  BY DEF Records
<1>2. [r EXCEPT !.count = @ - 1] = [r EXCEPT !.count = k]
  OBVIOUS
<1> HIDE DEF k
<1>3. /\ [r EXCEPT !.count = k] \in Records /\ [r EXCEPT !.count = k].count = k
      /\ [r EXCEPT !.count = k].ino = r.ino /\ [r EXCEPT !.count = k].lock = r.lock
      /\ [r EXCEPT !.count = k].want = r.want
  BY <1>1 DEF Records
<1> QED
  BY <1>2, <1>3 DEF k

LastRecord(r) == [r EXCEPT !.dirty = FALSE, !.count = @ - 1]
LEMMA LastEdit ==
  ASSUME NEW r \in Records, r.count > 0
  PROVE  /\ LastRecord(r) \in Records /\ LastRecord(r).count = r.count - 1
         /\ LastRecord(r).ino = r.ino
<1> DEFINE k == r.count - 1
           b == FALSE
<1>1. k \in Nat /\ b \in BOOLEAN
  BY DEF Records
<1>2. LastRecord(r) = [r EXCEPT !.dirty = b, !.count = k]
  BY DEF LastRecord
<1> HIDE DEF k, b
<1>3. /\ [r EXCEPT !.dirty = b, !.count = k] \in Records
      /\ [r EXCEPT !.dirty = b, !.count = k].count = k
      /\ [r EXCEPT !.dirty = b, !.count = k].ino = r.ino
  BY <1>1 DEF Records
<1> QED
  BY <1>2, <1>3 DEF k
(* A locked slot has a reference, and who has the only one may lock it.    *)
LEMMA Holders ==
  ASSUME TableInv, NEW s \in Slots, Locked(s)
  PROVE  \E q \in Procs : s \in SlotsOf(q) /\ (fr[q].slot = s \/ file[q] = s)
<1>1. x[s].lock \in Procs
  BY DEF Locked, TableInv, TableTyped, Records
<1> DEFINE q == x[s].lock
<1>2. s \in SlotsOf(q)
  BY DEF SlotsOf
<1>3. SlotsOf(q) = HeldSlots(pc[q], fr[q], file[q])
  BY <1>1 DEF TableInv, CallsOK, CallOK
<1> HIDE DEF q
<1>4. fr[q].slot = s \/ file[q] = s
  BY <1>2, <1>3 DEF HeldSlots
<1> QED
  BY <1>1, <1>2, <1>4 DEF q

LEMMA LockedCounted ==
  ASSUME TableInv, NEW s \in Slots, Locked(s)
  PROVE  x[s].count >= 1
<1>1. PICK q \in Procs : s \in SlotsOf(q) /\ (fr[q].slot = s \/ file[q] = s)
  BY Holders
<1>2. ProcsTyped /\ x[s].count = Refs(s)
  BY DEF TableInv, RefsExact
<1> QED
  BY <1>1, <1>2, RefsSome

LEMMA LoneUnlocked ==
  ASSUME TableInv, NEW p \in Procs, NEW s \in Slots, fr[p].slot = s, x[s].count = 1,
         SlotsOf(p) = {}
  PROVE  ~ Locked(s)
<1> SUFFICES ASSUME Locked(s) PROVE FALSE
  OBVIOUS
<1>1. PICK q \in Procs : s \in SlotsOf(q) /\ (fr[q].slot = s \/ file[q] = s)
  BY Holders
<1>2. ProcsTyped /\ x[s].count = Refs(s)
  BY DEF TableInv, RefsExact
<1>3. q # p
  BY <1>1
<1>4. Refs(s) >= 2
  BY <1>1, <1>2, <1>3, RefsSome
<1> QED
  BY <1>2, <1>4

LEMMA InTableFacts ==
  ASSUME TableInv, NEW s \in Slots, x[s].ino # 0 \/ x[s].count > 0
  PROVE  s \in load.slots
BY DEF TableInv, InTable, NoInode

(* iput of the slot of a call.                                             *)
LEMMA Iputs ==
  ASSUME TableInv, NEW p \in Procs, NEW l \in Locking \cup MayLock, NEW f, NEW r, Runs(p, l),
         fr[p].slot # NoSlot, Iput(p, fr[p].slot, r), Moves(p, "irele", f, file[p]),
         Fits("irele", f, file[p]), f.slot = fr[p].slot, DirStep(p, "irele", f),
         IlockStep(p, "irele"), free' = free, r \in Records,
         r.count = x[fr[p].slot].count, r.ino = x[fr[p].slot].ino \/ r.ino = 0, StoreOK'
  PROVE  TableInv'
<1> DEFINE s == fr[p].slot
<1>1. SlotsOf(p) = HeldSlots(l, fr[p], file[p])
  BY RunsFacts
<1>2. HeldSlots(l, fr[p], file[p]) = {s}
  BY DEF HeldSlots, Locking, MayLock
<1>3. s \in SlotsOf(p)
  BY <1>1, <1>2
<1>4. HeldSlots("irele", f, file[p]) = SlotsOf(p) \ {s}
  BY <1>1, <1>2 DEF HeldSlots, Locking, MayLock
<1>5. SameRefs(p, f, file[p])
  BY DEF SameRefs, Delta, One
<1>6. Release(s, r) /\ CpuStep(p, "irele")
  <2>1. Goto(p, "irele")
    BY DEF Iput
  <2> QED
    BY <2>1, GotoFacts DEF Iput
<1>7. r.count = x[s].count /\ (r.ino = x[s].ino \/ r.ino = 0)
  OBVIOUS
<1> HIDE DEF s
<1> QED
  BY <1>3, <1>4, <1>5, <1>6, <1>7, PutBack DEF Working

(* irele drops the reference of the call.                                  *)
DropFrame(g) == [g EXCEPT !.slot = NoSlot]
LEMMA Drops ==
  ASSUME TableInv, NEW p \in Procs, NEW l \in {"irele", "irele_iupdat"}, Runs(p, l), NEW r,
         Dropped(p), UNCHANGED <<nc, lru, dir, dlock, fs, file>>, disk' \in [Inodes -> OnDisk],
         x' = [x EXCEPT ![fr[p].slot] = r], r \in Records,
         r.count = x[fr[p].slot].count - 1, r.ino = x[fr[p].slot].ino,
         (x[fr[p].slot].count > 1 /\ slp' = slp /\ free' = free /\ l = "irele"
          /\ r.lock = x[fr[p].slot].lock /\ r.want = x[fr[p].slot].want)
         \/ (x[fr[p].slot].count = 1 /\ slp' = Woken(fr[p].slot)
             /\ free' = PushTail(free, fr[p].slot) /\ r.lock = Nobody)
  PROVE  TableInv'
<1> DEFINE f == DropFrame(fr[p])
           m == fr[p].then
           s == fr[p].slot
<1>1. Frame(p, f) /\ Goto(p, m)
  BY DEF Dropped, DropFrame
<1>2. CpuStep(p, m) /\ Moves(p, m, f, file[p])
  BY <1>1, GotoFacts
<1>3. /\ fr[p] \in Frames /\ Placed(l, fr[p], file[p], load.slots)
      /\ SlotsOf(p) = HeldSlots(l, fr[p], file[p]) /\ DirsOf(p) = HeldDirs(l, fr[p])
      /\ file[p] \in load.slots \cup {NoSlot} /\ load.slots \subseteq Slots /\ pc[p] = l
  BY RunsFacts
<1>4. /\ f \in Frames /\ f.slot = NoSlot
      /\ f.call = fr[p].call /\ f.name = fr[p].name /\ f.seen = fr[p].seen
      /\ f.ncp = fr[p].ncp /\ f.ino = fr[p].ino /\ f.back = fr[p].back /\ f.then = fr[p].then
  BY <1>3 DEF Frames, DropFrame
<1>5. m \in Thens /\ m = fr[p].then
  BY <1>3 DEF Frames
<1>6. s \in load.slots /\ s \in Slots /\ s # NoSlot /\ s = fr[p].slot
  BY <1>3, InodeAssumption DEF Placed, Locking
<1> HIDE DEF f, m
<1>7. Fits(m, f, file[p])
  BY <1>3, <1>4, <1>5 DEF Fits, Placed, At, Thens, Backs,
     Fetching, Ireles, Locking, MayLock, Slotless, Labels, Creating, InDir, Opening, Looking
<1>8. DirStep(p, m, f)
  <2>1. DirsOf(p) = HeldDirs(m, f)
    BY <1>3, <1>4, <1>5 DEF HeldDirs, At, Fetching, Ireles, Creating, InDir, Thens, Backs
  <2> QED
    BY <2>1, DirKept
<1>9. IlockStep(p, m)
  BY IlockKept DEF Scanning
<1>10. StoreOK'
  BY <1>1, StoreDisk DEF Goto, TableInv
<1>11. HeldSlots(m, f, file[p]) = {}
  BY <1>4, <1>5 DEF HeldSlots, Thens, Backs
<1>12. x[s].count = 1 => x[s].lock \in {Nobody, p}
  <2>1. CASE l = "irele"
    <3>1. SlotsOf(p) = {}
      BY <1>3, <2>1 DEF HeldSlots, Locking, MayLock
    <3> QED
      BY <1>6, <3>1, LoneUnlocked DEF Locked
  <2>2. CASE l = "irele_iupdat"
    <3>1. s \in SlotsOf(p)
      BY <1>3, <1>6, <2>2 DEF HeldSlots, Locking
    <3> QED
      BY <3>1, OwnSlot
  <2> QED
    BY <2>1, <2>2
<1>13. Relocks(p, m, f, file[p], s, r)
  <2>0. p # Nobody
    BY InodeAssumption
  <2>1. CASE l = "irele"
    <3>1. SlotsOf(p) = {}
      BY <1>3, <2>1 DEF HeldSlots, Locking, MayLock
    <3>2. r.lock # p
      <4>1. x[s].lock # p
        BY <1>6, <3>1 DEF SlotsOf
      <4> QED
        BY <1>6, <2>0, <4>1
    <3> QED
      BY <1>11, <3>1, <3>2 DEF Relocks
  <2>2. CASE l = "irele_iupdat"
    <3>1. SlotsOf(p) = {s}
      BY <1>3, <1>6, <2>2 DEF HeldSlots, Locking
    <3> QED
      BY <1>11, <2>0, <2>2, <3>1 DEF Relocks
  <2> QED
    BY <2>1, <2>2
<1>14. m \notin Working
  BY <1>5 DEF Thens, Backs, Working
<1>15. DropsTo(p, s, r)
  BY <1>12 DEF DropsTo
<1> HIDE DEF s
<1> QED
  BY <1>2, <1>4, <1>6, <1>7, <1>8, <1>9, <1>10, <1>13, <1>14, <1>15, DroppedOK
-----------------------------------------------------------------------------
(* One lemma for each step.                                                *)
LEMMA StepIgetWait ==
  ASSUME TableInv, NEW p \in Procs, IgetWait(p) PROVE TableInv'
<1>1. PICK s \in Slots : LockWait(p, s)
  BY DEF IgetWait, InCore
<1>2. pc[p] \in Waits /\ cpu \in {p, Nobody}
  BY DEF IgetWait, Runs, Waits
<1> QED
  BY <1>1, <1>2, Waited

LEMMA StepIgetFull ==
  ASSUME TableInv, NEW p \in Procs, IgetFull(p) PROVE TableInv'
<1> DEFINE m == fr[p].back
<1>1. /\ Runs(p, "iget") /\ Goto(p, m) /\ fr' = fr
      /\ UNCHANGED <<x, free, nc, lru, disk, dir, dlock, fs, file, slp>>
  BY DEF IgetFull
<1>2. CpuStep(p, m) /\ Moves(p, m, fr[p], file[p])
  BY <1>1, GotoFacts
<1>3. /\ fr[p] \in Frames /\ Placed("iget", fr[p], file[p], load.slots)
      /\ SlotsOf(p) = HeldSlots("iget", fr[p], file[p]) /\ DirsOf(p) = HeldDirs("iget", fr[p])
      /\ file[p] \in load.slots \cup {NoSlot}
  BY <1>1, RunsFacts
<1>m. m = fr[p].back /\ m \in {"child", "ialloc_got"}
  BY <1>3 DEF Placed, Frames, Backs, Thens, Fetching, Ireles
<1> HIDE DEF m
<1>5. Fits(m, fr[p], file[p])
  BY <1>3, <1>m DEF Fits, Placed, At,
     Fetching, Ireles, Locking, MayLock, Slotless, Labels, Creating, InDir, Opening, Looking
<1>6. HeldSlots(m, fr[p], file[p]) = SlotsOf(p) /\ fr[p].slot = fr[p].slot
  BY <1>3, <1>m DEF HeldSlots, Placed, Locking, MayLock, Slotless
<1>7. DirStep(p, m, fr[p])
  <2>1. DirsOf(p) = HeldDirs(m, fr[p])
    BY <1>3, <1>m DEF HeldDirs, At, Fetching, Ireles, Creating, InDir
  <2> QED
    BY <1>1, <2>1, DirKept
<1>8. IlockStep(p, m)
  BY <1>1, IlockKept DEF Scanning
<1>9. StoreOK'
  BY <1>1, StoreKept DEF Goto, TableInv
<1> QED
  BY <1>1, <1>2, <1>5, <1>6, <1>7, <1>8, <1>9, <1>m, Quiet DEF Working

LEMMA StepLookupMiss ==
  ASSUME TableInv, NEW p \in Procs, LookupMiss(p) PROVE TableInv'
<1>1. /\ Runs(p, "namei") /\ Goto(p, "search") /\ fr' = fr
      /\ UNCHANGED <<x, free, nc, lru, disk, dir, fs, file, slp>>
  BY DEF LookupMiss
<1>2. CpuStep(p, "search") /\ Moves(p, "search", fr[p], file[p])
  BY <1>1, GotoFacts
<1>3. /\ fr[p] \in Frames /\ Placed("namei", fr[p], file[p], load.slots)
      /\ SlotsOf(p) = HeldSlots("namei", fr[p], file[p]) /\ DirsOf(p) = HeldDirs("namei", fr[p])
      /\ file[p] \in load.slots \cup {NoSlot}
  BY <1>1, RunsFacts
<1>5. Fits("search", fr[p], file[p])
  BY <1>3 DEF Fits, Placed, At,
     Fetching, Ireles, Locking, MayLock, Slotless, Labels, Creating, InDir, Opening, Looking
<1>6. HeldSlots("search", fr[p], file[p]) = SlotsOf(p) /\ fr[p].slot = fr[p].slot
  BY <1>3 DEF HeldSlots, Placed, Locking, MayLock, Slotless
<1>7. DirStep(p, "search", fr[p])
  <2>1. DirsOf(p) = {} /\ HeldDirs("search", fr[p]) = {Dir(p)} /\ fr[p].name \in Names
    BY <1>3 DEF HeldDirs, At, Fetching, Ireles, Creating, InDir, Dir, Placed, Looking, Opening,
         Frames
  <2>2. DirLock(p)
    BY DEF LookupMiss
  <2> QED
    BY <2>1, <2>2, DirTaken
<1>8. IlockStep(p, "search")
  BY <1>1, IlockKept DEF Scanning
<1>9. StoreOK'
  BY <1>1, StoreKept DEF Goto, TableInv
<1> QED
  BY <1>1, <1>2, <1>5, <1>6, <1>7, <1>8, <1>9, Quiet DEF Working

LEMMA StepSearchFound ==
  ASSUME TableInv, NEW p \in Procs, SearchFound(p) PROVE TableInv'
<1> DEFINE f == [fr[p] EXCEPT !.ino = dir[fr[p].name], !.back = "child"]
<1>1. /\ Runs(p, "search") /\ Goto(p, "iget") /\ Frame(p, f)
      /\ UNCHANGED <<x, free, nc, lru, disk, dir, dlock, fs, file, slp>>
  BY DEF SearchFound
<1>2. CpuStep(p, "iget") /\ Moves(p, "iget", f, file[p])
  BY <1>1, GotoFacts
<1>3. /\ fr[p] \in Frames /\ Placed("search", fr[p], file[p], load.slots)
      /\ SlotsOf(p) = HeldSlots("search", fr[p], file[p]) /\ DirsOf(p) = HeldDirs("search", fr[p])
      /\ file[p] \in load.slots \cup {NoSlot}
  BY <1>1, RunsFacts
<1>d. dir[fr[p].name] \in 0 .. NINO /\ dir[fr[p].name] # 0
  <2>1. dir \in [Names -> 0 .. NINO]
    BY DEF TableInv, StoreOK
  <2>2. fr[p].name \in Names
    BY <1>3 DEF Placed, At, Fetching, Ireles, Looking, InDir, Frames
  <2> QED
    BY <2>1, <2>2 DEF SearchFound
<1>4. /\ f \in Frames
      /\ f.call = fr[p].call /\ f.name = fr[p].name /\ f.slot = fr[p].slot
      /\ f.seen = fr[p].seen /\ f.ncp = fr[p].ncp
      /\ f.first = fr[p].first /\ f.blk = fr[p].blk /\ f.then = fr[p].then
      /\ f.ino = dir[fr[p].name] /\ f.back = "child"
  BY <1>3, <1>d DEF Frames, Backs, Thens, Calls
<1> HIDE DEF f
<1>5. Fits("iget", f, file[p])
  BY <1>3, <1>4, <1>d DEF Fits, Placed, At,
     Fetching, Ireles, Locking, MayLock, Slotless, Labels, Creating, InDir, Opening, Looking
<1>6. HeldSlots("iget", f, file[p]) = SlotsOf(p) /\ f.slot = fr[p].slot
  BY <1>3, <1>4, <1>d DEF HeldSlots, Placed, Locking, MayLock, Slotless
<1>7. DirStep(p, "iget", f)
  <2>1. DirsOf(p) = HeldDirs("iget", f)
    BY <1>3, <1>4, <1>d DEF HeldDirs, At, Fetching, Ireles, Creating, InDir
  <2> QED
    BY <1>1, <2>1, DirKept
<1>8. IlockStep(p, "iget")
  BY <1>1, IlockKept DEF Scanning
<1>9. StoreOK'
  BY <1>1, StoreKept DEF Goto, TableInv
<1> QED
  BY <1>1, <1>2, <1>5, <1>6, <1>7, <1>8, <1>9, Quiet DEF Working

LEMMA StepSearchCreate ==
  ASSUME TableInv, NEW p \in Procs, SearchCreate(p) PROVE TableInv'
<1>1. /\ Runs(p, "search") /\ Goto(p, "ialloc") /\ fr' = fr
      /\ UNCHANGED <<x, free, nc, lru, disk, dir, dlock, fs, file, slp>>
  BY DEF SearchCreate
<1>2. CpuStep(p, "ialloc") /\ Moves(p, "ialloc", fr[p], file[p])
  BY <1>1, GotoFacts
<1>3. /\ fr[p] \in Frames /\ Placed("search", fr[p], file[p], load.slots)
      /\ SlotsOf(p) = HeldSlots("search", fr[p], file[p]) /\ DirsOf(p) = HeldDirs("search", fr[p])
      /\ file[p] \in load.slots \cup {NoSlot}
  BY <1>1, RunsFacts
<1>d. fr[p].call = "creat"
  BY DEF SearchCreate
<1>5. Fits("ialloc", fr[p], file[p])
  BY <1>3, <1>d DEF Fits, Placed, At,
     Fetching, Ireles, Locking, MayLock, Slotless, Labels, Creating, InDir, Opening, Looking
<1>6. HeldSlots("ialloc", fr[p], file[p]) = SlotsOf(p) /\ fr[p].slot = fr[p].slot
  BY <1>3, <1>d DEF HeldSlots, Placed, Locking, MayLock, Slotless
<1>7. DirStep(p, "ialloc", fr[p])
  <2>1. DirsOf(p) = HeldDirs("ialloc", fr[p])
    BY <1>3, <1>d DEF HeldDirs, At, Fetching, Ireles, Creating, InDir
  <2> QED
    BY <1>1, <2>1, DirKept
<1>8. IlockStep(p, "ialloc")
  BY <1>1, IlockKept DEF Scanning
<1>9. StoreOK'
  BY <1>1, StoreKept DEF Goto, TableInv
<1> QED
  BY <1>1, <1>2, <1>5, <1>6, <1>7, <1>8, <1>9, Quiet DEF Working

LEMMA StepSearchFails ==
  ASSUME TableInv, NEW p \in Procs, SearchFails(p) PROVE TableInv'
<1> DEFINE f == NoFrame
<1>1. /\ Runs(p, "search") /\ Goto(p, "user") /\ Frame(p, f)
      /\ UNCHANGED <<x, free, nc, lru, disk, dir, fs, file, slp>>
  BY DEF SearchFails, Return
<1>2. CpuStep(p, "user") /\ Moves(p, "user", f, file[p])
  BY <1>1, GotoFacts
<1>3. /\ fr[p] \in Frames /\ Placed("search", fr[p], file[p], load.slots)
      /\ SlotsOf(p) = HeldSlots("search", fr[p], file[p]) /\ DirsOf(p) = HeldDirs("search", fr[p])
      /\ file[p] \in load.slots \cup {NoSlot}
  BY <1>1, RunsFacts
<1>4. f \in Frames /\ f.call = "none" /\ f.name = NoName /\ f.slot = NoSlot /\ f.seen = NoSlot
        /\ f.ncp = NoEntry /\ f.ino = 0 /\ f.first = FALSE /\ f.blk = 0 /\ f.back = "user"
        /\ f.then = "user"
  BY <1>3, InodeAssumption DEF Frames, Backs, Thens, Calls, NoFrame
<1> HIDE DEF f
<1>5. Fits("user", f, file[p])
  BY <1>3, <1>4 DEF Fits, Placed, At,
     Fetching, Ireles, Locking, MayLock, Slotless, Labels, Creating, InDir, Opening, Looking
<1>6. HeldSlots("user", f, file[p]) = SlotsOf(p) /\ f.slot = fr[p].slot
  BY <1>3, <1>4 DEF HeldSlots, Placed, Locking, MayLock, Slotless
<1>7. DirStep(p, "user", f)
  <2>1. DirsOf(p) = {Dir(p)} /\ HeldDirs("user", f) = {} /\ fr[p].name \in Names
    BY <1>3, <1>4 DEF HeldDirs, At, Fetching, Ireles, Creating, InDir, Dir, Placed, Looking,
         Opening, Frames
  <2>2. DirUnlock(p)
    BY DEF SearchFails, Return
  <2> QED
    BY <2>1, <2>2, DirGiven
<1>8. IlockStep(p, "user")
  BY <1>1, IlockKept DEF Scanning
<1>9. StoreOK'
  BY <1>1, StoreKept DEF Goto, TableInv
<1> QED
  BY <1>1, <1>2, <1>5, <1>6, <1>7, <1>8, <1>9, Quiet DEF Working

LEMMA StepUnlinkDone ==
  ASSUME TableInv, NEW p \in Procs, UnlinkDone(p) PROVE TableInv'
<1> DEFINE f == NoFrame
<1>1. /\ Runs(p, "unlinked") /\ Goto(p, "user") /\ Frame(p, f)
      /\ UNCHANGED <<x, free, nc, lru, disk, dir, fs, file, slp>>
  BY DEF UnlinkDone, Return
<1>2. CpuStep(p, "user") /\ Moves(p, "user", f, file[p])
  BY <1>1, GotoFacts
<1>3. /\ fr[p] \in Frames /\ Placed("unlinked", fr[p], file[p], load.slots)
      /\ SlotsOf(p) = HeldSlots("unlinked", fr[p], file[p])
      /\ DirsOf(p) = HeldDirs("unlinked", fr[p])
      /\ file[p] \in load.slots \cup {NoSlot}
  BY <1>1, RunsFacts
<1>4. f \in Frames /\ f.call = "none" /\ f.name = NoName /\ f.slot = NoSlot /\ f.seen = NoSlot
        /\ f.ncp = NoEntry /\ f.ino = 0 /\ f.first = FALSE /\ f.blk = 0 /\ f.back = "user"
        /\ f.then = "user"
  BY <1>3, InodeAssumption DEF Frames, Backs, Thens, Calls, NoFrame
<1> HIDE DEF f
<1>5. Fits("user", f, file[p])
  BY <1>3, <1>4 DEF Fits, Placed, At,
     Fetching, Ireles, Locking, MayLock, Slotless, Labels, Creating, InDir, Opening, Looking
<1>6. HeldSlots("user", f, file[p]) = SlotsOf(p) /\ f.slot = fr[p].slot
  BY <1>3, <1>4 DEF HeldSlots, Placed, Locking, MayLock, Slotless
<1>7. DirStep(p, "user", f)
  <2>1. DirsOf(p) = {Dir(p)} /\ HeldDirs("user", f) = {} /\ fr[p].name \in Names
    BY <1>3, <1>4 DEF HeldDirs, At, Fetching, Ireles, Creating, InDir, Dir, Placed, Looking,
         Opening, Frames
  <2>2. DirUnlock(p)
    BY DEF UnlinkDone, Return
  <2> QED
    BY <2>1, <2>2, DirGiven
<1>8. IlockStep(p, "user")
  BY <1>1, IlockKept DEF Scanning
<1>9. StoreOK'
  BY <1>1, StoreKept DEF Goto, TableInv
<1> QED
  BY <1>1, <1>2, <1>5, <1>6, <1>7, <1>8, <1>9, Quiet DEF Working

LEMMA StepClosei ==
  ASSUME TableInv, NEW p \in Procs, Closei(p) PROVE TableInv'
<1> DEFINE f == NoFrame
<1>1. /\ Runs(p, "closei") /\ Goto(p, "user") /\ Frame(p, f)
      /\ UNCHANGED <<x, free, nc, lru, disk, dir, dlock, fs, file, slp>>
  BY DEF Closei, Return
<1>2. CpuStep(p, "user") /\ Moves(p, "user", f, file[p])
  BY <1>1, GotoFacts
<1>3. /\ fr[p] \in Frames /\ Placed("closei", fr[p], file[p], load.slots)
      /\ SlotsOf(p) = HeldSlots("closei", fr[p], file[p]) /\ DirsOf(p) = HeldDirs("closei", fr[p])
      /\ file[p] \in load.slots \cup {NoSlot}
  BY <1>1, RunsFacts
<1>4. f \in Frames /\ f.call = "none" /\ f.name = NoName /\ f.slot = NoSlot /\ f.seen = NoSlot
        /\ f.ncp = NoEntry /\ f.ino = 0 /\ f.first = FALSE /\ f.blk = 0 /\ f.back = "user"
        /\ f.then = "user"
  BY <1>3, InodeAssumption DEF Frames, Backs, Thens, Calls, NoFrame
<1> HIDE DEF f
<1>5. Fits("user", f, file[p])
  BY <1>3, <1>4 DEF Fits, Placed, At,
     Fetching, Ireles, Locking, MayLock, Slotless, Labels, Creating, InDir, Opening, Looking
<1>6. HeldSlots("user", f, file[p]) = SlotsOf(p) /\ f.slot = fr[p].slot
  BY <1>3, <1>4 DEF HeldSlots, Placed, Locking, MayLock, Slotless
<1>7. DirStep(p, "user", f)
  <2>1. DirsOf(p) = HeldDirs("user", f)
    BY <1>3, <1>4 DEF HeldDirs, At, Fetching, Ireles, Creating, InDir
  <2> QED
    BY <1>1, <2>1, DirKept
<1>8. IlockStep(p, "user")
  BY <1>1, IlockKept DEF Scanning
<1>9. StoreOK'
  BY <1>1, StoreKept DEF Goto, TableInv
<1> QED
  BY <1>1, <1>2, <1>5, <1>6, <1>7, <1>8, <1>9, Quiet DEF Working

LEMMA StepChildNone ==
  ASSUME TableInv, NEW p \in Procs, ChildNone(p) PROVE TableInv'
<1> DEFINE f == NoFrame
<1>1. /\ Runs(p, "child") /\ Goto(p, "user") /\ Frame(p, f)
      /\ UNCHANGED <<x, free, nc, lru, disk, dir, fs, file, slp>>
  BY DEF ChildNone, Return
<1>2. CpuStep(p, "user") /\ Moves(p, "user", f, file[p])
  BY <1>1, GotoFacts
<1>3. /\ fr[p] \in Frames /\ Placed("child", fr[p], file[p], load.slots)
      /\ SlotsOf(p) = HeldSlots("child", fr[p], file[p]) /\ DirsOf(p) = HeldDirs("child", fr[p])
      /\ file[p] \in load.slots \cup {NoSlot}
  BY <1>1, RunsFacts
<1>d. fr[p].slot = NoSlot
  BY DEF ChildNone, Slot
<1>4. f \in Frames /\ f.call = "none" /\ f.name = NoName /\ f.slot = NoSlot /\ f.seen = NoSlot
        /\ f.ncp = NoEntry /\ f.ino = 0 /\ f.first = FALSE /\ f.blk = 0 /\ f.back = "user"
        /\ f.then = "user"
  BY <1>3, InodeAssumption DEF Frames, Backs, Thens, Calls, NoFrame
<1> HIDE DEF f
<1>5. Fits("user", f, file[p])
  BY <1>3, <1>4, <1>d DEF Fits, Placed, At,
     Fetching, Ireles, Locking, MayLock, Slotless, Labels, Creating, InDir, Opening, Looking
<1>6. HeldSlots("user", f, file[p]) = SlotsOf(p) /\ f.slot = fr[p].slot
  BY <1>3, <1>4, <1>d DEF HeldSlots, Placed, Locking, MayLock, Slotless
<1>7. DirStep(p, "user", f)
  <2>1. DirsOf(p) = {Dir(p)} /\ HeldDirs("user", f) = {} /\ fr[p].name \in Names
    BY <1>3, <1>4, <1>d DEF HeldDirs, At, Fetching, Ireles, Creating, InDir, Dir, Placed,
         Looking, Opening, Frames
  <2>2. DirUnlock(p)
    BY DEF ChildNone, Return
  <2> QED
    BY <2>1, <2>2, DirGiven
<1>8. IlockStep(p, "user")
  BY <1>1, IlockKept DEF Scanning
<1>9. StoreOK'
  BY <1>1, StoreKept DEF Goto, TableInv
<1> QED
  BY <1>1, <1>2, <1>5, <1>6, <1>7, <1>8, <1>9, Quiet DEF Working

LEMMA StepIallocNone ==
  ASSUME TableInv, NEW p \in Procs, IallocNone(p) PROVE TableInv'
<1> DEFINE f == NoFrame
<1>1. /\ Runs(p, "ialloc_got") /\ Goto(p, "user") /\ Frame(p, f)
      /\ UNCHANGED <<x, free, nc, lru, disk, dir, fs, file, slp>>
  BY DEF IallocNone, Return
<1>2. CpuStep(p, "user") /\ Moves(p, "user", f, file[p])
  BY <1>1, GotoFacts
<1>3. /\ fr[p] \in Frames /\ Placed("ialloc_got", fr[p], file[p], load.slots)
      /\ SlotsOf(p) = HeldSlots("ialloc_got", fr[p], file[p])
      /\ DirsOf(p) = HeldDirs("ialloc_got", fr[p])
      /\ file[p] \in load.slots \cup {NoSlot}
  BY <1>1, RunsFacts
<1>d. fr[p].slot = NoSlot
  BY DEF IallocNone, Slot
<1>4. f \in Frames /\ f.call = "none" /\ f.name = NoName /\ f.slot = NoSlot /\ f.seen = NoSlot
        /\ f.ncp = NoEntry /\ f.ino = 0 /\ f.first = FALSE /\ f.blk = 0 /\ f.back = "user"
        /\ f.then = "user"
  BY <1>3, InodeAssumption DEF Frames, Backs, Thens, Calls, NoFrame
<1> HIDE DEF f
<1>5. Fits("user", f, file[p])
  BY <1>3, <1>4, <1>d DEF Fits, Placed, At,
     Fetching, Ireles, Locking, MayLock, Slotless, Labels, Creating, InDir, Opening, Looking
<1>6. HeldSlots("user", f, file[p]) = SlotsOf(p) /\ f.slot = fr[p].slot
  BY <1>3, <1>4, <1>d DEF HeldSlots, Placed, Locking, MayLock, Slotless
<1>7. DirStep(p, "user", f)
  <2>1. DirsOf(p) = {Dir(p)} /\ HeldDirs("user", f) = {} /\ fr[p].name \in Names
    BY <1>3, <1>4, <1>d DEF HeldDirs, At, Fetching, Ireles, Creating, InDir, Dir, Placed,
         Looking, Opening, Frames
  <2>2. DirUnlock(p)
    BY DEF IallocNone, Return
  <2> QED
    BY <2>1, <2>2, DirGiven
<1>8. IlockStep(p, "user")
  BY <1>1, IlockKept DEF Scanning
<1>9. StoreOK'
  BY <1>1, StoreKept DEF Goto, TableInv
<1> QED
  BY <1>1, <1>2, <1>5, <1>6, <1>7, <1>8, <1>9, Quiet DEF Working

LEMMA StepChildUnlink ==
  ASSUME TableInv, NEW p \in Procs, ChildUnlink(p) PROVE TableInv'
<1>1. /\ Runs(p, "child") /\ Goto(p, "dirremove") /\ fr' = fr
      /\ UNCHANGED <<x, free, nc, lru, disk, dir, dlock, fs, file, slp>>
  BY DEF ChildUnlink
<1>2. CpuStep(p, "dirremove") /\ Moves(p, "dirremove", fr[p], file[p])
  BY <1>1, GotoFacts
<1>3. /\ fr[p] \in Frames /\ Placed("child", fr[p], file[p], load.slots)
      /\ SlotsOf(p) = HeldSlots("child", fr[p], file[p]) /\ DirsOf(p) = HeldDirs("child", fr[p])
      /\ file[p] \in load.slots \cup {NoSlot}
  BY <1>1, RunsFacts
<1>d. fr[p].slot # NoSlot
  BY DEF ChildUnlink, Slot
<1>5. Fits("dirremove", fr[p], file[p])
  BY <1>3, <1>d DEF Fits, Placed, At,
     Fetching, Ireles, Locking, MayLock, Slotless, Labels, Creating, InDir, Opening, Looking
<1>6. HeldSlots("dirremove", fr[p], file[p]) = SlotsOf(p) /\ fr[p].slot = fr[p].slot
  BY <1>3, <1>d DEF HeldSlots, Placed, Locking, MayLock, Slotless
<1>7. DirStep(p, "dirremove", fr[p])
  <2>1. DirsOf(p) = HeldDirs("dirremove", fr[p])
    BY <1>3, <1>d DEF HeldDirs, At, Fetching, Ireles, Creating, InDir
  <2> QED
    BY <1>1, <2>1, DirKept
<1>8. IlockStep(p, "dirremove")
  BY <1>1, IlockKept DEF Scanning
<1>9. StoreOK'
  BY <1>1, StoreKept DEF Goto, TableInv
<1> QED
  BY <1>1, <1>2, <1>5, <1>6, <1>7, <1>8, <1>9, Quiet DEF Working

LEMMA StepWrite ==
  ASSUME TableInv, NEW p \in Procs, Write(p) PROVE TableInv'
<1>1. /\ Runs(p, "user") /\ Goto(p, "ino_rw") /\ fr' = fr
      /\ UNCHANGED <<x, free, nc, lru, disk, dir, dlock, fs, file, slp>>
  BY DEF Write
<1>2. CpuStep(p, "ino_rw") /\ Moves(p, "ino_rw", fr[p], file[p])
  BY <1>1, GotoFacts
<1>3. /\ fr[p] \in Frames /\ Placed("user", fr[p], file[p], load.slots)
      /\ SlotsOf(p) = HeldSlots("user", fr[p], file[p]) /\ DirsOf(p) = HeldDirs("user", fr[p])
      /\ file[p] \in load.slots \cup {NoSlot}
  BY <1>1, RunsFacts
<1>d. file[p] # NoSlot
  BY DEF Write
<1>5. Fits("ino_rw", fr[p], file[p])
  BY <1>3, <1>d DEF Fits, Placed, At,
     Fetching, Ireles, Locking, MayLock, Slotless, Labels, Creating, InDir, Opening, Looking
<1>6. HeldSlots("ino_rw", fr[p], file[p]) = SlotsOf(p) /\ fr[p].slot = fr[p].slot
  BY <1>3, <1>d DEF HeldSlots, Placed, Locking, MayLock, Slotless
<1>7. DirStep(p, "ino_rw", fr[p])
  <2>1. DirsOf(p) = HeldDirs("ino_rw", fr[p])
    BY <1>3, <1>d DEF HeldDirs, At, Fetching, Ireles, Creating, InDir
  <2> QED
    BY <1>1, <2>1, DirKept
<1>8. IlockStep(p, "ino_rw")
  BY <1>1, IlockKept DEF Scanning
<1>9. StoreOK'
  BY <1>1, StoreKept DEF Goto, TableInv
<1> QED
  BY <1>1, <1>2, <1>5, <1>6, <1>7, <1>8, <1>9, Quiet DEF Working

LEMMA StepIallocPopGet ==
  ASSUME TableInv, NEW p \in Procs, IallocPop(p), Last(fs.list) \in Inodes PROVE TableInv'
<1> DEFINE f == [fr[p] EXCEPT !.ino = Last(fs.list), !.back = "ialloc_got"]
<1>1. /\ Runs(p, pc[p]) /\ Goto(p, "iget") /\ Frame(p, f)
      /\ UNCHANGED <<x, free, nc, lru, disk, dir, dlock, file, slp>>
  BY DEF IallocPop, AtLoop, Runs
<1>2. CpuStep(p, "iget") /\ Moves(p, "iget", f, file[p])
  BY <1>1, GotoFacts
<1>3. /\ fr[p] \in Frames /\ Placed(pc[p], fr[p], file[p], load.slots)
      /\ SlotsOf(p) = HeldSlots(pc[p], fr[p], file[p]) /\ DirsOf(p) = HeldDirs(pc[p], fr[p])
      /\ file[p] \in load.slots \cup {NoSlot}
  BY <1>1, RunsFacts
<1>l. pc[p] \in {"ialloc", "ialloc_loop"} /\ Runs(p, pc[p])
  BY DEF IallocPop, IallocScan, AtLoop, Runs
<1>s. FsTyped(fs') /\ fs'.ilock = fs.ilock
  <2>1. FsTyped(fs)
    BY DEF TableInv, StoreOK, FsTyped
  <2> QED
    BY <2>1 DEF FsTyped, IallocPop
<1>n. Last(fs.list) \in 0 .. NINO /\ Last(fs.list) # 0
  BY InodeAssumption DEF Inodes
<1>4. /\ f \in Frames
      /\ f.call = fr[p].call /\ f.name = fr[p].name /\ f.slot = fr[p].slot
      /\ f.seen = fr[p].seen /\ f.ncp = fr[p].ncp
      /\ f.first = fr[p].first /\ f.blk = fr[p].blk /\ f.then = fr[p].then
      /\ f.ino = Last(fs.list) /\ f.back = "ialloc_got"
  BY <1>3, <1>n DEF Frames, Backs, Thens, Calls
<1> HIDE DEF f
<1>5. Fits("iget", f, file[p])
  BY <1>3, <1>4, <1>l, <1>n DEF Fits, Placed, At,
     Fetching, Ireles, Locking, MayLock, Slotless, Labels, Creating, InDir, Opening, Looking
<1>6. HeldSlots("iget", f, file[p]) = SlotsOf(p) /\ f.slot = fr[p].slot
  BY <1>3, <1>4, <1>l, <1>n DEF HeldSlots, Placed, Locking, MayLock, Slotless
<1>7. DirStep(p, "iget", f)
  <2>1. DirsOf(p) = HeldDirs("iget", f)
    BY <1>3, <1>4, <1>l, <1>n DEF HeldDirs, At, Fetching, Ireles, Creating, InDir
  <2> QED
    BY <1>1, <2>1, DirKept
<1>8. IlockStep(p, "iget")
  BY <1>1, <1>l, <1>s, IlockKept DEF Scanning
<1>9. StoreOK'
  BY <1>1, <1>s, StoreFs DEF Goto, TableInv
<1> QED
  BY <1>1, <1>2, <1>5, <1>6, <1>7, <1>8, <1>9, Quiet DEF Working

LEMMA StepIallocPopSkip ==
  ASSUME TableInv, NEW p \in Procs, IallocPop(p), Last(fs.list) \notin Inodes PROVE TableInv'
<1>1. /\ Runs(p, pc[p]) /\ Goto(p, "ialloc_loop") /\ fr' = fr
      /\ UNCHANGED <<x, free, nc, lru, disk, dir, dlock, file, slp>>
  BY DEF IallocPop, AtLoop, Runs
<1>2. CpuStep(p, "ialloc_loop") /\ Moves(p, "ialloc_loop", fr[p], file[p])
  BY <1>1, GotoFacts
<1>3. /\ fr[p] \in Frames /\ Placed(pc[p], fr[p], file[p], load.slots)
      /\ SlotsOf(p) = HeldSlots(pc[p], fr[p], file[p]) /\ DirsOf(p) = HeldDirs(pc[p], fr[p])
      /\ file[p] \in load.slots \cup {NoSlot}
  BY <1>1, RunsFacts
<1>l. pc[p] \in {"ialloc", "ialloc_loop"} /\ Runs(p, pc[p])
  BY DEF IallocPop, IallocScan, AtLoop, Runs
<1>s. FsTyped(fs') /\ fs'.ilock = fs.ilock
  <2>1. FsTyped(fs)
    BY DEF TableInv, StoreOK, FsTyped
  <2> QED
    BY <2>1 DEF FsTyped, IallocPop
<1>5. Fits("ialloc_loop", fr[p], file[p])
  BY <1>3, <1>l DEF Fits, Placed, At,
     Fetching, Ireles, Locking, MayLock, Slotless, Labels, Creating, InDir, Opening, Looking
<1>6. HeldSlots("ialloc_loop", fr[p], file[p]) = SlotsOf(p) /\ fr[p].slot = fr[p].slot
  BY <1>3, <1>l DEF HeldSlots, Placed, Locking, MayLock, Slotless
<1>7. DirStep(p, "ialloc_loop", fr[p])
  <2>1. DirsOf(p) = HeldDirs("ialloc_loop", fr[p])
    BY <1>3, <1>l DEF HeldDirs, At, Fetching, Ireles, Creating, InDir
  <2> QED
    BY <1>1, <2>1, DirKept
<1>8. IlockStep(p, "ialloc_loop")
  BY <1>1, <1>l, <1>s, IlockKept DEF Scanning
<1>9. StoreOK'
  BY <1>1, <1>s, StoreFs DEF Goto, TableInv
<1> QED
  BY <1>1, <1>2, <1>5, <1>6, <1>7, <1>8, <1>9, Quiet DEF Working

LEMMA StepIallocScan ==
  ASSUME TableInv, NEW p \in Procs, IallocScan(p) PROVE TableInv'
<1> DEFINE f == ScanFrame(fr[p], fs.nbehind < NBEHIND,
                          IF fs.nbehind < NBEHIND THEN Block(fs.lasti) ELSE 1)
<1>1. /\ Runs(p, pc[p]) /\ Goto(p, "ialloc_bread") /\ Frame(p, f)
      /\ UNCHANGED <<x, free, nc, lru, disk, dir, dlock, file, slp>>
  BY DEF IallocScan, AtLoop, Runs, ScanFrame
<1>2. CpuStep(p, "ialloc_bread") /\ Moves(p, "ialloc_bread", f, file[p])
  BY <1>1, GotoFacts
<1>3. /\ fr[p] \in Frames /\ Placed(pc[p], fr[p], file[p], load.slots)
      /\ SlotsOf(p) = HeldSlots(pc[p], fr[p], file[p]) /\ DirsOf(p) = HeldDirs(pc[p], fr[p])
      /\ file[p] \in load.slots \cup {NoSlot}
  BY <1>1, RunsFacts
<1>l. pc[p] \in {"ialloc", "ialloc_loop"} /\ Runs(p, pc[p])
  BY DEF IallocPop, IallocScan, AtLoop, Runs
<1>s. FsTyped(fs') /\ TRUE
  <2>1. FsTyped(fs)
    BY DEF TableInv, StoreOK, FsTyped
  <2> QED
    BY <2>1 DEF FsTyped, IallocScan, FromTop
<1>n. Block(fs.lasti) \in Int /\ (fs.nbehind < NBEHIND) \in BOOLEAN
  <2>1. fs.lasti \in Int /\ INOPB \in Nat \ {0}
    BY InodeAssumption DEF TableInv, StoreOK
  <2> QED
    BY <2>1 DEF Block
<1>4. /\ f \in Frames
      /\ f.call = fr[p].call /\ f.name = fr[p].name /\ f.slot = fr[p].slot
      /\ f.seen = fr[p].seen /\ f.ncp = fr[p].ncp
      /\ f.ino = fr[p].ino /\ f.back = fr[p].back /\ f.then = fr[p].then
  <2>1. fr[p] \in Frames /\ (fs.nbehind < NBEHIND) \in BOOLEAN
          /\ (IF fs.nbehind < NBEHIND THEN Block(fs.lasti) ELSE 1) \in Int
    BY <1>3, <1>n
  <2> QED
    BY <2>1, ScanFrameFacts, Zenon
<1> HIDE DEF f
<1>5. Fits("ialloc_bread", f, file[p])
  BY <1>3, <1>4, <1>l DEF Fits, Placed, At,
     Fetching, Ireles, Locking, MayLock, Slotless, Labels, Creating, InDir, Opening, Looking
<1>6. HeldSlots("ialloc_bread", f, file[p]) = SlotsOf(p) /\ f.slot = fr[p].slot
  BY <1>3, <1>4, <1>l DEF HeldSlots, Placed, Locking, MayLock, Slotless
<1>7. DirStep(p, "ialloc_bread", f)
  <2>1. DirsOf(p) = HeldDirs("ialloc_bread", f)
    BY <1>3, <1>4, <1>l DEF HeldDirs, At, Fetching, Ireles, Creating, InDir
  <2> QED
    BY <1>1, <2>1, DirKept
<1>8. IlockStep(p, "ialloc_bread")
  BY DEF IlockStep, Scanning
<1>9. StoreOK'
  BY <1>1, <1>s, StoreFs DEF Goto, TableInv
<1> QED
  BY <1>1, <1>2, <1>5, <1>6, <1>7, <1>8, <1>9, Quiet DEF Working

(* ialloc goes on to the next block, or has looked at enough.              *)
LEMMA StepScanNext ==
  ASSUME TableInv, NEW p \in Procs, Runs(p, "ialloc_bread"), NextBlock(p), fr[p].blk < Block(NINO),
         UNCHANGED <<x, free, nc, lru, disk, dir, dlock, file, slp>>, FsTyped(fs') PROVE TableInv'
<1> DEFINE f == [fr[p] EXCEPT !.blk = @ + 1]
<1>1. /\ Runs(p, "ialloc_bread") /\ Goto(p, "ialloc_bread") /\ Frame(p, f)
      /\ UNCHANGED <<x, free, nc, lru, disk, dir, dlock, file, slp>>
  BY DEF NextBlock
<1>2. CpuStep(p, "ialloc_bread") /\ Moves(p, "ialloc_bread", f, file[p])
  BY <1>1, GotoFacts
<1>3. /\ fr[p] \in Frames /\ Placed("ialloc_bread", fr[p], file[p], load.slots)
      /\ SlotsOf(p) = HeldSlots("ialloc_bread", fr[p], file[p])
      /\ DirsOf(p) = HeldDirs("ialloc_bread", fr[p])
      /\ file[p] \in load.slots \cup {NoSlot}
  BY <1>1, RunsFacts
<1>s. FsTyped(fs')
  OBVIOUS
<1>4. /\ f \in Frames
      /\ f.call = fr[p].call /\ f.name = fr[p].name /\ f.slot = fr[p].slot
      /\ f.seen = fr[p].seen /\ f.ncp = fr[p].ncp
      /\ f.ino = fr[p].ino /\ f.first = fr[p].first /\ f.back = fr[p].back /\ f.then = fr[p].then
  BY <1>3 DEF Frames, Backs, Thens, Calls
<1> HIDE DEF f
<1>5. Fits("ialloc_bread", f, file[p])
  BY <1>3, <1>4 DEF Fits, Placed, At,
     Fetching, Ireles, Locking, MayLock, Slotless, Labels, Creating, InDir, Opening, Looking
<1>6. HeldSlots("ialloc_bread", f, file[p]) = SlotsOf(p) /\ f.slot = fr[p].slot
  BY <1>3, <1>4 DEF HeldSlots, Placed, Locking, MayLock, Slotless
<1>7. DirStep(p, "ialloc_bread", f)
  <2>1. DirsOf(p) = HeldDirs("ialloc_bread", f)
    BY <1>3, <1>4 DEF HeldDirs, At, Fetching, Ireles, Creating, InDir
  <2> QED
    BY <1>1, <2>1, DirKept
<1>8. IlockStep(p, "ialloc_bread")
  BY DEF IlockStep, Scanning
<1>9. StoreOK'
  BY <1>1, <1>s, StoreFs DEF Goto, TableInv
<1> QED
  BY <1>1, <1>2, <1>5, <1>6, <1>7, <1>8, <1>9, Quiet DEF Working

LEMMA StepScanEnd ==
  ASSUME TableInv, NEW p \in Procs, Runs(p, "ialloc_bread"), Goto(p, "ialloc_scanned"), fr' = fr,
         UNCHANGED <<x, free, nc, lru, disk, dir, dlock, file, slp>>, FsTyped(fs') PROVE TableInv'
<1>1. /\ Runs(p, "ialloc_bread") /\ Goto(p, "ialloc_scanned") /\ fr' = fr
      /\ UNCHANGED <<x, free, nc, lru, disk, dir, dlock, file, slp>>
  BY DEF Goto
<1>2. CpuStep(p, "ialloc_scanned") /\ Moves(p, "ialloc_scanned", fr[p], file[p])
  BY <1>1, GotoFacts
<1>3. /\ fr[p] \in Frames /\ Placed("ialloc_bread", fr[p], file[p], load.slots)
      /\ SlotsOf(p) = HeldSlots("ialloc_bread", fr[p], file[p])
      /\ DirsOf(p) = HeldDirs("ialloc_bread", fr[p])
      /\ file[p] \in load.slots \cup {NoSlot}
  BY <1>1, RunsFacts
<1>s. FsTyped(fs')
  OBVIOUS
<1>5. Fits("ialloc_scanned", fr[p], file[p])
  BY <1>3 DEF Fits, Placed, At,
     Fetching, Ireles, Locking, MayLock, Slotless, Labels, Creating, InDir, Opening, Looking
<1>6. HeldSlots("ialloc_scanned", fr[p], file[p]) = SlotsOf(p) /\ fr[p].slot = fr[p].slot
  BY <1>3 DEF HeldSlots, Placed, Locking, MayLock, Slotless
<1>7. DirStep(p, "ialloc_scanned", fr[p])
  <2>1. DirsOf(p) = HeldDirs("ialloc_scanned", fr[p])
    BY <1>3 DEF HeldDirs, At, Fetching, Ireles, Creating, InDir
  <2> QED
    BY <1>1, <2>1, DirKept
<1>8. IlockStep(p, "ialloc_scanned")
  BY DEF IlockStep, Scanning
<1>9. StoreOK'
  BY <1>1, <1>s, StoreFs DEF Goto, TableInv
<1> QED
  BY <1>1, <1>2, <1>5, <1>6, <1>7, <1>8, <1>9, Quiet DEF Working

LEMMA StepIallocBread ==
  ASSUME TableInv, NEW p \in Procs, IallocBread(p) \/ IallocBreadError(p) PROVE TableInv'
<1>1. /\ Runs(p, "ialloc_bread") /\ UNCHANGED <<x, free, nc, lru, disk, dir, dlock, file, slp>>
      /\ NextBlock(p) \/ (Goto(p, "ialloc_scanned") /\ fr' = fr)
  BY DEF IallocBread, IallocBreadError
<1>2. FsTyped(fs')
  <2>1. FsTyped(fs)
    BY DEF TableInv, StoreOK, FsTyped
  <2> QED
    BY <2>1 DEF FsTyped, IallocBread, IallocBreadError
<1>3. CASE Goto(p, "ialloc_scanned") /\ fr' = fr
  BY <1>1, <1>2, <1>3, StepScanEnd
<1>4. CASE NextBlock(p) /\ fr[p].blk < Block(NINO)
  BY <1>1, <1>2, <1>4, StepScanNext
<1> QED
  BY <1>1, <1>3, <1>4 DEF NextBlock

LEMMA StepIallocAgain ==
  ASSUME TableInv, NEW p \in Procs, IallocAgain(p) PROVE TableInv'
<1> DEFINE f == ScanFrame(fr[p], FALSE, 1)
<1>1. /\ Runs(p, "ialloc_scanned") /\ Goto(p, "ialloc_bread") /\ Frame(p, f)
      /\ UNCHANGED <<x, free, nc, lru, disk, dir, dlock, file, slp>>
  BY DEF IallocAgain, ScanFrame
<1>2. CpuStep(p, "ialloc_bread") /\ Moves(p, "ialloc_bread", f, file[p])
  BY <1>1, GotoFacts
<1>3. /\ fr[p] \in Frames /\ Placed("ialloc_scanned", fr[p], file[p], load.slots)
      /\ SlotsOf(p) = HeldSlots("ialloc_scanned", fr[p], file[p])
      /\ DirsOf(p) = HeldDirs("ialloc_scanned", fr[p])
      /\ file[p] \in load.slots \cup {NoSlot}
  BY <1>1, RunsFacts
<1>s. FsTyped(fs') /\ TRUE
  <2>1. FsTyped(fs)
    BY DEF TableInv, StoreOK, FsTyped
  <2> QED
    BY <2>1 DEF FsTyped, IallocAgain, FromTop
<1>4. /\ f \in Frames
      /\ f.call = fr[p].call /\ f.name = fr[p].name /\ f.slot = fr[p].slot
      /\ f.seen = fr[p].seen /\ f.ncp = fr[p].ncp
      /\ f.ino = fr[p].ino /\ f.back = fr[p].back /\ f.then = fr[p].then
  <2>1. fr[p] \in Frames /\ (FALSE) \in BOOLEAN /\ (1) \in Int
    BY <1>3
  <2> QED
    BY <2>1, ScanFrameFacts, Zenon
<1> HIDE DEF f
<1>5. Fits("ialloc_bread", f, file[p])
  BY <1>3, <1>4 DEF Fits, Placed, At,
     Fetching, Ireles, Locking, MayLock, Slotless, Labels, Creating, InDir, Opening, Looking
<1>6. HeldSlots("ialloc_bread", f, file[p]) = SlotsOf(p) /\ f.slot = fr[p].slot
  BY <1>3, <1>4 DEF HeldSlots, Placed, Locking, MayLock, Slotless
<1>7. DirStep(p, "ialloc_bread", f)
  <2>1. DirsOf(p) = HeldDirs("ialloc_bread", f)
    BY <1>3, <1>4 DEF HeldDirs, At, Fetching, Ireles, Creating, InDir
  <2> QED
    BY <1>1, <2>1, DirKept
<1>8. IlockStep(p, "ialloc_bread")
  BY DEF IlockStep, Scanning
<1>9. StoreOK'
  BY <1>1, <1>s, StoreFs DEF Goto, TableInv
<1> QED
  BY <1>1, <1>2, <1>5, <1>6, <1>7, <1>8, <1>9, Quiet DEF Working

LEMMA StepIallocScannedSome ==
  ASSUME TableInv, NEW p \in Procs, IallocScanned(p), fs.list # <<>> PROVE TableInv'
<1> DEFINE f == ScanFrame(fr[p], FALSE, 0)
<1>1. /\ Runs(p, "ialloc_scanned") /\ Goto(p, "ialloc_loop") /\ Frame(p, f)
      /\ UNCHANGED <<x, free, nc, lru, disk, dir, dlock, file, slp>>
  BY DEF IallocScanned, ScanFrame
<1>2. CpuStep(p, "ialloc_loop") /\ Moves(p, "ialloc_loop", f, file[p])
  BY <1>1, GotoFacts
<1>3. /\ fr[p] \in Frames /\ Placed("ialloc_scanned", fr[p], file[p], load.slots)
      /\ SlotsOf(p) = HeldSlots("ialloc_scanned", fr[p], file[p])
      /\ DirsOf(p) = HeldDirs("ialloc_scanned", fr[p])
      /\ file[p] \in load.slots \cup {NoSlot}
  BY <1>1, RunsFacts
<1>b. FirstOf(fr[p].blk) \in Int
  <2>1. fr[p].blk \in Int /\ INOPB \in Nat
    BY <1>3, InodeAssumption DEF Frames
  <2>2. \A a \in Int, b \in Nat : (a - 1) * b + 1 \in Int
    OBVIOUS
  <2> QED
    BY <2>1, <2>2 DEF FirstOf
<1>s. FsTyped(fs') /\ fs'.ilock = 0
  <2>1. FsTyped(fs)
    BY DEF TableInv, StoreOK, FsTyped
  <2> QED
    BY <2>1, <1>b DEF FsTyped, IallocScanned
<1>4. /\ f \in Frames
      /\ f.call = fr[p].call /\ f.name = fr[p].name /\ f.slot = fr[p].slot
      /\ f.seen = fr[p].seen /\ f.ncp = fr[p].ncp
      /\ f.ino = fr[p].ino /\ f.back = fr[p].back /\ f.then = fr[p].then
  <2>1. fr[p] \in Frames /\ (FALSE) \in BOOLEAN /\ (0) \in Int
    BY <1>3
  <2> QED
    BY <2>1, ScanFrameFacts, Zenon
<1> HIDE DEF f
<1>5. Fits("ialloc_loop", f, file[p])
  BY <1>3, <1>4 DEF Fits, Placed, At,
     Fetching, Ireles, Locking, MayLock, Slotless, Labels, Creating, InDir, Opening, Looking
<1>6. HeldSlots("ialloc_loop", f, file[p]) = SlotsOf(p) /\ f.slot = fr[p].slot
  BY <1>3, <1>4 DEF HeldSlots, Placed, Locking, MayLock, Slotless
<1>7. DirStep(p, "ialloc_loop", f)
  <2>1. DirsOf(p) = HeldDirs("ialloc_loop", f)
    BY <1>3, <1>4 DEF HeldDirs, At, Fetching, Ireles, Creating, InDir
  <2> QED
    BY <1>1, <2>1, DirKept
<1>8. IlockStep(p, "ialloc_loop")
  BY <1>s DEF IlockStep
<1>9. StoreOK'
  BY <1>1, <1>s, StoreFs DEF Goto, TableInv
<1> QED
  BY <1>1, <1>2, <1>5, <1>6, <1>7, <1>8, <1>9, Quiet DEF Working

LEMMA StepIallocScannedNone ==
  ASSUME TableInv, NEW p \in Procs, IallocScanned(p), fs.list = <<>> PROVE TableInv'
<1> DEFINE f == NoFrame
<1>1. /\ Runs(p, "ialloc_scanned") /\ Goto(p, "user") /\ Frame(p, f)
      /\ UNCHANGED <<x, free, nc, lru, disk, dir, file, slp>>
  BY DEF IallocScanned, Return
<1>2. CpuStep(p, "user") /\ Moves(p, "user", f, file[p])
  BY <1>1, GotoFacts
<1>3. /\ fr[p] \in Frames /\ Placed("ialloc_scanned", fr[p], file[p], load.slots)
      /\ SlotsOf(p) = HeldSlots("ialloc_scanned", fr[p], file[p])
      /\ DirsOf(p) = HeldDirs("ialloc_scanned", fr[p])
      /\ file[p] \in load.slots \cup {NoSlot}
  BY <1>1, RunsFacts
<1>b. FirstOf(fr[p].blk) \in Int
  <2>1. fr[p].blk \in Int /\ INOPB \in Nat
    BY <1>3, InodeAssumption DEF Frames
  <2>2. \A a \in Int, b \in Nat : (a - 1) * b + 1 \in Int
    OBVIOUS
  <2> QED
    BY <2>1, <2>2 DEF FirstOf
<1>s. FsTyped(fs') /\ fs'.ilock = 0
  <2>1. FsTyped(fs)
    BY DEF TableInv, StoreOK, FsTyped
  <2> QED
    BY <2>1, <1>b DEF FsTyped, IallocScanned
<1>4. f \in Frames /\ f.call = "none" /\ f.name = NoName /\ f.slot = NoSlot /\ f.seen = NoSlot
        /\ f.ncp = NoEntry /\ f.ino = 0 /\ f.first = FALSE /\ f.blk = 0 /\ f.back = "user"
        /\ f.then = "user"
  BY <1>3, InodeAssumption DEF Frames, Backs, Thens, Calls, NoFrame
<1> HIDE DEF f
<1>5. Fits("user", f, file[p])
  BY <1>3, <1>4 DEF Fits, Placed, At,
     Fetching, Ireles, Locking, MayLock, Slotless, Labels, Creating, InDir, Opening, Looking
<1>6. HeldSlots("user", f, file[p]) = SlotsOf(p) /\ f.slot = fr[p].slot
  BY <1>3, <1>4 DEF HeldSlots, Placed, Locking, MayLock, Slotless
<1>7. DirStep(p, "user", f)
  <2>1. DirsOf(p) = {Dir(p)} /\ HeldDirs("user", f) = {} /\ fr[p].name \in Names
    BY <1>3, <1>4 DEF HeldDirs, At, Fetching, Ireles, Creating, InDir, Dir, Placed, Looking,
         Opening, Frames
  <2>2. DirUnlock(p)
    BY DEF IallocScanned, Return
  <2> QED
    BY <2>1, <2>2, DirGiven
<1>8. IlockStep(p, "user")
  BY <1>s DEF IlockStep
<1>9. StoreOK'
  BY <1>1, <1>s, StoreFs DEF Goto, TableInv
<1> QED
  BY <1>1, <1>2, <1>5, <1>6, <1>7, <1>8, <1>9, Quiet DEF Working

LEMMA StepLookupHit ==
  ASSUME TableInv, NEW p \in Procs, LookupHit(p) PROVE TableInv'
<1> DEFINE e == Latest(ByName(fr[p].name))
           f == [fr[p] EXCEPT !.ncp = e, !.seen = nc[e].slot]
<1>1. /\ Runs(p, "namei") /\ Goto(p, "igrab") /\ Frame(p, f)
      /\ UNCHANGED <<x, free, nc, disk, dir, fs, file, slp>>
  BY DEF LookupHit
<1>2. CpuStep(p, "igrab") /\ Moves(p, "igrab", f, file[p])
  BY <1>1, GotoFacts
<1>3. /\ fr[p] \in Frames /\ Placed("namei", fr[p], file[p], load.slots)
      /\ SlotsOf(p) = HeldSlots("namei", fr[p], file[p]) /\ DirsOf(p) = HeldDirs("namei", fr[p])
      /\ file[p] \in load.slots \cup {NoSlot}
  BY <1>1, RunsFacts
<1>d. fr[p].name \in Names
  BY <1>3 DEF Placed, At, Fetching, Ireles, Looking, InDir, Frames
<1>e. e \in Entries /\ nc[e].name = fr[p].name
  <2>1. ByName(fr[p].name) \subseteq Entries
    BY DEF ByName
  <2>2. e \in ByName(fr[p].name)
    BY <2>1, LatestFacts DEF LookupHit, TableInv
  <2> QED
    BY <2>2 DEF ByName
<1>c. CacheOK(nc) /\ CacheOK([nc EXCEPT ![e].name = NoName])
  BY <1>e, CacheNow DEF TableInv
<1>u. nc[e].slot \in load.slots /\ nc[e].slot \in Slots /\ fr[p].call # "unlink" /\ e # NoEntry
  <2>1. Usable(p, e)
    BY DEF LookupHit
  <2>2. load.slots \subseteq Slots
    BY <1>1, RunsFacts
  <2> QED
    BY <1>c, <1>e, <2>1, <2>2, InodeAssumption DEF Usable, CacheOK
<1>v. lru' = ToTail(e)
  BY DEF LookupHit
<1> HIDE DEF e
<1>4. /\ f \in Frames
      /\ f.call = fr[p].call /\ f.name = fr[p].name /\ f.slot = fr[p].slot /\ f.ino = fr[p].ino
      /\ f.first = fr[p].first
      /\ f.blk = fr[p].blk /\ f.back = fr[p].back /\ f.then = fr[p].then
      /\ f.ncp = e /\ f.seen = nc[e].slot
  BY <1>3, <1>u, <1>e DEF Frames, Backs, Thens, Calls
<1> HIDE DEF f
<1>5. Fits("igrab", f, file[p])
  BY <1>3, <1>4, <1>u, <1>d, <1>e DEF Fits, Placed, At,
     Fetching, Ireles, Locking, MayLock, Slotless, Labels, Creating, InDir, Opening, Looking
<1>6. HeldSlots("igrab", f, file[p]) = SlotsOf(p) /\ f.slot = fr[p].slot
  BY <1>3, <1>4, <1>u, <1>d, <1>e DEF HeldSlots, Placed, Locking, MayLock, Slotless
<1>7. DirStep(p, "igrab", f)
  <2>1. DirsOf(p) = {} /\ HeldDirs("igrab", f) = {Dir(p)} /\ fr[p].name \in Names
    BY <1>3, <1>4, <1>u, <1>d, <1>e DEF HeldDirs, At, Fetching, Ireles, Creating, InDir, Dir,
         Placed, Looking, Opening, Frames
  <2>2. DirLock(p)
    BY DEF LookupHit
  <2> QED
    BY <2>1, <2>2, DirTaken
<1>8. IlockStep(p, "igrab")
  BY <1>1, IlockKept DEF Scanning
<1>9. StoreOK'
  BY <1>1, <1>e, <1>c, <1>v, StoreLru DEF Goto, TableInv
<1> QED
  BY <1>1, <1>2, <1>5, <1>6, <1>7, <1>8, <1>9, Quiet DEF Working

LEMMA StepLookupBad ==
  ASSUME TableInv, NEW p \in Procs, LookupBad(p) PROVE TableInv'
<1> DEFINE e == Latest(ByName(fr[p].name))
<1>1. /\ Runs(p, "namei") /\ Goto(p, "search") /\ fr' = fr
      /\ UNCHANGED <<x, free, disk, dir, fs, file, slp>>
  BY DEF LookupBad
<1>2. CpuStep(p, "search") /\ Moves(p, "search", fr[p], file[p])
  BY <1>1, GotoFacts
<1>3. /\ fr[p] \in Frames /\ Placed("namei", fr[p], file[p], load.slots)
      /\ SlotsOf(p) = HeldSlots("namei", fr[p], file[p]) /\ DirsOf(p) = HeldDirs("namei", fr[p])
      /\ file[p] \in load.slots \cup {NoSlot}
  BY <1>1, RunsFacts
<1>d. fr[p].name \in Names
  BY <1>3 DEF Placed, At, Fetching, Ireles, Looking, InDir, Frames
<1>e. e \in Entries /\ nc[e].name = fr[p].name
  <2>1. ByName(fr[p].name) \subseteq Entries
    BY DEF ByName
  <2>2. e \in ByName(fr[p].name)
    BY <2>1, LatestFacts DEF LookupBad, TableInv
  <2> QED
    BY <2>2 DEF ByName
<1>c. CacheOK(nc) /\ CacheOK([nc EXCEPT ![e].name = NoName])
  BY <1>e, CacheNow DEF TableInv
<1>v. lru' = ToHead(e) /\ nc' = [nc EXCEPT ![e].name = NoName]
  BY DEF LookupBad, Forget
<1> HIDE DEF e
<1>5. Fits("search", fr[p], file[p])
  BY <1>3 DEF Fits, Placed, At,
     Fetching, Ireles, Locking, MayLock, Slotless, Labels, Creating, InDir, Opening, Looking
<1>6. HeldSlots("search", fr[p], file[p]) = SlotsOf(p) /\ fr[p].slot = fr[p].slot
  BY <1>3 DEF HeldSlots, Placed, Locking, MayLock, Slotless
<1>7. DirStep(p, "search", fr[p])
  <2>1. DirsOf(p) = {} /\ HeldDirs("search", fr[p]) = {Dir(p)} /\ fr[p].name \in Names
    BY <1>3 DEF HeldDirs, At, Fetching, Ireles, Creating, InDir, Dir, Placed, Looking, Opening,
         Frames
  <2>2. DirLock(p)
    BY DEF LookupBad
  <2> QED
    BY <2>1, <2>2, DirTaken
<1>8. IlockStep(p, "search")
  BY <1>1, IlockKept DEF Scanning
<1>9. StoreOK'
  BY <1>1, <1>e, <1>c, <1>v, StoreLru DEF Goto, TableInv
<1> QED
  BY <1>1, <1>2, <1>5, <1>6, <1>7, <1>8, <1>9, Quiet DEF Working

LEMMA StepRelock ==
  ASSUME TableInv, NEW p \in Procs, Relock(p) PROVE TableInv'
<1> DEFINE f == [fr[p] EXCEPT !.ncp = NoEntry]
<1>1. /\ Runs(p, "relock") /\ Goto(p, "search") /\ Frame(p, f)
      /\ UNCHANGED <<x, free, disk, dir, fs, file, slp>>
  BY DEF Relock
<1>2. CpuStep(p, "search") /\ Moves(p, "search", f, file[p])
  BY <1>1, GotoFacts
<1>3. /\ fr[p] \in Frames /\ Placed("relock", fr[p], file[p], load.slots)
      /\ SlotsOf(p) = HeldSlots("relock", fr[p], file[p]) /\ DirsOf(p) = HeldDirs("relock", fr[p])
      /\ file[p] \in load.slots \cup {NoSlot}
  BY <1>1, RunsFacts
<1>e. fr[p].ncp \in Entries
  BY <1>3 DEF Placed, At, Fetching, Ireles, Frames
<1>c. CacheOK([nc EXCEPT ![fr[p].ncp].name = NoName])
  BY <1>e, CacheNow DEF TableInv
<1>v. lru' = ToHead(fr[p].ncp) /\ nc' = [nc EXCEPT ![fr[p].ncp].name = NoName]
  BY DEF Relock, Forget
<1>4. /\ f \in Frames
      /\ f.call = fr[p].call /\ f.name = fr[p].name /\ f.slot = fr[p].slot
      /\ f.seen = fr[p].seen /\ f.ino = fr[p].ino
      /\ f.first = fr[p].first /\ f.blk = fr[p].blk /\ f.back = fr[p].back /\ f.then = fr[p].then
      /\ f.ncp = NoEntry
  BY <1>3 DEF Frames, Backs, Thens, Calls
<1> HIDE DEF f
<1>5. Fits("search", f, file[p])
  BY <1>3, <1>4 DEF Fits, Placed, At,
     Fetching, Ireles, Locking, MayLock, Slotless, Labels, Creating, InDir, Opening, Looking
<1>6. HeldSlots("search", f, file[p]) = SlotsOf(p) /\ f.slot = fr[p].slot
  BY <1>3, <1>4 DEF HeldSlots, Placed, Locking, MayLock, Slotless
<1>7. DirStep(p, "search", f)
  <2>1. DirsOf(p) = {} /\ HeldDirs("search", f) = {Dir(p)} /\ fr[p].name \in Names
    BY <1>3, <1>4 DEF HeldDirs, At, Fetching, Ireles, Creating, InDir, Dir, Placed, Looking,
         Opening, Frames
  <2>2. DirLock(p)
    BY DEF Relock
  <2> QED
    BY <2>1, <2>2, DirTaken
<1>8. IlockStep(p, "search")
  BY <1>1, IlockKept DEF Scanning
<1>9. StoreOK'
  BY <1>1, <1>e, <1>c, <1>v, StoreLru DEF Goto, TableInv
<1> QED
  BY <1>1, <1>2, <1>5, <1>6, <1>7, <1>8, <1>9, Quiet DEF Working

LEMMA StepChildOpen ==
  ASSUME TableInv, NEW p \in Procs, ChildOpen(p) PROVE TableInv'
<1> DEFINE e == Head(lru)
<1>1. /\ Runs(p, "child") /\ Goto(p, "haveino") /\ fr' = fr
      /\ UNCHANGED <<x, free, disk, dir, fs, file, slp>>
  BY DEF ChildOpen
<1>2. CpuStep(p, "haveino") /\ Moves(p, "haveino", fr[p], file[p])
  BY <1>1, GotoFacts
<1>3. /\ fr[p] \in Frames /\ Placed("child", fr[p], file[p], load.slots)
      /\ SlotsOf(p) = HeldSlots("child", fr[p], file[p]) /\ DirsOf(p) = HeldDirs("child", fr[p])
      /\ file[p] \in load.slots \cup {NoSlot}
  BY <1>1, RunsFacts
<1>d. fr[p].slot \in load.slots /\ fr[p].slot \in Slots /\ fr[p].call # "unlink"
        /\ fr[p].name \in Names
  <2>1. fr[p].slot # NoSlot /\ fr[p].call # "unlink"
    BY DEF ChildOpen, Slot
  <2>2. load.slots \subseteq Slots
    BY <1>1, RunsFacts
  <2> QED
    BY <1>3, <2>1, <2>2 DEF Placed, At, Fetching, Ireles, Looking, InDir, Frames, MayLock
<1>e. e \in Entries /\ CacheOK(nc)
  BY CacheNow DEF TableInv
<1>v. /\ lru' = ToTail(e)
      /\ nc' = [nc EXCEPT ![e] = [name |-> fr[p].name, slot |-> fr[p].slot, ok |-> TRUE]]
  BY DEF ChildOpen, Slot
<1> HIDE DEF e
<1>c. CacheOK(nc')
  BY <1>d, <1>e, <1>v DEF CacheOK, Cached
<1>5. Fits("haveino", fr[p], file[p])
  BY <1>3, <1>d DEF Fits, Placed, At,
     Fetching, Ireles, Locking, MayLock, Slotless, Labels, Creating, InDir, Opening, Looking
<1>6. HeldSlots("haveino", fr[p], file[p]) = SlotsOf(p) /\ fr[p].slot = fr[p].slot
  BY <1>3, <1>d DEF HeldSlots, Placed, Locking, MayLock, Slotless
<1>7. DirStep(p, "haveino", fr[p])
  <2>1. DirsOf(p) = {Dir(p)} /\ HeldDirs("haveino", fr[p]) = {} /\ fr[p].name \in Names
    BY <1>3, <1>d DEF HeldDirs, At, Fetching, Ireles, Creating, InDir, Dir, Placed, Looking,
         Opening, Frames
  <2>2. DirUnlock(p)
    BY DEF ChildOpen
  <2> QED
    BY <2>1, <2>2, DirGiven
<1>8. IlockStep(p, "haveino")
  BY <1>1, IlockKept DEF Scanning
<1>9. StoreOK'
  BY <1>1, <1>e, <1>c, <1>v, StoreLru DEF Goto, TableInv
<1> QED
  BY <1>1, <1>2, <1>5, <1>6, <1>7, <1>8, <1>9, Quiet DEF Working

LEMMA StepDirenterOK ==
  ASSUME TableInv, NEW p \in Procs, Runs(p, "direnter"), Goto(p, "haveino"), DirUnlock(p),
         UNCHANGED <<x, free, nc, lru, disk, fs, file, fr, slp>>,
         dir' \in DirWritten(fr[p].name, x[Slot(p)].ino) PROVE TableInv'
<1>1. /\ Runs(p, "direnter") /\ Goto(p, "haveino") /\ fr' = fr
      /\ UNCHANGED <<x, free, nc, lru, disk, fs, file, slp>>
  BY DEF Slot
<1>2. CpuStep(p, "haveino") /\ Moves(p, "haveino", fr[p], file[p])
  BY <1>1, GotoFacts
<1>3. /\ fr[p] \in Frames /\ Placed("direnter", fr[p], file[p], load.slots)
      /\ SlotsOf(p) = HeldSlots("direnter", fr[p], file[p])
      /\ DirsOf(p) = HeldDirs("direnter", fr[p])
      /\ file[p] \in load.slots \cup {NoSlot}
  BY <1>1, RunsFacts
<1>5. Fits("haveino", fr[p], file[p])
  BY <1>3 DEF Fits, Placed, At,
     Fetching, Ireles, Locking, MayLock, Slotless, Labels, Creating, InDir, Opening, Looking
<1>6. HeldSlots("haveino", fr[p], file[p]) = SlotsOf(p) /\ fr[p].slot = fr[p].slot
  BY <1>3 DEF HeldSlots, Placed, Locking, MayLock, Slotless
<1>7. DirStep(p, "haveino", fr[p])
  <2>1. DirsOf(p) = {Dir(p)} /\ HeldDirs("haveino", fr[p]) = {} /\ fr[p].name \in Names
    BY <1>3 DEF HeldDirs, At, Fetching, Ireles, Creating, InDir, Dir, Placed, Looking, Opening,
         Frames
  <2>2. DirUnlock(p)
    BY DEF Slot
  <2> QED
    BY <2>1, <2>2, DirGiven
<1>8. IlockStep(p, "haveino")
  BY <1>1, IlockKept DEF Scanning
<1>9. StoreOK'
  <2>1. x[fr[p].slot].ino \in 0 .. NINO /\ fr[p].name \in Names
    <3>1. fr[p].slot \in Slots
      BY <1>1, <1>3, RunsFacts DEF Placed, Locking
    <3> QED
      BY <1>3, <3>1 DEF TableInv, TableTyped, Records, Placed, At, Fetching, Ireles, Looking,
           InDir, Creating, Frames
  <2>2. dir' \in [Names -> 0 .. NINO]
    BY <2>1 DEF DirWritten, Slot, TableInv, StoreOK
  <2> QED
    BY <1>1, <2>2, StoreDir DEF Goto, TableInv
<1> QED
  BY <1>1, <1>2, <1>5, <1>6, <1>7, <1>8, <1>9, Quiet DEF Working

LEMMA StepCallWith ==
  ASSUME TableInv, NEW p \in Procs, NEW c \in {"open", "creat", "unlink"}, NEW n \in Names,
         Runs(p, "user"), c # "unlink" => file[p] = NoSlot,
         Frame(p, [NoFrame EXCEPT !.call = c, !.name = n]), Goto(p, "namei"),
         UNCHANGED <<x, free, nc, lru, disk, dir, dlock, fs, file, slp>> PROVE TableInv'
<1> DEFINE f == CallFrame(c, n)
<1>1. /\ Runs(p, "user") /\ Goto(p, "namei") /\ Frame(p, f)
      /\ UNCHANGED <<x, free, nc, lru, disk, dir, dlock, fs, file, slp>>
  BY DEF CallFrame
<1>2. CpuStep(p, "namei") /\ Moves(p, "namei", f, file[p])
  BY <1>1, GotoFacts
<1>3. /\ fr[p] \in Frames /\ Placed("user", fr[p], file[p], load.slots)
      /\ SlotsOf(p) = HeldSlots("user", fr[p], file[p]) /\ DirsOf(p) = HeldDirs("user", fr[p])
      /\ file[p] \in load.slots \cup {NoSlot}
  BY <1>1, RunsFacts
<1>d. n # NoName
  BY InodeAssumption
<1>4. f \in Frames /\ f.call = c /\ f.name = n /\ f.slot = NoSlot /\ f.seen = NoSlot
        /\ f.ncp = NoEntry /\ f.ino = 0 /\ f.back = "user" /\ f.then = "user"
  BY CallFrameFacts DEF Calls
<1> HIDE DEF f
<1>5. Fits("namei", f, file[p])
  BY <1>3, <1>4, <1>d DEF Fits, Placed, At,
     Fetching, Ireles, Locking, MayLock, Slotless, Labels, Creating, InDir, Opening, Looking
<1>6. HeldSlots("namei", f, file[p]) = SlotsOf(p) /\ f.slot = fr[p].slot
  BY <1>3, <1>4, <1>d DEF HeldSlots, Placed, Locking, MayLock, Slotless
<1>7. DirStep(p, "namei", f)
  <2>1. DirsOf(p) = HeldDirs("namei", f)
    BY <1>3, <1>4, <1>d DEF HeldDirs, At, Fetching, Ireles, Creating, InDir
  <2> QED
    BY <1>1, <2>1, DirKept
<1>8. IlockStep(p, "namei")
  BY <1>1, IlockKept DEF Scanning
<1>9. StoreOK'
  BY <1>1, StoreKept DEF Goto, TableInv
<1> QED
  BY <1>1, <1>2, <1>5, <1>6, <1>7, <1>8, <1>9, Quiet DEF Working
LEMMA StepIgetError ==
  ASSUME TableInv, NEW p \in Procs, IgetError(p) PROVE TableInv'
<1> DEFINE f == [fr[p] EXCEPT !.then = fr[p].back]
<1>1. /\ Runs(p, "iget_read") /\ Goto(p, "irele") /\ Frame(p, f)
      /\ UNCHANGED <<free, nc, lru, disk, dir, dlock, fs, file>>
  BY DEF IgetError, Iput
<1>2. CpuStep(p, "irele") /\ Moves(p, "irele", f, file[p])
  BY <1>1, GotoFacts
<1>3. /\ fr[p] \in Frames /\ Placed("iget_read", fr[p], file[p], load.slots)
      /\ SlotsOf(p) = HeldSlots("iget_read", fr[p], file[p])
      /\ DirsOf(p) = HeldDirs("iget_read", fr[p])
      /\ file[p] \in load.slots \cup {NoSlot} /\ load.slots \subseteq Slots
  BY <1>1, RunsFacts
<1>s. fr[p].slot \in Slots /\ fr[p].slot # NoSlot /\ x[fr[p].slot] \in Records
  BY <1>3, InodeAssumption DEF Placed, Locking, MayLock, TableInv, TableTyped, Frames,
       IgetError, Slot
<1>4. /\ f \in Frames
      /\ f.call = fr[p].call /\ f.name = fr[p].name /\ f.slot = fr[p].slot
      /\ f.seen = fr[p].seen /\ f.ncp = fr[p].ncp /\ f.ino = fr[p].ino
      /\ f.back = fr[p].back /\ f.then = fr[p].back
  BY <1>3, <1>s DEF Frames, Backs, Thens, Calls
<1> HIDE DEF f
<1>5. Fits("irele", f, file[p])
  BY <1>3, <1>4, <1>s DEF Fits, Placed, At,
     Fetching, Ireles, Locking, MayLock, Slotless, Labels, Creating, InDir, Opening, Looking
<1>6. DirStep(p, "irele", f)
  <2>1. DirsOf(p) = HeldDirs("irele", f)
    BY <1>3, <1>4, <1>s DEF HeldDirs, At, Placed, Fetching, Ireles, Creating, InDir
  <2> QED
    BY <1>1, <2>1, DirKept
<1>7. IlockStep(p, "irele")
  BY <1>1, IlockKept DEF Scanning
<1>8. StoreOK'
  BY <1>1, StoreKept DEF Goto, TableInv
<1>9. Iput(p, fr[p].slot, [x[fr[p].slot] EXCEPT !.ino = 0]) /\ free' = free
  BY <1>1 DEF IgetError, Slot
<1>10. /\ [x[fr[p].slot] EXCEPT !.ino = 0] \in Records
       /\ ([x[fr[p].slot] EXCEPT !.ino = 0]).count = x[fr[p].slot].count
       /\ ([x[fr[p].slot] EXCEPT !.ino = 0]).ino = x[fr[p].slot].ino \/ ([x[fr[p].slot] EXCEPT !.ino = 0]).ino = 0
  BY <1>s, RecordEdits
<1>11. "iget_read" \in Locking \cup MayLock
  BY DEF Locking, MayLock
<1> QED
  BY <1>1, <1>2, <1>s, <1>4, <1>5, <1>6, <1>7, <1>8, <1>9, <1>10, <1>11, Iputs

LEMMA StepUnlinkRefused ==
  ASSUME TableInv, NEW p \in Procs, UnlinkRefused(p) PROVE TableInv'
<1> DEFINE f == [fr[p] EXCEPT !.then = "unlinked"]
<1>1. /\ Runs(p, "child") /\ Goto(p, "irele") /\ Frame(p, f)
      /\ UNCHANGED <<free, nc, lru, disk, dir, dlock, fs, file>>
  BY DEF UnlinkRefused, Iput
<1>2. CpuStep(p, "irele") /\ Moves(p, "irele", f, file[p])
  BY <1>1, GotoFacts
<1>3. /\ fr[p] \in Frames /\ Placed("child", fr[p], file[p], load.slots)
      /\ SlotsOf(p) = HeldSlots("child", fr[p], file[p]) /\ DirsOf(p) = HeldDirs("child", fr[p])
      /\ file[p] \in load.slots \cup {NoSlot} /\ load.slots \subseteq Slots
  BY <1>1, RunsFacts
<1>s. fr[p].slot \in Slots /\ fr[p].slot # NoSlot /\ x[fr[p].slot] \in Records
  BY <1>3, InodeAssumption DEF Placed, Locking, MayLock, TableInv, TableTyped, Frames,
       UnlinkRefused, Slot
<1>4. /\ f \in Frames
      /\ f.call = fr[p].call /\ f.name = fr[p].name /\ f.slot = fr[p].slot
      /\ f.seen = fr[p].seen /\ f.ncp = fr[p].ncp /\ f.ino = fr[p].ino
      /\ f.back = fr[p].back /\ f.then = "unlinked"
  BY <1>3, <1>s DEF Frames, Backs, Thens, Calls
<1> HIDE DEF f
<1>5. Fits("irele", f, file[p])
  BY <1>3, <1>4, <1>s DEF Fits, Placed, At,
     Fetching, Ireles, Locking, MayLock, Slotless, Labels, Creating, InDir, Opening, Looking
<1>6. DirStep(p, "irele", f)
  <2>1. DirsOf(p) = HeldDirs("irele", f)
    BY <1>3, <1>4, <1>s DEF HeldDirs, At, Placed, Fetching, Ireles, Creating, InDir
  <2> QED
    BY <1>1, <2>1, DirKept
<1>7. IlockStep(p, "irele")
  BY <1>1, IlockKept DEF Scanning
<1>8. StoreOK'
  BY <1>1, StoreKept DEF Goto, TableInv
<1>9. Iput(p, fr[p].slot, x[fr[p].slot]) /\ free' = free
  BY <1>1 DEF UnlinkRefused, Slot
<1>10. /\ x[fr[p].slot] \in Records /\ (x[fr[p].slot]).count = x[fr[p].slot].count
       /\ (x[fr[p].slot]).ino = x[fr[p].slot].ino \/ (x[fr[p].slot]).ino = 0
  BY <1>s, RecordEdits
<1>11. "child" \in Locking \cup MayLock
  BY DEF Locking, MayLock
<1> QED
  BY <1>1, <1>2, <1>s, <1>4, <1>5, <1>6, <1>7, <1>8, <1>9, <1>10, <1>11, Iputs

LEMMA StepOpenRefused ==
  ASSUME TableInv, NEW p \in Procs, OpenRefused(p) PROVE TableInv'
<1> DEFINE f == [fr[p] EXCEPT !.then = "user"]
<1>1. /\ Runs(p, "haveino") /\ Goto(p, "irele") /\ Frame(p, f)
      /\ UNCHANGED <<free, nc, lru, disk, dir, dlock, fs, file>>
  BY DEF OpenRefused, Iput
<1>2. CpuStep(p, "irele") /\ Moves(p, "irele", f, file[p])
  BY <1>1, GotoFacts
<1>3. /\ fr[p] \in Frames /\ Placed("haveino", fr[p], file[p], load.slots)
      /\ SlotsOf(p) = HeldSlots("haveino", fr[p], file[p]) /\ DirsOf(p) = HeldDirs("haveino", fr[p])
      /\ file[p] \in load.slots \cup {NoSlot} /\ load.slots \subseteq Slots
  BY <1>1, RunsFacts
<1>s. fr[p].slot \in Slots /\ fr[p].slot # NoSlot /\ x[fr[p].slot] \in Records
  BY <1>3, InodeAssumption DEF Placed, Locking, MayLock, TableInv, TableTyped, Frames,
       OpenRefused, Slot
<1>4. /\ f \in Frames
      /\ f.call = fr[p].call /\ f.name = fr[p].name /\ f.slot = fr[p].slot
      /\ f.seen = fr[p].seen /\ f.ncp = fr[p].ncp /\ f.ino = fr[p].ino
      /\ f.back = fr[p].back /\ f.then = "user"
  BY <1>3, <1>s DEF Frames, Backs, Thens, Calls
<1> HIDE DEF f
<1>5. Fits("irele", f, file[p])
  BY <1>3, <1>4, <1>s DEF Fits, Placed, At,
     Fetching, Ireles, Locking, MayLock, Slotless, Labels, Creating, InDir, Opening, Looking
<1>6. DirStep(p, "irele", f)
  <2>1. DirsOf(p) = HeldDirs("irele", f)
    BY <1>3, <1>4, <1>s DEF HeldDirs, At, Placed, Fetching, Ireles, Creating, InDir
  <2> QED
    BY <1>1, <2>1, DirKept
<1>7. IlockStep(p, "irele")
  BY <1>1, IlockKept DEF Scanning
<1>8. StoreOK'
  BY <1>1, StoreKept DEF Goto, TableInv
<1>9. Iput(p, fr[p].slot, x[fr[p].slot]) /\ free' = free
  BY <1>1 DEF OpenRefused, Slot
<1>10. /\ x[fr[p].slot] \in Records /\ (x[fr[p].slot]).count = x[fr[p].slot].count
       /\ (x[fr[p].slot]).ino = x[fr[p].slot].ino \/ (x[fr[p].slot]).ino = 0
  BY <1>s, RecordEdits
<1>11. "haveino" \in Locking \cup MayLock
  BY DEF Locking, MayLock
<1> QED
  BY <1>1, <1>2, <1>s, <1>4, <1>5, <1>6, <1>7, <1>8, <1>9, <1>10, <1>11, Iputs

LEMMA StepLookupRefused ==
  ASSUME TableInv, NEW p \in Procs, LookupRefused(p) PROVE TableInv'
<1> DEFINE f == [fr[p] EXCEPT !.then = "user"]
<1>1. /\ Runs(p, "child") /\ Goto(p, "irele") /\ Frame(p, f)
      /\ UNCHANGED <<free, nc, lru, disk, dir, fs, file>>
  BY DEF LookupRefused, Iput
<1>2. CpuStep(p, "irele") /\ Moves(p, "irele", f, file[p])
  BY <1>1, GotoFacts
<1>3. /\ fr[p] \in Frames /\ Placed("child", fr[p], file[p], load.slots)
      /\ SlotsOf(p) = HeldSlots("child", fr[p], file[p]) /\ DirsOf(p) = HeldDirs("child", fr[p])
      /\ file[p] \in load.slots \cup {NoSlot} /\ load.slots \subseteq Slots
  BY <1>1, RunsFacts
<1>s. fr[p].slot \in Slots /\ fr[p].slot # NoSlot /\ x[fr[p].slot] \in Records
  BY <1>3, InodeAssumption DEF Placed, Locking, MayLock, TableInv, TableTyped, Frames,
       LookupRefused, Slot
<1>4. /\ f \in Frames
      /\ f.call = fr[p].call /\ f.name = fr[p].name /\ f.slot = fr[p].slot
      /\ f.seen = fr[p].seen /\ f.ncp = fr[p].ncp /\ f.ino = fr[p].ino
      /\ f.back = fr[p].back /\ f.then = "user"
  BY <1>3, <1>s DEF Frames, Backs, Thens, Calls
<1> HIDE DEF f
<1>5. Fits("irele", f, file[p])
  BY <1>3, <1>4, <1>s DEF Fits, Placed, At,
     Fetching, Ireles, Locking, MayLock, Slotless, Labels, Creating, InDir, Opening, Looking
<1>6. DirStep(p, "irele", f)
  <2>1. DirsOf(p) = {Dir(p)} /\ HeldDirs("irele", f) = {} /\ fr[p].name \in Names
    BY <1>3, <1>4, <1>s DEF HeldDirs, At, Fetching, Ireles, Creating, InDir, Dir, Placed,
         Looking, Opening, Frames
  <2>2. DirUnlock(p)
    BY DEF LookupRefused
  <2> QED
    BY <2>1, <2>2, DirGiven
<1>7. IlockStep(p, "irele")
  BY <1>1, IlockKept DEF Scanning
<1>8. StoreOK'
  BY <1>1, StoreKept DEF Goto, TableInv
<1>9. Iput(p, fr[p].slot, x[fr[p].slot]) /\ free' = free
  BY <1>1 DEF LookupRefused, Slot
<1>10. /\ x[fr[p].slot] \in Records /\ (x[fr[p].slot]).count = x[fr[p].slot].count
       /\ (x[fr[p].slot]).ino = x[fr[p].slot].ino \/ (x[fr[p].slot]).ino = 0
  BY <1>s, RecordEdits
<1>11. "child" \in Locking \cup MayLock
  BY DEF Locking, MayLock
<1> QED
  BY <1>1, <1>2, <1>s, <1>4, <1>5, <1>6, <1>7, <1>8, <1>9, <1>10, <1>11, Iputs

LEMMA StepIallocTaken ==
  ASSUME TableInv, NEW p \in Procs, IallocTaken(p) PROVE TableInv'
<1> DEFINE f == [fr[p] EXCEPT !.then = "ialloc_loop"]
<1>1. /\ Runs(p, "ialloc_got") /\ Goto(p, "irele") /\ Frame(p, f)
      /\ UNCHANGED <<free, nc, lru, disk, dir, dlock, fs, file>>
  BY DEF IallocTaken, Iput
<1>2. CpuStep(p, "irele") /\ Moves(p, "irele", f, file[p])
  BY <1>1, GotoFacts
<1>3. /\ fr[p] \in Frames /\ Placed("ialloc_got", fr[p], file[p], load.slots)
      /\ SlotsOf(p) = HeldSlots("ialloc_got", fr[p], file[p])
      /\ DirsOf(p) = HeldDirs("ialloc_got", fr[p])
      /\ file[p] \in load.slots \cup {NoSlot} /\ load.slots \subseteq Slots
  BY <1>1, RunsFacts
<1>s. fr[p].slot \in Slots /\ fr[p].slot # NoSlot /\ x[fr[p].slot] \in Records
  BY <1>3, InodeAssumption DEF Placed, Locking, MayLock, TableInv, TableTyped, Frames,
       IallocTaken, Slot
<1>4. /\ f \in Frames
      /\ f.call = fr[p].call /\ f.name = fr[p].name /\ f.slot = fr[p].slot
      /\ f.seen = fr[p].seen /\ f.ncp = fr[p].ncp /\ f.ino = fr[p].ino
      /\ f.back = fr[p].back /\ f.then = "ialloc_loop"
  BY <1>3, <1>s DEF Frames, Backs, Thens, Calls
<1> HIDE DEF f
<1>5. Fits("irele", f, file[p])
  BY <1>3, <1>4, <1>s DEF Fits, Placed, At,
     Fetching, Ireles, Locking, MayLock, Slotless, Labels, Creating, InDir, Opening, Looking
<1>6. DirStep(p, "irele", f)
  <2>1. DirsOf(p) = HeldDirs("irele", f)
    BY <1>3, <1>4, <1>s DEF HeldDirs, At, Placed, Fetching, Ireles, Creating, InDir
  <2> QED
    BY <1>1, <2>1, DirKept
<1>7. IlockStep(p, "irele")
  BY <1>1, IlockKept DEF Scanning
<1>8. StoreOK'
  BY <1>1, StoreKept DEF Goto, TableInv
<1>9. Iput(p, fr[p].slot, x[fr[p].slot]) /\ free' = free
  BY <1>1 DEF IallocTaken, Slot
<1>10. /\ x[fr[p].slot] \in Records /\ (x[fr[p].slot]).count = x[fr[p].slot].count
       /\ (x[fr[p].slot]).ino = x[fr[p].slot].ino \/ (x[fr[p].slot]).ino = 0
  BY <1>s, RecordEdits
<1>11. "ialloc_got" \in Locking \cup MayLock
  BY DEF Locking, MayLock
<1> QED
  BY <1>1, <1>2, <1>s, <1>4, <1>5, <1>6, <1>7, <1>8, <1>9, <1>10, <1>11, Iputs

LEMMA StepDirremoveIput ==
  ASSUME TableInv, NEW p \in Procs, Runs(p, "dirremove"),
         dir' \in DirWritten(fr[p].name, 0) \/ dir' = dir, NEW r \in Records,
         r.count = x[fr[p].slot].count, r.ino = x[fr[p].slot].ino,
         Iput(p, fr[p].slot, r), Frame(p, [fr[p] EXCEPT !.then = "unlinked"]),
         UNCHANGED <<free, nc, lru, disk, dlock, fs, file>> PROVE TableInv'
<1> DEFINE f == [fr[p] EXCEPT !.then = "unlinked"]
<1>1. /\ Runs(p, "dirremove") /\ Goto(p, "irele") /\ Frame(p, f)
      /\ UNCHANGED <<free, nc, lru, disk, dlock, fs, file>>
  BY DEF Iput, Iput
<1>2. CpuStep(p, "irele") /\ Moves(p, "irele", f, file[p])
  BY <1>1, GotoFacts
<1>3. /\ fr[p] \in Frames /\ Placed("dirremove", fr[p], file[p], load.slots)
      /\ SlotsOf(p) = HeldSlots("dirremove", fr[p], file[p])
      /\ DirsOf(p) = HeldDirs("dirremove", fr[p])
      /\ file[p] \in load.slots \cup {NoSlot} /\ load.slots \subseteq Slots
  BY <1>1, RunsFacts
<1>s. fr[p].slot \in Slots /\ fr[p].slot # NoSlot /\ x[fr[p].slot] \in Records
  BY <1>3, InodeAssumption DEF Placed, Locking, MayLock, TableInv, TableTyped, Frames, Iput, Slot
<1>4. /\ f \in Frames
      /\ f.call = fr[p].call /\ f.name = fr[p].name /\ f.slot = fr[p].slot
      /\ f.seen = fr[p].seen /\ f.ncp = fr[p].ncp /\ f.ino = fr[p].ino
      /\ f.back = fr[p].back /\ f.then = "unlinked"
  BY <1>3, <1>s DEF Frames, Backs, Thens, Calls
<1> HIDE DEF f
<1>5. Fits("irele", f, file[p])
  BY <1>3, <1>4, <1>s DEF Fits, Placed, At,
     Fetching, Ireles, Locking, MayLock, Slotless, Labels, Creating, InDir, Opening, Looking
<1>6. DirStep(p, "irele", f)
  <2>1. DirsOf(p) = HeldDirs("irele", f)
    BY <1>3, <1>4, <1>s DEF HeldDirs, At, Placed, Fetching, Ireles, Creating, InDir
  <2> QED
    BY <1>1, <2>1, DirKept
<1>7. IlockStep(p, "irele")
  BY <1>1, IlockKept DEF Scanning
<1>8. StoreOK'
  <2>1. fr[p].name \in Names
    BY <1>3 DEF Placed, At, Fetching, Ireles, Looking, InDir, Frames
  <2>2. dir' \in [Names -> 0 .. NINO]
    BY <2>1, InodeAssumption DEF DirWritten, TableInv, StoreOK
  <2> QED
    BY <1>1, <2>2, StoreDir DEF Goto, TableInv
<1>9. Iput(p, fr[p].slot, r) /\ free' = free
  BY <1>1 DEF Iput, Slot
<1>10. /\ r \in Records /\ (r).count = x[fr[p].slot].count
       /\ (r).ino = x[fr[p].slot].ino \/ (r).ino = 0
  BY <1>s, RecordEdits
<1>11. "dirremove" \in Locking \cup MayLock
  BY DEF Locking, MayLock
<1> QED
  BY <1>1, <1>2, <1>s, <1>4, <1>5, <1>6, <1>7, <1>8, <1>9, <1>10, <1>11, Iputs

LEMMA StepDirremove ==
  ASSUME TableInv, NEW p \in Procs, Dirremove(p) PROVE TableInv'
<1>1. /\ Runs(p, "dirremove") /\ Frame(p, [fr[p] EXCEPT !.then = "unlinked"])
      /\ UNCHANGED <<free, nc, lru, disk, dlock, fs, file>>
  BY DEF Dirremove
<1>2. x[fr[p].slot] \in Records
  <2>1. Placed("dirremove", fr[p], file[p], load.slots) /\ load.slots \subseteq Slots
    BY <1>1, RunsFacts
  <2> QED
    BY <2>1 DEF Placed, Locking, TableInv, TableTyped
<1>3. CASE dir' \in DirWritten(fr[p].name, 0) /\ Iput(p, fr[p].slot, Unnamed(x[fr[p].slot]))
  <2>1. /\ Unnamed(x[fr[p].slot]) \in Records
        /\ Unnamed(x[fr[p].slot]).count = x[fr[p].slot].count
        /\ Unnamed(x[fr[p].slot]).ino = x[fr[p].slot].ino
    BY <1>2, RecordEdits
  <2> QED
    BY <1>1, <1>3, <2>1, StepDirremoveIput
<1>4. CASE dir' = dir /\ Iput(p, fr[p].slot, x[fr[p].slot])
  BY <1>1, <1>2, <1>4, StepDirremoveIput
<1> QED
  BY <1>3, <1>4 DEF Dirremove, Slot

LEMMA StepDirenterFails ==
  ASSUME TableInv, NEW p \in Procs, Runs(p, "direnter"), DirUnlock(p),
         Iput(p, fr[p].slot, Unnamed(x[fr[p].slot])), Frame(p, [fr[p] EXCEPT !.then = "user"]),
         UNCHANGED <<free, nc, lru, disk, dir, fs, file>> PROVE TableInv'
<1> DEFINE f == [fr[p] EXCEPT !.then = "user"]
<1>1. /\ Runs(p, "direnter") /\ Goto(p, "irele") /\ Frame(p, f)
      /\ UNCHANGED <<free, nc, lru, disk, dir, fs, file>>
  BY DEF Iput, Iput
<1>2. CpuStep(p, "irele") /\ Moves(p, "irele", f, file[p])
  BY <1>1, GotoFacts
<1>3. /\ fr[p] \in Frames /\ Placed("direnter", fr[p], file[p], load.slots)
      /\ SlotsOf(p) = HeldSlots("direnter", fr[p], file[p])
      /\ DirsOf(p) = HeldDirs("direnter", fr[p])
      /\ file[p] \in load.slots \cup {NoSlot} /\ load.slots \subseteq Slots
  BY <1>1, RunsFacts
<1>s. fr[p].slot \in Slots /\ fr[p].slot # NoSlot /\ x[fr[p].slot] \in Records
  BY <1>3, InodeAssumption DEF Placed, Locking, MayLock, TableInv, TableTyped, Frames, Iput, Slot
<1>4. /\ f \in Frames
      /\ f.call = fr[p].call /\ f.name = fr[p].name /\ f.slot = fr[p].slot
      /\ f.seen = fr[p].seen /\ f.ncp = fr[p].ncp /\ f.ino = fr[p].ino
      /\ f.back = fr[p].back /\ f.then = "user"
  BY <1>3, <1>s DEF Frames, Backs, Thens, Calls
<1> HIDE DEF f
<1>5. Fits("irele", f, file[p])
  BY <1>3, <1>4, <1>s DEF Fits, Placed, At,
     Fetching, Ireles, Locking, MayLock, Slotless, Labels, Creating, InDir, Opening, Looking
<1>6. DirStep(p, "irele", f)
  <2>1. DirsOf(p) = {Dir(p)} /\ HeldDirs("irele", f) = {} /\ fr[p].name \in Names
    BY <1>3, <1>4, <1>s DEF HeldDirs, At, Fetching, Ireles, Creating, InDir, Dir, Placed,
       Looking, Opening, Frames
  <2>2. DirUnlock(p)
    BY DEF Iput, Iput
  <2> QED
    BY <2>1, <2>2, DirGiven
<1>7. IlockStep(p, "irele")
  BY <1>1, IlockKept DEF Scanning
<1>8. StoreOK'
  BY <1>1, StoreKept DEF Goto, TableInv
<1>9. Iput(p, fr[p].slot, Unnamed(x[fr[p].slot])) /\ free' = free
  BY <1>1 DEF Iput, Slot
<1>10. /\ Unnamed(x[fr[p].slot]) \in Records /\ (Unnamed(x[fr[p].slot])).count = x[fr[p].slot].count
       /\ (Unnamed(x[fr[p].slot])).ino = x[fr[p].slot].ino \/ (Unnamed(x[fr[p].slot])).ino = 0
  BY <1>s, RecordEdits
<1>11. "direnter" \in Locking \cup MayLock
  BY DEF Locking, MayLock
<1> QED
  BY <1>1, <1>2, <1>s, <1>4, <1>5, <1>6, <1>7, <1>8, <1>9, <1>10, <1>11, Iputs

LEMMA StepDirenter ==
  ASSUME TableInv, NEW p \in Procs, Direnter(p) PROVE TableInv'
<1>1. CASE dir' \in DirWritten(fr[p].name, x[Slot(p)].ino) /\ Goto(p, "haveino")
           /\ UNCHANGED <<x, fr, slp>>
  BY <1>1, StepDirenterOK DEF Direnter
<1>2. CASE /\ Iput(p, Slot(p), Unnamed(x[Slot(p)])) /\ UNCHANGED dir
           /\ Frame(p, [fr[p] EXCEPT !.then = "user"])
  BY <1>2, StepDirenterFails DEF Direnter, Slot
<1> QED
  BY <1>1, <1>2 DEF Direnter

(* What iupdat may write.                                                  *)
LEMMA IupdatFacts ==
  ASSUME TableInv, NEW s \in Slots, NEW u \in Iupdat(s)
  PROVE  u.disk \in [Inodes -> OnDisk] /\ u.dirty \in BOOLEAN
<1>1. x[s].mode \in BOOLEAN /\ x[s].nlink \in MinNlink .. 1 /\ disk \in [Inodes -> OnDisk]
  BY DEF TableInv, TableTyped, Records, StoreOK
<1>2. Written(s) \in [Inodes -> OnDisk]
  BY <1>1 DEF Written, OnDisk
<1>3. CASE u = [disk |-> Written(s), dirty |-> FALSE]
  BY <1>2, <1>3
<1>4. CASE u = [disk |-> disk, dirty |-> TRUE]
  BY <1>1, <1>4
<1> QED
  BY <1>3, <1>4 DEF Iupdat

LEMMA StepSyncIput ==
  ASSUME TableInv, NEW p \in Procs, Runs(p, "sync_iupdat"),
         disk' \in [Inodes -> OnDisk], NEW b \in BOOLEAN,
         Iput(p, fr[p].slot, [x[fr[p].slot] EXCEPT !.dirty = b]),
         UNCHANGED <<free, nc, lru, dir, dlock, fs, file, fr>> PROVE TableInv'
<1>1. /\ Runs(p, "sync_iupdat") /\ Goto(p, "irele") /\ fr' = fr
      /\ UNCHANGED <<free, nc, lru, dir, dlock, fs, file>>
  BY DEF Iput, Iput
<1>2. CpuStep(p, "irele") /\ Moves(p, "irele", fr[p], file[p])
  BY <1>1, GotoFacts
<1>3. /\ fr[p] \in Frames /\ Placed("sync_iupdat", fr[p], file[p], load.slots)
      /\ SlotsOf(p) = HeldSlots("sync_iupdat", fr[p], file[p])
      /\ DirsOf(p) = HeldDirs("sync_iupdat", fr[p])
      /\ file[p] \in load.slots \cup {NoSlot} /\ load.slots \subseteq Slots
  BY <1>1, RunsFacts
<1>d. disk' \in [Inodes -> OnDisk]
  OBVIOUS
<1>s. fr[p].slot \in Slots /\ fr[p].slot # NoSlot /\ x[fr[p].slot] \in Records
  BY <1>3, InodeAssumption DEF Placed, Locking, MayLock, TableInv, TableTyped, Frames, Iput, Slot
<1>5. Fits("irele", fr[p], file[p])
  BY <1>3, <1>s DEF Fits, Placed, At,
     Fetching, Ireles, Locking, MayLock, Slotless, Labels, Creating, InDir, Opening, Looking
<1>6. DirStep(p, "irele", fr[p])
  <2>1. DirsOf(p) = HeldDirs("irele", fr[p])
    BY <1>3, <1>s DEF HeldDirs, At, Placed, Fetching, Ireles, Creating, InDir
  <2> QED
    BY <1>1, <2>1, DirKept
<1>7. IlockStep(p, "irele")
  BY <1>1, IlockKept DEF Scanning
<1>8. StoreOK'
  BY <1>1, <1>d, StoreDisk DEF Goto, TableInv
<1>9. Iput(p, fr[p].slot, [x[fr[p].slot] EXCEPT !.dirty = b]) /\ free' = free
  BY <1>1 DEF Iput, Slot
<1>10. /\ [x[fr[p].slot] EXCEPT !.dirty = b] \in Records
       /\ ([x[fr[p].slot] EXCEPT !.dirty = b]).count = x[fr[p].slot].count
       /\ ([x[fr[p].slot] EXCEPT !.dirty = b]).ino = x[fr[p].slot].ino \/ ([x[fr[p].slot] EXCEPT !.dirty = b]).ino = 0
  BY <1>s, DirtyEdit
<1>11. "sync_iupdat" \in Locking \cup MayLock
  BY DEF Locking, MayLock
<1> QED
  BY <1>1, <1>2, <1>s, <1>5, <1>6, <1>7, <1>8, <1>9, <1>10, <1>11, Iputs

LEMMA StepSyncIupdat ==
  ASSUME TableInv, NEW p \in Procs, SyncIupdat(p) PROVE TableInv'
<1>1. Runs(p, "sync_iupdat") /\ UNCHANGED <<free, nc, lru, dir, dlock, fs, file, fr>>
  BY DEF SyncIupdat
<1>2. PICK u \in Iupdat(fr[p].slot) :
        disk' = u.disk /\ Iput(p, fr[p].slot, [x[fr[p].slot] EXCEPT !.dirty = u.dirty])
  BY DEF SyncIupdat, Slot
<1>3. fr[p].slot \in Slots
  <2>1. Placed("sync_iupdat", fr[p], file[p], load.slots) /\ load.slots \subseteq Slots
    BY <1>1, RunsFacts
  <2> QED
    BY <2>1 DEF Placed, Locking
<1>4. u.disk \in [Inodes -> OnDisk] /\ u.dirty \in BOOLEAN
  BY <1>3, IupdatFacts
<1> QED
  BY <1>1, <1>2, <1>4, StepSyncIput

LEMMA StepRwip ==
  ASSUME TableInv, NEW p \in Procs, Rwip(p) PROVE TableInv'
<1>1. /\ Runs(p, "rwip") /\ Goto(p, "user") /\ fr' = fr
      /\ UNCHANGED <<free, nc, lru, disk, dir, dlock, fs, file>>
  BY DEF Rwip
<1>2. CpuStep(p, "user") /\ Moves(p, "user", fr[p], file[p])
  BY <1>1, GotoFacts
<1>3. /\ fr[p] \in Frames /\ Placed("rwip", fr[p], file[p], load.slots)
      /\ SlotsOf(p) = HeldSlots("rwip", fr[p], file[p]) /\ DirsOf(p) = HeldDirs("rwip", fr[p])
      /\ file[p] \in load.slots \cup {NoSlot} /\ load.slots \subseteq Slots
  BY <1>1, RunsFacts
<1>5. Fits("user", fr[p], file[p])
  BY <1>3 DEF Fits, Placed, At,
     Fetching, Ireles, Locking, MayLock, Slotless, Labels, Creating, InDir, Opening, Looking
<1>6. DirStep(p, "user", fr[p])
  <2>1. DirsOf(p) = HeldDirs("user", fr[p])
    BY <1>3 DEF HeldDirs, At, Placed, Fetching, Ireles, Creating, InDir
  <2> QED
    BY <1>1, <2>1, DirKept
<1>7. IlockStep(p, "user")
  BY <1>1, IlockKept DEF Scanning
<1>8. StoreOK'
  BY <1>1, StoreKept DEF Goto, TableInv
<1>9. file[p] \in SlotsOf(p) /\ HeldSlots("user", fr[p], file[p]) = SlotsOf(p) \ {file[p]}
  BY <1>3 DEF HeldSlots, Locking, MayLock
<1>10. SameRefs(p, fr[p], file[p])
  BY DEF SameRefs, Delta, One
<1>11. /\ [x[file[p]] EXCEPT !.dirty = TRUE] \in Records
       /\ [x[file[p]] EXCEPT !.dirty = TRUE].count = x[file[p]].count
       /\ [x[file[p]] EXCEPT !.dirty = TRUE].ino = x[file[p]].ino
  <2>1. x[file[p]] \in Records
    BY <1>9, OwnSlot
  <2> QED
    BY <2>1, DirtyEdit
<1>12. Release(file[p], [x[file[p]] EXCEPT !.dirty = TRUE]) /\ free' = free
  BY DEF Rwip
<1> QED
  BY <1>2, <1>5, <1>6, <1>7, <1>8, <1>9, <1>10, <1>11, <1>12, PutBack DEF Working

LEMMA StepHaveino ==
  ASSUME TableInv, NEW p \in Procs, Haveino(p) PROVE TableInv'
<1> DEFINE f == NoFrame
<1>1. /\ Runs(p, "haveino") /\ Goto(p, "user") /\ Frame(p, f)
      /\ UNCHANGED <<free, nc, lru, disk, dir, dlock, fs>>
  BY DEF Haveino, Return
<1>2. CpuStep(p, "user") /\ Moves(p, "user", f, fr[p].slot)
  BY <1>1, GotoFacts DEF Moves, Goto, Frame, Haveino, Slot
<1>3. /\ fr[p] \in Frames /\ Placed("haveino", fr[p], file[p], load.slots)
      /\ SlotsOf(p) = HeldSlots("haveino", fr[p], file[p]) /\ DirsOf(p) = HeldDirs("haveino", fr[p])
      /\ file[p] \in load.slots \cup {NoSlot} /\ load.slots \subseteq Slots
  BY <1>1, RunsFacts
<1>s. fr[p].slot \in Slots /\ fr[p].slot # NoSlot /\ x[fr[p].slot] \in Records /\ file[p] = NoSlot
      /\ fr[p].slot \in load.slots
  BY <1>3, InodeAssumption DEF Placed, Locking, MayLock, TableInv, TableTyped, Frames, Haveino,
       Looking, Opening, At, Fetching, Ireles, Slot
<1>4. /\ f \in Frames
      /\ f.call = "none" /\ f.name = NoName /\ f.slot = NoSlot /\ f.seen = NoSlot
      /\ f.ncp = NoEntry /\ f.ino = 0 /\ f.back = "user" /\ f.then = "user"
  BY NoFrameFacts
<1> HIDE DEF f
<1>5. Fits("user", f, fr[p].slot)
  BY <1>3, <1>4, <1>s DEF Fits, Placed, At,
     Fetching, Ireles, Locking, MayLock, Slotless, Labels, Creating, InDir, Opening, Looking
<1>6. DirStep(p, "user", f)
  <2>1. DirsOf(p) = HeldDirs("user", f)
    BY <1>3, <1>4, <1>s DEF HeldDirs, At, Placed, Fetching, Ireles, Creating, InDir
  <2> QED
    BY <1>1, <2>1, DirKept
<1>7. IlockStep(p, "user")
  BY <1>1, IlockKept DEF Scanning
<1>8. StoreOK'
  BY <1>1, StoreKept DEF Goto, TableInv
<1>9. fr[p].slot \in SlotsOf(p) /\ HeldSlots("user", f, fr[p].slot) = SlotsOf(p) \ {fr[p].slot}
  BY <1>3, <1>s DEF HeldSlots, Locking, MayLock
<1>10. SameRefs(p, f, fr[p].slot)
  <2>1. \A t \in Slots : t # NoSlot
    BY InodeAssumption
  <2> QED
    BY <2>1, <1>s, <1>4 DEF SameRefs, Delta, One
<1>11. Release(fr[p].slot, x[fr[p].slot]) /\ free' = free /\ x[fr[p].slot] \in Records
  BY <1>s DEF Haveino, Slot
<1> QED
  BY <1>2, <1>5, <1>6, <1>7, <1>8, <1>9, <1>10, <1>11, PutBack DEF Working

LEMMA StepClose ==
  ASSUME TableInv, NEW p \in Procs, Close(p) PROVE TableInv'
<1> DEFINE f == SlotFrame("close", file[p], file[p], "closei")
<1>1. /\ Runs(p, "user") /\ Goto(p, "irele") /\ Frame(p, f)
      /\ UNCHANGED <<x, free, nc, lru, disk, dir, dlock, fs, slp>>
  BY DEF Close, SlotFrame
<1>2. CpuStep(p, "irele") /\ Moves(p, "irele", f, NoSlot)
  BY <1>1, GotoFacts DEF Moves, Goto, Frame, Close, SlotFrame
<1>3. /\ fr[p] \in Frames /\ Placed("user", fr[p], file[p], load.slots)
      /\ SlotsOf(p) = HeldSlots("user", fr[p], file[p]) /\ DirsOf(p) = HeldDirs("user", fr[p])
      /\ file[p] \in load.slots \cup {NoSlot} /\ load.slots \subseteq Slots
  BY <1>1, RunsFacts
<1>s. file[p] \in Slots /\ file[p] # NoSlot /\ file[p] \in load.slots /\ fr[p].slot = NoSlot
  BY <1>3 DEF Close, Placed, Slotless
<1>4. /\ f \in Frames
      /\ f.call = "close" /\ f.name = NoName /\ f.slot = file[p] /\ f.seen = file[p]
      /\ f.ncp = NoEntry /\ f.ino = 0 /\ f.back = "user" /\ f.then = "closei"
  BY <1>s, SlotFrameFacts DEF Calls, Thens
<1> HIDE DEF f
<1>5. Fits("irele", f, NoSlot)
  BY <1>3, <1>4, <1>s DEF Fits, Placed, At,
     Fetching, Ireles, Locking, MayLock, Slotless, Labels, Creating, InDir, Opening, Looking
<1>6. DirStep(p, "irele", f)
  <2>1. DirsOf(p) = HeldDirs("irele", f)
    BY <1>3, <1>4, <1>s DEF HeldDirs, At, Placed, Fetching, Ireles, Creating, InDir
  <2> QED
    BY <1>1, <2>1, DirKept
<1>7. IlockStep(p, "irele")
  BY <1>1, IlockKept DEF Scanning
<1>8. StoreOK'
  BY <1>1, StoreKept DEF Goto, TableInv
<1>9. HeldSlots("irele", f, NoSlot) = SlotsOf(p)
  BY <1>3, <1>s DEF HeldSlots, Locking, MayLock
<1>10. SameRefs(p, f, NoSlot)
  <2>1. \A t \in Slots : t # NoSlot
    BY InodeAssumption
  <2> QED
    BY <2>1, <1>s, <1>4 DEF SameRefs, Delta, One
<1> QED
  BY <1>1, <1>2, <1>5, <1>6, <1>7, <1>8, <1>9, <1>10, Untouched DEF Working

LEMMA StepIgetRead ==
  ASSUME TableInv, NEW p \in Procs, IgetRead(p) PROVE TableInv'
<1> DEFINE m == fr[p].back
<1>1. /\ Runs(p, "iget_read") /\ Goto(p, m) /\ fr' = fr
      /\ UNCHANGED <<free, nc, lru, disk, dir, dlock, fs, file>>
  BY DEF IgetRead
<1>2. CpuStep(p, m) /\ Moves(p, m, fr[p], file[p])
  BY <1>1, GotoFacts
<1>3. /\ fr[p] \in Frames /\ Placed("iget_read", fr[p], file[p], load.slots)
      /\ SlotsOf(p) = HeldSlots("iget_read", fr[p], file[p])
      /\ DirsOf(p) = HeldDirs("iget_read", fr[p])
      /\ file[p] \in load.slots \cup {NoSlot} /\ load.slots \subseteq Slots
  BY <1>1, RunsFacts
<1>s. fr[p].slot \in Slots /\ fr[p].slot # NoSlot /\ x[fr[p].slot] \in Records
  BY <1>3, InodeAssumption DEF Placed, Locking, MayLock, TableInv, TableTyped, Frames,
       IgetRead, Slot
<1>m. m = fr[p].back /\ m \in {"child", "ialloc_got"}
  BY <1>3, <1>s DEF Placed, Frames, Backs, Thens, Fetching, Ireles
<1> HIDE DEF m
<1>5. Fits(m, fr[p], file[p])
  BY <1>3, <1>s, <1>m DEF Fits, Placed, At,
     Fetching, Ireles, Locking, MayLock, Slotless, Labels, Creating, InDir, Opening, Looking
<1>6. DirStep(p, m, fr[p])
  <2>1. DirsOf(p) = HeldDirs(m, fr[p])
    BY <1>3, <1>s, <1>m DEF HeldDirs, At, Placed, Fetching, Ireles, Creating, InDir
  <2> QED
    BY <1>1, <2>1, DirKept
<1>7. IlockStep(p, m)
  BY <1>1, IlockKept DEF Scanning
<1>8. StoreOK'
  BY <1>1, StoreKept DEF Goto, TableInv
<1>9. fr[p].slot \in SlotsOf(p) /\ HeldSlots(m, fr[p], file[p]) = SlotsOf(p)
  BY <1>3, <1>s, <1>m DEF HeldSlots, Locking, MayLock
<1>10. Update(fr[p].slot, [x[fr[p].slot] EXCEPT !.mode = disk[x[fr[p].slot].ino].mode,
                                          !.nlink = disk[x[fr[p].slot].ino].nlink]) /\ free' = free
  BY DEF IgetRead, Slot
<1>11. [x[fr[p].slot] EXCEPT !.mode = disk[x[fr[p].slot].ino].mode,
                                          !.nlink = disk[x[fr[p].slot].ino].nlink] \in Records /\ SameHold(fr[p].slot, [x[fr[p].slot] EXCEPT !.mode = disk[x[fr[p].slot].ino].mode,
                                          !.nlink = disk[x[fr[p].slot].ino].nlink])
  <2>1. x[fr[p].slot].ino \in Inodes
    <3>1. x[fr[p].slot].ino # 0
      BY <1>1 DEF TableInv, LastAlone, Working, WorkOK, Runs
    <3> QED
      BY <1>s, <3>1 DEF Records, Inodes
  <2>2. /\ disk[x[fr[p].slot].ino].mode \in BOOLEAN
        /\ disk[x[fr[p].slot].ino].nlink \in MinNlink .. 1
    BY <2>1 DEF TableInv, StoreOK, OnDisk
  <2>3. SameHold(fr[p].slot, ReadRecord(x[fr[p].slot], disk[x[fr[p].slot].ino].mode,
                                         disk[x[fr[p].slot].ino].nlink))
        /\ ReadRecord(x[fr[p].slot], disk[x[fr[p].slot].ino].mode,
                      disk[x[fr[p].slot].ino].nlink) \in Records
    BY <1>s, <2>2, ReadEdit DEF SameHold
  <2> QED
    BY <2>3 DEF ReadRecord
<1>12. AloneStep(m, fr[p], fr[p].slot, [x[fr[p].slot] EXCEPT !.mode = disk[x[fr[p].slot].ino].mode,
                                          !.nlink = disk[x[fr[p].slot].ino].nlink])
  BY <1>m DEF AloneStep, Working
<1> QED
  BY <1>2, <1>m, <1>5, <1>6, <1>7, <1>8, <1>9, <1>10, <1>11, <1>12, Edited

LEMMA StepItruncWrite ==
  ASSUME TableInv, NEW p \in Procs, Runs(p, "itrunc"), Goto(p, "ifree"),
         disk' \in [Inodes -> OnDisk], NEW b \in BOOLEAN,
         Update(fr[p].slot, [x[fr[p].slot] EXCEPT !.dirty = b]),
         UNCHANGED <<free, nc, lru, dir, dlock, fs, file, fr>> PROVE TableInv'
<1>1. /\ Runs(p, "itrunc") /\ Goto(p, "ifree") /\ fr' = fr
      /\ UNCHANGED <<free, nc, lru, dir, dlock, fs, file>>
  BY DEF Update
<1>2. CpuStep(p, "ifree") /\ Moves(p, "ifree", fr[p], file[p])
  BY <1>1, GotoFacts
<1>3. /\ fr[p] \in Frames /\ Placed("itrunc", fr[p], file[p], load.slots)
      /\ SlotsOf(p) = HeldSlots("itrunc", fr[p], file[p])
      /\ DirsOf(p) = HeldDirs("itrunc", fr[p])
      /\ file[p] \in load.slots \cup {NoSlot} /\ load.slots \subseteq Slots
  BY <1>1, RunsFacts
<1>d. disk' \in [Inodes -> OnDisk]
  OBVIOUS
<1>s. fr[p].slot \in Slots /\ fr[p].slot # NoSlot /\ x[fr[p].slot] \in Records
  BY <1>3, InodeAssumption DEF Placed, Locking, MayLock, TableInv, TableTyped, Frames, Update, Slot
<1>5. Fits("ifree", fr[p], file[p])
  BY <1>3, <1>s DEF Fits, Placed, At,
     Fetching, Ireles, Locking, MayLock, Slotless, Labels, Creating, InDir, Opening, Looking
<1>6. DirStep(p, "ifree", fr[p])
  <2>1. DirsOf(p) = HeldDirs("ifree", fr[p])
    BY <1>3, <1>s DEF HeldDirs, At, Placed, Fetching, Ireles, Creating, InDir
  <2> QED
    BY <1>1, <2>1, DirKept
<1>7. IlockStep(p, "ifree")
  BY <1>1, IlockKept DEF Scanning
<1>8. StoreOK'
  BY <1>1, <1>d, StoreDisk DEF Goto, TableInv
<1>9. fr[p].slot \in SlotsOf(p) /\ HeldSlots("ifree", fr[p], file[p]) = SlotsOf(p)
  BY <1>3, <1>s DEF HeldSlots, Locking, MayLock
<1>10. Update(fr[p].slot, [x[fr[p].slot] EXCEPT !.dirty = b]) /\ free' = free
  BY DEF Update, Slot
<1>11. [x[fr[p].slot] EXCEPT !.dirty = b] \in Records
         /\ SameHold(fr[p].slot, [x[fr[p].slot] EXCEPT !.dirty = b])
  BY <1>s, DirtyEdit DEF SameHold
<1>12. AloneStep("ifree", fr[p], fr[p].slot, [x[fr[p].slot] EXCEPT !.dirty = b])
  <2>1. x[fr[p].slot].count = 1
    BY <1>1 DEF TableInv, LastAlone, Working, WorkOK, Runs
  <2> QED
    BY <2>1, <1>11 DEF AloneStep, WorkOK, SameHold
<1> QED
  BY <1>2, <1>5, <1>6, <1>7, <1>8, <1>9, <1>10, <1>11, <1>12, Edited

LEMMA StepItrunc ==
  ASSUME TableInv, NEW p \in Procs, Itrunc(p) PROVE TableInv'
<1>1. /\ Runs(p, "itrunc") /\ Goto(p, "ifree")
      /\ UNCHANGED <<free, nc, lru, dir, dlock, fs, file, fr>>
  BY DEF Itrunc
<1>2. PICK u \in Iupdat(fr[p].slot) :
        disk' = u.disk /\ Update(fr[p].slot, [x[fr[p].slot] EXCEPT !.dirty = u.dirty])
  BY DEF Itrunc, Slot
<1>3. fr[p].slot \in Slots
  <2>1. Placed("itrunc", fr[p], file[p], load.slots) /\ load.slots \subseteq Slots
    BY <1>1, RunsFacts
  <2> QED
    BY <2>1 DEF Placed, Locking
<1>4. u.disk \in [Inodes -> OnDisk] /\ u.dirty \in BOOLEAN
  BY <1>3, IupdatFacts
<1> QED
  BY <1>1, <1>2, <1>4, StepItruncWrite

LEMMA StepIreleIfree ==
  ASSUME TableInv, NEW p \in Procs, IreleIfree(p) PROVE TableInv'
<1>1. /\ Runs(p, "ifree") /\ Goto(p, "irele_iupdat") /\ fr' = fr
      /\ UNCHANGED <<free, nc, lru, disk, dir, dlock, file>>
  BY DEF IreleIfree
<1>2. CpuStep(p, "irele_iupdat") /\ Moves(p, "irele_iupdat", fr[p], file[p])
  BY <1>1, GotoFacts
<1>3. /\ fr[p] \in Frames /\ Placed("ifree", fr[p], file[p], load.slots)
      /\ SlotsOf(p) = HeldSlots("ifree", fr[p], file[p]) /\ DirsOf(p) = HeldDirs("ifree", fr[p])
      /\ file[p] \in load.slots \cup {NoSlot} /\ load.slots \subseteq Slots
  BY <1>1, RunsFacts
<1>f. FsTyped(fs') /\ fs'.ilock = fs.ilock
  <2>1. FsTyped(fs)
    BY DEF TableInv, StoreOK, FsTyped
  <2> QED
    BY <2>1 DEF FsTyped, IreleIfree, Ifree
<1>s. fr[p].slot \in Slots /\ fr[p].slot # NoSlot /\ x[fr[p].slot] \in Records
  BY <1>3, InodeAssumption DEF Placed, Locking, MayLock, TableInv, TableTyped, Frames, IreleIfree, Slot
<1>5. Fits("irele_iupdat", fr[p], file[p])
  BY <1>3, <1>s DEF Fits, Placed, At,
     Fetching, Ireles, Locking, MayLock, Slotless, Labels, Creating, InDir, Opening, Looking
<1>6. DirStep(p, "irele_iupdat", fr[p])
  <2>1. DirsOf(p) = HeldDirs("irele_iupdat", fr[p])
    BY <1>3, <1>s DEF HeldDirs, At, Placed, Fetching, Ireles, Creating, InDir
  <2> QED
    BY <1>1, <2>1, DirKept
<1>7. IlockStep(p, "irele_iupdat")
  BY <1>1, <1>f, IlockKept DEF Scanning
<1>8. StoreOK'
  BY <1>1, <1>f, StoreFs DEF Goto, TableInv
<1>9. fr[p].slot \in SlotsOf(p) /\ HeldSlots("irele_iupdat", fr[p], file[p]) = SlotsOf(p)
  BY <1>3, <1>s DEF HeldSlots, Locking, MayLock
<1>10. Update(fr[p].slot, [x[fr[p].slot] EXCEPT !.mode = FALSE, !.dirty = TRUE]) /\ free' = free
  BY DEF IreleIfree, Slot
<1>11. [x[fr[p].slot] EXCEPT !.mode = FALSE, !.dirty = TRUE] \in Records
         /\ SameHold(fr[p].slot, [x[fr[p].slot] EXCEPT !.mode = FALSE, !.dirty = TRUE])
  BY <1>s, TruncEdit DEF SameHold
<1>12. AloneStep("irele_iupdat", fr[p], fr[p].slot, [x[fr[p].slot] EXCEPT !.mode = FALSE, !.dirty = TRUE])
  <2>1. x[fr[p].slot].count = 1
    BY <1>1 DEF TableInv, LastAlone, Working, WorkOK, Runs
  <2> QED
    BY <2>1, <1>11 DEF AloneStep, WorkOK, SameHold
<1> QED
  BY <1>2, <1>5, <1>6, <1>7, <1>8, <1>9, <1>10, <1>11, <1>12, Edited

LEMMA StepMaknode ==
  ASSUME TableInv, NEW p \in Procs, Maknode(p) PROVE TableInv'
<1>1. /\ Runs(p, "ialloc_got") /\ Goto(p, "maknode_iupdat") /\ fr' = fr
      /\ UNCHANGED <<free, nc, lru, disk, dir, dlock, file>>
  BY DEF Maknode
<1>2. CpuStep(p, "maknode_iupdat") /\ Moves(p, "maknode_iupdat", fr[p], file[p])
  BY <1>1, GotoFacts
<1>3. /\ fr[p] \in Frames /\ Placed("ialloc_got", fr[p], file[p], load.slots)
      /\ SlotsOf(p) = HeldSlots("ialloc_got", fr[p], file[p])
      /\ DirsOf(p) = HeldDirs("ialloc_got", fr[p])
      /\ file[p] \in load.slots \cup {NoSlot} /\ load.slots \subseteq Slots
  BY <1>1, RunsFacts
<1>f. FsTyped(fs') /\ fs'.ilock = fs.ilock
  <2>1. FsTyped(fs)
    BY DEF TableInv, StoreOK, FsTyped
  <2> QED
    BY <2>1 DEF FsTyped, Maknode
<1>s. fr[p].slot \in Slots /\ fr[p].slot # NoSlot /\ x[fr[p].slot] \in Records
  BY <1>3, InodeAssumption DEF Placed, Locking, MayLock, TableInv, TableTyped, Frames, Maknode, Slot
<1>5. Fits("maknode_iupdat", fr[p], file[p])
  BY <1>3, <1>s DEF Fits, Placed, At,
     Fetching, Ireles, Locking, MayLock, Slotless, Labels, Creating, InDir, Opening, Looking
<1>6. DirStep(p, "maknode_iupdat", fr[p])
  <2>1. DirsOf(p) = HeldDirs("maknode_iupdat", fr[p])
    BY <1>3, <1>s DEF HeldDirs, At, Placed, Fetching, Ireles, Creating, InDir
  <2> QED
    BY <1>1, <2>1, DirKept
<1>7. IlockStep(p, "maknode_iupdat")
  BY <1>1, <1>f, IlockKept DEF Scanning
<1>8. StoreOK'
  BY <1>1, <1>f, StoreFs DEF Goto, TableInv
<1>9. fr[p].slot \in SlotsOf(p) /\ HeldSlots("maknode_iupdat", fr[p], file[p]) = SlotsOf(p)
  BY <1>3, <1>s DEF HeldSlots, Locking, MayLock
<1>10. Update(fr[p].slot, [x[fr[p].slot] EXCEPT !.mode = TRUE, !.nlink = 1, !.dirty = TRUE])
         /\ free' = free
  BY DEF Maknode, Slot
<1>11. [x[fr[p].slot] EXCEPT !.mode = TRUE, !.nlink = 1, !.dirty = TRUE] \in Records
         /\ SameHold(fr[p].slot, [x[fr[p].slot] EXCEPT !.mode = TRUE, !.nlink = 1, !.dirty = TRUE])
  <2>1. 1 \in MinNlink .. 1
    BY DEF MinNlink
  <2> QED
    BY <1>s, <2>1, CoreEdit DEF SameHold
<1>12. AloneStep("maknode_iupdat", fr[p], fr[p].slot, [x[fr[p].slot] EXCEPT !.mode = TRUE, !.nlink = 1, !.dirty = TRUE])
  BY DEF AloneStep, Working
<1> QED
  BY <1>2, <1>5, <1>6, <1>7, <1>8, <1>9, <1>10, <1>11, <1>12, Edited

LEMMA StepMaknodeWrite ==
  ASSUME TableInv, NEW p \in Procs, Runs(p, "maknode_iupdat"), Goto(p, "direnter"),
         disk' \in [Inodes -> OnDisk], NEW b \in BOOLEAN,
         Update(fr[p].slot, [x[fr[p].slot] EXCEPT !.dirty = b]),
         UNCHANGED <<free, nc, lru, dir, dlock, fs, file, fr>> PROVE TableInv'
<1>1. /\ Runs(p, "maknode_iupdat") /\ Goto(p, "direnter") /\ fr' = fr
      /\ UNCHANGED <<free, nc, lru, dir, dlock, fs, file>>
  BY DEF Update
<1>2. CpuStep(p, "direnter") /\ Moves(p, "direnter", fr[p], file[p])
  BY <1>1, GotoFacts
<1>3. /\ fr[p] \in Frames /\ Placed("maknode_iupdat", fr[p], file[p], load.slots)
      /\ SlotsOf(p) = HeldSlots("maknode_iupdat", fr[p], file[p])
      /\ DirsOf(p) = HeldDirs("maknode_iupdat", fr[p])
      /\ file[p] \in load.slots \cup {NoSlot} /\ load.slots \subseteq Slots
  BY <1>1, RunsFacts
<1>d. disk' \in [Inodes -> OnDisk]
  OBVIOUS
<1>s. fr[p].slot \in Slots /\ fr[p].slot # NoSlot /\ x[fr[p].slot] \in Records
  BY <1>3, InodeAssumption DEF Placed, Locking, MayLock, TableInv, TableTyped, Frames, Update, Slot
<1>5. Fits("direnter", fr[p], file[p])
  BY <1>3, <1>s DEF Fits, Placed, At,
     Fetching, Ireles, Locking, MayLock, Slotless, Labels, Creating, InDir, Opening, Looking
<1>6. DirStep(p, "direnter", fr[p])
  <2>1. DirsOf(p) = HeldDirs("direnter", fr[p])
    BY <1>3, <1>s DEF HeldDirs, At, Placed, Fetching, Ireles, Creating, InDir
  <2> QED
    BY <1>1, <2>1, DirKept
<1>7. IlockStep(p, "direnter")
  BY <1>1, IlockKept DEF Scanning
<1>8. StoreOK'
  BY <1>1, <1>d, StoreDisk DEF Goto, TableInv
<1>9. fr[p].slot \in SlotsOf(p) /\ HeldSlots("direnter", fr[p], file[p]) = SlotsOf(p)
  BY <1>3, <1>s DEF HeldSlots, Locking, MayLock
<1>10. Update(fr[p].slot, [x[fr[p].slot] EXCEPT !.dirty = b]) /\ free' = free
  BY DEF Update, Slot
<1>11. [x[fr[p].slot] EXCEPT !.dirty = b] \in Records
         /\ SameHold(fr[p].slot, [x[fr[p].slot] EXCEPT !.dirty = b])
  BY <1>s, DirtyEdit DEF SameHold
<1>12. AloneStep("direnter", fr[p], fr[p].slot, [x[fr[p].slot] EXCEPT !.dirty = b])
  BY DEF AloneStep, Working
<1> QED
  BY <1>2, <1>5, <1>6, <1>7, <1>8, <1>9, <1>10, <1>11, <1>12, Edited

LEMMA StepMaknodeIupdat ==
  ASSUME TableInv, NEW p \in Procs, MaknodeIupdat(p) PROVE TableInv'
<1>1. /\ Runs(p, "maknode_iupdat") /\ Goto(p, "direnter")
      /\ UNCHANGED <<free, nc, lru, dir, dlock, fs, file, fr>>
  BY DEF MaknodeIupdat
<1>2. PICK u \in Iupdat(fr[p].slot) :
        disk' = u.disk /\ Update(fr[p].slot, [x[fr[p].slot] EXCEPT !.dirty = u.dirty])
  BY DEF MaknodeIupdat, Slot
<1>3. fr[p].slot \in Slots
  <2>1. Placed("maknode_iupdat", fr[p], file[p], load.slots) /\ load.slots \subseteq Slots
    BY <1>1, RunsFacts
  <2> QED
    BY <2>1 DEF Placed, Locking
<1>4. u.disk \in [Inodes -> OnDisk] /\ u.dirty \in BOOLEAN
  BY <1>3, IupdatFacts
<1> QED
  BY <1>1, <1>2, <1>4, StepMaknodeWrite

LEMMA StepInoRw ==
  ASSUME TableInv, NEW p \in Procs, InoRw(p) PROVE TableInv'
<1>1. /\ Runs(p, "ino_rw") /\ Goto(p, "rwip") /\ fr' = fr
      /\ UNCHANGED <<free, nc, lru, disk, dir, dlock, fs, file>>
  BY DEF InoRw
<1>2. CpuStep(p, "rwip") /\ Moves(p, "rwip", fr[p], file[p])
  BY <1>1, GotoFacts
<1>3. /\ fr[p] \in Frames /\ Placed("ino_rw", fr[p], file[p], load.slots)
      /\ SlotsOf(p) = HeldSlots("ino_rw", fr[p], file[p]) /\ DirsOf(p) = HeldDirs("ino_rw", fr[p])
      /\ file[p] \in load.slots \cup {NoSlot} /\ load.slots \subseteq Slots
  BY <1>1, RunsFacts
<1>5. Fits("rwip", fr[p], file[p])
  BY <1>3 DEF Fits, Placed, At,
     Fetching, Ireles, Locking, MayLock, Slotless, Labels, Creating, InDir, Opening, Looking
<1>6. DirStep(p, "rwip", fr[p])
  <2>1. DirsOf(p) = HeldDirs("rwip", fr[p])
    BY <1>3 DEF HeldDirs, At, Placed, Fetching, Ireles, Creating, InDir
  <2> QED
    BY <1>1, <2>1, DirKept
<1>7. IlockStep(p, "rwip")
  BY <1>1, IlockKept DEF Scanning
<1>8. StoreOK'
  BY <1>1, StoreKept DEF Goto, TableInv
<1>9. file[p] \in load.slots /\ HeldSlots("rwip", fr[p], file[p]) = SlotsOf(p) \cup {file[p]}
  BY <1>3 DEF HeldSlots, Locking, MayLock, Placed
<1>10. /\ ~ Locked(file[p]) /\ Update(file[p], [x[file[p]] EXCEPT !.lock = p])
       /\ free' = free
  BY DEF InoRw
<1>11. AloneStep("rwip", fr[p], file[p], x[file[p]])
  BY DEF AloneStep, Working
<1> QED
  BY <1>2, <1>5, <1>6, <1>7, <1>8, <1>9, <1>10, <1>11, Lock

LEMMA StepIreleLock ==
  ASSUME TableInv, NEW p \in Procs, Runs(p, "irele"), x[fr[p].slot].count = 1,
         NEW m \in {"itrunc", "irele_iupdat"}, Goto(p, m),
         Update(fr[p].slot, [x[fr[p].slot] EXCEPT !.lock = p]),
         UNCHANGED <<free, nc, lru, disk, dir, dlock, fs, file, fr>> PROVE TableInv'
<1>1. /\ Runs(p, "irele") /\ Goto(p, m) /\ fr' = fr
      /\ UNCHANGED <<free, nc, lru, disk, dir, dlock, fs, file>>
  BY DEF Update
<1>2. CpuStep(p, m) /\ Moves(p, m, fr[p], file[p])
  BY <1>1, GotoFacts
<1>3. /\ fr[p] \in Frames /\ Placed("irele", fr[p], file[p], load.slots)
      /\ SlotsOf(p) = HeldSlots("irele", fr[p], file[p]) /\ DirsOf(p) = HeldDirs("irele", fr[p])
      /\ file[p] \in load.slots \cup {NoSlot} /\ load.slots \subseteq Slots
  BY <1>1, RunsFacts
<1>s. fr[p].slot \in Slots /\ fr[p].slot # NoSlot /\ x[fr[p].slot] \in Records
        /\ fr[p].slot \in load.slots
  BY <1>3, InodeAssumption DEF Placed, Locking, MayLock, TableInv, TableTyped, Frames, Update, Slot
<1>5. Fits(m, fr[p], file[p])
  BY <1>3, <1>s DEF Fits, Placed, At,
     Fetching, Ireles, Locking, MayLock, Slotless, Labels, Creating, InDir, Opening, Looking
<1>6. DirStep(p, m, fr[p])
  <2>1. DirsOf(p) = HeldDirs(m, fr[p])
    BY <1>3, <1>s DEF HeldDirs, At, Placed, Fetching, Ireles, Creating, InDir
  <2> QED
    BY <1>1, <2>1, DirKept
<1>7. IlockStep(p, m)
  BY <1>1, IlockKept DEF Scanning
<1>8. StoreOK'
  BY <1>1, StoreKept DEF Goto, TableInv
<1>9. SlotsOf(p) = {} /\ HeldSlots(m, fr[p], file[p]) = SlotsOf(p) \cup {fr[p].slot}
  BY <1>3, <1>s DEF HeldSlots, Locking, MayLock
<1>10. ~ Locked(fr[p].slot) /\ fr[p].slot \in load.slots
  BY <1>9, <1>s, LoneUnlocked
<1>11. AloneStep(m, fr[p], fr[p].slot, x[fr[p].slot])
  BY DEF AloneStep, Working, WorkOK
<1> QED
  BY <1>2, <1>5, <1>6, <1>7, <1>8, <1>9, <1>10, <1>11, Lock

(* The last reference goes, without or after the transfer.                 *)
LEMMA LastGoneOK ==
  ASSUME TableInv, NEW p \in Procs, NEW l \in {"irele", "irele_iupdat"}, Runs(p, l),
         LastGone(p), x[fr[p].slot].count = 1,
         UNCHANGED <<nc, lru, dir, dlock, fs, file>>, disk' \in [Inodes -> OnDisk]
  PROVE  TableInv'
<1> DEFINE s == fr[p].slot
           r == Unlocked(LastRecord(x[s]))
<1>1. Dropped(p) /\ x' = [x EXCEPT ![s] = r] /\ slp' = Woken(s) /\ free' = PushTail(free, s)
  BY DEF LastGone, Release, LastRecord, Slot
<1>2. s \in Slots
  <2>1. Placed(l, fr[p], file[p], load.slots) /\ load.slots \subseteq Slots
    BY RunsFacts
  <2> QED
    BY <2>1 DEF Placed, Locking
<1>3. x[s] \in Records
  BY <1>2 DEF TableInv, TableTyped
<1>4. /\ LastRecord(x[s]) \in Records /\ LastRecord(x[s]).count = x[s].count - 1
      /\ LastRecord(x[s]).ino = x[s].ino
  BY <1>3, LastEdit
<1>5. r \in Records /\ r.count = x[s].count - 1 /\ r.ino = x[s].ino /\ r.lock = Nobody
  BY <1>4, UnlockEdit
<1> HIDE DEF r
<1> QED
  BY <1>1, <1>5, Drops

LEMMA StepIreleLast ==
  ASSUME TableInv, NEW p \in Procs, IreleLast(p) PROVE TableInv'
<1> DEFINE s == fr[p].slot
           r == x[s]
<1>1. /\ Runs(p, "irele") /\ r.count = 1 /\ UNCHANGED <<nc, lru, disk, dir, dlock, fs, file>>
  BY DEF IreleLast, Slot
<1>2. CASE Unlinked(r) \/ r.dirty
  <2>1. /\ Update(s, [r EXCEPT !.lock = p]) /\ UNCHANGED <<free, fr>>
        /\ Goto(p, IF Unlinked(r) THEN "itrunc" ELSE "irele_iupdat")
    BY <1>2 DEF IreleLast, Slot
  <2> DEFINE m == IF Unlinked(r) THEN "itrunc" ELSE "irele_iupdat"
  <2>2. m \in {"itrunc", "irele_iupdat"} /\ Goto(p, m)
    BY <2>1
  <2> HIDE DEF m
  <2> QED
    BY <1>1, <2>1, <2>2, StepIreleLock
<1>3. CASE ~ (Unlinked(r) \/ r.dirty)
  <2>1. LastGone(p)
    BY <1>3 DEF IreleLast, Slot
  <2>2. disk' \in [Inodes -> OnDisk]
    BY <1>1 DEF TableInv, StoreOK
  <2> QED
    BY <1>1, <2>1, <2>2, LastGoneOK
<1> QED
  BY <1>2, <1>3

LEMMA StepIreleIupdat ==
  ASSUME TableInv, NEW p \in Procs, IreleIupdat(p) PROVE TableInv'
<1>1. /\ Runs(p, "irele_iupdat") /\ LastGone(p) /\ UNCHANGED <<nc, lru, dir, dlock, fs, file>>
  BY DEF IreleIupdat
<1>2. x[fr[p].slot].count = 1
  BY <1>1 DEF TableInv, LastAlone, Working, WorkOK, Runs
<1>3. fr[p].slot \in Slots
  <2>1. Placed("irele_iupdat", fr[p], file[p], load.slots) /\ load.slots \subseteq Slots
    BY <1>1, RunsFacts
  <2> QED
    BY <2>1 DEF Placed, Locking
<1>4. disk' \in [Inodes -> OnDisk]
  BY <1>3, IupdatFacts DEF IreleIupdat, Slot
<1> QED
  BY <1>1, <1>2, <1>4, LastGoneOK

LEMMA StepIreleShared ==
  ASSUME TableInv, NEW p \in Procs, IreleShared(p) PROVE TableInv'
<1> DEFINE s == fr[p].slot
           r == [x[s] EXCEPT !.count = @ - 1]
<1>1. /\ Runs(p, "irele") /\ Dropped(p) /\ x[s].count > 1 /\ x' = [x EXCEPT ![s] = r]
      /\ UNCHANGED <<free, nc, lru, disk, dir, dlock, fs, file, slp>>
  BY DEF IreleShared, Update, Slot
<1>2. s \in Slots
  <2>1. Placed("irele", fr[p], file[p], load.slots) /\ load.slots \subseteq Slots
    BY <1>1, RunsFacts
  <2> QED
    BY <2>1 DEF Placed, Locking
<1>3. x[s] \in Records /\ x[s].count > 0
  BY <1>1, <1>2 DEF TableInv, TableTyped, Records
<1>4. /\ r \in Records /\ r.count = x[s].count - 1 /\ r.ino = x[s].ino
      /\ r.lock = x[s].lock /\ r.want = x[s].want
  BY <1>3, DropEdit
<1>5. disk' \in [Inodes -> OnDisk]
  BY <1>1 DEF TableInv, StoreOK
<1> HIDE DEF r
<1> QED
  BY <1>1, <1>4, <1>5, Drops

LEMMA StepIgetHitAt ==
  ASSUME TableInv, NEW p \in Procs, NEW s \in InCore(fr[p].ino), Runs(p, "iget"),
         ~ Locked(s), Update(s, Grabbed(p, x[s])), free' = OffFree(s),
         Frame(p, [fr[p] EXCEPT !.slot = s]), Goto(p, fr[p].back),
         UNCHANGED <<nc, lru, disk, dir, dlock, fs, file>> PROVE TableInv'
<1> DEFINE f == [fr[p] EXCEPT !.slot = s]
           m == fr[p].back
<1>1. /\ Runs(p, "iget") /\ Goto(p, m) /\ Frame(p, f)
      /\ UNCHANGED <<nc, lru, disk, dir, dlock, fs, file>>
  BY DEF Update
<1>2. CpuStep(p, m) /\ Moves(p, m, f, file[p])
  BY <1>1, GotoFacts
<1>3. /\ fr[p] \in Frames /\ Placed("iget", fr[p], file[p], load.slots)
      /\ SlotsOf(p) = HeldSlots("iget", fr[p], file[p]) /\ DirsOf(p) = HeldDirs("iget", fr[p])
      /\ file[p] \in load.slots \cup {NoSlot} /\ load.slots \subseteq Slots
  BY <1>1, RunsFacts
<1>s. /\ s \in load.slots /\ s \in Slots /\ s # NoSlot /\ x[s] \in Records
      /\ fr[p].slot = NoSlot
  <2>1. s \in Slots /\ x[s].ino = fr[p].ino /\ fr[p].ino # 0 /\ fr[p].slot = NoSlot
    BY <1>3 DEF InCore, Placed, Fetching, Slotless
  <2>2. s \in load.slots
    BY <2>1, InTableFacts
  <2> QED
    BY <2>1, <2>2, InodeAssumption DEF TableInv, TableTyped
<1>4. /\ f \in Frames
      /\ f.call = fr[p].call /\ f.name = fr[p].name /\ f.slot = s /\ f.seen = fr[p].seen
      /\ f.ncp = fr[p].ncp /\ f.ino = fr[p].ino /\ f.back = fr[p].back
      /\ f.then = fr[p].then
  BY <1>3, <1>s DEF Frames, Backs, Thens, Calls
<1> HIDE DEF f
<1>m. m = fr[p].back /\ m \in {"child", "ialloc_got"}
  BY <1>3, <1>4, <1>s DEF Placed, Frames, Backs, Thens, Fetching, Ireles
<1> HIDE DEF m
<1>5. Fits(m, f, file[p])
  BY <1>3, <1>4, <1>s, <1>m DEF Fits, Placed, At,
     Fetching, Ireles, Locking, MayLock, Slotless, Labels, Creating, InDir, Opening, Looking
<1>6. DirStep(p, m, f)
  <2>1. DirsOf(p) = HeldDirs(m, f)
    BY <1>3, <1>4, <1>s, <1>m DEF HeldDirs, At, Placed, Fetching, Ireles, Creating, InDir
  <2> QED
    BY <1>1, <2>1, DirKept
<1>7. IlockStep(p, m)
  BY <1>1, IlockKept DEF Scanning
<1>8. StoreOK'
  BY <1>1, StoreKept DEF Goto, TableInv
<1>9. Grabbed(p, x[s]) \in Records /\ Grabbed(p, x[s]).lock = p /\ Grabbed(p, x[s]).ino = x[s].ino
      /\ Grabbed(p, x[s]).count = x[s].count + 1
  BY <1>s, GrabEdit
<1>10. Takes(p, s, Grabbed(p, x[s])) /\ Freed(s, Grabbed(p, x[s])) /\ ~ Locked(s)
  <2>1. Grabbed(p, x[s]).count # 0
    BY <1>s, <1>9 DEF Records
  <2>2. Freed(s, Grabbed(p, x[s]))
    BY <1>s, <2>1, FreedOff
  <2> QED
    BY <1>9, <2>2 DEF Takes, Update
<1>11. Relocks(p, m, f, file[p], s, Grabbed(p, x[s]))
  <2>0. p # Nobody
    BY InodeAssumption
  <2> QED
    BY <2>0, <1>3, <1>4, <1>s, <1>9, <1>m DEF Relocks, HeldSlots, Locking, MayLock
<1>12. AloneStep(m, f, s, Grabbed(p, x[s]))
  BY <1>m DEF AloneStep, Working
<1> QED
  BY <1>2, <1>m, <1>s, <1>4, <1>5, <1>6, <1>7, <1>8, <1>9, <1>10, <1>11, <1>12, Taken

LEMMA StepIgetHit ==
  ASSUME TableInv, NEW p \in Procs, IgetHit(p) PROVE TableInv'
BY StepIgetHitAt DEF IgetHit

LEMMA StepIgrabValid ==
  ASSUME TableInv, NEW p \in Procs, NEW s, s = fr[p].seen, Runs(p, "igrab"),
         ~ Locked(s), Update(s, Grabbed(p, x[s])), free' = OffFree(s), DirUnlock(p),
         Frame(p, [fr[p] EXCEPT !.slot = s, !.seen = NoSlot]), Goto(p, "haveino"),
         UNCHANGED <<nc, lru, disk, dir, fs, file>> PROVE TableInv'
<1> DEFINE f == [fr[p] EXCEPT !.slot = s, !.seen = NoSlot]
<1>1. /\ Runs(p, "igrab") /\ Goto(p, "haveino") /\ Frame(p, f)
      /\ UNCHANGED <<nc, lru, disk, dir, fs, file>>
  BY DEF Update
<1>2. CpuStep(p, "haveino") /\ Moves(p, "haveino", f, file[p])
  BY <1>1, GotoFacts
<1>3. /\ fr[p] \in Frames /\ Placed("igrab", fr[p], file[p], load.slots)
      /\ SlotsOf(p) = HeldSlots("igrab", fr[p], file[p]) /\ DirsOf(p) = HeldDirs("igrab", fr[p])
      /\ file[p] \in load.slots \cup {NoSlot} /\ load.slots \subseteq Slots
  BY <1>1, RunsFacts
<1>s. /\ s \in load.slots /\ s \in Slots /\ s # NoSlot /\ x[s] \in Records
      /\ fr[p].slot = NoSlot
  BY <1>3, InodeAssumption DEF Placed, Slotless, TableInv, TableTyped
<1>4. /\ f \in Frames
      /\ f.call = fr[p].call /\ f.name = fr[p].name /\ f.slot = s /\ f.seen = NoSlot
      /\ f.ncp = fr[p].ncp /\ f.ino = fr[p].ino /\ f.back = fr[p].back
      /\ f.then = fr[p].then
  BY <1>3, <1>s DEF Frames, Backs, Thens, Calls
<1> HIDE DEF f
<1>5. Fits("haveino", f, file[p])
  BY <1>3, <1>4, <1>s DEF Fits, Placed, At,
     Fetching, Ireles, Locking, MayLock, Slotless, Labels, Creating, InDir, Opening, Looking
<1>6. DirStep(p, "haveino", f)
  <2>1. DirsOf(p) = {Dir(p)} /\ HeldDirs("haveino", f) = {} /\ fr[p].name \in Names
    BY <1>3, <1>4, <1>s DEF HeldDirs, At, Fetching, Ireles, Creating, InDir, Dir, Placed,
       Looking, Opening, Frames
  <2>2. DirUnlock(p)
    BY DEF Update
  <2> QED
    BY <2>1, <2>2, DirGiven
<1>7. IlockStep(p, "haveino")
  BY <1>1, IlockKept DEF Scanning
<1>8. StoreOK'
  BY <1>1, StoreKept DEF Goto, TableInv
<1>9. Grabbed(p, x[s]) \in Records /\ Grabbed(p, x[s]).lock = p /\ Grabbed(p, x[s]).ino = x[s].ino
      /\ Grabbed(p, x[s]).count = x[s].count + 1
  BY <1>s, GrabEdit
<1>10. Takes(p, s, Grabbed(p, x[s])) /\ Freed(s, Grabbed(p, x[s])) /\ ~ Locked(s)
  <2>1. Grabbed(p, x[s]).count # 0
    BY <1>s, <1>9 DEF Records
  <2>2. Freed(s, Grabbed(p, x[s]))
    BY <1>s, <2>1, FreedOff
  <2> QED
    BY <1>9, <2>2 DEF Takes, Update
<1>11. Relocks(p, "haveino", f, file[p], s, Grabbed(p, x[s]))
  <2>0. p # Nobody
    BY InodeAssumption
  <2> QED
    BY <2>0, <1>3, <1>4, <1>s, <1>9 DEF Relocks, HeldSlots, Locking, MayLock
<1>12. AloneStep("haveino", f, s, Grabbed(p, x[s]))
  BY DEF AloneStep, Working
<1> QED
  BY <1>2, <1>s, <1>4, <1>5, <1>6, <1>7, <1>8, <1>9, <1>10, <1>11, <1>12, Taken

LEMMA StepIgrabInvalid ==
  ASSUME TableInv, NEW p \in Procs, NEW s, s = fr[p].seen, Runs(p, "igrab"),
         ~ Locked(s), Iput(p, s, Grabbed(p, x[s])), free' = OffFree(s), DirUnlock(p),
         Frame(p, [fr[p] EXCEPT !.slot = s, !.seen = NoSlot, !.then = "relock"]),
         UNCHANGED <<nc, lru, disk, dir, fs, file>> PROVE TableInv'
<1> DEFINE u == Unlocked(Grabbed(p, x[s]))
           f == [fr[p] EXCEPT !.slot = s, !.seen = NoSlot, !.then = "relock"]
<1>1. /\ Runs(p, "igrab") /\ Goto(p, "irele") /\ Frame(p, f)
      /\ UNCHANGED <<nc, lru, disk, dir, fs, file>>
  BY DEF Iput
<1>2. CpuStep(p, "irele") /\ Moves(p, "irele", f, file[p])
  BY <1>1, GotoFacts
<1>3. /\ fr[p] \in Frames /\ Placed("igrab", fr[p], file[p], load.slots)
      /\ SlotsOf(p) = HeldSlots("igrab", fr[p], file[p]) /\ DirsOf(p) = HeldDirs("igrab", fr[p])
      /\ file[p] \in load.slots \cup {NoSlot} /\ load.slots \subseteq Slots
  BY <1>1, RunsFacts
<1>s. /\ s \in load.slots /\ s \in Slots /\ s # NoSlot /\ x[s] \in Records
      /\ fr[p].slot = NoSlot
  BY <1>3, InodeAssumption DEF Placed, Slotless, TableInv, TableTyped
<1>4. /\ f \in Frames
      /\ f.call = fr[p].call /\ f.name = fr[p].name /\ f.slot = s /\ f.seen = NoSlot
      /\ f.ncp = fr[p].ncp /\ f.ino = fr[p].ino /\ f.back = fr[p].back /\ f.then = "relock"
  BY <1>3, <1>s DEF Frames, Backs, Thens, Calls
<1> HIDE DEF f
<1>5. Fits("irele", f, file[p])
  BY <1>3, <1>4, <1>s DEF Fits, Placed, At,
     Fetching, Ireles, Locking, MayLock, Slotless, Labels, Creating, InDir, Opening, Looking
<1>6. DirStep(p, "irele", f)
  <2>1. DirsOf(p) = {Dir(p)} /\ HeldDirs("irele", f) = {} /\ fr[p].name \in Names
    BY <1>3, <1>4, <1>s DEF HeldDirs, At, Fetching, Ireles, Creating, InDir, Dir, Placed,
       Looking, Opening, Frames
  <2>2. DirUnlock(p)
    BY DEF Iput
  <2> QED
    BY <2>1, <2>2, DirGiven
<1>7. IlockStep(p, "irele")
  BY <1>1, IlockKept DEF Scanning
<1>8. StoreOK'
  BY <1>1, StoreKept DEF Goto, TableInv
<1>9. u \in Records /\ u.lock = Nobody /\ u.ino = x[s].ino /\ u.count = x[s].count + 1
  <2>1. /\ Grabbed(p, x[s]) \in Records /\ Grabbed(p, x[s]).ino = x[s].ino
        /\ Grabbed(p, x[s]).count = x[s].count + 1
    BY <1>s, GrabEdit
  <2> QED
    BY <2>1, UnlockEdit
<1>0. x' = [x EXCEPT ![s] = u] /\ slp' = Woken(s)
  BY DEF Iput, Release
<1> HIDE DEF u
<1>10. Takes(p, s, u) /\ Freed(s, u) /\ ~ Locked(s)
  <2>1. u.count # 0
    BY <1>s, <1>9 DEF Records
  <2>2. Freed(s, u)
    BY <1>s, <2>1, FreedOff
  <2> QED
    BY <1>0, <1>9, <2>2 DEF Takes
<1>11. Relocks(p, "irele", f, file[p], s, u)
  <2>0. p # Nobody
    BY InodeAssumption
  <2> QED
    BY <2>0, <1>3, <1>4, <1>s, <1>9 DEF Relocks, HeldSlots, Locking, MayLock
<1>12. AloneStep("irele", f, s, u)
  BY DEF AloneStep, Working
<1> QED
  BY <1>2, <1>s, <1>4, <1>5, <1>6, <1>7, <1>8, <1>9, <1>10, <1>11, <1>12, Taken

LEMMA StepIgrab ==
  ASSUME TableInv, NEW p \in Procs, Igrab(p) PROVE TableInv'
<1> DEFINE s == fr[p].seen
           f == [fr[p] EXCEPT !.slot = s, !.seen = NoSlot]
<1>1. /\ Runs(p, "igrab") /\ ~ Locked(s) /\ free' = OffFree(s) /\ DirUnlock(p)
      /\ UNCHANGED <<nc, lru, disk, dir, fs, file>>
  BY DEF Igrab
<1>2. CASE Update(s, Grabbed(p, x[s])) /\ Frame(p, f) /\ Goto(p, "haveino")
  BY <1>1, <1>2, StepIgrabValid
<1>3. CASE Iput(p, s, Grabbed(p, x[s])) /\ Frame(p, [f EXCEPT !.then = "relock"])
  <2>1. [f EXCEPT !.then = "relock"]
        = [fr[p] EXCEPT !.slot = s, !.seen = NoSlot, !.then = "relock"]
    OBVIOUS
  <2> QED
    BY <1>1, <1>3, <2>1, StepIgrabInvalid
<1> QED
  BY <1>2, <1>3 DEF Igrab

LEMMA StepSyncAt ==
  ASSUME TableInv, NEW p \in Procs, NEW s \in Slots, Runs(p, "user"),
         ~ Locked(s), x[s].count > 0, Update(s, Grabbed(p, x[s])),
         Frame(p, [NoFrame EXCEPT !.call = "sync", !.slot = s]), Goto(p, "sync_iupdat"),
         UNCHANGED <<free, nc, lru, disk, dir, dlock, fs, file>> PROVE TableInv'
<1> DEFINE f == SyncFrame(s)
<1>1. /\ Runs(p, "user") /\ Goto(p, "sync_iupdat") /\ Frame(p, f)
      /\ UNCHANGED <<free, nc, lru, disk, dir, dlock, fs, file>>
  BY DEF SyncFrame
<1>2. CpuStep(p, "sync_iupdat") /\ Moves(p, "sync_iupdat", f, file[p])
  BY <1>1, GotoFacts
<1>3. /\ fr[p] \in Frames /\ Placed("user", fr[p], file[p], load.slots)
      /\ SlotsOf(p) = HeldSlots("user", fr[p], file[p]) /\ DirsOf(p) = HeldDirs("user", fr[p])
      /\ file[p] \in load.slots \cup {NoSlot} /\ load.slots \subseteq Slots
  BY <1>1, RunsFacts
<1>s. /\ s \in load.slots /\ s \in Slots /\ s # NoSlot /\ x[s] \in Records
      /\ fr[p].slot = NoSlot
  <2>1. s \in load.slots
    BY InTableFacts
  <2> QED
    BY <2>1, <1>3, InodeAssumption DEF Placed, Slotless, TableInv, TableTyped
<1>4. /\ f \in Frames
      /\ f.call = "sync" /\ f.name = NoName /\ f.slot = s /\ f.seen = NoSlot
      /\ f.ncp = NoEntry /\ f.ino = 0 /\ f.back = "user" /\ f.then = "user"
  BY <1>s, SyncFrameFacts
<1> HIDE DEF f
<1>5. Fits("sync_iupdat", f, file[p])
  BY <1>3, <1>4, <1>s DEF Fits, Placed, At,
     Fetching, Ireles, Locking, MayLock, Slotless, Labels, Creating, InDir, Opening, Looking
<1>6. DirStep(p, "sync_iupdat", f)
  <2>1. DirsOf(p) = HeldDirs("sync_iupdat", f)
    BY <1>3, <1>4, <1>s DEF HeldDirs, At, Placed, Fetching, Ireles, Creating, InDir
  <2> QED
    BY <1>1, <2>1, DirKept
<1>7. IlockStep(p, "sync_iupdat")
  BY <1>1, IlockKept DEF Scanning
<1>8. StoreOK'
  BY <1>1, StoreKept DEF Goto, TableInv
<1>9. Grabbed(p, x[s]) \in Records /\ Grabbed(p, x[s]).lock = p /\ Grabbed(p, x[s]).ino = x[s].ino
      /\ Grabbed(p, x[s]).count = x[s].count + 1
  BY <1>s, GrabEdit
<1>10. Takes(p, s, Grabbed(p, x[s])) /\ Freed(s, Grabbed(p, x[s])) /\ ~ Locked(s)
  <2>1. Grabbed(p, x[s]).count # 0 /\ x[s].count # 0
    BY <1>s, <1>9 DEF Records
  <2>2. Freed(s, Grabbed(p, x[s]))
    BY <1>s, <2>1, FreedKept
  <2> QED
    BY <1>9, <2>2 DEF Takes, Update
<1>11. Relocks(p, "sync_iupdat", f, file[p], s, Grabbed(p, x[s]))
  <2>0. p # Nobody
    BY InodeAssumption
  <2> QED
    BY <2>0, <1>3, <1>4, <1>s, <1>9 DEF Relocks, HeldSlots, Locking, MayLock
<1>12. AloneStep("sync_iupdat", f, s, Grabbed(p, x[s]))
  BY DEF AloneStep, Working
<1> QED
  BY <1>2, <1>s, <1>4, <1>5, <1>6, <1>7, <1>8, <1>9, <1>10, <1>11, <1>12, Taken

LEMMA StepSync ==
  ASSUME TableInv, NEW p \in Procs, Sync(p) PROVE TableInv'
BY StepSyncAt DEF Sync

LEMMA StepIgetNew ==
  ASSUME TableInv, NEW p \in Procs, IgetNew(p) PROVE TableInv'
<1> DEFINE s == Head(free)
           u == [Grabbed(p, x[s]) EXCEPT !.ino = fr[p].ino, !.want = FALSE, !.dirty = FALSE]
           f == [fr[p] EXCEPT !.slot = s]
<1>1. /\ Runs(p, "iget") /\ Goto(p, "iget_read") /\ Frame(p, f)
      /\ UNCHANGED <<lru, disk, dir, dlock, fs, file>>
  BY DEF IgetNew
<1>2. CpuStep(p, "iget_read") /\ Moves(p, "iget_read", f, file[p])
  BY <1>1, GotoFacts
<1>3. /\ fr[p] \in Frames /\ Placed("iget", fr[p], file[p], load.slots)
      /\ SlotsOf(p) = HeldSlots("iget", fr[p], file[p]) /\ DirsOf(p) = HeldDirs("iget", fr[p])
      /\ file[p] \in load.slots \cup {NoSlot} /\ load.slots \subseteq Slots
  BY <1>1, RunsFacts
<1>h. free # <<>> /\ free' = Tail(free) /\ nc' = Cacheinval(s)
  BY DEF IgetNew
<1>s. /\ s \in load.slots /\ s \in Slots /\ s # NoSlot /\ x[s] \in Records
      /\ fr[p].slot = NoSlot /\ x[s].count = 0 /\ fr[p].ino # 0
  <2>1. [NoInode EXCEPT !.count = 1].count # 0
    BY DEF NoInode
  <2>2. s \in load.slots /\ x[s].count = 0
    BY <1>h, <2>1, FreedHead
  <2> QED
    BY <2>2, <1>3, InodeAssumption DEF Placed, Slotless, Fetching, TableInv, TableTyped
<1>4. /\ f \in Frames
      /\ f.call = fr[p].call /\ f.name = fr[p].name /\ f.slot = s /\ f.seen = fr[p].seen
      /\ f.ncp = fr[p].ncp /\ f.ino = fr[p].ino /\ f.back = fr[p].back
      /\ f.then = fr[p].then
  BY <1>3, <1>s DEF Frames, Backs, Thens, Calls
<1> HIDE DEF f
<1>5. Fits("iget_read", f, file[p])
  BY <1>3, <1>4, <1>s DEF Fits, Placed, At,
     Fetching, Ireles, Locking, MayLock, Slotless, Labels, Creating, InDir, Opening, Looking
<1>6. DirStep(p, "iget_read", f)
  <2>1. DirsOf(p) = HeldDirs("iget_read", f)
    BY <1>3, <1>4, <1>s DEF HeldDirs, At, Placed, Fetching, Ireles, Creating, InDir
  <2> QED
    BY <1>1, <2>1, DirKept
<1>7. IlockStep(p, "iget_read")
  BY <1>1, IlockKept DEF Scanning
<1>8. StoreOK'
  <2>1. CacheOK(nc)
    BY CacheNow DEF TableInv
  <2>2. CacheOK(nc')
    BY <1>h, <2>1 DEF CacheOK, Cached, Cacheinval
  <2> QED
    BY <1>1, <2>2, StoreCache DEF Goto, TableInv
<1>9. u \in Records /\ u.lock = p /\ u.ino = fr[p].ino /\ u.count = x[s].count + 1
  <2>1. Grabbed(p, x[s]) \in Records /\ Grabbed(p, x[s]).lock = p
        /\ Grabbed(p, x[s]).count = x[s].count + 1
    BY <1>s, GrabEdit
  <2>2. fr[p].ino \in 0 .. NINO
    BY <1>3 DEF Frames
  <2> QED
    BY <2>1, <2>2, RenameEdit
<1>0. x' = [x EXCEPT ![s] = u] /\ slp' = slp /\ InCore(fr[p].ino) = {}
  BY DEF IgetNew, Update
<1> HIDE DEF u, s
<1>10. Takes(p, s, u) /\ Freed(s, u) /\ ~ Locked(s)
  <2>1. u.count # 0
    BY <1>s, <1>9 DEF Records
  <2>2. Freed(s, u)
    BY <1>h, <2>1, FreedHead DEF s
  <2>3. ~ Locked(s)
    BY <1>s, LockedCounted
  <2> QED
    BY <1>0, <1>9, <2>2, <2>3 DEF Takes
<1>11. Relocks(p, "iget_read", f, file[p], s, u)
  <2>0. p # Nobody
    BY InodeAssumption
  <2> QED
    BY <2>0, <1>3, <1>4, <1>s, <1>9 DEF Relocks, HeldSlots, Locking, MayLock
<1>12. AloneStep("iget_read", f, s, u)
  BY <1>s, <1>4, <1>9 DEF AloneStep, WorkOK
<1> QED
  BY <1>2, <1>s, <1>4, <1>5, <1>6, <1>7, <1>8, <1>9, <1>10, <1>11, <1>12, Taken

LEMMA StepIgrabWait ==
  ASSUME TableInv, NEW p \in Procs, IgrabWait(p) PROVE TableInv'
<1>1. Runs(p, "igrab") /\ LockWait(p, fr[p].seen)
  BY DEF IgrabWait
<1>2. Placed("igrab", fr[p], file[p], load.slots) /\ load.slots \subseteq Slots
  BY <1>1, RunsFacts
<1>3. fr[p].seen \in Slots /\ pc[p] \in Waits /\ cpu \in {p, Nobody}
  BY <1>1, <1>2 DEF Placed, Runs, Waits
<1> QED
  BY <1>1, <1>3, Waited

LEMMA StepInoRwWait ==
  ASSUME TableInv, NEW p \in Procs, InoRwWait(p) PROVE TableInv'
<1>1. Runs(p, "ino_rw") /\ LockWait(p, file[p])
  BY DEF InoRwWait
<1>2. Placed("ino_rw", fr[p], file[p], load.slots) /\ load.slots \subseteq Slots
  BY <1>1, RunsFacts
<1>3. file[p] \in Slots /\ pc[p] \in Waits /\ cpu \in {p, Nobody}
  BY <1>1, <1>2 DEF Placed, Runs, Waits
<1> QED
  BY <1>1, <1>3, Waited

LEMMA StepGiveUp ==
  ASSUME TableInv, NEW p \in Procs, RelockWait(p) \/ IallocWait(p) PROVE TableInv'
<1>1. GiveUpCpu(p) /\ pc[p] \in {"relock", "ialloc"}
  BY DEF RelockWait, IallocWait, Runs
<1>2. pc[p] \notin OnCpu
  BY <1>1 DEF OnCpu
<1> QED
  BY <1>1, <1>2, GaveUp

LEMMA StepCall ==
  ASSUME TableInv, NEW p \in Procs, Call(p) PROVE TableInv'
<1>1. PICK c \in {"open", "creat", "unlink"}, n \in Names :
        /\ Runs(p, "user") /\ (c # "unlink" => file[p] = NoSlot)
        /\ Frame(p, [NoFrame EXCEPT !.call = c, !.name = n]) /\ Goto(p, "namei")
        /\ UNCHANGED <<x, free, nc, lru, disk, dir, dlock, fs, file, slp>>
  BY DEF Call
<1> QED
  BY <1>1, StepCallWith
-----------------------------------------------------------------------------
(* The invariant holds at first, and each step keeps it.                   *)
LEMMA InitTable == Init => TableInv
<1> SUFFICES ASSUME Init PROVE TableInv
  OBVIOUS
<1>0. /\ load \in Loads
      /\ x = [s \in Slots |-> NoInode] /\ free \in SetToSeqs(load.slots)
      /\ nc = [e \in Entries |-> NoCache] /\ lru \in SetToSeqs(Entries)
      /\ disk = [i \in Inodes |-> [mode |-> FALSE, nlink |-> 0]]
      /\ dir = [n \in Names |-> 0]
      /\ dlock = [d \in Dirs |-> Nobody]
      /\ fs = [list |-> <<>>, ilock |-> 0, lasti |-> 1, nbehind |-> 0, tinode |-> NINO]
      /\ file = [p \in Procs |-> NoSlot]
      /\ cpu = Nobody /\ pc = [p \in Procs |-> "user"]
      /\ fr = [p \in Procs |-> NoFrame] /\ slp = [p \in Procs |-> NoSlot]
  BY DEF Init
<1>1. load.slots \subseteq Slots
  BY <1>0, InodeAssumption
<1>2. IsFiniteSet(load.slots)
  BY <1>1, InodeAssumption, FS_Subset
<1>3. free \in Seq(load.slots) /\ Distinct(free) /\ Elems(free) = load.slots
  BY <1>0, <1>2, SetToSeqsFacts
<1>4. lru \in Seq(Entries) /\ Distinct(lru) /\ Elems(lru) = Entries
  BY <1>0, InodeAssumption, SetToSeqsFacts
<1>5. ProcsTyped
  <2>1. "user" \in Labels
    BY DEF Labels, Slotless
  <2> QED
    BY <1>0, <1>1, <2>1, NoFrameFacts DEF ProcsTyped
<1>6. TableTyped
  <2>1. NoInode \in Records
    BY InodeAssumption DEF NoInode, Records, MinNlink
  <2>2. free \in Seq(Slots)
    BY <1>1, <1>3
  <2> QED
    BY <1>0, <2>1, <2>2 DEF TableTyped
<1>7. StoreOK
  <2>1. NoCache \in Cached /\ ~ NoCache.ok
    BY DEF NoCache, Cached
  <2>2. [mode |-> FALSE, nlink |-> 0] \in OnDisk
    BY DEF OnDisk, MinNlink
  <2>3. DOMAIN fs = {"list", "ilock", "lasti", "nbehind", "tinode"} /\ fs.ilock \in Nat
          /\ fs.lasti \in Int
    BY <1>0
  <2>4. dir \in [Names -> 0 .. NINO]
    BY <1>0, InodeAssumption
  <2>5. disk \in [Inodes -> OnDisk]
    BY <1>0, <2>2
  <2> QED
    BY <1>0, <1>4, <2>1, <2>3, <2>4, <2>5 DEF StoreOK
<1>8. CallsOK
  <2> SUFFICES ASSUME NEW p \in Procs PROVE CallOK(p)
    BY DEF CallsOK
  <2>1. pc[p] = "user" /\ fr[p] = NoFrame /\ file[p] = NoSlot
    BY <1>0
  <2>2. Placed("user", NoFrame, NoSlot, load.slots)
    BY NoFrameFacts DEF Placed, At, Fetching, Ireles, Locking, MayLock, Slotless, Creating,
       InDir, Opening, Looking
  <2>3. HeldSlots("user", NoFrame, NoSlot) = {} /\ HeldDirs("user", NoFrame) = {}
    BY DEF HeldSlots, HeldDirs, At, Fetching, Ireles, Locking, MayLock, Creating, InDir
  <2>4. SlotsOf(p) = {} /\ DirsOf(p) = {}
    BY <1>0, InodeAssumption DEF SlotsOf, DirsOf, NoInode
  <2> QED
    BY <2>1, <2>2, <2>3, <2>4 DEF CallOK
<1>9. InodeOnce /\ InTable
  BY <1>0 DEF InodeOnce, InTable, NoInode
<1>10. \A s \in Slots : x[s].count = 0
  BY <1>0 DEF NoInode
<1>11. RefsExact
  <2> SUFFICES ASSUME NEW s \in Slots PROVE x[s].count = Refs(s)
    BY DEF RefsExact
  <2>1. s # NoSlot
    BY InodeAssumption
  <2>2. Having(file, s) = {} /\ Having(CallSlots, s) = {}
    BY <1>0, <2>1, NoFrameFacts DEF Having, CallSlots
  <2>3. Cardinality({}) = 0
    BY FS_EmptySet
  <2> QED
    BY <1>10, <2>2, <2>3 DEF Refs
<1>12. FreeExact
  BY <1>1, <1>3, <1>10 DEF FreeExact
<1>13. LastAlone /\ SleepersOK /\ CpuOK /\ IlockOK
  <2>1. "user" \notin Working /\ "user" \in Asleep /\ "user" \notin OnCpu
    BY DEF Working, Asleep, OnCpu
  <2>2. fs.ilock = 0
    BY <1>0
  <2> QED
    BY <1>0, <2>1, <2>2, InodeAssumption DEF LastAlone, SleepersOK, CpuOK, IlockOK
<1> QED
  BY <1>5, <1>6, <1>7, <1>8, <1>9, <1>11, <1>12, <1>13 DEF TableInv

LEMMA StepIallocPop ==
  ASSUME TableInv, NEW p \in Procs, IallocPop(p) PROVE TableInv'
BY StepIallocPopGet, StepIallocPopSkip

LEMMA StepIallocScanned ==
  ASSUME TableInv, NEW p \in Procs, IallocScanned(p) PROVE TableInv'
BY StepIallocScannedSome, StepIallocScannedNone

LEMMA StepProceed ==
  ASSUME TableInv, NEW p \in Procs, Proceed(p) PROVE TableInv'
<1>1. CASE IgetWait(p) \/ IgetHit(p) \/ IgetFull(p) \/ IgetNew(p) \/ IgetRead(p) \/ IgetError(p)
  BY <1>1, StepIgetWait, StepIgetHit, StepIgetFull, StepIgetNew, StepIgetRead, StepIgetError
<1>2. CASE \/ IreleShared(p) \/ IreleLast(p) \/ Itrunc(p) \/ IreleIfree(p)
           \/ IreleIupdat(p)
  BY <1>2, StepIreleShared, StepIreleLast, StepItrunc, StepIreleIfree, StepIreleIupdat
<1>3. CASE \/ LookupHit(p) \/ LookupBad(p) \/ LookupMiss(p)
           \/ IgrabWait(p) \/ Igrab(p) \/ RelockWait(p) \/ Relock(p)
  BY <1>3, StepLookupHit, StepLookupBad, StepLookupMiss, StepIgrabWait, StepIgrab, StepGiveUp,
     StepRelock
<1>4. CASE \/ SearchFound(p) \/ SearchCreate(p) \/ SearchFails(p)
           \/ ChildNone(p) \/ ChildOpen(p) \/ ChildUnlink(p)
           \/ LookupRefused(p) \/ UnlinkRefused(p)
           \/ Haveino(p) \/ OpenRefused(p) \/ Dirremove(p) \/ UnlinkDone(p)
  BY <1>4, StepSearchFound, StepSearchCreate, StepSearchFails, StepChildNone, StepChildOpen,
     StepChildUnlink, StepLookupRefused, StepUnlinkRefused, StepHaveino, StepOpenRefused,
     StepDirremove,
     StepUnlinkDone
<1>5. CASE \/ IallocWait(p) \/ IallocPop(p) \/ IallocScan(p) \/ IallocBread(p)
           \/ IallocBreadError(p) \/ IallocAgain(p) \/ IallocScanned(p)
  BY <1>5, StepGiveUp, StepIallocPop, StepIallocScan, StepIallocBread, StepIallocAgain,
     StepIallocScanned
<1>6. CASE \/ IallocNone(p) \/ IallocTaken(p) \/ Maknode(p) \/ MaknodeIupdat(p) \/ Direnter(p)
           \/ Closei(p) \/ InoRwWait(p) \/ InoRw(p) \/ Rwip(p) \/ SyncIupdat(p)
  BY <1>6, StepIallocNone, StepIallocTaken, StepMaknode, StepMaknodeIupdat, StepDirenter,
     StepClosei, StepInoRwWait, StepInoRw, StepRwip, StepSyncIupdat
<1> QED
  BY <1>1, <1>2, <1>3, <1>4, <1>5, <1>6 DEF Proceed

LEMMA NextTable == TableInv /\ [Next]_vars => TableInv'
<1> SUFFICES ASSUME TableInv, [Next]_vars PROVE TableInv'
  OBVIOUS
<1>1. CASE Next
  <2>1. PICK p \in Procs : Call(p) \/ Close(p) \/ Write(p) \/ Sync(p) \/ Proceed(p)
    BY <1>1 DEF Next
  <2> QED
    BY <2>1, StepCall, StepClose, StepWrite, StepSync, StepProceed
<1>2. CASE UNCHANGED vars
  <2>1. /\ load' = load /\ x' = x /\ free' = free /\ nc' = nc /\ lru' = lru /\ disk' = disk
        /\ dir' = dir /\ dlock' = dlock /\ fs' = fs /\ file' = file /\ cpu' = cpu /\ pc' = pc
        /\ fr' = fr /\ slp' = slp
    BY <1>2 DEF vars
  <2>2. /\ ProcsTyped /\ TableTyped /\ StoreOK /\ CallsOK /\ InodeOnce /\ InTable
        /\ RefsExact /\ FreeExact /\ LastAlone /\ SleepersOK /\ CpuOK /\ IlockOK
    BY DEF TableInv
  <2>3. ProcsTyped' /\ TableTyped' /\ StoreOK'
    BY <2>1, <2>2 DEF ProcsTyped, TableTyped, StoreOK, Elems, Distinct
  <2>4. CallsOK' /\ InodeOnce' /\ InTable'
    BY <2>1, <2>2 DEF CallsOK, CallOK, InodeOnce, InTable, SlotsOf, DirsOf
  <2>5. RefsExact' /\ FreeExact' /\ LastAlone'
    BY <2>1, <2>2 DEF RefsExact, Refs, Having, CallSlots, FreeExact, LastAlone, WorkOK, Elems,
       Distinct
  <2>6. SleepersOK' /\ IlockOK' /\ CpuOK'
    BY <2>1, <2>2 DEF SleepersOK, Locked, IlockOK, CpuOK
  <2> QED
    BY <2>3, <2>4, <2>5, <2>6 DEF TableInv
<1> QED
  BY <1>1, <1>2

(* The inductive invariant of the table of inodes holds always, for any    *)
(* number of processes, slots, names and name cache entries, and whatever  *)
(* the loads let fail.                                                     *)
THEOREM TableInvariance == Spec => []TableInv
BY InitTable, NextTable, PTL DEF Spec

-----------------------------------------------------------------------------
LEMMA TableExactHolds ==
  ASSUME TableInv
  PROVE  TableExact
<1>1. /\ ProcsTyped /\ TableTyped /\ StoreOK /\ InodeOnce /\ RefsExact /\ FreeExact
  BY DEF TableInv
<1>2. ASSUME NEW s \in Slots
      PROVE  /\ Cardinality({p \in Procs : file[p] = s}) = Cardinality(Having(file, s))
             /\ Cardinality({p \in Procs : fr[p].slot = s}) = Cardinality(Having(CallSlots, s))
  BY DEF Having, CallSlots
<1>3. ASSUME NEW s \in Slots
      PROVE  x[s].count \in 0 .. 2 * Cardinality(Procs)
  <2>1. /\ Cardinality(Having(file, s)) \in Nat /\ Cardinality(Having(CallSlots, s)) \in Nat
        /\ Cardinality(Having(file, s)) <= Cardinality(Procs) /\ Cardinality(Procs) \in Nat
        /\ Cardinality(Having(CallSlots, s)) <= Cardinality(Procs)
    BY HavingFinite
  <2>2. x[s].count = Cardinality(Having(file, s)) + Cardinality(Having(CallSlots, s))
    BY <1>1 DEF RefsExact, Refs
  <2> QED
    BY <2>1, <2>2
<1>4. x \in [Slots -> [ino: 0 .. NINO, count: 0 .. 2 * Cardinality(Procs), mode: BOOLEAN,
                       nlink: MinNlink .. 1, dirty: BOOLEAN, lock: Procs \cup {Nobody},
                       want: BOOLEAN]]
  <2> DEFINE C == 0 .. 2 * Cardinality(Procs)
  <2>1. x \in [Slots -> Records] /\ \A s \in Slots : x[s].count \in C
    BY <1>1, <1>3 DEF TableTyped
  <2> HIDE DEF C
  <2>2. x \in [Slots -> [ino: 0 .. NINO, count: C, mode: BOOLEAN,
                         nlink: MinNlink .. 1, dirty: BOOLEAN, lock: Procs \cup {Nobody},
                         want: BOOLEAN]]
    BY <2>1 DEF Records
  <2> QED
    BY <2>2 DEF C
<1>5. TypeOK
  <2>1. file \in [Procs -> Slots \cup {NoSlot}]
    BY <1>1 DEF ProcsTyped
  <2> QED
    BY <1>1, <1>4, <2>1 DEF TypeOK, ProcsTyped, TableTyped, StoreOK, Cached, OnDisk
<1>6. ASSUME NEW s \in Slots
      PROVE  /\ x[s].count = Cardinality({p \in Procs : file[p] = s})
                             + Cardinality({p \in Procs : fr[p].slot = s})
             /\ Locked(s) => s \in {fr[x[s].lock].slot, file[x[s].lock]}
  <2>1. x[s].count = Refs(s)
    BY <1>1 DEF RefsExact
  <2>2. ASSUME Locked(s) PROVE s \in {fr[x[s].lock].slot, file[x[s].lock]}
    BY <2>2, Holders DEF SlotsOf
  <2> QED
    BY <1>2, <2>1, <2>2 DEF Refs
<1>7. \A s, t \in Slots : x[s].ino = x[t].ino /\ x[s].ino # 0 => s = t
  BY <1>1 DEF InodeOnce
<1>8. Distinct(free) /\ Elems(free) = {s \in load.slots : x[s].count = 0}
  BY <1>1 DEF FreeExact
<1>9. Distinct(lru) /\ Elems(lru) = Entries
  BY <1>1 DEF StoreOK
<1> QED
  BY <1>5, <1>6, <1>7, <1>8, <1>9 DEF TableExact

(* The table of inodes is exact: an inode in one slot at most, each slot   *)
(* without references once on the free list, reference counts that are the *)
(* number of open files and calls, locks that belong to a call that has    *)
(* the slot, and a name cache in one order (iget, igrab, iput, irele and   *)
(* the name cache of namei).                                               *)
THEOREM TableExactness == Spec => []TableExact
BY TableInvariance, TableExactHolds, PTL

-----------------------------------------------------------------------------
(* Nobody waits for a call that waits for it.                              *)
Stuck(p) ==
  \/ slp[p] # NoSlot
  \/ pc[p] \in {"namei", "relock"} /\ dlock[Dir(p)] # Nobody
  \/ pc[p] = "ialloc" /\ fs.ilock # 0

(* Who has an inode locked, or fills the list of free inodes, can go on.   *)
LEMMA HolderGoes ==
  ASSUME TableInv, NEW s \in Slots, Locked(s)
  PROVE  \E q \in Procs : pc[q] # "user" /\ ~ Stuck(q)
<1>1. PICK q \in Procs : s \in SlotsOf(q)
  BY Holders
<1>2. s \in HeldSlots(pc[q], fr[q], file[q])
  BY <1>1 DEF TableInv, CallsOK, CallOK
<1>3. pc[q] \in Locking \cup MayLock \cup {"rwip"}
  BY <1>2 DEF HeldSlots
<1>4. slp[q] # NoSlot => pc[q] \in Waits
  BY DEF TableInv, SleepersOK
<1> QED
  BY <1>3, <1>4 DEF Stuck, Locking, MayLock, Waits

LEMMA ScannerGoes ==
  ASSUME TableInv, fs.ilock # 0
  PROVE  \E q \in Procs : pc[q] # "user" /\ ~ Stuck(q)
<1>0. fs.ilock > 0
  BY DEF TableInv, StoreOK
<1>1. PICK q \in Procs : pc[q] \in Scanning
  BY <1>0 DEF TableInv, IlockOK
<1>2. slp[q] # NoSlot => pc[q] \in Waits
  BY DEF TableInv, SleepersOK
<1> QED
  BY <1>1, <1>2 DEF Stuck, Scanning, Waits

(* Who sleeps for an inode, or waits for that list, waits for one of them. *)
LEMMA WaiterGoes ==
  ASSUME TableInv, NEW p \in Procs, pc[p] # "user", pc[p] \notin {"namei", "relock"}
  PROVE  \E q \in Procs : pc[q] # "user" /\ ~ Stuck(q)
<1>1. CASE slp[p] # NoSlot
  <2>1. slp[p] \in Slots /\ Locked(slp[p])
    BY <1>1 DEF TableInv, SleepersOK, ProcsTyped
  <2> QED
    BY <2>1, HolderGoes
<1>2. CASE pc[p] = "ialloc" /\ fs.ilock # 0
  BY <1>2, ScannerGoes
<1>3. CASE ~ Stuck(p)
  BY <1>3
<1> QED
  BY <1>1, <1>2, <1>3 DEF Stuck

LEMMA SomeoneRunsHolds ==
  ASSUME TableInv
  PROVE  SomeoneRuns
<1> SUFFICES ASSUME NEW p \in Procs, pc[p] # "user"
             PROVE  \E q \in Procs : pc[q] # "user" /\ ~ Stuck(q)
  BY DEF SomeoneRuns, Stuck
<1>1. CASE pc[p] \notin {"namei", "relock"}
  BY <1>1, WaiterGoes
<1>2. CASE pc[p] \in {"namei", "relock"}
  <2>1. slp[p] = NoSlot
    BY <1>2 DEF TableInv, SleepersOK, Waits
  <2>2. CASE dlock[Dir(p)] = Nobody
    BY <1>2, <2>1, <2>2 DEF Stuck
  <2>3. CASE dlock[Dir(p)] # Nobody
    <3>1. CallOK(p) /\ fr[p] \in Frames
      BY DEF TableInv, CallsOK, ProcsTyped
    <3>2. fr[p].name \in Names
      BY <1>2, <3>1 DEF CallOK, Placed, At, Fetching, Ireles, Looking, Opening, Frames
    <3>3. Dir(p) \in Dirs
      BY <3>2, InodeAssumption DEF Dir
    <3> DEFINE q == dlock[Dir(p)]
    <3>4. q \in Procs /\ Dir(p) \in DirsOf(q)
      BY <2>3, <3>3 DEF TableInv, TableTyped, DirsOf
    <3> HIDE DEF q
    <3>5. Dir(p) \in HeldDirs(pc[q], fr[q])
      BY <3>4 DEF TableInv, CallsOK, CallOK
    <3>6. pc[q] \in Fetching \cup Ireles \cup InDir
      BY <3>5 DEF HeldDirs, At
    <3>7. pc[q] # "user" /\ pc[q] \notin {"namei", "relock"}
      BY <3>6 DEF Fetching, Ireles, InDir, Creating
    <3> QED
      BY <3>4, <3>7, WaiterGoes
  <2> QED
    BY <2>2, <2>3
<1> QED
  BY <1>1, <1>2

(* While calls are under way one of them can go on: no lock of an inode, a *)
(* directory or the list of free inodes is left behind, no wakeup is lost, *)
(* and a call that sleeps with a directory locked (namei, then iget or     *)
(* igrab) waits only for one that needs nothing more.                      *)
THEOREM NoDeadlock == Spec => []SomeoneRuns
BY TableInvariance, SomeoneRunsHolds, PTL
-----------------------------------------------------------------------------
(* No file is lost: what is known of an inode that is in core and has been *)
(* read, and of the names.                                                 *)
Read(s) == x[s].ino # 0 /\ \A p \in Procs : ~ (pc[p] = "iget_read" /\ fr[p].slot = s)
NamedIn(d, i) == \E n \in Names : d[n] = i
Same(r, u) == r.mode = u.mode /\ r.nlink = u.nlink

(* A clean inode is what is on the disk, and one without references is     *)
(* clean.                                                                  *)
CleanOK ==
  \A s \in Slots :
    /\ Read(s) /\ ~ x[s].dirty => Same(disk[x[s].ino], x[s])
    /\ x[s].count = 0 => ~ x[s].dirty

(* An inode in core and read: a name leads to it exactly when it has a     *)
(* link, but for the file that maknode is making.                          *)
Makes == {"maknode_iupdat", "direnter"}
Making(s) == \E p \in Procs : pc[p] \in Makes /\ fr[p].slot = s
CoreOK ==
  \A s \in Slots : Read(s) =>
    /\ NamedIn(dir, x[s].ino) => x[s].mode /\ x[s].nlink = 1
    /\ x[s].mode /\ ~ NamedIn(dir, x[s].ino) =>
         x[s].count > 0 /\ (x[s].nlink > 0 => Making(s))

(* An inode that is on the disk only.                                      *)
Away(i) == \A s \in Slots : ~ (x[s].ino = i /\ Read(s))
DiskOK ==
  \A i \in Inodes : Away(i) =>
    /\ NamedIn(dir, i) => disk[i].mode /\ disk[i].nlink = 1
    /\ disk[i].mode => NamedIn(dir, i)

NamesApart == \A m, n \in Names : dir[m] = dir[n] /\ dir[n] # 0 => m = n

(* What a call at l, with the frame f, knows of its file, when the table   *)
(* is y and the directory d.                                               *)
FileAt(l, f, y, d) ==
  /\ l \in {"iget_read", "child", "ialloc_got", "dirremove"} /\ f.slot # NoSlot =>
       f.ino # 0 /\ y[f.slot].ino = f.ino
  /\ (l \in Fetching /\ f.back = "child")
     \/ (l \in {"child", "dirremove"} /\ f.slot # NoSlot) => d[f.name] = f.ino
  /\ At(l, f) \in Creating => d[f.name] = 0
  /\ l \in Makes =>
       /\ y[f.slot].ino # 0 /\ y[f.slot].mode /\ y[f.slot].nlink = 1
       /\ ~ NamedIn(d, y[f.slot].ino)
  /\ l \in {"itrunc", "ifree"} => y[f.slot].nlink <= 0
  /\ l = "irele_iupdat" => ~ y[f.slot].mode \/ y[f.slot].nlink > 0
FilesOK == \A p \in Procs : FileAt(pc[p], fr[p], x, dir)

FilesCore == CleanOK /\ CoreOK /\ DiskOK /\ NamesApart /\ FilesOK
FilesInv == DiskSound => FilesCore

-----------------------------------------------------------------------------
(* Steps and what they leave.                                              *)

(* A call has locked the slot it works on, so that it has been read unless *)
(* the call is iget.                                                       *)
LEMMA HasLocked ==
  ASSUME TableInv, NEW q \in Procs, pc[q] \in Locking \cup MayLock, fr[q].slot # NoSlot
  PROVE  fr[q].slot \in SlotsOf(q)
<1>1. SlotsOf(q) = HeldSlots(pc[q], fr[q], file[q])
  BY DEF TableInv, CallsOK, CallOK
<1> QED
  BY <1>1 DEF HeldSlots, Locking, MayLock

LEMMA PlacedIn ==
  ASSUME TableInv, NEW q \in Procs, pc[q] \in Locking
  PROVE  fr[q].slot \in Slots /\ fr[q].slot # NoSlot /\ fr[q].slot \in SlotsOf(q)
<1>1. fr[q].slot \in Slots /\ fr[q].slot # NoSlot
  BY InodeAssumption DEF TableInv, CallsOK, CallOK, Placed, ProcsTyped
<1> QED
  BY <1>1, HasLocked

LEMMA ReadOwn ==
  ASSUME TableInv, NEW p \in Procs, NEW s \in SlotsOf(p), pc[p] # "iget_read"
  PROVE  Read(s) <=> x[s].ino # 0
<1>1. ASSUME NEW q \in Procs, pc[q] = "iget_read", fr[q].slot = s PROVE FALSE
  <2>1. s \in SlotsOf(q)
    BY <1>1, PlacedIn DEF Locking
  <2> QED
    BY <1>1, <2>1 DEF SlotsOf
<1> QED
  BY <1>1 DEF Read

(* A slot that nobody has is not being read.                               *)
LEMMA ReadFree ==
  ASSUME TableInv, NEW s \in Slots, x[s].count = 0
  PROVE  Read(s) <=> x[s].ino # 0
<1>1. ASSUME NEW q \in Procs, fr[q].slot = s PROVE FALSE
  <2>1. ProcsTyped /\ x[s].count = Refs(s)
    BY DEF TableInv, RefsExact
  <2> QED
    BY <1>1, <2>1, RefsSome
<1> QED
  BY <1>1 DEF Read

(* Who has the only reference is the only one who works on the slot.       *)
LEMMA LoneMaking ==
  ASSUME TableInv, NEW p \in Procs, NEW s \in Slots, fr[p].slot = s, x[s].count = 1,
         pc[p] \notin Makes
  PROVE  ~ Making(s)
<1> SUFFICES ASSUME NEW q \in Procs, pc[q] \in Makes, fr[q].slot = s PROVE FALSE
  BY DEF Making
<1>1. ProcsTyped /\ x[s].count = Refs(s)
  BY DEF TableInv, RefsExact
<1>2. Refs(s) >= 2
  BY <1>1, RefsSome
<1> QED
  BY <1>1, <1>2

(* What other calls know stays true: they have locked what they work on,   *)
(* their directory among it.                                               *)
Leaves(q) ==
  /\ \A s \in SlotsOf(q) :
       /\ x'[s].ino = x[s].ino /\ Same(x'[s], x[s])
       /\ x[s].ino # 0 /\ NamedIn(dir', x[s].ino) => NamedIn(dir, x[s].ino)
  /\ \A n \in Names : DirOf[n] \in DirsOf(q) => dir'[n] = dir[n]
LEMMA OthersKeep ==
  ASSUME TableInv, NEW q \in Procs, Leaves(q), FileAt(pc[q], fr[q], x, dir)
  PROVE  FileAt(pc[q], fr[q], x', dir')
<1> DEFINE l == pc[q]
           f == fr[q]
<1>1. ASSUME l \in Locking \cup MayLock, f.slot # NoSlot
      PROVE  /\ x'[f.slot].ino = x[f.slot].ino /\ Same(x'[f.slot], x[f.slot])
             /\ x[f.slot].ino # 0 /\ NamedIn(dir', x[f.slot].ino) => NamedIn(dir, x[f.slot].ino)
  BY <1>1, HasLocked DEF Leaves
<1>2. ASSUME l \in Locking PROVE f.slot # NoSlot
  BY <1>2, PlacedIn
<1>3. ASSUME At(l, f) \in InDir PROVE dir'[f.name] = dir[f.name]
  <2>1. /\ Placed(l, f, file[q], load.slots) /\ DirsOf(q) = HeldDirs(l, f) /\ f \in Frames
    BY DEF TableInv, CallsOK, CallOK, ProcsTyped
  <2>2. f.name \in Names
    BY <1>3, <2>1 DEF Placed, Looking, Frames
  <2> QED
    BY <1>3, <2>1, <2>2 DEF Leaves, HeldDirs
<1>4. FileAt(l, f, x, dir)
  OBVIOUS
<1> HIDE DEF l, f
<1>5. /\ l \in {"iget_read", "child", "ialloc_got", "dirremove"} /\ f.slot # NoSlot =>
           f.ino # 0 /\ x'[f.slot].ino = f.ino
  BY <1>1, <1>4 DEF FileAt, Locking, MayLock
<1>6. (l \in Fetching /\ f.back = "child")
       \/ (l \in {"child", "dirremove"} /\ f.slot # NoSlot) => dir'[f.name] = f.ino
  BY <1>3, <1>4 DEF FileAt, At, Fetching, Ireles, InDir
<1>7. At(l, f) \in Creating => dir'[f.name] = 0
  BY <1>3, <1>4 DEF FileAt, InDir
<1>8. ASSUME l \in Makes
      PROVE  /\ x'[f.slot].ino # 0 /\ x'[f.slot].mode /\ x'[f.slot].nlink = 1
             /\ ~ NamedIn(dir', x'[f.slot].ino)
  <2>1. l \in Locking \cup MayLock /\ f.slot # NoSlot
    BY <1>2, <1>8 DEF Makes, Locking
  <2> QED
    BY <1>1, <1>4, <1>8, <2>1 DEF FileAt, Same
<1>9. l \in {"itrunc", "ifree"} => x'[f.slot].nlink <= 0
  BY <1>1, <1>2, <1>4 DEF FileAt, Same, Locking
<1>10. l = "irele_iupdat" => ~ x'[f.slot].mode \/ x'[f.slot].nlink > 0
  BY <1>1, <1>2, <1>4 DEF FileAt, Same, Locking
<1>11. FileAt(l, f, x', dir')
  BY <1>5, <1>6, <1>7, <1>8, <1>9, <1>10 DEF FileAt
<1> QED
  BY <1>11 DEF l, f

LEMMA FilesOKStep ==
  ASSUME TableInv, FilesOK, NEW p \in Procs, NEW l, NEW f, NEW o, Moves(p, l, f, o),
         \A q \in Procs \ {p} : Leaves(q), FileAt(l, f, x', dir')
  PROVE  FilesOK'
<1>1. /\ pc'[p] = l /\ fr'[p] = f
      /\ \A q \in Procs \ {p} : pc'[q] = pc[q] /\ fr'[q] = fr[q]
  BY MovesOwn DEF TableInv
<1>2. ASSUME NEW q \in Procs \ {p} PROVE FileAt(pc[q], fr[q], x', dir')
  BY <1>2, OthersKeep DEF FilesOK
<1> QED
  BY <1>1, <1>2 DEF FilesOK, FileAt, NamedIn

(* Who reads and who makes an inode stays the same.                        *)
LEMMA ReadSame ==
  ASSUME TableInv, NEW p \in Procs, NEW l, NEW f, NEW o, Moves(p, l, f, o),
         pc[p] # "iget_read", l # "iget_read", NEW s
  PROVE  Read(s)' <=> x'[s].ino # 0 /\ \A q \in Procs : ~ (pc[q] = "iget_read" /\ fr[q].slot = s)
<1>1. /\ pc'[p] = l /\ fr'[p] = f
      /\ \A q \in Procs \ {p} : pc'[q] = pc[q] /\ fr'[q] = fr[q]
  BY MovesOwn DEF TableInv
<1> QED
  BY <1>1 DEF Read

Remakes(p, l, f, s) ==
  (pc[p] \in Makes /\ fr[p].slot = s) <=> (l \in Makes /\ f.slot = s)
LEMMA MakingSame ==
  ASSUME TableInv, NEW p \in Procs, NEW l, NEW f, NEW o, Moves(p, l, f, o), NEW s,
         Remakes(p, l, f, s)
  PROVE  Making(s)' <=> Making(s)
<1>1. /\ pc'[p] = l /\ fr'[p] = f
      /\ \A q \in Procs \ {p} : pc'[q] = pc[q] /\ fr'[q] = fr[q]
  BY MovesOwn DEF TableInv
<1> QED
  BY <1>1 DEF Making, Remakes

LEMMA MovedPlaced ==
  ASSUME TableInv, TableInv', NEW p \in Procs, NEW l, NEW f, NEW o, Moves(p, l, f, o)
  PROVE  f.slot \in Slots \cup {NoSlot} /\ (l \in Locking => f.slot \in Slots)
<1>1. fr'[p] \in Frames /\ Placed(pc'[p], fr'[p], file'[p], load'.slots)
        /\ load'.slots \subseteq Slots
  BY DEF TableInv, CallsOK, CallOK, ProcsTyped
<1>2. pc'[p] = l /\ fr'[p] = f
  BY MovesOwn DEF TableInv
<1> QED
  BY <1>1, <1>2 DEF Placed, Frames

(* A step that changes no inode in core, but may write one.                *)
Keeps(s) ==
  /\ x'[s].ino = x[s].ino /\ Same(x'[s], x[s])
  /\ x'[s].count = 0 => ~ x'[s].dirty
  /\ Read(s) /\ ~ x'[s].dirty => Same(disk'[x[s].ino], x[s])
  /\ Read(s) /\ x[s].mode /\ ~ NamedIn(dir, x[s].ino) => x'[s].count > 0
LEMMA FilesSame ==
  ASSUME TableInv, TableInv', FilesCore, NEW p \in Procs, NEW l, NEW f, NEW o, Moves(p, l, f, o),
         pc[p] # "iget_read", l # "iget_read", \A s \in Slots : Remakes(p, l, f, s),
         \A s \in Slots : Keeps(s), dir' = dir,
         \A i \in Inodes : Away(i) => disk'[i] = disk[i],
         FileAt(l, f, x, dir)
  PROVE  FilesCore'
<1>1. CleanOK /\ CoreOK /\ DiskOK /\ NamesApart /\ FilesOK
  BY DEF FilesCore
<1>2. \A s \in Slots : x'[s].ino = x[s].ino /\ Same(x'[s], x[s])
  BY DEF Keeps
<1>3. \A s \in Slots : Read(s)' <=> Read(s)
  <2> SUFFICES ASSUME NEW s \in Slots PROVE Read(s)' <=> Read(s)
    OBVIOUS
  <2>1. Read(s)' <=> x'[s].ino # 0 /\ \A q \in Procs : ~ (pc[q] = "iget_read" /\ fr[q].slot = s)
    BY ReadSame
  <2> QED
    BY <1>2, <2>1 DEF Read
<1>4. \A s \in Slots : Making(s)' <=> Making(s)
  BY MakingSame
<1>5. \A i : NamedIn(dir', i) <=> NamedIn(dir, i)
  OBVIOUS
<1>6. CleanOK'
  <2> SUFFICES ASSUME NEW s \in Slots
               PROVE  /\ Read(s)' /\ ~ x'[s].dirty => Same(disk'[x'[s].ino], x'[s])
                      /\ x'[s].count = 0 => ~ x'[s].dirty
    BY DEF CleanOK, Same
  <2>1. Keeps(s)
    OBVIOUS
  <2> QED
    BY <1>3, <2>1 DEF Keeps, Same
<1>7. CoreOK'
  <2> SUFFICES ASSUME NEW s \in Slots, Read(s)'
               PROVE  /\ NamedIn(dir', x'[s].ino) => x'[s].mode /\ x'[s].nlink = 1
                      /\ x'[s].mode /\ ~ NamedIn(dir', x'[s].ino) =>
                           x'[s].count > 0 /\ (x'[s].nlink > 0 => Making(s)')
    BY DEF CoreOK, NamedIn
  <2>1. Read(s) /\ Keeps(s) /\ (Making(s)' <=> Making(s))
    BY <1>3, <1>4
  <2> QED
    BY <1>1, <1>5, <2>1 DEF CoreOK, Keeps, Same
<1>8. DiskOK'
  <2> SUFFICES ASSUME NEW i \in Inodes, Away(i)'
               PROVE  /\ NamedIn(dir', i) => disk'[i].mode /\ disk'[i].nlink = 1
                      /\ disk'[i].mode => NamedIn(dir', i)
    BY DEF DiskOK, NamedIn
  <2>1. Away(i)
    BY <1>2, <1>3 DEF Away
  <2> QED
    BY <1>1, <1>5, <2>1 DEF DiskOK
<1>9. NamesApart'
  BY <1>1 DEF NamesApart
<1>10. FilesOK'
  <2>1. \A q \in Procs \ {p} : Leaves(q)
    BY <1>2 DEF Leaves, SlotsOf
  <2>2. FileAt(l, f, x', dir')
    <3>1. f.slot \in Slots \cup {NoSlot} /\ (l \in Locking => f.slot \in Slots)
      BY MovedPlaced
    <3>2. ASSUME f.slot \in Slots
          PROVE  x'[f.slot].ino = x[f.slot].ino /\ Same(x'[f.slot], x[f.slot])
      BY <1>2, <3>2
    <3>3. l \in Makes \cup {"itrunc", "ifree", "irele_iupdat"} => f.slot \in Slots
      BY <3>1 DEF Makes, Locking
    <3> QED
      BY <3>1, <3>2, <3>3 DEF FileAt, Same
  <2> QED
    BY <1>1, <2>1, <2>2, FilesOKStep
<1> QED
  BY <1>6, <1>7, <1>8, <1>9, <1>10 DEF FilesCore

(* A step that changes the inode p has locked, or what the name of p leads *)
(* to.                                                                     *)
EditsOwn(p, s) ==
  /\ x'[s].ino = x[s].ino /\ x'[s].count = x[s].count
  /\ ~ x'[s].dirty => ~ x[s].dirty /\ Same(x'[s], x[s])
  /\ \A t \in Slots : t # s => x'[t] = x[t]
NamesOwn(p, s) ==
  /\ \A i : i # 0 /\ i # x[s].ino => (NamedIn(dir', i) <=> NamedIn(dir, i))
  /\ \A n \in Names : DirOf[n] \notin DirsOf(p) => dir'[n] = dir[n]
  /\ x[s].ino # 0 \/ dir' = dir
CoreAt(l, f, s) ==
  x[s].ino # 0 =>
    /\ NamedIn(dir', x[s].ino) => x'[s].mode /\ x'[s].nlink = 1
    /\ x'[s].mode /\ ~ NamedIn(dir', x[s].ino) => (x'[s].nlink > 0 => l \in Makes /\ f.slot = s)
LEMMA FilesEdit ==
  ASSUME TableInv, FilesCore, NEW p \in Procs, NEW l, NEW f, NEW o,
         Moves(p, l, f, o), pc[p] # "iget_read", l # "iget_read",
         NEW s \in SlotsOf(p), EditsOwn(p, s), NamesOwn(p, s), CoreAt(l, f, s), disk' = disk,
         \A t \in Slots \ {s} : Remakes(p, l, f, t), NamesApart',
         FileAt(l, f, x', dir')
  PROVE  FilesCore'
<1>1. CleanOK /\ CoreOK /\ DiskOK /\ NamesApart /\ FilesOK
  BY DEF FilesCore
<1>2. /\ s \in Slots /\ x[s].lock = p /\ x[s].count >= 1 /\ x[s].count \in Nat
  BY OwnSlot, LockedCounted DEF Records
<1>3. /\ \A t \in Slots : x'[t].ino = x[t].ino
      /\ \A t \in Slots : t # s => x'[t] = x[t]
  BY DEF EditsOwn
<1>4. \A t \in Slots : Read(t)' <=> Read(t)
  <2> SUFFICES ASSUME NEW t \in Slots PROVE Read(t)' <=> Read(t)
    OBVIOUS
  <2>1. Read(t)' <=> x'[t].ino # 0 /\ \A q \in Procs : ~ (pc[q] = "iget_read" /\ fr[q].slot = t)
    BY ReadSame
  <2> QED
    BY <1>3, <2>1 DEF Read
<1>5. ASSUME NEW t \in Slots, t # s, x[t].ino # 0
      PROVE  /\ x[t].ino # x[s].ino
             /\ NamedIn(dir', x[t].ino) <=> NamedIn(dir, x[t].ino)
  <2>1. x[t].ino # x[s].ino
    BY <1>2, <1>5 DEF TableInv, InodeOnce
  <2> QED
    BY <1>5, <2>1 DEF NamesOwn
<1>6. CleanOK'
  <2> SUFFICES ASSUME NEW t \in Slots
               PROVE  /\ Read(t)' /\ ~ x'[t].dirty => Same(disk'[x'[t].ino], x'[t])
                      /\ x'[t].count = 0 => ~ x'[t].dirty
    BY DEF CleanOK, Same
  <2>1. /\ Read(t) /\ ~ x[t].dirty => Same(disk[x[t].ino], x[t])
        /\ x[t].count = 0 => ~ x[t].dirty
    BY <1>1 DEF CleanOK
  <2>2. CASE t = s
    BY <1>2, <1>3, <1>4, <2>1, <2>2 DEF EditsOwn, Same
  <2>3. CASE t # s
    BY <1>3, <1>4, <2>1, <2>3
  <2> QED
    BY <2>2, <2>3
<1>7. CoreOK'
  <2> SUFFICES ASSUME NEW t \in Slots, Read(t)'
               PROVE  /\ NamedIn(dir', x'[t].ino) => x'[t].mode /\ x'[t].nlink = 1
                      /\ x'[t].mode /\ ~ NamedIn(dir', x'[t].ino) =>
                           x'[t].count > 0 /\ (x'[t].nlink > 0 => Making(t)')
    BY DEF CoreOK, NamedIn
  <2>1. Read(t) /\ x[t].ino # 0
    BY <1>4 DEF Read
  <2>2. CASE t = s
    <3>1. x'[s].count > 0
      BY <1>2 DEF EditsOwn
    <3>2. l \in Makes /\ f.slot = s => Making(s)'
      <4>1. pc'[p] = l /\ fr'[p] = f
        BY MovesOwn DEF TableInv
      <4> QED
        BY <4>1 DEF Making
    <3> QED
      BY <1>3, <2>1, <2>2, <3>1, <3>2 DEF CoreAt
  <2>3. CASE t # s
    <3>1. Making(t)' <=> Making(t)
      BY <2>3, MakingSame
    <3>2. x'[t] = x[t] /\ (NamedIn(dir', x[t].ino) <=> NamedIn(dir, x[t].ino))
      BY <1>3, <1>5, <2>1, <2>3
    <3> QED
      BY <1>1, <2>1, <3>1, <3>2 DEF CoreOK
  <2> QED
    BY <2>2, <2>3
<1>8. DiskOK'
  <2> SUFFICES ASSUME NEW i \in Inodes, Away(i)'
               PROVE  /\ NamedIn(dir', i) => disk'[i].mode /\ disk'[i].nlink = 1
                      /\ disk'[i].mode => NamedIn(dir', i)
    BY DEF DiskOK, NamedIn
  <2>1. Away(i)
    BY <1>3, <1>4 DEF Away
  <2>2. i # 0
    BY DEF Inodes
  <2>3. NamedIn(dir', i) <=> NamedIn(dir, i)
    <3>1. CASE x[s].ino # 0
      <4>1. Read(s)
        BY <3>1, ReadOwn
      <4>2. i # x[s].ino
        BY <1>2, <2>1, <4>1 DEF Away
      <4> QED
        BY <2>2, <4>2 DEF NamesOwn
    <3>2. CASE x[s].ino = 0
      BY <3>2 DEF NamesOwn
    <3> QED
      BY <3>1, <3>2
  <2> QED
    BY <1>1, <2>1, <2>3 DEF DiskOK
<1>9. ASSUME NEW q \in Procs \ {p} PROVE Leaves(q)
  <2>1. ASSUME NEW t \in SlotsOf(q)
        PROVE  /\ x'[t].ino = x[t].ino /\ Same(x'[t], x[t])
               /\ x[t].ino # 0 /\ NamedIn(dir', x[t].ino) => NamedIn(dir, x[t].ino)
    <3>1. t \in Slots /\ t # s
      BY <1>2, <1>9 DEF SlotsOf
    <3> QED
      BY <1>3, <1>5, <3>1 DEF Same
  <2>2. ASSUME NEW n \in Names, DirOf[n] \in DirsOf(q) PROVE dir'[n] = dir[n]
    <3>1. DirOf[n] \notin DirsOf(p)
      BY <1>9, <2>2 DEF DirsOf
    <3> QED
      BY <3>1 DEF NamesOwn
  <2> QED
    BY <2>1, <2>2 DEF Leaves
<1>10. FilesOK'
  BY <1>1, <1>9, FilesOKStep
<1> QED
  BY <1>6, <1>7, <1>8, <1>10 DEF FilesCore

(* A step that only renames or reads the slot of iget.                     *)
NamesKept == dir' = dir /\ disk' = disk
LEMMA RenameKept ==
  ASSUME TableInv, FilesCore, NEW p \in Procs, NEW l, NEW f, NEW o,
         Moves(p, l, f, o), NEW s \in Slots, NamesKept, \A t \in Slots : t # s => x'[t] = x[t],
         x[s].lock \in {Nobody, p}, \A t \in Slots : Remakes(p, l, f, t),
         pc[p] = "iget_read" => fr[p].slot = s, l = "iget_read" => f.slot = s,
         x'[s].count = 0 => ~ x'[s].dirty,
         Read(s)' => /\ x'[s].count > 0
                     /\ ~ x'[s].dirty => Same(disk[x'[s].ino], x'[s])
                     /\ NamedIn(dir, x'[s].ino) => x'[s].mode /\ x'[s].nlink = 1
                     /\ x'[s].mode => NamedIn(dir, x'[s].ino),
         \A i \in Inodes : Away(i)' /\ ~ Away(i) =>
           /\ NamedIn(dir, i) => disk[i].mode /\ disk[i].nlink = 1
           /\ disk[i].mode => NamedIn(dir, i),
         FileAt(l, f, x', dir)
  PROVE  FilesCore'
<1>1. CleanOK /\ CoreOK /\ DiskOK /\ NamesApart /\ FilesOK /\ dir' = dir /\ disk' = disk
  BY DEF FilesCore, NamesKept
<1>2. /\ pc'[p] = l /\ fr'[p] = f
      /\ \A q \in Procs \ {p} : pc'[q] = pc[q] /\ fr'[q] = fr[q]
  BY MovesOwn DEF TableInv
<1>3. ASSUME NEW t \in Slots, t # s PROVE x'[t] = x[t] /\ (Read(t)' <=> Read(t))
  BY <1>2, <1>3 DEF Read
<1>4. ASSUME NEW t \in Slots PROVE Making(t)' <=> Making(t)
  BY <1>4, MakingSame
<1>5. CleanOK'
  <2> SUFFICES ASSUME NEW t \in Slots
               PROVE  /\ Read(t)' /\ ~ x'[t].dirty => Same(disk[x'[t].ino], x'[t])
                      /\ x'[t].count = 0 => ~ x'[t].dirty
    BY <1>1 DEF CleanOK, Same
  <2>1. CASE t = s
    BY <2>1
  <2>2. CASE t # s
    BY <1>1, <1>3, <2>2 DEF CleanOK
  <2> QED
    BY <2>1, <2>2
<1>6. CoreOK'
  <2> SUFFICES ASSUME NEW t \in Slots, Read(t)'
               PROVE  /\ NamedIn(dir, x'[t].ino) => x'[t].mode /\ x'[t].nlink = 1
                      /\ x'[t].mode /\ ~ NamedIn(dir, x'[t].ino) =>
                           x'[t].count > 0 /\ (x'[t].nlink > 0 => Making(t)')
    BY <1>1 DEF CoreOK, NamedIn
  <2>1. CASE t = s
    BY <2>1
  <2>2. CASE t # s
    BY <1>1, <1>3, <1>4, <2>2 DEF CoreOK
  <2> QED
    BY <2>1, <2>2
<1>7. DiskOK'
  <2> SUFFICES ASSUME NEW i \in Inodes, Away(i)'
               PROVE  /\ NamedIn(dir, i) => disk[i].mode /\ disk[i].nlink = 1
                      /\ disk[i].mode => NamedIn(dir, i)
    BY <1>1 DEF DiskOK, NamedIn
  <2> QED
    BY <1>1 DEF DiskOK
<1>8. NamesApart'
  BY <1>1 DEF NamesApart
<1>9. FilesOK'
  <2>1. ASSUME NEW q \in Procs \ {p} PROVE Leaves(q)
    <3>1. ASSUME NEW t \in SlotsOf(q) PROVE t \in Slots /\ t # s
      BY <3>1, InodeAssumption DEF SlotsOf
    <3> QED
      BY <1>1, <3>1 DEF Leaves, Same
  <2>2. FileAt(l, f, x', dir')
    BY <1>1
  <2> QED
    BY <1>1, <2>1, <2>2, FilesOKStep
<1> QED
  BY <1>5, <1>6, <1>7, <1>8, <1>9 DEF FilesCore

(* Where a call knows nothing of a file.                                   *)
Idle == {"user", "namei", "search", "igrab", "relock", "haveino", "unlinked", "closei",
         "ino_rw", "rwip", "sync_iupdat"}
LEMMA FileIdle ==
  ASSUME NEW l, NEW f, NEW y, NEW d, l \in Idle \/ (l = "irele" /\ f.then \notin Creating)
  PROVE  FileAt(l, f, y, d)
BY DEF FileAt, Idle, At, Fetching, Ireles, Creating, Makes

LEMMA FileNow ==
  ASSUME FilesCore, NEW p \in Procs, NEW l, Runs(p, l)
  PROVE  FileAt(l, fr[p], x, dir) /\ pc[p] = l
BY DEF FilesCore, FilesOK, Runs

(* Steps that leave the inodes alone, or lock, unlock or count one.        *)
LEMMA FilesQuiet ==
  ASSUME TableInv, TableInv', FilesCore, NEW p \in Procs, NEW m, NEW f, NEW o, Moves(p, m, f, o),
         pc[p] # "iget_read", m # "iget_read", \A s \in Slots : Remakes(p, m, f, s),
         UNCHANGED <<x, disk, dir>>, FileAt(m, f, x, dir)
  PROVE  FilesCore'
<1>1. ASSUME NEW s \in Slots PROVE Keeps(s)
  BY DEF Keeps, FilesCore, CleanOK, CoreOK, Same
<1> QED
  BY <1>1, FilesSame

SameFile(r, u) == u.ino = r.ino /\ Same(u, r) /\ (~ u.dirty => ~ r.dirty)
Touches(s, r) ==
  s \in Slots /\ x' = [x EXCEPT ![s] = r] /\ SameFile(x[s], r) /\ r.count > 0
LEMMA FilesTouch ==
  ASSUME TableInv, TableInv', FilesCore, NEW p \in Procs, NEW m, NEW f, NEW o, Moves(p, m, f, o),
         pc[p] # "iget_read", m # "iget_read", \A s \in Slots : Remakes(p, m, f, s),
         NEW t, NEW r, Touches(t, r), UNCHANGED <<disk, dir>>, FileAt(m, f, x, dir)
  PROVE  FilesCore'
<1>1. /\ t \in Slots /\ x'[t] = r /\ (\A s \in Slots : s # t => x'[s] = x[s])
      /\ SameFile(x[t], r) /\ r.count > 0 /\ r.count \in Nat
  <2>1. /\ t \in Slots /\ x'[t] = r /\ (\A s \in Slots : s # t => x'[s] = x[s])
        /\ SameFile(x[t], r) /\ r.count > 0
    BY DEF Touches, TableInv, TableTyped
  <2>2. x'[t] \in Records
    BY <2>1 DEF TableInv, TableTyped
  <2> QED
    BY <2>1, <2>2 DEF Records
<1>2. ASSUME NEW s \in Slots PROVE Keeps(s)
  <2>1. /\ Read(s) /\ ~ x[s].dirty => Same(disk[x[s].ino], x[s])
        /\ x[s].count = 0 => ~ x[s].dirty
        /\ Read(s) /\ x[s].mode /\ ~ NamedIn(dir, x[s].ino) => x[s].count > 0
    BY DEF FilesCore, CleanOK, CoreOK
  <2>2. CASE s = t
    BY <1>1, <2>1, <2>2 DEF Keeps, SameFile, Same
  <2>3. CASE s # t
    BY <1>1, <2>1, <2>3 DEF Keeps, Same
  <2> QED
    BY <2>2, <2>3
<1> QED
  BY <1>2, FilesSame

LEMMA RemakesNot ==
  ASSUME NEW p \in Procs, NEW m, NEW f, pc[p] \notin Makes, m \notin Makes
  PROVE  \A s \in Slots : Remakes(p, m, f, s)
BY DEF Remakes

(* The way of a step.                                                      *)
Goes(p, m, f) == Goto(p, m) /\ file' = file /\ (Frame(p, f) \/ (fr' = fr /\ f = fr[p]))
LEMMA GoesMoves ==
  ASSUME TableInv, NEW p \in Procs, NEW l, NEW m, NEW f, Runs(p, l), Goes(p, m, f)
  PROVE  Moves(p, m, f, file[p])
BY GotoFacts DEF Goes

Known == Labels \ (Makes \cup {"iget_read"})
LEMMA FilesGo ==
  ASSUME TableInv, TableInv', FilesCore, NEW p \in Procs, NEW l \in Known, NEW m \in Known, NEW f,
         Runs(p, l), Goes(p, m, f), UNCHANGED <<x, disk, dir>>, FileAt(m, f, x, dir)
  PROVE  FilesCore'
<1>1. Moves(p, m, f, file[p]) /\ pc[p] = l
  BY GoesMoves DEF Runs
<1>2. /\ pc[p] # "iget_read" /\ m # "iget_read" /\ pc[p] \notin Makes /\ m \notin Makes
  BY <1>1 DEF Known
<1>3. \A s \in Slots : Remakes(p, m, f, s)
  BY <1>2, RemakesNot
<1> QED
  BY <1>1, <1>2, <1>3, FilesQuiet

LEMMA FilesGoTouch ==
  ASSUME TableInv, TableInv', FilesCore, NEW p \in Procs, NEW l \in Known, NEW m \in Known, NEW f,
         Runs(p, l), Goes(p, m, f), NEW s, NEW r, Touches(s, r), UNCHANGED <<disk, dir>>,
         FileAt(m, f, x, dir)
  PROVE  FilesCore'
<1>1. Moves(p, m, f, file[p]) /\ pc[p] = l
  BY GoesMoves DEF Runs
<1>2. /\ pc[p] # "iget_read" /\ m # "iget_read" /\ pc[p] \notin Makes /\ m \notin Makes
  BY <1>1 DEF Known
<1>3. \A t \in Slots : Remakes(p, m, f, t)
  BY <1>2, RemakesNot
<1> QED
  BY <1>1, <1>2, <1>3, FilesTouch

LEMMA IdleKnown == Idle \subseteq Known /\ "irele" \in Known
BY DEF Idle, Known, Labels, Slotless, Locking, MayLock, Makes

-----------------------------------------------------------------------------
(* One lemma for each step, as before.                                     *)

(* Steps after which the call knows of no file.                            *)
LEMMA FilesIdle ==
  ASSUME TableInv, TableInv', FilesCore, NEW p \in Procs, NEW l \in Known, NEW m \in Idle, NEW f,
         Runs(p, l), Goes(p, m, f), UNCHANGED <<x, disk, dir>>
  PROVE  FilesCore'
<1>1. FileAt(m, f, x, dir) /\ m \in Known
  BY FileIdle, IdleKnown
<1> QED
  BY <1>1, FilesGo

LEMMA FilesNamei ==
  ASSUME TableInv, TableInv', FilesCore, NEW p \in Procs,
         LookupHit(p) \/ LookupBad(p) \/ LookupMiss(p) \/ Relock(p)
  PROVE  FilesCore'
<1> DEFINE l == pc[p]
<1>1. /\ Runs(p, l) /\ l \in {"namei", "relock"} /\ UNCHANGED <<x, disk, dir>>
      /\ \E m \in {"search", "igrab"} : \E f : Goes(p, m, f)
  BY DEF LookupHit, LookupBad, LookupMiss, Relock, Goes, Runs
<1>2. l \in Known /\ {"search", "igrab"} \subseteq Idle
  BY <1>1, IdleKnown DEF Idle
<1> QED
  BY <1>1, <1>2, FilesIdle

LEMMA FilesReturn ==
  ASSUME TableInv, TableInv', FilesCore, NEW p \in Procs,
         SearchFails(p) \/ ChildNone(p) \/ UnlinkDone(p) \/ IallocNone(p) \/ Closei(p)
         \/ (IallocScanned(p) /\ fs.list = <<>>)
  PROVE  FilesCore'
<1>1. /\ Runs(p, pc[p]) /\ Goes(p, "user", NoFrame) /\ UNCHANGED <<x, disk, dir>>
      /\ pc[p] \in {"search", "child", "unlinked", "ialloc_got", "closei", "ialloc_scanned"}
  BY DEF SearchFails, ChildNone, UnlinkDone, IallocNone, Closei, IallocScanned, Goes, Runs, Return
<1>2. pc[p] \in Known /\ "user" \in Idle
  BY <1>1 DEF Idle, Known, Labels, Slotless, MayLock, Locking, Makes
<1> QED
  BY <1>1, <1>2, FilesIdle

LEMMA FilesChildOpen ==
  ASSUME TableInv, TableInv', FilesCore, NEW p \in Procs, ChildOpen(p)
  PROVE  FilesCore'
<1>1. Runs(p, "child") /\ Goes(p, "haveino", fr[p]) /\ UNCHANGED <<x, disk, dir>>
  BY DEF ChildOpen, Goes
<1>2. "child" \in Known /\ "haveino" \in Idle
  BY DEF Idle, Known, Labels, Slotless, MayLock, Locking, Makes
<1> QED
  BY <1>1, <1>2, FilesIdle

LEMMA FilesCall ==
  ASSUME TableInv, TableInv', FilesCore, NEW p \in Procs, Call(p) \/ Write(p)
  PROVE  FilesCore'
<1>1. /\ Runs(p, "user") /\ UNCHANGED <<x, disk, dir>>
      /\ \E m \in {"namei", "ino_rw"} : \E f : Goes(p, m, f)
  BY DEF Call, Write, Goes
<1>2. "user" \in Known /\ {"namei", "ino_rw"} \subseteq Idle
  BY IdleKnown DEF Idle
<1> QED
  BY <1>1, <1>2, FilesIdle

LEMMA FilesClose ==
  ASSUME TableInv, TableInv', FilesCore, NEW p \in Procs, Close(p)
  PROVE  FilesCore'
<1> DEFINE f == SlotFrame("close", file[p], file[p], "closei")
<1>1. /\ Runs(p, "user") /\ Frame(p, f) /\ Goto(p, "irele") /\ file' = [file EXCEPT ![p] = NoSlot]
      /\ UNCHANGED <<x, disk, dir>> /\ file[p] # NoSlot
  BY DEF Close, SlotFrame
<1>2. Moves(p, "irele", f, NoSlot) /\ pc[p] = "user"
  BY <1>1 DEF Moves, Frame, Goto, Runs
<1>3. f.then = "closei"
  <2>1. file[p] \in Slots
    BY <1>1 DEF TableInv, ProcsTyped
  <2> QED
    BY <2>1, SlotFrameFacts DEF Calls, Thens
<1> HIDE DEF f
<1>4. FileAt("irele", f, x, dir)
  BY <1>3, FileIdle DEF Creating
<1>5. \A s \in Slots : Remakes(p, "irele", f, s)
  BY <1>2, RemakesNot DEF Makes
<1> QED
  BY <1>1, <1>2, <1>4, <1>5, FilesQuiet

(* ialloc: no name leads to the file yet.                                  *)
Scans == {"ialloc", "ialloc_loop", "ialloc_bread", "ialloc_scanned"}
LEMMA FilesScan ==
  ASSUME TableInv, TableInv', FilesCore, NEW p \in Procs, NEW l \in Scans, NEW m \in Scans, NEW f,
         Runs(p, l), Goes(p, m, f), UNCHANGED <<x, disk, dir>>, f.name = fr[p].name
  PROVE  FilesCore'
<1>1. FileAt(l, fr[p], x, dir)
  BY FileNow
<1>2. dir[f.name] = 0
  BY <1>1 DEF FileAt, At, Fetching, Ireles, Creating, Scans
<1>3. FileAt(m, f, x, dir)
  BY <1>2 DEF FileAt, Fetching, Makes, Scans
<1>4. l \in Known /\ m \in Known
  BY DEF Known, Labels, Slotless, Makes, Scans
<1> QED
  BY <1>1, <1>3, <1>4, FilesGo

LEMMA FilesIalloc ==
  ASSUME TableInv, TableInv', FilesCore, NEW p \in Procs,
         IallocScan(p) \/ IallocBread(p) \/ IallocBreadError(p) \/ IallocAgain(p)
         \/ (IallocScanned(p) /\ fs.list # <<>>)
         \/ (IallocPop(p) /\ Last(fs.list) \notin Inodes)
  PROVE  FilesCore'
<1>1. Runs(p, pc[p]) /\ pc[p] \in Scans /\ UNCHANGED <<x, disk, dir, file>>
  BY DEF IallocScan, IallocBread, IallocBreadError, IallocAgain, IallocScanned, IallocPop,
     AtLoop, Runs, Scans
<1>2. /\ \E m \in Scans : Goto(p, m)
      /\ \/ fr' = fr
         \/ \E b, k : Frame(p, ScanFrame(fr[p], b, k))
         \/ \E k : Frame(p, [fr[p] EXCEPT !.blk = k])
  BY DEF IallocScan, IallocBread, IallocBreadError, IallocAgain, IallocScanned, IallocPop,
     NextBlock, ScanFrame, Scans
<1>3. \E m \in Scans : \E f : Goes(p, m, f) /\ f.name = fr[p].name
  <2>0. fr[p] \in Frames
    BY DEF TableInv, ProcsTyped
  <2>1. CASE fr' = fr
    BY <1>1, <1>2, <2>1 DEF Goes
  <2>2. ASSUME NEW b, NEW k, Frame(p, ScanFrame(fr[p], b, k))
        PROVE  \E m \in Scans : \E f : Goes(p, m, f) /\ f.name = fr[p].name
    <3>1. ScanFrame(fr[p], b, k).name = fr[p].name
      BY <2>0 DEF ScanFrame, Frames
    <3> QED
      BY <1>1, <1>2, <2>2, <3>1 DEF Goes
  <2>3. ASSUME NEW k, Frame(p, [fr[p] EXCEPT !.blk = k])
        PROVE  \E m \in Scans : \E f : Goes(p, m, f) /\ f.name = fr[p].name
    <3>1. [fr[p] EXCEPT !.blk = k].name = fr[p].name
      BY <2>0 DEF Frames
    <3> QED
      BY <1>1, <1>2, <2>3, <3>1 DEF Goes
  <2> QED
    BY <1>2, <2>1, <2>2, <2>3
<1> QED
  BY <1>1, <1>3, FilesScan

(* iget and its callers.                                                   *)
LEMMA FilesIgetFull ==
  ASSUME TableInv, TableInv', FilesCore, NEW p \in Procs, IgetFull(p)
  PROVE  FilesCore'
<1> DEFINE m == fr[p].back
<1>1. Runs(p, "iget") /\ Goes(p, m, fr[p]) /\ UNCHANGED <<x, disk, dir>>
  BY DEF IgetFull, Goes
<1>2. /\ FileAt("iget", fr[p], x, dir) /\ fr[p] \in Frames
      /\ Placed("iget", fr[p], file[p], load.slots)
  BY <1>1, FileNow, RunsFacts
<1>3. m \in {"child", "ialloc_got"} /\ m = fr[p].back /\ fr[p].slot = NoSlot
  BY <1>2 DEF Placed, Frames, Backs, Fetching, Slotless
<1> HIDE DEF m
<1>4. FileAt(m, fr[p], x, dir)
  BY <1>2, <1>3 DEF FileAt, At, Fetching, Ireles, Creating, Makes
<1>5. "iget" \in Known /\ m \in Known
  BY <1>3 DEF Known, Labels, Slotless, MayLock, Locking, Makes
<1> QED
  BY <1>1, <1>4, <1>5, FilesGo

LEMMA FilesSearchFound ==
  ASSUME TableInv, TableInv', FilesCore, NEW p \in Procs, SearchFound(p)
  PROVE  FilesCore'
<1> DEFINE f == [fr[p] EXCEPT !.ino = dir[fr[p].name], !.back = "child"]
<1>1. Runs(p, "search") /\ Goes(p, "iget", f) /\ UNCHANGED <<x, disk, dir>>
  BY DEF SearchFound, Goes
<1>2. fr[p] \in Frames
  BY <1>1, RunsFacts
<1>3. f.ino = dir[f.name] /\ f.back = "child"
  BY <1>2 DEF Frames
<1> HIDE DEF f
<1>4. FileAt("iget", f, x, dir)
  BY <1>3 DEF FileAt, At, Fetching, Ireles, Creating, Makes
<1>5. "iget" \in Known /\ "search" \in Known
  BY DEF Known, Labels, Slotless, MayLock, Locking, Makes
<1> QED
  BY <1>1, <1>4, <1>5, FilesGo

LEMMA FilesSearchCreate ==
  ASSUME TableInv, TableInv', FilesCore, NEW p \in Procs, SearchCreate(p)
  PROVE  FilesCore'
<1>1. /\ Runs(p, "search") /\ Goes(p, "ialloc", fr[p]) /\ UNCHANGED <<x, disk, dir>>
      /\ dir[fr[p].name] = 0
  BY DEF SearchCreate, Goes
<1>2. FileAt("ialloc", fr[p], x, dir)
  BY <1>1 DEF FileAt, At, Fetching, Ireles, Creating, Makes
<1>3. "ialloc" \in Known /\ "search" \in Known
  BY DEF Known, Labels, Slotless, MayLock, Locking, Makes
<1> QED
  BY <1>1, <1>2, <1>3, FilesGo

LEMMA FilesChildUnlink ==
  ASSUME TableInv, TableInv', FilesCore, NEW p \in Procs, ChildUnlink(p)
  PROVE  FilesCore'
<1>1. Runs(p, "child") /\ Goes(p, "dirremove", fr[p]) /\ UNCHANGED <<x, disk, dir>>
  BY DEF ChildUnlink, Goes
<1>2. FileAt("child", fr[p], x, dir)
  BY <1>1, FileNow
<1>3. FileAt("dirremove", fr[p], x, dir)
  BY <1>2 DEF FileAt, At, Fetching, Ireles, Creating, Makes
<1>4. "child" \in Known /\ "dirremove" \in Known
  BY DEF Known, Labels, Slotless, MayLock, Locking, Makes
<1> QED
  BY <1>1, <1>3, <1>4, FilesGo

LEMMA FilesIallocGet ==
  ASSUME TableInv, TableInv', FilesCore, NEW p \in Procs, IallocPop(p), Last(fs.list) \in Inodes
  PROVE  FilesCore'
<1> DEFINE f == [fr[p] EXCEPT !.ino = Last(fs.list), !.back = "ialloc_got"]
<1>1. /\ Runs(p, pc[p]) /\ pc[p] \in {"ialloc", "ialloc_loop"}
      /\ Goes(p, "iget", f) /\ UNCHANGED <<x, disk, dir>>
  BY DEF IallocPop, AtLoop, Runs, Goes
<1>2. FileAt(pc[p], fr[p], x, dir) /\ fr[p] \in Frames
  BY <1>1, FileNow, RunsFacts
<1>3. f.name = fr[p].name /\ f.back = "ialloc_got"
  BY <1>2 DEF Frames
<1> HIDE DEF f
<1>4. FileAt("iget", f, x, dir)
  BY <1>1, <1>2, <1>3 DEF FileAt, At, Fetching, Ireles, Creating, Makes
<1>5. "iget" \in Known /\ pc[p] \in Known
  BY <1>1 DEF Known, Labels, Slotless, MayLock, Locking, Makes
<1> QED
  BY <1>1, <1>4, <1>5, FilesGo

(* What leaves the file as it is.                                          *)
LEMMA SameEdits ==
  ASSUME NEW r \in Records, NEW p, NEW k, NEW b \in BOOLEAN
  PROVE  /\ SameFile(r, [r EXCEPT !.lock = p]) /\ SameFile(r, [r EXCEPT !.want = b])
         /\ SameFile(r, [r EXCEPT !.lock = p, !.want = b])
         /\ SameFile(r, [r EXCEPT !.count = k])
         /\ SameFile(r, [r EXCEPT !.lock = p, !.count = k])
BY DEF SameFile, Same, Records

LEMMA SameUnlocked == \A r \in Records : SameFile(r, Unlocked(r))
BY SameEdits DEF Unlocked

LEMMA SameGrabbed ==
  ASSUME NEW p \in Procs, NEW s \in Slots, TableInv
  PROVE  /\ SameFile(x[s], Grabbed(p, x[s])) /\ Grabbed(p, x[s]).count > 0
         /\ Grabbed(p, x[s]) \in Records
<1>1. x[s] \in Records
  BY DEF TableInv, TableTyped
<1>2. Grabbed(p, x[s]) = [x[s] EXCEPT !.lock = p, !.count = x[s].count + 1]
  BY DEF Grabbed
<1>3. SameFile(x[s], Grabbed(p, x[s]))
  <2> DEFINE k == x[s].count + 1
  <2>1. Grabbed(p, x[s]) = [x[s] EXCEPT !.lock = p, !.count = k]
    BY <1>2
  <2> HIDE DEF k
  <2>2. SameFile(x[s], [x[s] EXCEPT !.lock = p, !.count = k])
    BY <1>1, SameEdits
  <2> QED
    BY <2>1, <2>2
<1>4. Grabbed(p, x[s]) \in Records /\ Grabbed(p, x[s]).count = x[s].count + 1
  BY <1>1, GrabEdit
<1> QED
  BY <1>1, <1>3, <1>4 DEF Records

LEMMA SameTwice ==
  ASSUME NEW r, NEW u, NEW v, SameFile(r, u), SameFile(u, v)
  PROVE  SameFile(r, v)
BY DEF SameFile, Same

LEMMA FilesWait ==
  ASSUME TableInv, TableInv', FilesCore, NEW p \in Procs, NEW l \in Waits, Runs(p, l),
         NEW s \in Slots, LockWait(p, s)
  PROVE  FilesCore'
<1> DEFINE r == [x[s] EXCEPT !.want = TRUE]
<1>1. x[s] \in Records /\ x[s].count >= 1
  BY LockedCounted DEF LockWait, TableInv, TableTyped
<1>2. SameFile(x[s], r)
  BY <1>1, SameEdits
<1>3. r.count > 0
  BY <1>1 DEF Records
<1>4. x' = [x EXCEPT ![s] = r] /\ UNCHANGED <<load, disk, dir, file, pc, fr>>
  BY DEF LockWait
<1> HIDE DEF r
<1>5. Touches(s, r)
  BY <1>2, <1>3, <1>4 DEF Touches
<1>6. Moves(p, l, fr[p], file[p]) /\ pc[p] = l
  <2>1. /\ pc[p] = l /\ pc = [pc EXCEPT ![p] = pc[p]] /\ fr = [fr EXCEPT ![p] = fr[p]]
        /\ file = [file EXCEPT ![p] = file[p]]
    BY DEF Runs, TableInv, ProcsTyped
  <2> QED
    BY <1>4, <2>1 DEF Moves
<1>7. /\ l # "iget_read" /\ \A t \in Slots : Remakes(p, l, fr[p], t)
  BY <1>6, RemakesNot DEF Waits, Makes
<1>8. FileAt(l, fr[p], x, dir)
  BY FileNow
<1> QED
  BY <1>4, <1>5, <1>6, <1>7, <1>8, FilesTouch

LEMMA FilesWaits ==
  ASSUME TableInv, TableInv', FilesCore, NEW p \in Procs,
         IgetWait(p) \/ IgrabWait(p) \/ InoRwWait(p)
  PROVE  FilesCore'
<1>1. CASE IgetWait(p)
  <2>1. PICK s \in InCore(fr[p].ino) : Runs(p, "iget") /\ LockWait(p, s)
    BY <1>1 DEF IgetWait
  <2> QED
    BY <2>1, FilesWait DEF InCore, Waits
<1>2. CASE IgrabWait(p)
  <2>1. Runs(p, "igrab") /\ LockWait(p, fr[p].seen)
    BY <1>2 DEF IgrabWait
  <2>2. Placed("igrab", fr[p], file[p], load.slots) /\ load.slots \subseteq Slots
    BY <2>1, RunsFacts
  <2>3. fr[p].seen \in Slots
    BY <2>2 DEF Placed
  <2> QED
    BY <2>1, <2>3, FilesWait DEF Waits
<1>3. CASE InoRwWait(p)
  <2>1. Runs(p, "ino_rw") /\ LockWait(p, file[p])
    BY <1>3 DEF InoRwWait
  <2>2. Placed("ino_rw", fr[p], file[p], load.slots) /\ load.slots \subseteq Slots
    BY <2>1, RunsFacts
  <2>3. file[p] \in Slots
    BY <2>2 DEF Placed
  <2> QED
    BY <2>1, <2>3, FilesWait DEF Waits
<1> QED
  BY <1>1, <1>2, <1>3

LEMMA FilesGiveUp ==
  ASSUME TableInv, TableInv', FilesCore, NEW p \in Procs, RelockWait(p) \/ IallocWait(p)
  PROVE  FilesCore'
<1>1. /\ Runs(p, pc[p]) /\ pc[p] \in {"relock", "ialloc"}
      /\ UNCHANGED <<load, x, disk, dir, file, pc, fr>>
  BY DEF RelockWait, IallocWait, GiveUpCpu, Runs
<1>2. Moves(p, pc[p], fr[p], file[p])
  <2>1. /\ pc = [pc EXCEPT ![p] = pc[p]] /\ fr = [fr EXCEPT ![p] = fr[p]]
        /\ file = [file EXCEPT ![p] = file[p]]
    BY DEF TableInv, ProcsTyped
  <2> QED
    BY <1>1, <2>1 DEF Moves
<1>3. pc[p] # "iget_read" /\ \A t \in Slots : Remakes(p, pc[p], fr[p], t)
  BY <1>1, RemakesNot DEF Makes
<1>4. FileAt(pc[p], fr[p], x, dir)
  BY <1>1, FileNow
<1> QED
  BY <1>1, <1>2, <1>3, <1>4, FilesQuiet

LEMMA FilesIgetHit ==
  ASSUME TableInv, TableInv', FilesCore, NEW p \in Procs, IgetHit(p)
  PROVE  FilesCore'
<1>1. PICK s \in InCore(fr[p].ino) :
        /\ Runs(p, "iget") /\ Update(s, Grabbed(p, x[s]))
        /\ Frame(p, [fr[p] EXCEPT !.slot = s]) /\ Goto(p, fr[p].back)
        /\ UNCHANGED <<disk, dir, file>>
  BY DEF IgetHit
<1> DEFINE f == [fr[p] EXCEPT !.slot = s]
           m == fr[p].back
<1>2. s \in Slots /\ x[s].ino = fr[p].ino
  BY DEF InCore
<1>3. Goes(p, m, f) /\ Touches(s, Grabbed(p, x[s]))
  BY <1>1, <1>2, SameGrabbed DEF Goes, Touches, Update
<1>4. /\ FileAt("iget", fr[p], x, dir) /\ fr[p] \in Frames
      /\ Placed("iget", fr[p], file[p], load.slots)
  BY <1>1, FileNow, RunsFacts
<1>5. m \in {"child", "ialloc_got"} /\ m = fr[p].back /\ fr[p].ino # 0
  BY <1>4 DEF Placed, Frames, Backs, Fetching
<1>6. f.slot = s /\ f.name = fr[p].name /\ f.ino = fr[p].ino
  BY <1>4 DEF Frames
<1> HIDE DEF m, f
<1>7. FileAt(m, f, x, dir)
  BY <1>2, <1>4, <1>5, <1>6 DEF FileAt, At, Fetching, Ireles, Creating, Makes
<1>8. "iget" \in Known /\ m \in Known
  BY <1>5 DEF Known, Labels, Slotless, MayLock, Locking, Makes
<1> QED
  BY <1>1, <1>3, <1>7, <1>8, FilesGoTouch

LEMMA FilesIgrab ==
  ASSUME TableInv, TableInv', FilesCore, NEW p \in Procs, Igrab(p)
  PROVE  FilesCore'
<1> DEFINE s == fr[p].seen
           f == [fr[p] EXCEPT !.slot = s, !.seen = NoSlot]
           u == Unlocked(Grabbed(p, x[s]))
<1>1. Runs(p, "igrab") /\ UNCHANGED <<disk, dir, file>>
  BY DEF Igrab
<1>2. Placed("igrab", fr[p], file[p], load.slots) /\ load.slots \subseteq Slots /\ fr[p] \in Frames
  BY <1>1, RunsFacts
<1>3. s \in Slots
  BY <1>2 DEF Placed
<1>4. "igrab" \in Known /\ "irele" \in Known /\ "haveino" \in Known /\ "haveino" \in Idle
  BY IdleKnown DEF Idle
<1>5. CASE Update(s, Grabbed(p, x[s])) /\ Frame(p, f) /\ Goto(p, "haveino")
  <2>1. Goes(p, "haveino", f) /\ Touches(s, Grabbed(p, x[s]))
    BY <1>1, <1>3, <1>5, SameGrabbed DEF Goes, Touches, Update
  <2>2. FileAt("haveino", f, x, dir)
    BY <1>4, FileIdle
  <2> QED
    BY <1>1, <1>4, <2>1, <2>2, FilesGoTouch
<1>6. CASE Iput(p, s, Grabbed(p, x[s])) /\ Frame(p, [f EXCEPT !.then = "relock"])
  <2> DEFINE g == [f EXCEPT !.then = "relock"]
  <2>1. SameFile(x[s], u) /\ u.count > 0
    <3>1. /\ SameFile(x[s], Grabbed(p, x[s])) /\ Grabbed(p, x[s]).count > 0
          /\ Grabbed(p, x[s]) \in Records
      BY <1>3, SameGrabbed
    <3>2. SameFile(Grabbed(p, x[s]), u) /\ u.count = Grabbed(p, x[s]).count
      BY <3>1, SameUnlocked, UnlockEdit
    <3> QED
      BY <3>1, <3>2, SameTwice
  <2>2. Goes(p, "irele", g) /\ x' = [x EXCEPT ![s] = u]
    BY <1>1, <1>6 DEF Goes, Iput, Release
  <2>3. g.then = "relock"
    BY <1>2 DEF Frames
  <2> HIDE DEF g, u
  <2>4. FileAt("irele", g, x, dir)
    BY <2>3, FileIdle DEF Creating
  <2>5. Touches(s, u)
    BY <1>3, <2>1, <2>2 DEF Touches
  <2> QED
    BY <1>1, <1>4, <2>2, <2>4, <2>5, FilesGoTouch
<1> QED
  BY <1>5, <1>6 DEF Igrab

LEMMA FilesSync ==
  ASSUME TableInv, TableInv', FilesCore, NEW p \in Procs, Sync(p)
  PROVE  FilesCore'
<1>1. PICK s \in Slots :
        /\ Runs(p, "user") /\ Update(s, Grabbed(p, x[s])) /\ Frame(p, SyncFrame(s))
        /\ Goto(p, "sync_iupdat") /\ UNCHANGED <<disk, dir, file>>
  BY DEF Sync, SyncFrame
<1>2. Goes(p, "sync_iupdat", SyncFrame(s)) /\ Touches(s, Grabbed(p, x[s]))
  BY <1>1, SameGrabbed DEF Goes, Touches, Update
<1>3. "sync_iupdat" \in Known /\ "user" \in Known /\ "sync_iupdat" \in Idle
  BY IdleKnown DEF Idle
<1>4. FileAt("sync_iupdat", SyncFrame(s), x, dir)
  BY <1>3, FileIdle
<1> QED
  BY <1>1, <1>2, <1>3, <1>4, FilesGoTouch

(* Steps that unlock or count the inode of a call, and leave its file.     *)
LEMMA FilesIput ==
  ASSUME TableInv, TableInv', FilesCore, NEW p \in Procs, NEW l \in Known, Runs(p, l),
         l \in Locking \cup MayLock, fr[p].slot # NoSlot, NEW f, Frame(p, f),
         Iput(p, fr[p].slot, x[fr[p].slot]), UNCHANGED <<disk, dir, file>>,
         f.then \notin Creating \/ dir[f.name] = 0
  PROVE  FilesCore'
<1> DEFINE s == fr[p].slot
           u == Unlocked(x[s])
<1>1. s \in SlotsOf(p)
  <2>1. pc[p] = l
    BY DEF Runs
  <2> QED
    BY <2>1, HasLocked
<1>2. s \in Slots /\ x[s] \in Records /\ x[s].count >= 1
  BY <1>1, OwnSlot, LockedCounted
<1>3. SameFile(x[s], u) /\ u.count = x[s].count
  BY <1>2, SameUnlocked, UnlockEdit
<1>4. Goes(p, "irele", f) /\ x' = [x EXCEPT ![s] = u]
  BY DEF Goes, Iput, Release
<1> HIDE DEF s, u
<1>5. Touches(s, u)
  BY <1>2, <1>3, <1>4 DEF Touches, Records
<1>6. FileAt("irele", f, x, dir)
  BY DEF FileAt, At, Fetching, Ireles, Makes
<1> QED
  BY <1>4, <1>5, <1>6, FilesGoTouch, IdleKnown

LEMMA FilesRefused ==
  ASSUME TableInv, TableInv', FilesCore, NEW p \in Procs,
         LookupRefused(p) \/ UnlinkRefused(p) \/ OpenRefused(p) \/ IallocTaken(p)
  PROVE  FilesCore'
<1>1. /\ Runs(p, pc[p]) /\ pc[p] \in {"child", "haveino", "ialloc_got"}
      /\ Iput(p, fr[p].slot, x[fr[p].slot]) /\ UNCHANGED <<disk, dir, file>>
  BY DEF LookupRefused, UnlinkRefused, OpenRefused, IallocTaken, Runs, Slot
<1>2. pc[p] \in Known /\ pc[p] \in Locking \cup MayLock
  BY <1>1 DEF Known, Labels, Slotless, MayLock, Locking, Makes
<1>3. fr[p].slot # NoSlot
  <2>1. CASE pc[p] = "haveino"
    BY <2>1, PlacedIn DEF Locking
  <2>2. CASE pc[p] # "haveino"
    BY <2>2 DEF LookupRefused, UnlinkRefused, OpenRefused, IallocTaken, Runs, Slot
  <2> QED
    BY <2>1, <2>2
<1>4. fr[p] \in Frames /\ FileAt(pc[p], fr[p], x, dir)
  BY <1>1, RunsFacts, FileNow
<1>5. CASE LookupRefused(p) \/ UnlinkRefused(p) \/ OpenRefused(p)
  <2>1. PICK t \in {"unlinked", "user"} : Frame(p, [fr[p] EXCEPT !.then = t])
    BY <1>5 DEF LookupRefused, UnlinkRefused, OpenRefused
  <2>2. [fr[p] EXCEPT !.then = t].then \notin Creating
    BY <1>4 DEF Frames, Creating
  <2> QED
    BY <1>1, <1>2, <1>3, <2>1, <2>2, FilesIput
<1>6. CASE IallocTaken(p)
  <2>1. Frame(p, [fr[p] EXCEPT !.then = "ialloc_loop"]) /\ pc[p] = "ialloc_got"
    BY <1>6 DEF IallocTaken, Runs
  <2>2. dir[fr[p].name] = 0
    BY <1>4, <2>1 DEF FileAt, At, Fetching, Ireles, Creating
  <2>3. [fr[p] EXCEPT !.then = "ialloc_loop"].name = fr[p].name
    BY <1>4 DEF Frames
  <2> QED
    BY <1>1, <1>2, <1>3, <2>1, <2>2, <2>3, FilesIput
<1> QED
  BY <1>5, <1>6

LEMMA FilesDirremoveNot ==
  ASSUME TableInv, TableInv', FilesCore, NEW p \in Procs, Runs(p, "dirremove"),
         Iput(p, fr[p].slot, x[fr[p].slot]), Frame(p, [fr[p] EXCEPT !.then = "unlinked"]),
         UNCHANGED <<disk, dir, file>>
  PROVE  FilesCore'
<1>1. "dirremove" \in Known /\ "dirremove" \in Locking
  BY DEF Known, Labels, Slotless, MayLock, Locking, Makes
<1>2. fr[p].slot # NoSlot
  BY <1>1, PlacedIn DEF Runs
<1>3. [fr[p] EXCEPT !.then = "unlinked"].then \notin Creating
  <2>1. fr[p] \in Frames
    BY RunsFacts
  <2> QED
    BY <2>1 DEF Frames, Creating
<1> QED
  BY <1>1, <1>2, <1>3, FilesIput

LEMMA FilesHaveino ==
  ASSUME TableInv, TableInv', FilesCore, NEW p \in Procs, Haveino(p)
  PROVE  FilesCore'
<1> DEFINE s == fr[p].slot
           u == Unlocked(x[s])
<1>1. /\ Runs(p, "haveino") /\ x' = [x EXCEPT ![s] = u] /\ file' = [file EXCEPT ![p] = s]
      /\ Frame(p, NoFrame) /\ Goto(p, "user") /\ UNCHANGED <<disk, dir>>
  BY DEF Haveino, Release, Return, Slot
<1>2. s \in SlotsOf(p) /\ pc[p] = "haveino"
  BY <1>1, PlacedIn DEF Runs, Locking
<1>3. s \in Slots /\ x[s] \in Records /\ x[s].count >= 1
  BY <1>2, OwnSlot, LockedCounted
<1>4. SameFile(x[s], u) /\ u.count = x[s].count
  BY <1>3, SameUnlocked, UnlockEdit
<1>5. Moves(p, "user", NoFrame, s)
  BY <1>1 DEF Moves, Goto, Frame
<1> HIDE DEF s, u
<1>6. Touches(s, u)
  BY <1>1, <1>3, <1>4 DEF Touches, Records
<1>7. FileAt("user", NoFrame, x, dir)
  BY FileIdle DEF Idle
<1>8. \A t \in Slots : Remakes(p, "user", NoFrame, t)
  BY <1>2, RemakesNot DEF Makes
<1> QED
  BY <1>1, <1>2, <1>5, <1>6, <1>7, <1>8, FilesTouch

LEMMA FilesInoRw ==
  ASSUME TableInv, TableInv', FilesCore, NEW p \in Procs, InoRw(p) \/ Rwip(p)
  PROVE  FilesCore'
<1> DEFINE s == file[p]
<1>1. CASE InoRw(p)
  <2> DEFINE r == [x[s] EXCEPT !.lock = p]
  <2>1. /\ Runs(p, "ino_rw") /\ Goes(p, "rwip", fr[p]) /\ x' = [x EXCEPT ![s] = r]
        /\ UNCHANGED <<disk, dir>>
    BY <1>1 DEF InoRw, Update, Goes
  <2>2. Placed("ino_rw", fr[p], file[p], load.slots) /\ load.slots \subseteq Slots
    BY <2>1, RunsFacts
  <2>3. s \in Slots
    BY <2>2 DEF Placed
  <2>4. x[s] \in Records /\ x[s].count = Refs(s) /\ ProcsTyped
    BY <2>3 DEF TableInv, TableTyped, RefsExact
  <2>5. SameFile(x[s], r) /\ r.count = x[s].count
    BY <2>4, SameEdits DEF Records
  <2>6. r.count > 0
    <3>1. Refs(s) >= 1
      BY <2>4, RefsSome
    <3>2. x[s].count \in Nat
      BY <2>4 DEF Records
    <3> HIDE DEF r, s
    <3> QED
      BY <2>4, <2>5, <3>1, <3>2
  <2> HIDE DEF r
  <2>7. Touches(s, r)
    BY <2>1, <2>3, <2>5, <2>6 DEF Touches
  <2>8. "ino_rw" \in Known /\ "rwip" \in Known /\ FileAt("rwip", fr[p], x, dir)
    BY FileIdle, IdleKnown DEF Idle
  <2> QED
    BY <2>1, <2>7, <2>8, FilesGoTouch
<1>2. CASE Rwip(p)
  <2> DEFINE d == [x[s] EXCEPT !.dirty = TRUE]
             u == Unlocked(d)
  <2>1. /\ Runs(p, "rwip") /\ Goes(p, "user", fr[p]) /\ x' = [x EXCEPT ![s] = u]
        /\ UNCHANGED <<disk, dir>>
    BY <1>2 DEF Rwip, Release, Goes
  <2>2. SlotsOf(p) = HeldSlots("rwip", fr[p], file[p])
    BY <2>1, RunsFacts
  <2>3. s \in SlotsOf(p)
    BY <2>2 DEF HeldSlots
  <2>4. s \in Slots /\ x[s] \in Records /\ x[s].count >= 1
    BY <2>3, OwnSlot, LockedCounted
  <2>5. d \in Records /\ d.count = x[s].count
    BY <2>4, DirtyEdit
  <2>6. SameFile(x[s], d)
    BY <2>4 DEF SameFile, Same, Records
  <2> HIDE DEF d
  <2>7. SameFile(d, u) /\ u.count = d.count
    BY <2>5, SameUnlocked, UnlockEdit
  <2> HIDE DEF u, s
  <2>8. SameFile(x[s], u)
    BY <2>6, <2>7, SameTwice
  <2>9. Touches(s, u)
    BY <2>1, <2>4, <2>5, <2>7, <2>8 DEF Touches, Records
  <2>10. "user" \in Known /\ "rwip" \in Known /\ FileAt("user", fr[p], x, dir)
    BY FileIdle, IdleKnown DEF Idle
  <2> QED
    BY <2>1, <2>9, <2>10, FilesGoTouch
<1> QED
  BY <1>1, <1>2

(* irele.                                                                  *)
LEMMA FileDropped ==
  ASSUME TableInv, FilesCore, NEW p \in Procs, NEW l \in Ireles, Runs(p, l)
  PROVE  /\ FileAt(fr[p].then, DropFrame(fr[p]), x, dir) /\ fr[p].then \in Known
         /\ fr[p].slot \in Slots /\ x[fr[p].slot] \in Records /\ fr[p].slot # NoSlot
<1> DEFINE m == fr[p].then
           f == DropFrame(fr[p])
<1>1. /\ FileAt(l, fr[p], x, dir) /\ fr[p] \in Frames
      /\ Placed(l, fr[p], file[p], load.slots) /\ load.slots \subseteq Slots
  BY FileNow, RunsFacts
<1>2. m \in Thens /\ (m \in Creating => dir[fr[p].name] = 0)
  BY <1>1 DEF Frames, FileAt, At
<1>3. f.slot = NoSlot /\ f.name = fr[p].name
  BY <1>1 DEF DropFrame, Frames
<1> HIDE DEF m, f
<1>4. FileAt(m, f, x, dir) /\ m \in Known
  BY <1>2, <1>3 DEF FileAt, At, Thens, Backs, Fetching, Ireles, Makes,
     Known, Labels, Slotless, MayLock, Locking
<1>5. fr[p].slot \in Slots
  BY <1>1 DEF Placed, Ireles, Locking
<1>6. x[fr[p].slot] \in Records
  BY <1>5 DEF TableInv, TableTyped
<1> QED
  BY <1>4, <1>5, <1>6, InodeAssumption DEF m, f

LEMMA FilesIreleShared ==
  ASSUME TableInv, TableInv', FilesCore, NEW p \in Procs, IreleShared(p)
  PROVE  FilesCore'
<1> DEFINE s == fr[p].slot
           k == x[s].count - 1
           r == [x[s] EXCEPT !.count = k]
           m == fr[p].then
           f == DropFrame(fr[p])
<1>1. /\ Runs(p, "irele") /\ x[s].count > 1 /\ x' = [x EXCEPT ![s] = r]
      /\ Goes(p, m, f) /\ UNCHANGED <<disk, dir>>
  BY DEF IreleShared, Update, Dropped, Goes, DropFrame, Slot
<1>2. FileAt(m, f, x, dir) /\ m \in Known /\ s \in Slots /\ x[s] \in Records /\ "irele" \in Known
  BY <1>1, FileDropped, IdleKnown DEF Ireles
<1>3. k > 0
  BY <1>1, <1>2 DEF Records
<1> HIDE DEF k
<1>4. SameFile(x[s], r) /\ r.count = k
  BY <1>2, SameEdits DEF Records
<1> HIDE DEF r, s, m, f
<1>5. Touches(s, r)
  BY <1>1, <1>2, <1>3, <1>4 DEF Touches
<1> QED
  BY <1>1, <1>2, <1>5, FilesGoTouch

(* Nobody else works on the slot of the last reference.                    *)
LEMMA LoneRead ==
  ASSUME TableInv, NEW p \in Procs, NEW s \in Slots, fr[p].slot = s, x[s].count = 1,
         pc[p] # "iget_read"
  PROVE  Read(s) <=> x[s].ino # 0
<1>1. ASSUME NEW q \in Procs, pc[q] = "iget_read", fr[q].slot = s PROVE FALSE
  <2>1. ProcsTyped /\ x[s].count = Refs(s)
    BY DEF TableInv, RefsExact
  <2>2. Refs(s) >= 2
    BY <1>1, <2>1, RefsSome
  <2> QED
    BY <2>1, <2>2
<1> QED
  BY <1>1 DEF Read

(* The disk after inode x[s] has been written.                             *)
Stores(s) ==
  /\ \A i \in Inodes : i # x[s].ino => disk'[i] = disk[i]
  /\ x[s].ino # 0 => Same(disk'[x[s].ino], x[s])
LEMMA StoresWritten ==
  ASSUME TableInv, NEW s \in Slots, disk' = Written(s)
  PROVE  Stores(s)
<1>1. x[s].ino \in 0 .. NINO
  BY DEF TableInv, TableTyped, Records
<1>2. x[s].ino # 0 => x[s].ino \in Inodes
  BY <1>1, InodeAssumption DEF Inodes
<1> QED
  BY <1>2 DEF Stores, Written, Same

LEMMA IupdatSound ==
  ASSUME DiskSound, NEW s, NEW u \in Iupdat(s)
  PROVE  u.disk = Written(s) /\ u.dirty = FALSE
BY DEF DiskSound, Iupdat

LEMMA StoresOthers ==
  ASSUME TableInv, FilesCore, NEW s \in Slots, Stores(s), Read(s) <=> x[s].ino # 0
  PROVE  /\ \A i \in Inodes : Away(i) => disk'[i] = disk[i]
         /\ \A t \in Slots : t # s /\ Read(t) /\ ~ x[t].dirty => Same(disk'[x[t].ino], x[t])
<1>1. ASSUME NEW i \in Inodes, Away(i) PROVE disk'[i] = disk[i]
  <2>1. i # 0
    BY DEF Inodes
  <2>2. i # x[s].ino
    BY <1>1, <2>1 DEF Away
  <2> QED
    BY <2>2 DEF Stores
<1>2. ASSUME NEW t \in Slots, t # s, Read(t), ~ x[t].dirty PROVE Same(disk'[x[t].ino], x[t])
  <2>1. x[t].ino # 0 /\ x[t].ino # x[s].ino
    BY <1>2 DEF Read, TableInv, InodeOnce
  <2>2. x[t].ino \in Inodes
    BY <2>1, InodeAssumption DEF TableInv, TableTyped, Records, Inodes
  <2>3. Same(disk[x[t].ino], x[t])
    BY <1>2 DEF FilesCore, CleanOK
  <2> QED
    BY <2>1, <2>2, <2>3 DEF Stores, Same
<1> QED
  BY <1>1, <1>2

(* The last reference goes: the inode is on the disk as it is in core, and *)
(* it has a link or is free.                                               *)
LEMMA FilesLast ==
  ASSUME TableInv, TableInv', FilesCore, NEW p \in Procs, NEW l \in {"irele", "irele_iupdat"},
         Runs(p, l), LastGone(p), x[fr[p].slot].count = 1, UNCHANGED <<dir, file>>,
         Stores(fr[p].slot), ~ x[fr[p].slot].mode \/ x[fr[p].slot].nlink > 0
  PROVE  FilesCore'
<1> DEFINE s == fr[p].slot
           r == Unlocked(LastRecord(x[s]))
           m == fr[p].then
           f == DropFrame(fr[p])
<1>1. x' = [x EXCEPT ![s] = r] /\ Goes(p, m, f)
  BY DEF LastGone, Release, Dropped, Goes, LastRecord, DropFrame, Slot
<1>2. FileAt(m, f, x, dir) /\ m \in Known /\ s \in Slots /\ x[s] \in Records
  BY FileDropped DEF Ireles
<1>3. r.ino = x[s].ino /\ Same(r, x[s]) /\ ~ r.dirty
  <2> DEFINE k == x[s].count - 1
             b == FALSE
             d == [x[s] EXCEPT !.dirty = b, !.count = k]
  <2>1. k \in Nat /\ b \in BOOLEAN /\ ~ b
    OBVIOUS
  <2>2. LastRecord(x[s]) = d
    BY DEF LastRecord
  <2> HIDE DEF k, b
  <2>3. d \in Records /\ d.ino = x[s].ino /\ d.mode = x[s].mode /\ d.nlink = x[s].nlink
          /\ d.dirty = b
    BY <1>2, <2>1 DEF Records
  <2> HIDE DEF d
  <2>4. r.ino = d.ino /\ r.mode = d.mode /\ r.nlink = d.nlink /\ r.dirty = d.dirty
    BY <2>2, <2>3 DEF Unlocked, Records
  <2> QED
    BY <2>1, <2>3, <2>4 DEF Same
<1>4. /\ x'[s] = r /\ (\A t \in Slots : t # s => x'[t] = x[t])
  BY <1>1, <1>2 DEF TableInv, TableTyped
<1>5. Moves(p, m, f, file[p]) /\ pc[p] = l
  BY <1>1, GoesMoves DEF Runs
<1>6. /\ pc[p] # "iget_read" /\ m # "iget_read" /\ pc[p] \notin Makes /\ m \notin Makes
  BY <1>2, <1>5 DEF Known, Makes
<1>7. (Read(s) <=> x[s].ino # 0) /\ ~ Making(s)
  BY <1>2, <1>6, LoneRead, LoneMaking
<1>8. /\ \A i \in Inodes : Away(i) => disk'[i] = disk[i]
      /\ \A t \in Slots : t # s /\ Read(t) /\ ~ x[t].dirty => Same(disk'[x[t].ino], x[t])
  BY <1>2, <1>7, StoresOthers
<1>9. Stores(s) /\ (~ x[s].mode \/ x[s].nlink > 0)
  OBVIOUS
<1> HIDE DEF s, r, m, f
<1>10. ASSUME NEW t \in Slots PROVE Keeps(t)
  <2>1. /\ x[t].count = 0 => ~ x[t].dirty
        /\ Read(t) /\ x[t].mode /\ ~ NamedIn(dir, x[t].ino) =>
             x[t].count > 0 /\ (x[t].nlink > 0 => Making(t))
    BY DEF FilesCore, CleanOK, CoreOK
  <2>2. CASE t = s
    <3>1. Read(s) => Same(disk'[x[s].ino], x[s])
      BY <1>7, <1>9 DEF Stores
    <3>2. ~ (Read(s) /\ x[s].mode /\ ~ NamedIn(dir, x[s].ino))
      BY <1>7, <1>9, <2>1, <2>2
    <3> QED
      BY <1>3, <1>4, <2>2, <3>1, <3>2 DEF Keeps
  <2>3. CASE t # s
    BY <1>4, <1>8, <2>1, <2>3 DEF Keeps, Same
  <2> QED
    BY <2>2, <2>3
<1>11. \A t \in Slots : Remakes(p, m, f, t)
  BY <1>6, RemakesNot
<1> QED
  BY <1>2, <1>5, <1>6, <1>8, <1>10, <1>11, FilesSame

LEMMA FilesIreleLast ==
  ASSUME TableInv, TableInv', FilesCore, NEW p \in Procs, IreleLast(p)
  PROVE  FilesCore'
<1> DEFINE s == fr[p].slot
<1>1. Runs(p, "irele") /\ x[s].count = 1 /\ UNCHANGED <<disk, dir, file>>
  BY DEF IreleLast, Slot
<1>2. s \in Slots /\ x[s] \in Records /\ pc[p] = "irele"
  BY <1>1, FileDropped DEF Ireles, Runs
<1>3. CASE Unlinked(x[s]) \/ x[s].dirty
  <2> DEFINE r == [x[s] EXCEPT !.lock = p]
             m == IF Unlinked(x[s]) THEN "itrunc" ELSE "irele_iupdat"
  <2>1. x' = [x EXCEPT ![s] = r] /\ Goes(p, m, fr[p])
    BY <1>1, <1>3 DEF IreleLast, Update, Goes, Slot
  <2>2. SameFile(x[s], r) /\ r.count = 1
    BY <1>1, <1>2, SameEdits DEF Records
  <2> HIDE DEF r
  <2>3. Touches(s, r)
    BY <1>2, <2>1, <2>2 DEF Touches
  <2>4. FileAt("irele", fr[p], x, dir)
    BY <1>1, FileNow
  <2>5. /\ m \in {"itrunc", "irele_iupdat"} /\ (m = "itrunc" => x[s].nlink <= 0)
        /\ m = "irele_iupdat" => x[s].nlink > 0
    <3>1. x[s].nlink \in Int
      BY <1>2 DEF Records, MinNlink
    <3> QED
      BY <3>1 DEF Unlinked
  <2> HIDE DEF m
  <2>6. FileAt(m, fr[p], x, dir)
    BY <2>4, <2>5 DEF FileAt, At, Fetching, Ireles, Makes
  <2>7. m \in Known /\ "irele" \in Known
    BY <2>5, IdleKnown DEF Known, Labels, Slotless, MayLock, Locking, Makes
  <2> QED
    BY <1>1, <2>1, <2>3, <2>6, <2>7, FilesGoTouch
<1>4. CASE ~ (Unlinked(x[s]) \/ x[s].dirty)
  <2>1. LastGone(p)
    BY <1>4 DEF IreleLast, Slot
  <2>2. x[s].nlink > 0
    BY <1>2, <1>4 DEF Unlinked, Records, MinNlink
  <2>3. Stores(s)
    <3>1. x[s].ino # 0 => Same(disk[x[s].ino], x[s])
      BY <1>1, <1>2, <1>4, LoneRead DEF FilesCore, CleanOK
    <3> QED
      BY <1>1, <3>1 DEF Stores
  <2> QED
    BY <1>1, <2>1, <2>2, <2>3, FilesLast
<1> QED
  BY <1>3, <1>4

LEMMA FilesIreleIupdat ==
  ASSUME TableInv, TableInv', FilesCore, DiskSound, NEW p \in Procs, IreleIupdat(p)
  PROVE  FilesCore'
<1> DEFINE s == fr[p].slot
<1>1. Runs(p, "irele_iupdat") /\ LastGone(p) /\ UNCHANGED <<dir, file>>
  BY DEF IreleIupdat
<1>2. disk' = Written(s)
  <2>1. PICK u \in Iupdat(s) : disk' = u.disk
    BY DEF IreleIupdat, Slot
  <2> QED
    BY <2>1, IupdatSound
<1>3. s \in Slots /\ FileAt("irele_iupdat", fr[p], x, dir)
  BY <1>1, FileDropped, FileNow DEF Ireles
<1>4. Stores(s)
  BY <1>2, <1>3, StoresWritten
<1>5. ~ x[s].mode \/ x[s].nlink > 0
  BY <1>3 DEF FileAt
<1>6. x[s].count = 1
  BY <1>1 DEF TableInv, LastAlone, Working, WorkOK, Runs
<1> QED
  BY <1>1, <1>4, <1>5, <1>6, FilesLast

(* iupdat of an inode that stays in core.                                  *)
WritesTo(s, r) ==
  /\ x' = [x EXCEPT ![s] = r] /\ r.ino = x[s].ino /\ Same(r, x[s]) /\ r.count = x[s].count
  /\ disk' = Written(s) /\ dir' = dir
LEMMA FilesWrite ==
  ASSUME TableInv, TableInv', FilesCore, NEW p \in Procs, NEW m, NEW f, NEW o, Moves(p, m, f, o),
         pc[p] # "iget_read", m # "iget_read", \A t \in Slots : Remakes(p, m, f, t),
         NEW s \in SlotsOf(p), NEW r, WritesTo(s, r), FileAt(m, f, x, dir)
  PROVE  FilesCore'
<1>1. s \in Slots /\ x[s] \in Records /\ x[s].count >= 1
  BY OwnSlot, LockedCounted
<1>2. /\ x'[s] = r /\ (\A t \in Slots : t # s => x'[t] = x[t]) /\ dir' = dir
      /\ r.ino = x[s].ino /\ Same(r, x[s]) /\ r.count = x[s].count
  BY <1>1 DEF WritesTo, TableInv, TableTyped
<1>3. Stores(s)
  BY <1>1, StoresWritten DEF WritesTo
<1>4. Read(s) <=> x[s].ino # 0
  BY ReadOwn
<1>5. /\ \A i \in Inodes : Away(i) => disk'[i] = disk[i]
      /\ \A t \in Slots : t # s /\ Read(t) /\ ~ x[t].dirty => Same(disk'[x[t].ino], x[t])
  BY <1>1, <1>3, <1>4, StoresOthers
<1>6. ASSUME NEW t \in Slots PROVE Keeps(t)
  <2>1. /\ x[t].count = 0 => ~ x[t].dirty
        /\ Read(t) /\ x[t].mode /\ ~ NamedIn(dir, x[t].ino) => x[t].count > 0
    BY DEF FilesCore, CleanOK, CoreOK
  <2>2. CASE t = s
    <3>1. Read(s) => Same(disk'[x[s].ino], x[s])
      BY <1>3, <1>4 DEF Stores
    <3>2. x'[s].count > 0 /\ x'[s].count # 0
      BY <1>1, <1>2 DEF Records
    <3> QED
      BY <1>2, <2>2, <3>1, <3>2 DEF Keeps
  <2>3. CASE t # s
    BY <1>2, <1>5, <2>1, <2>3 DEF Keeps, Same
  <2> QED
    BY <2>2, <2>3
<1> QED
  BY <1>2, <1>5, <1>6, FilesSame

LEMMA DirtySame ==
  ASSUME NEW r \in Records, NEW b \in BOOLEAN
  PROVE  Same([r EXCEPT !.dirty = b], r) /\ Same(Unlocked([r EXCEPT !.dirty = b]), r)
<1> DEFINE d == [r EXCEPT !.dirty = b]
<1>1. d \in Records /\ d.mode = r.mode /\ d.nlink = r.nlink
  BY DEF Records
<1> HIDE DEF d
<1>2. Unlocked(d).mode = d.mode /\ Unlocked(d).nlink = d.nlink
  BY <1>1 DEF Unlocked, Records
<1>3. Same(d, r) /\ Same(Unlocked(d), r)
  BY <1>1, <1>2 DEF Same
<1> QED
  BY <1>3 DEF d

LEMMA FilesItrunc ==
  ASSUME TableInv, TableInv', FilesCore, DiskSound, NEW p \in Procs, Itrunc(p)
  PROVE  FilesCore'
<1> DEFINE s == fr[p].slot
<1>1. PICK u \in Iupdat(s) :
        disk' = u.disk /\ Update(s, [x[s] EXCEPT !.dirty = u.dirty])
  BY DEF Itrunc, Slot
<1>2. disk' = Written(s) /\ u.dirty \in BOOLEAN
  BY <1>1, IupdatSound
<1> DEFINE r == [x[s] EXCEPT !.dirty = u.dirty]
<1>3. /\ Runs(p, "itrunc") /\ Goes(p, "ifree", fr[p]) /\ dir' = dir
      /\ x' = [x EXCEPT ![s] = r]
  BY <1>1 DEF Itrunc, Goes, Update
<1>4. s \in SlotsOf(p) /\ pc[p] = "itrunc"
  BY <1>3, PlacedIn DEF Runs, Locking
<1>5. x[s] \in Records
  BY <1>4, OwnSlot
<1>6. r.ino = x[s].ino /\ r.count = x[s].count /\ Same(r, x[s])
  BY <1>2, <1>5, DirtyEdit, DirtySame
<1> HIDE DEF r
<1>7. WritesTo(s, r)
  BY <1>2, <1>3, <1>6 DEF WritesTo
<1>8. FileAt("ifree", fr[p], x, dir)
  <2>1. FileAt("itrunc", fr[p], x, dir)
    BY <1>3, FileNow
  <2> QED
    BY <2>1 DEF FileAt, At, Fetching, Ireles, Creating, Makes
<1>9. Moves(p, "ifree", fr[p], file[p])
  BY <1>3, GoesMoves
<1>10. \A t \in Slots : Remakes(p, "ifree", fr[p], t)
  BY <1>4, RemakesNot DEF Makes
<1> QED
  BY <1>4, <1>7, <1>8, <1>9, <1>10, FilesWrite

LEMMA FilesMaknodeIupdat ==
  ASSUME TableInv, TableInv', FilesCore, DiskSound, NEW p \in Procs, MaknodeIupdat(p)
  PROVE  FilesCore'
<1> DEFINE s == fr[p].slot
<1>1. PICK u \in Iupdat(s) :
        disk' = u.disk /\ Update(s, [x[s] EXCEPT !.dirty = u.dirty])
  BY DEF MaknodeIupdat, Slot
<1>2. disk' = Written(s) /\ u.dirty \in BOOLEAN
  BY <1>1, IupdatSound
<1> DEFINE r == [x[s] EXCEPT !.dirty = u.dirty]
<1>3. /\ Runs(p, "maknode_iupdat") /\ Goes(p, "direnter", fr[p]) /\ dir' = dir
      /\ x' = [x EXCEPT ![s] = r]
  BY <1>1 DEF MaknodeIupdat, Goes, Update
<1>4. s \in SlotsOf(p) /\ pc[p] = "maknode_iupdat"
  BY <1>3, PlacedIn DEF Runs, Locking
<1>5. x[s] \in Records
  BY <1>4, OwnSlot
<1>6. r.ino = x[s].ino /\ r.count = x[s].count /\ Same(r, x[s])
  BY <1>2, <1>5, DirtyEdit, DirtySame
<1> HIDE DEF r
<1>7. WritesTo(s, r)
  BY <1>2, <1>3, <1>6 DEF WritesTo
<1>8. FileAt("direnter", fr[p], x, dir)
  <2>1. FileAt("maknode_iupdat", fr[p], x, dir)
    BY <1>3, FileNow
  <2> QED
    BY <2>1 DEF FileAt, At, Fetching, Ireles, Creating, Makes
<1>9. Moves(p, "direnter", fr[p], file[p])
  BY <1>3, GoesMoves
<1>10. \A t \in Slots : Remakes(p, "direnter", fr[p], t)
  BY <1>4 DEF Remakes, Makes
<1> QED
  BY <1>4, <1>7, <1>8, <1>9, <1>10, FilesWrite

LEMMA FilesSyncIupdat ==
  ASSUME TableInv, TableInv', FilesCore, DiskSound, NEW p \in Procs, SyncIupdat(p)
  PROVE  FilesCore'
<1> DEFINE s == fr[p].slot
<1>1. PICK u \in Iupdat(s) :
        disk' = u.disk /\ Iput(p, s, [x[s] EXCEPT !.dirty = u.dirty])
  BY DEF SyncIupdat, Slot
<1>2. disk' = Written(s) /\ u.dirty \in BOOLEAN
  BY <1>1, IupdatSound
<1> DEFINE d == [x[s] EXCEPT !.dirty = u.dirty]
           r == Unlocked(d)
<1>3. /\ Runs(p, "sync_iupdat") /\ Goes(p, "irele", fr[p]) /\ dir' = dir
      /\ x' = [x EXCEPT ![s] = r]
  BY <1>1 DEF SyncIupdat, Goes, Iput, Release
<1>4. s \in SlotsOf(p) /\ pc[p] = "sync_iupdat"
  BY <1>3, PlacedIn DEF Runs, Locking
<1>5. x[s] \in Records
  BY <1>4, OwnSlot
<1>6. d \in Records /\ d.ino = x[s].ino /\ d.count = x[s].count /\ Same(r, x[s])
  BY <1>2, <1>5, DirtyEdit, DirtySame
<1> HIDE DEF d
<1>7. r.ino = d.ino /\ r.count = d.count
  BY <1>6, UnlockEdit
<1> HIDE DEF r
<1>8. WritesTo(s, r)
  BY <1>2, <1>3, <1>6, <1>7 DEF WritesTo
<1>9. FileAt("irele", fr[p], x, dir)
  <2>1. Placed("sync_iupdat", fr[p], file[p], load.slots)
    BY <1>3, RunsFacts
  <2> QED
    BY <2>1, FileIdle DEF Placed, Creating
<1>10. Moves(p, "irele", fr[p], file[p])
  BY <1>3, GoesMoves
<1>11. \A t \in Slots : Remakes(p, "irele", fr[p], t)
  BY <1>4, RemakesNot DEF Makes
<1> QED
  BY <1>4, <1>8, <1>9, <1>10, <1>11, FilesWrite

(* Steps that change the inode or the name of a call.                      *)
Truncated(r) == [r EXCEPT !.mode = FALSE, !.dirty = TRUE]
Made(r) == [r EXCEPT !.mode = TRUE, !.nlink = 1, !.dirty = TRUE]
LEMMA EditFacts ==
  ASSUME NEW r \in Records
  PROVE  /\ Truncated(r).ino = r.ino /\ Truncated(r).count = r.count
         /\ ~ Truncated(r).mode /\ Truncated(r).dirty
         /\ Made(r).ino = r.ino /\ Made(r).count = r.count
         /\ Made(r).mode /\ Made(r).nlink = 1 /\ Made(r).dirty
<1> DEFINE no == FALSE
           yes == TRUE
<1>1. no \in BOOLEAN /\ yes \in BOOLEAN /\ ~ no /\ yes
  OBVIOUS
<1>2. /\ Truncated(r) = [r EXCEPT !.mode = no, !.dirty = yes]
      /\ Made(r) = [r EXCEPT !.mode = yes, !.nlink = 1, !.dirty = yes]
  BY DEF Truncated, Made
<1> HIDE DEF no, yes
<1>3. /\ Truncated(r).ino = r.ino /\ Truncated(r).count = r.count
      /\ Truncated(r).mode = no /\ Truncated(r).dirty = yes
  BY <1>2 DEF Records
<1>4. /\ Made(r).ino = r.ino /\ Made(r).count = r.count
      /\ Made(r).mode = yes /\ Made(r).nlink = 1 /\ Made(r).dirty = yes
  BY <1>2 DEF Records
<1> QED
  BY <1>1, <1>3, <1>4

LEMMA UnnamedFacts ==
  ASSUME NEW r \in Records, r.nlink = 1
  PROVE  LET u == Unlocked(Unnamed(r))
         IN  u.ino = r.ino /\ u.count = r.count /\ u.nlink = 0 /\ u.dirty
<1> DEFINE k == Max({r.nlink - 1, MinNlink})
           yes == TRUE
           v == [r EXCEPT !.nlink = k, !.dirty = yes]
<1>1. yes \in BOOLEAN /\ yes
  OBVIOUS
<1>2. Max({0, -1}) = 0
  BY DEF Max
<1>3. r.nlink - 1 = 0 /\ MinNlink = -1
  BY DEF MinNlink
<1>4. k = 0
  BY <1>2, <1>3
<1>5. Unnamed(r) = v
  BY DEF Unnamed
<1> HIDE DEF k, yes
<1>6. v.ino = r.ino /\ v.count = r.count /\ v.nlink = k /\ v.dirty = yes
  BY DEF Records
<1>7. v \in Records
  BY <1>5, RecordEdits
<1> HIDE DEF v
<1>8. /\ Unlocked(v).ino = v.ino /\ Unlocked(v).count = v.count /\ Unlocked(v).nlink = v.nlink
      /\ Unlocked(v).dirty = v.dirty
  BY <1>7 DEF Unlocked, Records
<1> QED
  BY <1>1, <1>4, <1>5, <1>6, <1>8

LEMMA EditsAt ==
  ASSUME TableInv, NEW p \in Procs, NEW s \in SlotsOf(p), NEW r, x' = [x EXCEPT ![s] = r],
         r.ino = x[s].ino, r.count = x[s].count, r.dirty
  PROVE  EditsOwn(p, s) /\ x'[s] = r
<1>1. s \in Slots
  BY OwnSlot
<1>2. x'[s] = r /\ \A t \in Slots : t # s => x'[t] = x[t]
  BY <1>1 DEF TableInv, TableTyped
<1> QED
  BY <1>2 DEF EditsOwn

LEMMA NamesSame ==
  ASSUME NEW p, NEW s, FilesCore, dir' = dir
  PROVE  NamesOwn(p, s) /\ NamesApart'
BY DEF NamesOwn, FilesCore, NamesApart

LEMMA FilesIreleIfree ==
  ASSUME TableInv, TableInv', FilesCore, NEW p \in Procs, IreleIfree(p)
  PROVE  FilesCore'
<1> DEFINE s == fr[p].slot
<1>1. /\ Runs(p, "ifree") /\ x' = [x EXCEPT ![s] = Truncated(x[s])]
      /\ Goes(p, "irele_iupdat", fr[p]) /\ disk' = disk /\ dir' = dir
  BY DEF IreleIfree, Update, Goes, Truncated, Slot
<1>2. s \in SlotsOf(p) /\ pc[p] = "ifree"
  BY <1>1, PlacedIn DEF Runs, Locking
<1>3. x[s] \in Records /\ s \in Slots
  BY <1>2, OwnSlot
<1>4. /\ Truncated(x[s]).ino = x[s].ino /\ Truncated(x[s]).count = x[s].count
      /\ ~ Truncated(x[s]).mode /\ Truncated(x[s]).dirty
  BY <1>3, EditFacts
<1>5. EditsOwn(p, s) /\ x'[s] = Truncated(x[s])
  BY <1>1, <1>2, <1>4, EditsAt
<1>6. FileAt("ifree", fr[p], x, dir)
  BY <1>1, FileNow
<1>7. CoreAt("irele_iupdat", fr[p], s)
  <2>1. x[s].nlink <= 0
    BY <1>6 DEF FileAt
  <2>2. x[s].ino # 0 => Read(s)
    BY <1>2, ReadOwn
  <2>3. x[s].ino # 0 => ~ NamedIn(dir, x[s].ino)
    BY <1>3, <2>1, <2>2 DEF FilesCore, CoreOK
  <2> QED
    BY <1>1, <1>4, <1>5, <2>3 DEF CoreAt
<1>8. FileAt("irele_iupdat", fr[p], x', dir')
  BY <1>1, <1>4, <1>5, <1>6 DEF FileAt, At, Fetching, Ireles, Makes
<1>9. Moves(p, "irele_iupdat", fr[p], file[p])
  BY <1>1, GoesMoves
<1>10. \A t \in Slots : Remakes(p, "irele_iupdat", fr[p], t)
  BY <1>2, RemakesNot DEF Makes
<1>11. NamesOwn(p, s) /\ NamesApart'
  BY <1>1, NamesSame
<1> QED
  BY <1>1, <1>2, <1>5, <1>7, <1>8, <1>9, <1>10, <1>11, FilesEdit

LEMMA FilesMaknode ==
  ASSUME TableInv, TableInv', FilesCore, NEW p \in Procs, Maknode(p)
  PROVE  FilesCore'
<1> DEFINE s == fr[p].slot
<1>1. /\ Runs(p, "ialloc_got") /\ x' = [x EXCEPT ![s] = Made(x[s])] /\ s # NoSlot
      /\ Goes(p, "maknode_iupdat", fr[p]) /\ disk' = disk /\ dir' = dir /\ ~ x[s].mode
  BY DEF Maknode, AllocatedAfterAll, Update, Goes, Made, Slot
<1>2. s \in SlotsOf(p) /\ pc[p] = "ialloc_got"
  BY <1>1, HasLocked DEF Runs, MayLock
<1>3. x[s] \in Records /\ s \in Slots
  BY <1>2, OwnSlot
<1>4. /\ Made(x[s]).ino = x[s].ino /\ Made(x[s]).count = x[s].count
      /\ Made(x[s]).mode /\ Made(x[s]).nlink = 1 /\ Made(x[s]).dirty
  BY <1>3, EditFacts
<1>5. EditsOwn(p, s) /\ x'[s] = Made(x[s])
  BY <1>1, <1>2, <1>4, EditsAt
<1>6. FileAt("ialloc_got", fr[p], x, dir)
  BY <1>1, FileNow
<1>7. x[s].ino # 0 /\ dir[fr[p].name] = 0
  BY <1>1, <1>6 DEF FileAt, At, Fetching, Ireles, Creating
<1>8. ~ NamedIn(dir, x[s].ino)
  <2>1. Read(s)
    BY <1>2, <1>7, ReadOwn
  <2> QED
    BY <1>1, <1>3, <2>1 DEF FilesCore, CoreOK
<1>9. Moves(p, "maknode_iupdat", fr[p], file[p])
  BY <1>1, GoesMoves
<1>10. CoreAt("maknode_iupdat", fr[p], s)
  BY <1>4, <1>5 DEF CoreAt, Makes
<1>11. FileAt("maknode_iupdat", fr[p], x', dir')
  BY <1>1, <1>4, <1>5, <1>7, <1>8 DEF FileAt, Fetching, Makes
<1>12. \A t \in Slots \ {s} : Remakes(p, "maknode_iupdat", fr[p], t)
  BY <1>2 DEF Remakes, Makes
<1>13. NamesOwn(p, s) /\ NamesApart'
  BY <1>1, NamesSame
<1> QED
  BY <1>1, <1>2, <1>5, <1>9, <1>10, <1>11, <1>12, <1>13, FilesEdit

(* The name of a call that has its directory locked is changed.            *)
LEMMA DirWrittenSound ==
  ASSUME DiskSound, NEW n, NEW i, NEW d \in DirWritten(n, i)
  PROVE  d = [dir EXCEPT ![n] = i]
BY DEF DiskSound, DirWritten

Enters(p, s) ==
  fr[p].name \in Names /\ dir[fr[p].name] = 0 /\ dir' = [dir EXCEPT ![fr[p].name] = x[s].ino]
Removes(p, s) ==
  fr[p].name \in Names /\ dir[fr[p].name] = x[s].ino /\ dir' = [dir EXCEPT ![fr[p].name] = 0]
LEMMA NameEdited ==
  ASSUME TableInv, FilesCore, NEW p \in Procs, NEW s, x[s].ino # 0, DirOf[fr[p].name] \in DirsOf(p),
         (Enters(p, s) /\ ~ NamedIn(dir, x[s].ino)) \/ Removes(p, s)
  PROVE  /\ NamesOwn(p, s) /\ NamesApart'
         /\ Enters(p, s) => NamedIn(dir', x[s].ino)
         /\ Removes(p, s) => ~ NamedIn(dir', x[s].ino)
<1> DEFINE a == fr[p].name
<1>1. /\ a \in Names /\ dir \in [Names -> 0 .. NINO] /\ DirOf[a] \in DirsOf(p)
      /\ \A m, n \in Names : dir[m] = dir[n] /\ dir[n] # 0 => m = n
  BY DEF Enters, Removes, TableInv, StoreOK, FilesCore, NamesApart
<1>2. /\ \A n \in Names : n # a => dir'[n] = dir[n]
      /\ Enters(p, s) => dir[a] = 0 /\ dir'[a] = x[s].ino
      /\ Removes(p, s) => dir[a] = x[s].ino /\ dir'[a] = 0
  BY <1>1 DEF Enters, Removes
<1> HIDE DEF a
<1>3. ASSUME NEW i, i # 0, i # x[s].ino PROVE NamedIn(dir', i) <=> NamedIn(dir, i)
  BY <1>1, <1>2, <1>3 DEF NamedIn
<1>4. NamesOwn(p, s)
  BY <1>1, <1>2, <1>3 DEF NamesOwn
<1>5. NamesApart'
  BY <1>1, <1>2 DEF NamesApart, NamedIn
<1> QED
  BY <1>1, <1>2, <1>4, <1>5 DEF NamedIn

LEMMA HasDir ==
  ASSUME TableInv, NEW p \in Procs, NEW l \in {"direnter", "dirremove"}, Runs(p, l)
  PROVE  fr[p].name \in Names /\ DirOf[fr[p].name] \in DirsOf(p)
<1>1. /\ fr[p] \in Frames /\ Placed(l, fr[p], file[p], load.slots) /\ DirsOf(p) = HeldDirs(l, fr[p])
  BY RunsFacts
<1>2. At(l, fr[p]) \in InDir
  BY DEF At, Ireles, Fetching, InDir, Creating
<1> QED
  BY <1>1, <1>2 DEF Placed, Looking, Frames, HeldDirs

LEMMA FilesDirenterOK ==
  ASSUME TableInv, TableInv', FilesCore, DiskSound, NEW p \in Procs, Runs(p, "direnter"),
         dir' \in DirWritten(fr[p].name, x[fr[p].slot].ino), Goto(p, "haveino"),
         UNCHANGED <<x, fr, disk, file>>
  PROVE  FilesCore'
<1> DEFINE s == fr[p].slot
<1>1. FileAt("direnter", fr[p], x, dir)
  BY FileNow
<1>2. s \in SlotsOf(p) /\ pc[p] = "direnter"
  BY PlacedIn DEF Runs, Locking
<1>3. /\ x[s].ino # 0 /\ x[s].mode /\ x[s].nlink = 1 /\ ~ NamedIn(dir, x[s].ino)
      /\ dir[fr[p].name] = 0
  BY <1>1 DEF FileAt, Makes, At, Fetching, Ireles, Creating
<1>4. fr[p].name \in Names /\ DirOf[fr[p].name] \in DirsOf(p)
  BY HasDir
<1>5. Enters(p, s)
  BY <1>3, <1>4, DirWrittenSound DEF Enters
<1>6. NamesOwn(p, s) /\ NamesApart' /\ NamedIn(dir', x[s].ino)
  BY <1>3, <1>4, <1>5, NameEdited
<1>7. CoreAt("haveino", fr[p], s)
  BY <1>3, <1>6 DEF CoreAt
<1>8. Moves(p, "haveino", fr[p], file[p])
  BY GoesMoves DEF Goes
<1>9. FileAt("haveino", fr[p], x', dir')
  BY FileIdle DEF Idle
<1>10. \A t \in Slots \ {s} : Remakes(p, "haveino", fr[p], t)
  BY DEF Remakes, Makes
<1>11. EditsOwn(p, s)
  BY DEF EditsOwn, Same
<1> QED
  BY <1>2, <1>6, <1>7, <1>8, <1>9, <1>10, <1>11, FilesEdit

LEMMA FilesDirenterFails ==
  ASSUME TableInv, TableInv', FilesCore, NEW p \in Procs, Runs(p, "direnter"),
         Iput(p, fr[p].slot, Unnamed(x[fr[p].slot])), Frame(p, [fr[p] EXCEPT !.then = "user"]),
         UNCHANGED <<dir, disk, file>>
  PROVE  FilesCore'
<1> DEFINE s == fr[p].slot
           u == Unlocked(Unnamed(x[s]))
           f == [fr[p] EXCEPT !.then = "user"]
<1>1. FileAt("direnter", fr[p], x, dir) /\ fr[p] \in Frames
  BY FileNow, RunsFacts
<1>2. s \in SlotsOf(p) /\ pc[p] = "direnter"
  BY PlacedIn DEF Runs, Locking
<1>3. x[s].ino # 0 /\ x[s].nlink = 1 /\ ~ NamedIn(dir, x[s].ino)
  BY <1>1 DEF FileAt, Makes
<1>4. x[s] \in Records
  BY <1>2, OwnSlot
<1>5. u.ino = x[s].ino /\ u.count = x[s].count /\ u.nlink = 0 /\ u.dirty
  BY <1>3, <1>4, UnnamedFacts
<1>6. Goes(p, "irele", f) /\ x' = [x EXCEPT ![s] = u] /\ f.then = "user" /\ f.slot = s
  BY <1>1 DEF Goes, Iput, Release, Frames
<1> HIDE DEF u, f
<1>7. EditsOwn(p, s) /\ x'[s] = u
  BY <1>2, <1>5, <1>6, EditsAt
<1>8. CoreAt("irele", f, s)
  BY <1>3, <1>5, <1>7 DEF CoreAt
<1>9. Moves(p, "irele", f, file[p])
  BY <1>6, GoesMoves
<1>10. FileAt("irele", f, x', dir')
  BY <1>6, FileIdle DEF Creating
<1>11. \A t \in Slots \ {s} : Remakes(p, "irele", f, t)
  BY DEF Remakes, Makes
<1>12. NamesOwn(p, s) /\ NamesApart'
  BY NamesSame
<1> QED
  BY <1>2, <1>7, <1>8, <1>9, <1>10, <1>11, <1>12, FilesEdit

LEMMA FilesDirenter ==
  ASSUME TableInv, TableInv', FilesCore, DiskSound, NEW p \in Procs, Direnter(p)
  PROVE  FilesCore'
<1>1. CASE dir' \in DirWritten(fr[p].name, x[Slot(p)].ino) /\ Goto(p, "haveino")
           /\ UNCHANGED <<x, fr, slp>>
  BY <1>1, FilesDirenterOK DEF Direnter, Slot
<1>2. CASE /\ Iput(p, Slot(p), Unnamed(x[Slot(p)])) /\ UNCHANGED dir
           /\ Frame(p, [fr[p] EXCEPT !.then = "user"])
  BY <1>2, FilesDirenterFails DEF Direnter, Slot
<1> QED
  BY <1>1, <1>2 DEF Direnter

LEMMA FilesDirremoveOK ==
  ASSUME TableInv, TableInv', FilesCore, DiskSound, NEW p \in Procs, Runs(p, "dirremove"),
         dir' \in DirWritten(fr[p].name, 0), Iput(p, fr[p].slot, Unnamed(x[fr[p].slot])),
         Frame(p, [fr[p] EXCEPT !.then = "unlinked"]), UNCHANGED <<disk, file>>
  PROVE  FilesCore'
<1> DEFINE s == fr[p].slot
           u == Unlocked(Unnamed(x[s]))
           f == [fr[p] EXCEPT !.then = "unlinked"]
<1>1. FileAt("dirremove", fr[p], x, dir) /\ fr[p] \in Frames
  BY FileNow, RunsFacts
<1>2. s \in SlotsOf(p) /\ pc[p] = "dirremove" /\ s # NoSlot
  BY PlacedIn DEF Runs, Locking
<1>3. x[s].ino # 0 /\ dir[fr[p].name] = x[s].ino
  BY <1>1, <1>2 DEF FileAt
<1>4. fr[p].name \in Names /\ DirOf[fr[p].name] \in DirsOf(p)
  BY HasDir
<1>5. x[s] \in Records /\ s \in Slots
  BY <1>2, OwnSlot
<1>6. x[s].nlink = 1
  <2>1. Read(s)
    BY <1>2, <1>3, ReadOwn
  <2>2. NamedIn(dir, x[s].ino)
    BY <1>3, <1>4 DEF NamedIn
  <2> QED
    BY <1>5, <2>1, <2>2 DEF FilesCore, CoreOK
<1>7. u.ino = x[s].ino /\ u.count = x[s].count /\ u.nlink = 0 /\ u.dirty
  BY <1>5, <1>6, UnnamedFacts
<1>8. Goes(p, "irele", f) /\ x' = [x EXCEPT ![s] = u] /\ f.then = "unlinked"
  BY <1>1 DEF Goes, Iput, Release, Frames
<1> HIDE DEF u, f
<1>9. EditsOwn(p, s) /\ x'[s] = u
  BY <1>2, <1>7, <1>8, EditsAt
<1>10. Removes(p, s)
  BY <1>3, <1>4, DirWrittenSound DEF Removes
<1>11. NamesOwn(p, s) /\ NamesApart' /\ ~ NamedIn(dir', x[s].ino)
  BY <1>3, <1>4, <1>10, NameEdited
<1>12. CoreAt("irele", f, s)
  BY <1>7, <1>9, <1>11 DEF CoreAt
<1>13. Moves(p, "irele", f, file[p])
  BY <1>8, GoesMoves
<1>14. FileAt("irele", f, x', dir')
  BY <1>8, FileIdle DEF Creating
<1>15. \A t \in Slots : Remakes(p, "irele", f, t)
  BY <1>2, RemakesNot DEF Makes
<1> QED
  BY <1>2, <1>9, <1>11, <1>12, <1>13, <1>14, <1>15, FilesEdit

LEMMA FilesDirremove ==
  ASSUME TableInv, TableInv', FilesCore, DiskSound, NEW p \in Procs, Dirremove(p)
  PROVE  FilesCore'
<1>1. /\ Runs(p, "dirremove") /\ Frame(p, [fr[p] EXCEPT !.then = "unlinked"])
      /\ UNCHANGED <<disk, file>>
  BY DEF Dirremove
<1>2. CASE dir' \in DirWritten(fr[p].name, 0) /\ Iput(p, fr[p].slot, Unnamed(x[fr[p].slot]))
  BY <1>1, <1>2, FilesDirremoveOK
<1>3. CASE Iput(p, fr[p].slot, x[fr[p].slot]) /\ UNCHANGED dir
  BY <1>1, <1>3, FilesDirremoveNot
<1> QED
  BY <1>2, <1>3 DEF Dirremove, Slot

(* iget gives a slot another inode, and reads it.                          *)
LEMMA ReadOther ==
  ASSUME TableInv, NEW p \in Procs, NEW l, NEW f, NEW o, Moves(p, l, f, o), NEW s,
         pc[p] = "iget_read" => fr[p].slot = s, l = "iget_read" => f.slot = s,
         \A t \in Slots : t # s => x'[t] = x[t], NEW t \in Slots, t # s
  PROVE  Read(t)' <=> Read(t)
<1>1. /\ pc'[p] = l /\ fr'[p] = f
      /\ \A q \in Procs \ {p} : pc'[q] = pc[q] /\ fr'[q] = fr[q]
  BY MovesOwn DEF TableInv
<1> QED
  BY <1>1 DEF Read

LEMMA FilesIgetNew ==
  ASSUME TableInv, TableInv', FilesCore, NEW p \in Procs, IgetNew(p)
  PROVE  FilesCore'
<1>0. PICK s : s = Head(free)
  OBVIOUS
<1> DEFINE f == [fr[p] EXCEPT !.slot = s]
<1>1. /\ Runs(p, "iget") /\ Goes(p, "iget_read", f) /\ disk' = disk /\ dir' = dir /\ free # <<>>
  BY <1>0 DEF IgetNew, Goes
<1>2. s \in Slots /\ x[s].count = 0
  <2>1. [NoInode EXCEPT !.count = 1].count # 0
    BY DEF NoInode
  <2>2. s \in load.slots /\ x[s].count = 0
    BY <1>0, <1>1, <2>1, FreedHead DEF IgetNew
  <2> QED
    BY <2>2 DEF TableInv, ProcsTyped
<1>3. x[s].lock = Nobody
  BY <1>2, LockedCounted DEF Locked
<1>4. /\ x'[s].ino = fr[p].ino /\ x'[s].count > 0 /\ (\A t \in Slots : t # s => x'[t] = x[t])
  <2> DEFINE u == [Grabbed(p, x[s]) EXCEPT !.ino = fr[p].ino, !.want = FALSE, !.dirty = FALSE]
  <2>1. x' = [x EXCEPT ![s] = u]
    BY <1>0 DEF IgetNew, Update
  <2>2. Grabbed(p, x[s]) \in Records /\ Grabbed(p, x[s]).count > 0
    BY <1>2, SameGrabbed
  <2>3. fr[p].ino \in 0 .. NINO
    BY <1>1, RunsFacts DEF Frames
  <2>4. u.ino = fr[p].ino /\ u.count = Grabbed(p, x[s]).count
    BY <2>2, <2>3, RenameEdit
  <2> HIDE DEF u
  <2>5. x'[s] = u /\ (\A t \in Slots : t # s => x'[t] = x[t])
    BY <1>2, <2>1 DEF TableInv, TableTyped
  <2> QED
    BY <2>2, <2>4, <2>5
<1>5. /\ FileAt("iget", fr[p], x, dir) /\ fr[p] \in Frames
      /\ Placed("iget", fr[p], file[p], load.slots)
  BY <1>1, FileNow, RunsFacts
<1>6. /\ f.slot = s /\ f.name = fr[p].name /\ f.ino = fr[p].ino /\ f.back = fr[p].back
      /\ fr[p].ino # 0
  BY <1>5 DEF Frames, Placed, Fetching
<1>7. Moves(p, "iget_read", f, file[p]) /\ pc[p] = "iget"
  BY <1>1, GoesMoves DEF Runs
<1> HIDE DEF f
<1>8. FileAt("iget_read", f, x', dir)
  BY <1>4, <1>5, <1>6 DEF FileAt, At, Fetching, Ireles, Makes
<1>9. ~ Read(s)'
  <2>1. pc'[p] = "iget_read" /\ fr'[p] = f
    BY <1>7, MovesOwn DEF TableInv
  <2> QED
    BY <1>6, <2>1 DEF Read
<1>10. ASSUME NEW i \in Inodes, Away(i)', ~ Away(i)
       PROVE  /\ NamedIn(dir, i) => disk[i].mode /\ disk[i].nlink = 1
              /\ disk[i].mode => NamedIn(dir, i)
  <2>1. PICK t \in Slots : x[t].ino = i /\ Read(t)
    BY <1>10 DEF Away
  <2>2. t = s
    <3>1. SUFFICES ASSUME t # s PROVE FALSE
      OBVIOUS
    <3>2. Read(t)' /\ x'[t] = x[t]
      BY <1>4, <1>6, <1>7, <2>1, <3>1, ReadOther
    <3> QED
      BY <1>10, <2>1, <3>2 DEF Away
  <2>3. Same(disk[i], x[s])
    BY <1>2, <2>1, <2>2 DEF FilesCore, CleanOK
  <2>4. /\ NamedIn(dir, i) => x[s].mode /\ x[s].nlink = 1
        /\ x[s].mode => NamedIn(dir, i)
    BY <1>2, <2>1, <2>2 DEF FilesCore, CoreOK
  <2> QED
    BY <2>3, <2>4 DEF Same
<1>11. \A t \in Slots : Remakes(p, "iget_read", f, t)
  BY <1>7, RemakesNot DEF Makes
<1>12. NamesKept
  BY <1>1 DEF NamesKept
<1>13. x'[s].count = 0 => ~ x'[s].dirty
  BY <1>4
<1> QED
  BY <1>2, <1>3, <1>4, <1>6, <1>7, <1>8, <1>9, <1>10, <1>11, <1>12, <1>13, RenameKept

(* The slot that iget reads is not yet its inode's.                        *)
LEMMA Reading ==
  ASSUME TableInv, FilesCore, NEW p \in Procs, Runs(p, "iget_read")
  PROVE  /\ fr[p].slot \in Slots /\ x[fr[p].slot] \in Records /\ x[fr[p].slot].lock = p
         /\ ~ Read(fr[p].slot) /\ x[fr[p].slot].ino \in Inodes /\ Away(x[fr[p].slot].ino)
         /\ x[fr[p].slot].count > 0 /\ pc[p] = "iget_read" /\ fr[p].slot \in SlotsOf(p)
         /\ fr[p].back \in {"child", "ialloc_got"}
<1> DEFINE s == fr[p].slot
<1>1. s \in SlotsOf(p) /\ pc[p] = "iget_read"
  BY PlacedIn DEF Runs, Locking
<1>2. s \in Slots /\ x[s] \in Records /\ x[s].lock = p /\ x[s].count >= 1
  BY <1>1, OwnSlot, LockedCounted
<1>3. ~ Read(s)
  BY <1>1 DEF Read
<1>4. x[s].ino # 0
  BY <1>1 DEF TableInv, LastAlone, Working, WorkOK
<1>5. x[s].ino \in Inodes
  BY <1>2, <1>4, InodeAssumption DEF Records, Inodes
<1>6. Away(x[s].ino)
  BY <1>2, <1>3, <1>4 DEF Away, TableInv, InodeOnce
<1>7. fr[p].back \in {"child", "ialloc_got"}
  <2>1. fr[p] \in Frames /\ Placed("iget_read", fr[p], file[p], load.slots)
    BY RunsFacts
  <2> QED
    BY <2>1 DEF Placed, Frames, Backs, Fetching
<1>8. x[s].count > 0
  BY <1>2 DEF Records
<1> QED
  BY <1>1, <1>2, <1>3, <1>5, <1>6, <1>7, <1>8

LEMMA AwayStays ==
  ASSUME TableInv, FilesCore, NEW p \in Procs, Runs(p, "iget_read"), NEW m, NEW f, NEW o,
         Moves(p, m, f, o), m # "iget_read",
         \A t \in Slots : t # fr[p].slot => x'[t] = x[t], NEW i \in Inodes, Away(i)'
  PROVE  Away(i)
<1> SUFFICES ASSUME NEW t \in Slots, x[t].ino = i, Read(t) PROVE FALSE
  BY DEF Away
<1>1. t # fr[p].slot
  BY Reading
<1>2. Read(t)' /\ x'[t] = x[t]
  BY <1>1, ReadOther
<1> QED
  BY <1>2 DEF Away

LEMMA FilesIgetRead ==
  ASSUME TableInv, TableInv', FilesCore, NEW p \in Procs, IgetRead(p)
  PROVE  FilesCore'
<1>0. PICK s : s = fr[p].slot
  OBVIOUS
<1> DEFINE i == x[s].ino
           r == ReadRecord(x[s], disk[i].mode, disk[i].nlink)
           m == fr[p].back
<1>1. /\ Runs(p, "iget_read") /\ Goes(p, m, fr[p]) /\ x' = [x EXCEPT ![s] = r]
      /\ disk' = disk /\ dir' = dir
  BY <1>0 DEF IgetRead, Update, Goes, ReadRecord, Slot
<1>2. /\ s \in Slots /\ x[s] \in Records /\ x[s].lock = p /\ i \in Inodes /\ Away(i)
      /\ x[s].count > 0 /\ pc[p] = "iget_read" /\ m \in {"child", "ialloc_got"}
  BY <1>0, <1>1, Reading
<1>3. disk[i].mode \in BOOLEAN /\ disk[i].nlink \in MinNlink .. 1
  BY <1>2 DEF TableInv, StoreOK, OnDisk
<1>4. r.ino = i /\ r.count = x[s].count /\ r.mode = disk[i].mode /\ r.nlink = disk[i].nlink
  <2>1. r.ino = i /\ r.count = x[s].count
    BY <1>2, <1>3, ReadEdit
  <2> DEFINE a == disk[i].mode
             k == disk[i].nlink
             g == x[s]
  <2>2. g \in Records /\ a \in BOOLEAN /\ k \in MinNlink .. 1
    BY <1>2, <1>3
  <2> HIDE DEF a, k, g
  <2>3. ReadRecord(g, a, k).mode = a /\ ReadRecord(g, a, k).nlink = k
    BY <2>2 DEF ReadRecord, Records
  <2> QED
    BY <2>1, <2>3 DEF a, k, g
<1>5. x'[s] = r /\ (\A t \in Slots : t # s => x'[t] = x[t])
  BY <1>1, <1>2 DEF TableInv, TableTyped
<1>6. /\ NamedIn(dir, i) => disk[i].mode /\ disk[i].nlink = 1
      /\ disk[i].mode => NamedIn(dir, i)
  BY <1>2 DEF FilesCore, DiskOK
<1>7. FileAt("iget_read", fr[p], x, dir) /\ m = fr[p].back
  BY <1>1, FileNow
<1>8. Moves(p, m, fr[p], file[p])
  BY <1>1, GoesMoves
<1> HIDE DEF r, m
<1>9. FileAt(m, fr[p], x', dir)
  BY <1>0, <1>2, <1>4, <1>5, <1>7 DEF FileAt, At, Fetching, Ireles, Creating, Makes
<1>10. \A j \in Inodes : Away(j)' => Away(j)
  BY <1>0, <1>1, <1>2, <1>5, <1>8, AwayStays
<1>11. \A t \in Slots : Remakes(p, m, fr[p], t)
  BY <1>2, RemakesNot DEF Makes
<1>12. /\ x'[s].count > 0 /\ Same(disk[x'[s].ino], x'[s])
       /\ NamedIn(dir, x'[s].ino) => x'[s].mode /\ x'[s].nlink = 1
       /\ x'[s].mode => NamedIn(dir, x'[s].ino)
  BY <1>2, <1>4, <1>5, <1>6 DEF Same
<1>13. NamesKept
  BY <1>1 DEF NamesKept
<1>14. m # "iget_read" /\ (x'[s].count = 0 => ~ x'[s].dirty)
  BY <1>2, <1>12
<1> QED
  BY <1>0, <1>2, <1>5, <1>8, <1>9, <1>10, <1>11, <1>12, <1>13, <1>14, RenameKept

LEMMA FilesIgetError ==
  ASSUME TableInv, TableInv', FilesCore, NEW p \in Procs, IgetError(p)
  PROVE  FilesCore'
<1>0. PICK s : s = fr[p].slot
  OBVIOUS
<1> DEFINE g == [x[s] EXCEPT !.ino = 0]
           r == Unlocked(g)
           f == [fr[p] EXCEPT !.then = fr[p].back]
<1>1. /\ Runs(p, "iget_read") /\ Goes(p, "irele", f) /\ x' = [x EXCEPT ![s] = r]
      /\ disk' = disk /\ dir' = dir
  BY <1>0 DEF IgetError, Iput, Release, Goes, Slot
<1>2. /\ s \in Slots /\ x[s] \in Records /\ x[s].lock = p
      /\ x[s].count > 0 /\ pc[p] = "iget_read" /\ fr[p].back \in {"child", "ialloc_got"}
  BY <1>0, <1>1, Reading
<1>3. g \in Records /\ g.ino = 0 /\ g.count = x[s].count
  BY <1>2, RecordEdits
<1> HIDE DEF g
<1>4. r.ino = 0 /\ r.count = x[s].count
  BY <1>3, UnlockEdit
<1>5. x'[s] = r /\ (\A t \in Slots : t # s => x'[t] = x[t])
  BY <1>1, <1>2 DEF TableInv, TableTyped
<1>6. FileAt("iget_read", fr[p], x, dir) /\ fr[p] \in Frames
  BY <1>1, FileNow, RunsFacts
<1>7. f.then = fr[p].back /\ f.name = fr[p].name
  BY <1>6 DEF Frames
<1>8. Moves(p, "irele", f, file[p])
  BY <1>1, GoesMoves
<1> HIDE DEF r, f
<1>9. FileAt("irele", f, x', dir)
  BY <1>6, <1>7 DEF FileAt, At, Fetching, Ireles, Makes
<1>10. \A j \in Inodes : Away(j)' => Away(j)
  BY <1>0, <1>1, <1>5, <1>8, AwayStays
<1>11. \A t \in Slots : Remakes(p, "irele", f, t)
  BY <1>2, RemakesNot DEF Makes
<1>12. ~ Read(s)'
  BY <1>4, <1>5 DEF Read
<1>13. NamesKept
  BY <1>1 DEF NamesKept
<1>14. x'[s].count = 0 => ~ x'[s].dirty
  BY <1>2, <1>4, <1>5
<1> QED
  BY <1>0, <1>2, <1>5, <1>8, <1>9, <1>10, <1>11, <1>12, <1>13, <1>14, RenameKept

-----------------------------------------------------------------------------
LEMMA InitFiles == Init => FilesInv
<1> SUFFICES ASSUME Init PROVE FilesCore
  BY DEF FilesInv
<1>1. /\ x = [s \in Slots |-> NoInode] /\ disk = [i \in Inodes |-> [mode |-> FALSE, nlink |-> 0]]
      /\ dir = [n \in Names |-> 0] /\ pc = [p \in Procs |-> "user"]
  BY DEF Init
<1>2. \A s \in Slots : x[s].ino = 0 /\ ~ x[s].dirty
  BY <1>1 DEF NoInode
<1>3. \A s \in Slots : ~ Read(s)
  BY <1>2 DEF Read
<1>4. CleanOK /\ CoreOK
  BY <1>2, <1>3 DEF CleanOK, CoreOK
<1>5. \A i \in Inodes : i # 0 /\ ~ disk[i].mode
  BY <1>1 DEF Inodes
<1>6. DiskOK /\ NamesApart
  BY <1>1, <1>5 DEF DiskOK, NamedIn, NamesApart
<1>7. FilesOK
  BY <1>1, FileIdle DEF FilesOK, Idle
<1> QED
  BY <1>4, <1>6, <1>7 DEF FilesCore

LEMMA LoadKept ==
  ASSUME NEW p \in Procs, Call(p) \/ Close(p) \/ Write(p) \/ Sync(p) \/ Proceed(p)
  PROVE  load' = load
<1>1. CASE IgetWait(p) \/ IgetHit(p) \/ IgetFull(p) \/ IgetNew(p) \/ IgetRead(p) \/ IgetError(p)
  BY <1>1 DEF IgetWait, IgetHit, IgetFull, IgetNew, IgetRead, IgetError, LockWait, Iput, Goto
<1>2. CASE \/ IreleShared(p) \/ IreleLast(p) \/ Itrunc(p) \/ IreleIfree(p)
           \/ IreleIupdat(p)
  BY <1>2 DEF IreleShared, IreleLast, Itrunc, IreleIfree, IreleIupdat, LastGone, Dropped,
     Goto
<1>3. CASE \/ LookupHit(p) \/ LookupBad(p) \/ LookupMiss(p)
           \/ IgrabWait(p) \/ Igrab(p) \/ RelockWait(p) \/ Relock(p)
  BY <1>3 DEF LookupHit, LookupBad, LookupMiss, IgrabWait, Igrab, RelockWait, Relock,
     LockWait, Iput, GiveUpCpu, Goto
<1>4. CASE \/ SearchFound(p) \/ SearchCreate(p) \/ SearchFails(p)
           \/ ChildNone(p) \/ ChildOpen(p) \/ ChildUnlink(p)
           \/ LookupRefused(p) \/ UnlinkRefused(p)
           \/ Haveino(p) \/ OpenRefused(p) \/ Dirremove(p) \/ UnlinkDone(p)
  BY <1>4 DEF SearchFound, SearchCreate, SearchFails, ChildNone, ChildOpen, ChildUnlink,
     LookupRefused, UnlinkRefused, Haveino, OpenRefused, Dirremove, UnlinkDone, Iput,
     Return, Goto
<1>5. CASE \/ IallocWait(p) \/ IallocPop(p) \/ IallocScan(p) \/ IallocBread(p)
           \/ IallocBreadError(p) \/ IallocAgain(p) \/ IallocScanned(p)
  BY <1>5 DEF IallocWait, IallocPop, IallocScan, IallocBread, IallocBreadError, IallocAgain,
     IallocScanned, NextBlock, GiveUpCpu, Return, Goto
<1>6. CASE \/ IallocNone(p) \/ IallocTaken(p) \/ Maknode(p) \/ MaknodeIupdat(p) \/ Direnter(p)
           \/ Closei(p) \/ InoRwWait(p) \/ InoRw(p) \/ Rwip(p) \/ SyncIupdat(p)
  BY <1>6 DEF IallocNone, IallocTaken, Maknode, MaknodeIupdat, Direnter, Closei, InoRwWait,
     InoRw, Rwip, SyncIupdat, LockWait, Iput, Return, Goto
<1>7. CASE Call(p) \/ Close(p) \/ Write(p) \/ Sync(p)
  BY <1>7 DEF Call, Close, Write, Sync, Goto
<1> QED
  BY <1>1, <1>2, <1>3, <1>4, <1>5, <1>6, <1>7 DEF Proceed

LEMMA FilesPopped ==
  ASSUME TableInv, TableInv', FilesCore, NEW p \in Procs, IallocPop(p) \/ IallocScanned(p)
  PROVE  FilesCore'
BY FilesIalloc, FilesIallocGet, FilesReturn

LEMMA FilesProceed ==
  ASSUME TableInv, TableInv', FilesCore, DiskSound, NEW p \in Procs, Proceed(p)
  PROVE  FilesCore'
<1>1. CASE IgetWait(p) \/ IgetHit(p) \/ IgetFull(p) \/ IgetNew(p) \/ IgetRead(p) \/ IgetError(p)
  BY <1>1, FilesWaits, FilesIgetHit, FilesIgetFull, FilesIgetNew, FilesIgetRead, FilesIgetError
<1>2. CASE \/ IreleShared(p) \/ IreleLast(p) \/ Itrunc(p) \/ IreleIfree(p)
           \/ IreleIupdat(p)
  BY <1>2, FilesIreleShared, FilesIreleLast, FilesItrunc, FilesIreleIfree,
     FilesIreleIupdat
<1>3. CASE \/ LookupHit(p) \/ LookupBad(p) \/ LookupMiss(p)
           \/ IgrabWait(p) \/ Igrab(p) \/ RelockWait(p) \/ Relock(p)
  BY <1>3, FilesNamei, FilesWaits, FilesIgrab, FilesGiveUp
<1>4. CASE \/ SearchFound(p) \/ SearchCreate(p) \/ SearchFails(p)
           \/ ChildNone(p) \/ ChildOpen(p) \/ ChildUnlink(p)
           \/ LookupRefused(p) \/ UnlinkRefused(p)
           \/ Haveino(p) \/ OpenRefused(p) \/ Dirremove(p) \/ UnlinkDone(p)
  BY <1>4, FilesSearchFound, FilesSearchCreate, FilesReturn, FilesChildOpen, FilesChildUnlink,
     FilesRefused, FilesHaveino, FilesDirremove
<1>5. CASE \/ IallocWait(p) \/ IallocPop(p) \/ IallocScan(p) \/ IallocBread(p)
           \/ IallocBreadError(p) \/ IallocAgain(p) \/ IallocScanned(p)
  BY <1>5, FilesGiveUp, FilesPopped, FilesIalloc
<1>6. CASE \/ IallocNone(p) \/ IallocTaken(p) \/ Maknode(p) \/ MaknodeIupdat(p) \/ Direnter(p)
           \/ Closei(p) \/ InoRwWait(p) \/ InoRw(p) \/ Rwip(p) \/ SyncIupdat(p)
  BY <1>6, FilesReturn, FilesRefused, FilesMaknode, FilesMaknodeIupdat, FilesDirenter,
     FilesWaits, FilesInoRw, FilesSyncIupdat
<1> QED
  BY <1>1, <1>2, <1>3, <1>4, <1>5, <1>6 DEF Proceed

LEMMA NextFiles == TableInv /\ TableInv' /\ FilesInv /\ [Next]_vars => FilesInv'
<1> SUFFICES ASSUME TableInv, TableInv', FilesInv, [Next]_vars PROVE FilesInv'
  OBVIOUS
<1>1. CASE Next
  <2>1. PICK p \in Procs : Call(p) \/ Close(p) \/ Write(p) \/ Sync(p) \/ Proceed(p)
    BY <1>1 DEF Next
  <2>2. load' = load
    BY <2>1, LoadKept
  <2>3. SUFFICES ASSUME DiskSound PROVE FilesCore'
    BY <2>2 DEF FilesInv, DiskSound
  <2>4. FilesCore
    BY <2>3 DEF FilesInv
  <2> QED
    BY <2>1, <2>3, <2>4, FilesCall, FilesClose, FilesSync, FilesProceed
<1>2. CASE UNCHANGED vars
  <2>1. /\ load' = load /\ x' = x /\ disk' = disk /\ dir' = dir /\ pc' = pc /\ fr' = fr
    BY <1>2 DEF vars
  <2>2. /\ \A s : (Read(s)' <=> Read(s)) /\ (Making(s)' <=> Making(s))
        /\ \A i : Away(i)' <=> Away(i)
    BY <2>1 DEF Read, Making, Away
  <2>3. SUFFICES ASSUME FilesCore PROVE FilesCore'
    BY <2>1 DEF FilesInv, DiskSound
  <2>4. CleanOK' /\ CoreOK'
    BY <2>1, <2>2, <2>3 DEF FilesCore, CleanOK, CoreOK, NamedIn, Same
  <2>5. DiskOK' /\ NamesApart' /\ FilesOK'
    BY <2>1, <2>2, <2>3 DEF FilesCore, DiskOK, NamesApart, FilesOK, FileAt, NamedIn
  <2> QED
    BY <2>4, <2>5 DEF FilesCore
<1> QED
  BY <1>1, <1>2

(* As long as no write is lost in silence, what is known of the inodes in  *)
(* core, on the disk and in the directories fits together always: an inode *)
(* in core that has been read has a name exactly when it has a link, but   *)
(* for the file that maknode is making, and what is clean is on the disk.  *)
THEOREM FilesInvariance == Spec => []FilesInv
<1>1. TableInv /\ FilesInv /\ [Next]_vars => (TableInv /\ FilesInv)'
  BY NextTable, NextFiles
<1> QED
  BY <1>1, InitTable, InitFiles, PTL DEF Spec

(* What an inode is: the slot that has it, or the disk.                    *)
LEMMA NowFacts ==
  ASSUME NEW i \in Inodes
  PROVE  \/ Away(i) /\ Now(i) = disk[i]
         \/ \E s \in Slots : /\ x[s].ino = i /\ Read(s)
                             /\ Now(i).mode = x[s].mode /\ Now(i).nlink = x[s].nlink
<1>1. i # 0
  BY DEF Inodes
<1>2. \A s : s \in Loaded(i) <=> s \in Slots /\ x[s].ino = i /\ Read(s)
  BY <1>1 DEF Loaded, InCore, Read
<1>3. CASE Loaded(i) = {}
  BY <1>2, <1>3 DEF Away, Now
<1>4. CASE Loaded(i) # {}
  <2> DEFINE c == CHOOSE s \in Loaded(i) : TRUE
  <2>1. c \in Loaded(i)
    BY <1>4
  <2>2. Now(i) = [mode |-> x[c].mode, nlink |-> x[c].nlink]
    BY <1>4 DEF Now
  <2> HIDE DEF c
  <2>3. Now(i).mode = x[c].mode /\ Now(i).nlink = x[c].nlink
    BY <2>2
  <2> QED
    BY <1>2, <2>1, <2>3
<1> QED
  BY <1>3, <1>4

LEMMA FilesKeptHolds ==
  ASSUME TableInv, FilesInv
  PROVE  FilesKept
<1> SUFFICES ASSUME DiskSound PROVE NamesLead
  BY DEF FilesKept
<1>1. CoreOK /\ DiskOK /\ NamesApart
  BY DEF FilesInv, FilesCore
<1>2. ASSUME NEW n \in Names, dir[n] # 0
      PROVE  /\ Now(dir[n]).mode /\ Now(dir[n]).nlink = 1
             /\ \A m \in Names : dir[m] = dir[n] => m = n
  <2>1. dir[n] \in Inodes /\ NamedIn(dir, dir[n])
    BY <1>2, InodeAssumption DEF TableInv, StoreOK, Inodes, NamedIn
  <2>2. ASSUME Away(dir[n]), Now(dir[n]) = disk[dir[n]]
        PROVE  Now(dir[n]).mode /\ Now(dir[n]).nlink = 1
    BY <1>1, <2>1, <2>2 DEF DiskOK
  <2>3. ASSUME NEW s \in Slots, x[s].ino = dir[n], Read(s),
               Now(dir[n]).mode = x[s].mode, Now(dir[n]).nlink = x[s].nlink
        PROVE  Now(dir[n]).mode /\ Now(dir[n]).nlink = 1
    BY <1>1, <2>1, <2>3 DEF CoreOK
  <2>4. Now(dir[n]).mode /\ Now(dir[n]).nlink = 1
    BY <2>1, <2>2, <2>3, NowFacts
  <2> QED
    BY <1>1, <1>2, <2>4 DEF NamesApart
<1>3. ASSUME NEW i \in Inodes, Now(i).mode
      PROVE  (\E n \in Names : dir[n] = i) \/ (\E s \in InCore(i) : x[s].count > 0)
  <2>1. CASE Away(i) /\ Now(i) = disk[i]
    BY <1>1, <1>3, <2>1 DEF DiskOK, NamedIn
  <2>2. ASSUME NEW s \in Slots, x[s].ino = i, Read(s), Now(i).mode = x[s].mode
        PROVE  (\E n \in Names : dir[n] = i) \/ (\E t \in InCore(i) : x[t].count > 0)
    <3>1. NamedIn(dir, i) \/ x[s].count > 0
      BY <1>1, <1>3, <2>2 DEF CoreOK
    <3>2. s \in InCore(i)
      BY <2>2 DEF InCore
    <3> QED
      BY <3>1, <3>2 DEF NamedIn
  <2> QED
    BY <2>1, <2>2, NowFacts
<1> QED
  BY <1>2, <1>3 DEF NamesLead

(* No file is lost or shared, for any number of processes, slots, names    *)
(* and inodes: whatever the interleaving of open, creat, unlink, write,    *)
(* close and sync, and whatever fails that is not lost in silence, a name  *)
(* leads to an allocated inode with one link that is no other name's, and  *)
(* an allocated inode has a name or is still in use (iget, irele, ialloc,  *)
(* maknode, direnter, dirremove).                                          *)
THEOREM FilesSafety == Spec => []FilesKept
BY TableInvariance, FilesInvariance, FilesKeptHolds, PTL
=============================================================================
