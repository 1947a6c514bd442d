------------------------- MODULE BufferCache_proofs -------------------------
(***************************************************************************)
(* The safety of the buffer cache for every number of processes, buffers,  *)
(* devices and blocks.                                                     *)
(*                                                                         *)
(* None of the properties is inductive alone: that a released buffer was   *)
(* busy needs to know which buffer a process owns at each point of the     *)
(* code, and that a process owns it alone needs the driver's side of the   *)
(* protocol (B_ASYNC only while the request is queued, B_DONE only after). *)
(* IInv puts these together.                                               *)
(***************************************************************************)
EXTENDS BufferCache, FreeLists_proofs

Fetching == {"take", "bread", "breada", "rahead"}   \* where getblk returns to
Fetchers == {"bread", "getblk", "geteblk", "breada", "iupdat"}

(* A call's frame fits the place the process is at.                        *)
FrameAt(p) ==
  /\ op(p) \in {"bread", "getblk", "breada", "iupdat"} => xb(p) \in Blocks
  /\ op(p) = "breada" => ra(p) \in Blocks
  /\ ret(p) = "rahead" => op(p) = "breada"
  /\ pc[p] \in {"breada", "ra_check", "rahead", "ra_done"} => op(p) = "breada"
  /\ ret(p) = "breada" => op(p) = "breada"
  /\ pc[p] = "getblk" => op(p) # "geteblk"
  /\ pc[p] \in {"getblk", "getnewbuf"} => ret(p) \in Fetching /\ op(p) \in Fetchers
  /\ pc[p] = "age" => \/ ret(p) \in {"idle", "bflush", "binval"}
                      \/ ret(p) \in Fetching /\ op(p) \in Fetchers
  /\ pc[p] \in {"syncip", "blkflush"} => op(p) = "fsync"
  /\ pc[p] = "bflush" => ret(p) \in {"bflush", "binval"}
  /\ pc[p] \in {"wwait", "brelse"} /\ op(p) = "fsync" => ret(p) \in {"syncip", "blkflush"}

FrameOK == \A p \in Procs : FrameAt(p)

(* Where a process has a buffer, and that it is not at the driver where    *)
(* the process is free to use it.                                          *)
LocalAt(p) ==
  /\ wb[p] # NoBuf <=> pc[p] \in Fetching \cup {"age"}
  /\ pc[p] \in {"hold", "brelse", "rwait", "wwait"} => bp[p] # NoBuf
  /\ bp[p] # NoBuf =>
       \/ pc[p] \in {"hold", "brelse", "rwait", "wwait", "ra_check", "rahead", "ra_done"}
       \/ pc[p] \in {"getblk", "getnewbuf", "age"} /\ ret(p) = "rahead"
  /\ pc[p] \in Fetching => wb[p] \notin Elems(ioq)
  /\ pc[p] \in {"hold", "brelse"} => bp[p] \notin Elems(ioq)
  /\ bp[p] # NoBuf => wb[p] # bp[p]

LocalBufs == \A p \in Procs : LocalAt(p)

(* The late B_AGE lands on a buffer nobody else has taken.                 *)
LateAgeAt(p) ==
  pc[p] = "age" => \/ wb[p] \in Elems(ioq) /\ DriverOwns(wb[p])
                   \/ ~ Busy(wb[p])

(* B_ASYNC marks a buffer only while the driver has it.                    *)
AsyncAtDriver == \A b \in Bufs : "B_ASYNC" \in flags[b] => b \in Elems(ioq)

(* A process about to set B_AGE still has the CPU.                         *)
AgeKeepsCpu == \A p \in Procs : pc[p] = "age" => cur = p

(* The inductive invariant.                                                *)
IInv ==
  /\ TypeOK /\ FrameOK /\ LocalBufs /\ AsyncAtDriver /\ AgeKeepsCpu
  /\ FreeIffNotBusy /\ OneOwner /\ NoDupBiodone /\ LateAgeHarmless
-----------------------------------------------------------------------------
(* What the macros do.                                                     *)

(* brelse of a busy buffer puts it on one free list.                       *)
LEMMA BrelseFacts ==
  ASSUME TypeOK, FreeIffNotBusy, NEW b \in Bufs, Busy(b),
         NEW f \in SUBSET FlagSet, Brelse(b, f)
  PROVE  /\ FreeIffNotBusy'
         /\ bq_lru' \in Seq(Bufs) /\ bq_age' \in Seq(Bufs)
         /\ flags' \in [Bufs -> SUBSET FlagSet]
         /\ blk' \in [Bufs -> DevBlks \cup {NoBlk}]
         /\ wchan' \in [Procs -> Bufs \cup {BFREELIST, NoChan}]
         /\ flwanted' \in BOOLEAN
         /\ flags'[b] = f \ {"B_WANTED", "B_BUSY", "B_ASYNC", "B_AGE"}
         /\ \A c \in Bufs : c # b => flags'[c] = flags[c]
<1>1. b \notin Elems(bq_lru) /\ b \notin Elems(bq_age)
  BY DEF FreeIffNotBusy
<1>2. /\ flags' = [flags EXCEPT ![b] = f \ {"B_WANTED", "B_BUSY", "B_ASYNC", "B_AGE"}]
      /\ flags' \in [Bufs -> SUBSET FlagSet]
      /\ flags'[b] = f \ {"B_WANTED", "B_BUSY", "B_ASYNC", "B_AGE"}
      /\ \A c \in Bufs : c # b => flags'[c] = flags[c]
  BY DEF Brelse, TypeOK
<1>3. /\ blk' \in [Bufs -> DevBlks \cup {NoBlk}]
      /\ wchan' \in [Procs -> Bufs \cup {BFREELIST, NoChan}]
      /\ flwanted' \in BOOLEAN
  BY DEF Brelse, TypeOK
<1>4. \/ bq_age' = PushHead(bq_age, b) /\ bq_lru' = bq_lru
      \/ bq_age' = PushTail(bq_age, b) /\ bq_lru' = bq_lru
      \/ bq_lru' = PushTail(bq_lru, b) /\ bq_age' = bq_age
  BY DEF Brelse
<1>5. /\ bq_lru' \in Seq(Bufs) /\ bq_age' \in Seq(Bufs)
      /\ Distinct(bq_lru') /\ Distinct(bq_age')
      /\ \/ Elems(bq_lru') = Elems(bq_lru) \cup {b} /\ Elems(bq_age') = Elems(bq_age)
         \/ Elems(bq_lru') = Elems(bq_lru) /\ Elems(bq_age') = Elems(bq_age) \cup {b}
  BY <1>1, <1>4, PushFacts DEF TypeOK, FreeIffNotBusy
<1>6. FreeIffNotBusy'
  BY <1>1, <1>2, <1>5 DEF FreeIffNotBusy, Busy
<1> QED
  BY <1>2, <1>3, <1>5, <1>6

(* notavail takes a buffer off its list and leaves it busy.                *)
LEMMA NotAvailFacts ==
  ASSUME TypeOK, FreeIffNotBusy, NEW b \in Bufs,
         NEW f \in SUBSET FlagSet, "B_BUSY" \in f, NotAvail(b, f)
  PROVE  /\ FreeIffNotBusy'
         /\ bq_lru' \in Seq(Bufs) /\ bq_age' \in Seq(Bufs)
         /\ flags' \in [Bufs -> SUBSET FlagSet]
         /\ flags'[b] = f
         /\ \A c \in Bufs : c # b => flags'[c] = flags[c]
<1>1. /\ flags' = [flags EXCEPT ![b] = f]
      /\ flags' \in [Bufs -> SUBSET FlagSet]
      /\ flags'[b] = f
      /\ \A c \in Bufs : c # b => flags'[c] = flags[c]
  BY DEF NotAvail, TypeOK
<1>2. /\ bq_lru' \in Seq(Bufs) /\ bq_age' \in Seq(Bufs)
      /\ Distinct(bq_lru') /\ Distinct(bq_age')
      /\ Elems(bq_lru') = Elems(bq_lru) \ {b} /\ Elems(bq_age') = Elems(bq_age) \ {b}
  BY UnlinkFacts DEF NotAvail, TypeOK, FreeIffNotBusy
<1>3. FreeIffNotBusy'
  BY <1>1, <1>2 DEF FreeIffNotBusy, Busy
<1> QED
  BY <1>1, <1>2, <1>3

(* d_strategy adds one request.                                            *)
LEMMA StrategyFacts ==
  ASSUME ioq \in Seq(Bufs), Distinct(ioq), NEW b \in Bufs, b \notin Elems(ioq),
         NEW r, Strategy(b, r)
  PROVE  ioq' \in Seq(Bufs) /\ Distinct(ioq') /\ Elems(ioq') = Elems(ioq) \cup {b}
BY InsertFacts DEF Strategy

(* getnewbuf's choice is a free buffer.                                    *)
LEMMA OldestFree ==
  ASSUME TypeOK, FreeIffNotBusy, ~ NoFree
  PROVE  Oldest \in Bufs /\ ~ Busy(Oldest)
BY HeadInElems, ElemsType DEF TypeOK, FreeIffNotBusy, NoFree, Oldest

(* What p's step does to pc, the frame and the CPU.                        *)
LEMMA StepFacts ==
  ASSUME TypeOK, NEW p \in Procs, NEW l \in PCs, NEW f \in FrameType, Step(p, l, f)
  PROVE  /\ pc' \in [Procs -> PCs] /\ frame' \in [Procs -> FrameType]
         /\ cur' \in Procs \cup {NoProc}
         /\ pc'[p] = l
         /\ frame'[p] = IF l = "idle" THEN NoFrame ELSE f
         /\ \A q \in Procs : q # p => pc'[q] = pc[q] /\ frame'[q] = frame[q]
<1>1. NoFrame \in FrameType
  BY DEF NoFrame, Frame, FrameType, NoBlk, PCs
<1> QED
  BY <1>1 DEF TypeOK, Step

(* While p runs, no other process is in the middle of bwrite.              *)
LEMMA NoOtherAge ==
  ASSUME IInv, NEW p \in Procs, NEW l, Runs(p, l)
  PROVE  \A q \in Procs : q # p => pc[q] # "age"
BY BufferCacheAssumption DEF IInv, AgeKeepsCpu, Runs

-----------------------------------------------------------------------------
(* A step of p that moves no buffer, and sets no flag but B_WANTED or      *)
(* B_INVAL, keeps the invariant if p's own part of it still holds.         *)
LEMMA LocalStep ==
  ASSUME IInv, NEW p \in Procs, TypeOK', UNCHANGED <<bq_lru, bq_age, ioq>>,
         \A c \in Bufs : /\ "B_BUSY" \in flags'[c] <=> "B_BUSY" \in flags[c]
                         /\ "B_ASYNC" \in flags'[c] <=> "B_ASYNC" \in flags[c]
                         /\ "B_DONE" \in flags'[c] <=> "B_DONE" \in flags[c],
         \A q \in Procs : q # p => /\ pc'[q] = pc[q] /\ frame'[q] = frame[q]
                                   /\ bp'[q] = bp[q] /\ wb'[q] = wb[q]
                                   /\ pc[q] # "age",
         \A c \in Bufs : Owns(p, c)' <=> Owns(p, c),
         FrameAt(p)', LocalAt(p)', pc'[p] # "age"
  PROVE  IInv'
<1> USE DEF IInv
<1>1. FrameOK'
  BY DEF FrameOK, FrameAt, op, ret, xb, ra
<1>2. LocalBufs'
  BY DEF LocalBufs, LocalAt, ret
<1>3. AsyncAtDriver' /\ AgeKeepsCpu' /\ LateAgeHarmless'
  BY DEF AsyncAtDriver, AgeKeepsCpu, LateAgeHarmless
<1>4. FreeIffNotBusy' /\ NoDupBiodone'
  BY ElemsType DEF FreeIffNotBusy, NoDupBiodone, Busy, TypeOK
<1>5. \A q \in Procs, c \in Bufs : Owns(q, c)' <=> Owns(q, c)
  BY DEF Owns
<1>6. \A c \in Bufs : (Busy(c)' <=> Busy(c)) /\ (DriverOwns(c)' <=> DriverOwns(c))
  BY DEF Busy, DriverOwns
<1>7. OneOwner'
  BY <1>2, <1>5, <1>6 DEF OneOwner, LocalBufs, LocalAt
<1> QED
  BY <1>1, <1>2, <1>3, <1>4, <1>7

(* A step of p that changes one buffer b, which no other process owns,     *)
(* keeps the invariant if b's part and p's part of it still hold.          *)
LEMMA BufStep ==
  ASSUME IInv, NEW p \in Procs, NEW b \in Bufs, TypeOK', FreeIffNotBusy',
         Distinct(ioq'),
         \A q \in Procs : q # p => /\ pc'[q] = pc[q] /\ frame'[q] = frame[q]
                                   /\ bp'[q] = bp[q] /\ wb'[q] = wb[q]
                                   /\ pc[q] # "age"
                                   /\ ~ Owns(q, b),
         \A c \in Bufs : c # b => /\ flags'[c] = flags[c]
                                  /\ c \in Elems(ioq') <=> c \in Elems(ioq)
                                  /\ Owns(p, c)' <=> Owns(p, c),
         b \in Elems(ioq') => "B_BUSY" \in flags'[b] /\ "B_DONE" \notin flags'[b],
         "B_ASYNC" \in flags'[b] => b \in Elems(ioq') /\ ~ Owns(p, b)',
         "B_BUSY" \in flags'[b] <=> "B_ASYNC" \in flags'[b] \/ Owns(p, b)',
         FrameAt(p)', LocalAt(p)', pc'[p] = "age" => cur' = p, LateAgeAt(p)'
  PROVE  IInv'
<1> USE DEF IInv
<1>1. FrameOK'
  BY DEF FrameOK, FrameAt, op, ret, xb, ra
<1>2. ASSUME NEW q \in Procs, q # p PROVE LocalAt(q)'
  <2>1. pc[q] \in Fetching => wb[q] \in Bufs /\ wb[q] # b
    BY <1>2 DEF LocalBufs, LocalAt, TypeOK, Owns, Fetching
  <2>2. pc[q] \in {"hold", "brelse"} => bp[q] \in Bufs /\ bp[q] # b
    BY <1>2 DEF LocalBufs, LocalAt, TypeOK, Owns
  <2> QED
    BY <1>2, <2>1, <2>2 DEF LocalBufs, LocalAt, ret
<1>3. LocalBufs'
  BY <1>2 DEF LocalBufs
<1>4. AsyncAtDriver'
  BY DEF AsyncAtDriver
<1>5. AgeKeepsCpu' /\ LateAgeHarmless'
  BY DEF AgeKeepsCpu, LateAgeHarmless, LateAgeAt
<1>6. NoDupBiodone'
  <2> SUFFICES ASSUME NEW c \in Elems(ioq')
               PROVE  "B_BUSY" \in flags'[c] /\ "B_DONE" \notin flags'[c]
    BY DEF NoDupBiodone, Busy
  <2>1. c \in Bufs
    BY ElemsType DEF TypeOK
  <2> QED
    BY <2>1 DEF NoDupBiodone, Busy
<1>7. \A q \in Procs, c \in Bufs : q # p => (Owns(q, c)' <=> Owns(q, c))
  BY DEF Owns
<1>8. OneOwner'
  <2>1. \A c \in Bufs : Busy(c)' <=> DriverOwns(c)' \/ \E q \in Procs : Owns(q, c)'
    <3> SUFFICES ASSUME NEW c \in Bufs
                 PROVE  Busy(c)' <=> DriverOwns(c)' \/ \E q \in Procs : Owns(q, c)'
      OBVIOUS
    <3>1. CASE c = b
      BY <3>1, <1>7 DEF Busy, DriverOwns
    <3>2. CASE c # b
      <4>1. (Busy(c)' <=> Busy(c)) /\ (DriverOwns(c)' <=> DriverOwns(c))
        BY <3>2 DEF Busy, DriverOwns
      <4>2. \A q \in Procs : Owns(q, c)' <=> Owns(q, c)
        BY <3>2, <1>7
      <4> QED
        BY <4>1, <4>2 DEF OneOwner
    <3> QED
      BY <3>1, <3>2
  <2>2. \A c \in Bufs : \A q \in Procs :
          Owns(q, c)' => /\ ~ DriverOwns(c)'
                         /\ \A r \in Procs : Owns(r, c)' => r = q
    <3> SUFFICES ASSUME NEW c \in Bufs, NEW q \in Procs, Owns(q, c)'
                 PROVE  ~ DriverOwns(c)' /\ \A r \in Procs : Owns(r, c)' => r = q
      OBVIOUS
    <3>1. CASE c = b
      <4>1. q = p
        BY <3>1, <1>7
      <4> QED
        BY <3>1, <4>1, <1>7 DEF DriverOwns
    <3>2. CASE c # b
      <4>1. DriverOwns(c)' <=> DriverOwns(c)
        BY <3>2 DEF DriverOwns
      <4>2. \A r \in Procs : Owns(r, c)' <=> Owns(r, c)
        BY <3>2, <1>7
      <4> QED
        BY <4>1, <4>2 DEF OneOwner
    <3> QED
      BY <3>1, <3>2
  <2> QED
    BY <2>1, <2>2, <1>3 DEF OneOwner, LocalBufs, LocalAt
<1> QED
  BY <1>1, <1>3, <1>4, <1>5, <1>6, <1>8

-----------------------------------------------------------------------------
(* Steps that move no buffer.                                              *)

(* p only moves: from k to l with the frame f.                             *)
LEMMA Move ==
  ASSUME IInv, NEW p \in Procs, NEW k, Runs(p, k), k # "age",
         NEW l \in PCs, l # "age", NEW f \in FrameType, Step(p, l, f),
         UNCHANGED <<bufVars, dataVars, bp, wb, wchan>>,
         u_error' \in [Procs -> BOOLEAN],
         FrameAt(p)', LocalAt(p)'
  PROVE  IInv'
<1>1. /\ pc' \in [Procs -> PCs] /\ frame' \in [Procs -> FrameType]
      /\ cur' \in Procs \cup {NoProc}
      /\ pc'[p] = l
      /\ \A q \in Procs : q # p => pc'[q] = pc[q] /\ frame'[q] = frame[q]
  BY StepFacts DEF IInv
<1>2. TypeOK'
  BY <1>1 DEF IInv, TypeOK, bufVars, dataVars
<1>3. \A q \in Procs : q # p => pc[q] # "age"
  BY NoOtherAge
<1>4. pc[p] # "age" /\ pc'[p] # "age"
  BY <1>1 DEF Runs
<1>5. \A c \in Bufs : Owns(p, c)' <=> Owns(p, c)
  BY <1>4 DEF Owns
<1> QED
  BY <1>1, <1>2, <1>3, <1>4, <1>5, LocalStep DEF bufVars

(* A system call starts with a frame that fits the place it starts at.     *)
LEMMA CallStep ==
  ASSUME IInv, NEW p \in Procs, NEW l \in PCs, NEW f \in FrameType, Call(p, l, f),
         l \in {"getblk", "getnewbuf", "ra_check", "syncip", "bflush"},
         f.op \in {"bread", "getblk", "breada"} => f.xb \in Blocks,
         f.op = "breada" => f.ra \in Blocks,
         f.ret \in {"breada", "rahead"} => f.op = "breada",
         f.op # "iupdat",
         l = "ra_check" => f.op = "breada",
         l = "getblk" => f.op # "geteblk",
         l = "syncip" => f.op = "fsync",
         l = "bflush" => f.ret \in {"bflush", "binval"},
         l \in {"getblk", "getnewbuf"} => f.ret \in Fetching /\ f.op \in Fetchers
  PROVE  IInv'
<1>1. /\ Runs(p, "idle") /\ Step(p, l, f)
      /\ UNCHANGED <<bufVars, dataVars, bp, wb, wchan>>
      /\ u_error' \in [Procs -> BOOLEAN]
  BY DEF Call, IInv, TypeOK
<1>2. pc[p] = "idle" /\ pc'[p] = l /\ frame'[p] = f
  BY <1>1, StepFacts DEF IInv, Runs
<1>3. FrameAt(p)'
  BY <1>2 DEF FrameAt, op, ret, xb, ra
<1>4. wb[p] = NoBuf /\ bp[p] = NoBuf
  BY <1>2 DEF IInv, LocalBufs, LocalAt, Fetching
<1>5. LocalAt(p)'
  BY <1>1, <1>2, <1>4 DEF LocalAt, Fetching
<1> QED
  BY <1>1, <1>3, <1>5, Move

(* A block's name is a pair of numbers.                                    *)
LEMMA BlocksType ==
  ASSUME NEW x \in Blocks
  PROVE  x \in Int \X Int /\ Dblk(x) \in Int \X Int
<1>1. Devs \subseteq Int /\ FsBlks \subseteq Int
  BY BufferCacheAssumption
<1>2. x \in Int \X Int
  BY <1>1 DEF Blocks
<1> QED
  BY <1>2 DEF Dblk, fsbtodb

(* The fields of a new frame.                                              *)
LEMMA FrameFacts ==
  ASSUME NEW o \in AllOps, NEW r \in PCs, NEW x \in Int \X Int, NEW y \in Int \X Int
  PROVE  /\ Frame(o, r, x, y) \in FrameType
         /\ Frame(o, r, x, y).op = o /\ Frame(o, r, x, y).ret = r
         /\ Frame(o, r, x, y).xb = x /\ Frame(o, r, x, y).ra = y
BY DEF Frame, FrameType

(* Entering the kernel with any of the calls keeps the invariant.          *)
LEMMA StartStep ==
  ASSUME IInv, NEW p \in Procs, Start(p)
  PROVE  IInv'
<1> USE DEF Fetching, Fetchers
<1>1. InodeBlk \in Blocks /\ \A x \in Blocks : x \in Int \X Int
  BY BlocksType, BufferCacheAssumption
<1>2. NoBlk \in Int \X Int /\ \A d \in Devs : <<d, -1>> \in Int \X Int
  BY BufferCacheAssumption DEF NoBlk
<1>3. CASE CallBread(p)
  <2>1. PICK x \in Blocks : Call(p, "getblk", Frame("bread", "bread", x, NoBlk))
    BY <1>3 DEF CallBread
  <2> DEFINE f == Frame("bread", "bread", x, NoBlk)
  <2>2. "bread" \in AllOps /\ "bread" \in PCs
    BY DEF AllOps, PCs
  <2>3. x \in Int \X Int /\ NoBlk \in Int \X Int
    BY <1>1, <1>2
  <2>4. f \in FrameType /\ f.op = "bread" /\ f.ret = "bread" /\ f.xb = x /\ f.ra = NoBlk
    BY <2>2, <2>3, FrameFacts
  <2>5. "getblk" \in PCs
    BY DEF PCs
  <2>6. Call(p, "getblk", f)
    BY <2>1
  <2> HIDE DEF f
  <2> QED
    BY <2>5, <2>6, <2>4, CallStep
<1>4. CASE CallBreada(p)
  <2>1. PICK x \in Blocks, y \in Blocks :
          Call(p, IF incore(x) THEN "ra_check" ELSE "getblk", Frame("breada", "breada", x, y))
    BY <1>4 DEF CallBreada
  <2> DEFINE f == Frame("breada", "breada", x, y)
  <2>2. "breada" \in AllOps /\ "breada" \in PCs
    BY DEF AllOps, PCs
  <2>3. x \in Int \X Int /\ y \in Int \X Int
    BY <1>1, <1>2
  <2>4. f \in FrameType /\ f.op = "breada" /\ f.ret = "breada" /\ f.xb = x /\ f.ra = y
    BY <2>2, <2>3, FrameFacts
  <2> DEFINE l == IF incore(x) THEN "ra_check" ELSE "getblk"
  <2>5. l \in PCs /\ l \in {"ra_check", "getblk"}
    BY DEF PCs
  <2>6. Call(p, l, f)
    BY <2>1
  <2> HIDE DEF f, l
  <2> QED
    BY <2>5, <2>6, <2>4, CallStep
<1>5. CASE CallGetblk(p)
  <2>1. PICK x \in Blocks : Call(p, "getblk", Frame("getblk", "take", x, NoBlk))
    BY <1>5 DEF CallGetblk
  <2> DEFINE f == Frame("getblk", "take", x, NoBlk)
  <2>2. "getblk" \in AllOps /\ "take" \in PCs
    BY DEF AllOps, PCs
  <2>3. x \in Int \X Int /\ NoBlk \in Int \X Int
    BY <1>1, <1>2
  <2>4. f \in FrameType /\ f.op = "getblk" /\ f.ret = "take" /\ f.xb = x /\ f.ra = NoBlk
    BY <2>2, <2>3, FrameFacts
  <2>5. "getblk" \in PCs
    BY DEF PCs
  <2>6. Call(p, "getblk", f)
    BY <2>1
  <2> HIDE DEF f
  <2> QED
    BY <2>5, <2>6, <2>4, CallStep
<1>6. CASE CallGeteblk(p)
  <2>1. Call(p, "getnewbuf", Frame("geteblk", "take", NoBlk, NoBlk))
    BY <1>6 DEF CallGeteblk
  <2> DEFINE f == Frame("geteblk", "take", NoBlk, NoBlk)
  <2>2. "geteblk" \in AllOps /\ "take" \in PCs
    BY DEF AllOps, PCs
  <2>3. NoBlk \in Int \X Int /\ NoBlk \in Int \X Int
    BY <1>1, <1>2
  <2>4. f \in FrameType /\ f.op = "geteblk" /\ f.ret = "take" /\ f.xb = NoBlk /\ f.ra = NoBlk
    BY <2>2, <2>3, FrameFacts
  <2>5. "getnewbuf" \in PCs
    BY DEF PCs
  <2>6. Call(p, "getnewbuf", f)
    BY <2>1
  <2> HIDE DEF f
  <2> QED
    BY <2>5, <2>6, <2>4, CallStep
<1>7. CASE CallFsync(p)
  <2>1. Call(p, "syncip", Frame("fsync", "syncip", InodeBlk, NoBlk))
    BY <1>7 DEF CallFsync
  <2> DEFINE f == Frame("fsync", "syncip", InodeBlk, NoBlk)
  <2>2. "fsync" \in AllOps /\ "syncip" \in PCs
    BY DEF AllOps, PCs
  <2>3. InodeBlk \in Int \X Int /\ NoBlk \in Int \X Int
    BY <1>1, <1>2
  <2>4. f \in FrameType /\ f.op = "fsync" /\ f.ret = "syncip" /\ f.xb = InodeBlk /\ f.ra = NoBlk
    BY <2>2, <2>3, FrameFacts
  <2>5. "syncip" \in PCs
    BY DEF PCs
  <2>6. Call(p, "syncip", f)
    BY <2>1
  <2> HIDE DEF f
  <2> QED
    BY <2>5, <2>6, <2>4, CallStep
<1>8. CASE CallBflush(p)
  <2>1. PICK d \in Devs : Call(p, "bflush", Frame("bflush", "bflush", <<d, -1>>, NoBlk))
    BY <1>8 DEF CallBflush
  <2> DEFINE f == Frame("bflush", "bflush", <<d, -1>>, NoBlk)
  <2>2. "bflush" \in AllOps /\ "bflush" \in PCs
    BY DEF AllOps, PCs
  <2>3. <<d, -1>> \in Int \X Int /\ NoBlk \in Int \X Int
    BY <1>1, <1>2
  <2>4. f \in FrameType /\ f.op = "bflush" /\ f.ret = "bflush" /\ f.xb = <<d, -1>> /\ f.ra = NoBlk
    BY <2>2, <2>3, FrameFacts
  <2>5. "bflush" \in PCs
    BY DEF PCs
  <2>6. Call(p, "bflush", f)
    BY <2>1
  <2> HIDE DEF f
  <2> QED
    BY <2>5, <2>6, <2>4, CallStep
<1>9. CASE CallClose(p)
  <2>1. PICK d \in Devs : Call(p, "bflush", Frame("close", "binval", <<d, -1>>, NoBlk))
    BY <1>9 DEF CallClose
  <2> DEFINE f == Frame("close", "binval", <<d, -1>>, NoBlk)
  <2>2. "close" \in AllOps /\ "binval" \in PCs
    BY DEF AllOps, PCs
  <2>3. <<d, -1>> \in Int \X Int /\ NoBlk \in Int \X Int
    BY <1>1, <1>2
  <2>4. f \in FrameType /\ f.op = "close" /\ f.ret = "binval" /\ f.xb = <<d, -1>> /\ f.ra = NoBlk
    BY <2>2, <2>3, FrameFacts
  <2>5. "bflush" \in PCs
    BY DEF PCs
  <2>6. Call(p, "bflush", f)
    BY <2>1
  <2> HIDE DEF f
  <2> QED
    BY <2>5, <2>6, <2>4, CallStep
<1> QED
  BY <1>3, <1>4, <1>5, <1>6, <1>7, <1>8, <1>9 DEF Start

(* The frame with some of its fields set.                                  *)
LEMMA FrameEdits ==
  ASSUME NEW g \in FrameType
  PROVE  /\ \A r \in PCs : [g EXCEPT !.ret = r] \in FrameType
         /\ \A r \in PCs, n \in Nat \ {0} : [g EXCEPT !.ret = r, !.lbn = n] \in FrameType
         /\ \A x \in Int \X Int, n \in Nat \ {0} : [g EXCEPT !.xb = x, !.lbn = n] \in FrameType
         /\ \A n \in Nat \ {0} : [g EXCEPT !.lbn = n] \in FrameType
         /\ \A e \in BOOLEAN : /\ [g EXCEPT !.failed = e] \in FrameType
                            /\ [g EXCEPT !.slept = e] \in FrameType
         /\ \A x \in Int \X Int, r \in PCs :
              [g EXCEPT !.op = "iupdat", !.xb = x, !.ret = r] \in FrameType
BY DEF FrameType

(* The frame of a process is a record of that type.                        *)
LEMMA FrameOf ==
  ASSUME IInv, NEW p \in Procs
  PROVE  /\ frame[p] \in FrameType
         /\ ret(p) \in PCs /\ lbn(p) \in Nat \ {0}
BY DEF IInv, TypeOK, FrameType, ret, lbn


(* Where p was and is, and what the invariant says of it.                  *)
LEMMA MoveFacts ==
  ASSUME IInv, NEW p \in Procs, NEW k, Runs(p, k),
         NEW l \in PCs, NEW f \in FrameType, Step(p, l, f)
  PROVE  /\ pc[p] = k /\ pc'[p] = l
         /\ l # "idle" => frame'[p] = f
         /\ l = "idle" => op(p)' = "none" /\ ret(p)' = "idle"
         /\ FrameAt(p) /\ LocalAt(p)
<1>1. pc'[p] = l /\ frame'[p] = IF l = "idle" THEN NoFrame ELSE f
  BY StepFacts DEF IInv
<1>2. NoFrame.op = "none" /\ NoFrame.ret = "idle"
  BY DEF NoFrame, Frame
<1>3. FrameAt(p) /\ LocalAt(p) /\ pc[p] = k
  BY DEF IInv, FrameOK, LocalBufs, Runs
<1> QED
  BY <1>1, <1>2, <1>3 DEF op, ret

(* getblk's search fails: on to getnewbuf, with nothing taken.             *)
LEMMA GetblkMissStep ==
  ASSUME IInv, NEW p \in Procs, GetblkMiss(p)
  PROVE  IInv'
<1> DEFINE f == [frame[p] EXCEPT !.slept = FALSE]
<1>1. /\ Runs(p, "getblk") /\ Step(p, "getnewbuf", f)
      /\ UNCHANGED <<bufVars, dataVars, bp, wb, wchan>>
      /\ u_error' \in [Procs -> BOOLEAN]
  BY DEF GetblkMiss, Goto, IInv, TypeOK
<1>2. /\ f \in FrameType
      /\ f.op = op(p) /\ f.ret = ret(p) /\ f.xb = xb(p) /\ f.ra = ra(p)
  <2>1. frame[p] \in FrameType
    BY FrameOf
  <2>2. f \in FrameType
    BY <2>1, FrameEdits
  <2> QED
    BY <2>1, <2>2 DEF FrameType, op, ret, xb, ra
<1>3. "getnewbuf" \in PCs
  BY DEF PCs
<1> HIDE DEF f
<1>4. /\ pc[p] = "getblk" /\ pc'[p] = "getnewbuf"
      /\ "getnewbuf" # "idle" => frame'[p] = f
      /\ "getnewbuf" = "idle" => op(p)' = "none" /\ ret(p)' = "idle"
      /\ FrameAt(p) /\ LocalAt(p)
  BY <1>1, <1>2, <1>3, MoveFacts
<1>5. FrameAt(p)'
  BY <1>2, <1>3, <1>4 DEF FrameAt, op, ret, xb, ra, Fetching, Fetchers
<1>6. LocalAt(p)'
  BY <1>1, <1>2, <1>3, <1>4 DEF LocalAt, FrameAt, ret, Fetching, bufVars
<1> QED
  BY <1>1, <1>2, <1>3, <1>5, <1>6, Move

(* breada after the read-ahead: on to wait for the first block.            *)
LEMMA RaDoneStep ==
  ASSUME IInv, NEW p \in Procs, RaDone(p)
  PROVE  IInv'
<1> DEFINE f == [frame[p] EXCEPT !.ret = "bread"]
<1> DEFINE l == IF bp[p] = NoBuf THEN "getblk" ELSE "rwait"
<1>1. /\ Runs(p, "ra_done") /\ Step(p, l, f)
      /\ UNCHANGED <<bufVars, dataVars, bp, wb, wchan>>
      /\ u_error' \in [Procs -> BOOLEAN]
  BY DEF RaDone, Goto, IInv, TypeOK
<1>2. /\ f \in FrameType
      /\ f.op = op(p) /\ f.ret = "bread" /\ f.xb = xb(p) /\ f.ra = ra(p)
  <2>1. frame[p] \in FrameType /\ "bread" \in PCs
    BY FrameOf DEF PCs
  <2>2. f \in FrameType
    BY <2>1, FrameEdits
  <2> QED
    BY <2>1, <2>2 DEF FrameType, op, xb, ra
<1>3. /\ l \in PCs
      /\ l = IF bp[p] = NoBuf THEN "getblk" ELSE "rwait"
  BY DEF PCs
<1> HIDE DEF f, l
<1>4. /\ pc[p] = "ra_done" /\ pc'[p] = l
      /\ l # "idle" => frame'[p] = f
      /\ l = "idle" => op(p)' = "none" /\ ret(p)' = "idle"
      /\ FrameAt(p) /\ LocalAt(p)
  BY <1>1, <1>2, <1>3, MoveFacts
<1>5. FrameAt(p)'
  BY <1>2, <1>3, <1>4 DEF FrameAt, op, ret, xb, ra, Fetching, Fetchers
<1>6. LocalAt(p)'
  BY <1>1, <1>2, <1>3, <1>4 DEF LocalAt, FrameAt, ret, Fetching, bufVars
<1> QED
  BY <1>1, <1>2, <1>3, <1>5, <1>6, Move

(* syncip is done and iupdat starts with no buffer in hand.                *)
LEMMA SyncipDoneStep ==
  ASSUME IInv, NEW p \in Procs, SyncipDone(p)
  PROVE  IInv'
<1> DEFINE f == [frame[p] EXCEPT !.op = "iupdat", !.xb = InodeBlk, !.ret = "bread"]
<1>1. /\ Runs(p, "syncip") /\ Step(p, "getblk", f)
      /\ UNCHANGED <<bufVars, dataVars, bp, wb, wchan>>
      /\ u_error' \in [Procs -> BOOLEAN]
  BY DEF SyncipDone, Goto, IInv, TypeOK
<1>2. /\ f \in FrameType
      /\ f.op = "iupdat" /\ f.ret = "bread" /\ f.xb \in Blocks
  <2>1. frame[p] \in FrameType /\ "bread" \in PCs /\ InodeBlk \in Blocks
    BY FrameOf, BufferCacheAssumption DEF PCs
  <2>2. InodeBlk \in Int \X Int
    BY <2>1, BlocksType
  <2>3. f \in FrameType
    BY <2>1, <2>2, FrameEdits
  <2> QED
    BY <2>1, <2>3 DEF FrameType
<1>3. "getblk" \in PCs
  BY DEF PCs
<1> HIDE DEF f
<1>4. /\ pc[p] = "syncip" /\ pc'[p] = "getblk"
      /\ "getblk" # "idle" => frame'[p] = f
      /\ "getblk" = "idle" => op(p)' = "none" /\ ret(p)' = "idle"
      /\ FrameAt(p) /\ LocalAt(p)
  BY <1>1, <1>2, <1>3, MoveFacts
<1>5. FrameAt(p)'
  BY <1>2, <1>3, <1>4 DEF FrameAt, op, ret, xb, ra, Fetching, Fetchers
<1>6. LocalAt(p)'
  BY <1>1, <1>2, <1>3, <1>4 DEF LocalAt, FrameAt, ret, Fetching, bufVars
<1> QED
  BY <1>1, <1>2, <1>3, <1>5, <1>6, Move

(* blkflush finds nothing more and returns to syncip.                      *)
LEMMA BlkflushDoneStep ==
  ASSUME IInv, NEW p \in Procs, BlkflushDone(p)
  PROVE  IInv'
<1> DEFINE f == frame[p]
<1>1. /\ Runs(p, "blkflush") /\ Step(p, "syncip", f)
      /\ UNCHANGED <<bufVars, dataVars, bp, wb, wchan>>
      /\ u_error' \in [Procs -> BOOLEAN]
  BY DEF BlkflushDone, Goto, IInv, TypeOK
<1>2. /\ f \in FrameType
      /\ f.op = op(p) /\ f.ret = ret(p) /\ f.xb = xb(p) /\ f.ra = ra(p)
  BY FrameOf DEF op, ret, xb, ra
<1>3. "syncip" \in PCs
  BY DEF PCs
<1> HIDE DEF f
<1>4. /\ pc[p] = "blkflush" /\ pc'[p] = "syncip"
      /\ "syncip" # "idle" => frame'[p] = f
      /\ "syncip" = "idle" => op(p)' = "none" /\ ret(p)' = "idle"
      /\ FrameAt(p) /\ LocalAt(p)
  BY <1>1, <1>2, <1>3, MoveFacts
<1>5. FrameAt(p)'
  BY <1>2, <1>3, <1>4 DEF FrameAt, op, ret, xb, ra, Fetching, Fetchers
<1>6. LocalAt(p)'
  BY <1>1, <1>2, <1>3, <1>4 DEF LocalAt, FrameAt, ret, Fetching, bufVars
<1> QED
  BY <1>1, <1>2, <1>3, <1>5, <1>6, Move

(* fsync returns with no buffer in hand.                                   *)
LEMMA FsyncReturnStep ==
  ASSUME IInv, NEW p \in Procs, FsyncReturn(p)
  PROVE  IInv'
<1> DEFINE f == frame[p]
<1>1. /\ Runs(p, "fsynced") /\ Step(p, "idle", f)
      /\ UNCHANGED <<bufVars, dataVars, bp, wb, wchan>>
      /\ u_error' \in [Procs -> BOOLEAN]
  BY DEF FsyncReturn, Goto, IInv, TypeOK
<1>2. /\ f \in FrameType
      /\ f.op = op(p) /\ f.ret = ret(p) /\ f.xb = xb(p) /\ f.ra = ra(p)
  BY FrameOf DEF op, ret, xb, ra
<1>3. "idle" \in PCs
  BY DEF PCs
<1> HIDE DEF f
<1>4. /\ pc[p] = "fsynced" /\ pc'[p] = "idle"
      /\ "idle" # "idle" => frame'[p] = f
      /\ "idle" = "idle" => op(p)' = "none" /\ ret(p)' = "idle"
      /\ FrameAt(p) /\ LocalAt(p)
  BY <1>1, <1>2, <1>3, MoveFacts
<1>5. FrameAt(p)'
  BY <1>2, <1>3, <1>4 DEF FrameAt, op, ret, xb, ra, Fetching, Fetchers
<1>6. LocalAt(p)'
  BY <1>1, <1>2, <1>3, <1>4 DEF LocalAt, FrameAt, ret, Fetching, bufVars
<1> QED
  BY <1>1, <1>2, <1>3, <1>5, <1>6, Move

(* bflush finds nothing more and returns, or goes on to binval.            *)
LEMMA BflushDoneStep ==
  ASSUME IInv, NEW p \in Procs, BflushDone(p)
  PROVE  IInv'
<1> DEFINE f == frame[p]
<1> DEFINE l == IF ret(p) = "binval" THEN "binval" ELSE "idle"
<1>1. /\ Runs(p, "bflush") /\ Step(p, l, f)
      /\ UNCHANGED <<bufVars, dataVars, bp, wb, wchan>>
      /\ u_error' \in [Procs -> BOOLEAN]
  BY DEF BflushDone, Goto, IInv, TypeOK
<1>2. /\ f \in FrameType
      /\ f.op = op(p) /\ f.ret = ret(p) /\ f.xb = xb(p) /\ f.ra = ra(p)
  BY FrameOf DEF op, ret, xb, ra
<1>3. /\ l \in PCs
      /\ l \in {"binval", "idle"}
  BY DEF PCs
<1> HIDE DEF f, l
<1>4. /\ pc[p] = "bflush" /\ pc'[p] = l
      /\ l # "idle" => frame'[p] = f
      /\ l = "idle" => op(p)' = "none" /\ ret(p)' = "idle"
      /\ FrameAt(p) /\ LocalAt(p)
  BY <1>1, <1>2, <1>3, MoveFacts
<1>5. FrameAt(p)'
  BY <1>2, <1>3, <1>4 DEF FrameAt, op, ret, xb, ra, Fetching, Fetchers
<1>6. LocalAt(p)'
  BY <1>1, <1>2, <1>3, <1>4 DEF LocalAt, FrameAt, ret, Fetching, bufVars
<1> QED
  BY <1>1, <1>2, <1>3, <1>5, <1>6, Move

(* The driver's close routine returns.                                     *)
LEMMA DevCloseStep ==
  ASSUME IInv, NEW p \in Procs, DevClose(p)
  PROVE  IInv'
<1> DEFINE f == frame[p]
<1>1. /\ Runs(p, "d_close") /\ Step(p, "idle", f)
      /\ UNCHANGED <<bufVars, dataVars, bp, wb, wchan>>
      /\ u_error' \in [Procs -> BOOLEAN]
  BY DEF DevClose, Goto, IInv, TypeOK
<1>2. /\ f \in FrameType
      /\ f.op = op(p) /\ f.ret = ret(p) /\ f.xb = xb(p) /\ f.ra = ra(p)
  BY FrameOf DEF op, ret, xb, ra
<1>3. "idle" \in PCs
  BY DEF PCs
<1> HIDE DEF f
<1>4. /\ pc[p] = "d_close" /\ pc'[p] = "idle"
      /\ "idle" # "idle" => frame'[p] = f
      /\ "idle" = "idle" => op(p)' = "none" /\ ret(p)' = "idle"
      /\ FrameAt(p) /\ LocalAt(p)
  BY <1>1, <1>2, <1>3, MoveFacts
<1>5. FrameAt(p)'
  BY <1>2, <1>3, <1>4 DEF FrameAt, op, ret, xb, ra, Fetching, Fetchers
<1>6. LocalAt(p)'
  BY <1>1, <1>2, <1>3, <1>4 DEF LocalAt, FrameAt, ret, Fetching, bufVars
<1> QED
  BY <1>1, <1>2, <1>3, <1>5, <1>6, Move

(* p falls asleep: the place it will look again from is where it was.      *)
LEMMA SleepStep ==
  ASSUME IInv, NEW p \in Procs, NEW k, Runs(p, k), k # "age",
         NEW chan \in Bufs \cup {BFREELIST, NoChan}, Sleep(p, chan),
         flags' \in [Bufs -> SUBSET FlagSet],
         \A c \in Bufs : /\ "B_BUSY" \in flags'[c] <=> "B_BUSY" \in flags[c]
                         /\ "B_ASYNC" \in flags'[c] <=> "B_ASYNC" \in flags[c]
                         /\ "B_DONE" \in flags'[c] <=> "B_DONE" \in flags[c],
         flwanted' \in BOOLEAN,
         UNCHANGED <<blk, bq_lru, bq_age, ioq, dataVars, bp, wb>>,
         frame' \in [Procs -> FrameType],
         op(p)' = op(p), ret(p)' = ret(p), xb(p)' = xb(p), ra(p)' = ra(p),
         \A q \in Procs : q # p => frame'[q] = frame[q]
  PROVE  IInv'
<1>1. /\ pc' = pc /\ cur' = NoProc
      /\ wchan' \in [Procs -> Bufs \cup {BFREELIST, NoChan}]
      /\ u_error' \in [Procs -> BOOLEAN]
  BY DEF Sleep, IInv, TypeOK
<1>2. TypeOK'
  BY <1>1 DEF IInv, TypeOK, dataVars
<1>3. \A q \in Procs : pc[q] # "age"
  BY NoOtherAge DEF Runs
<1>4. \A c \in Bufs : Owns(p, c)' <=> Owns(p, c)
  BY <1>1 DEF Owns
<1>5. FrameAt(p)'
  BY <1>1 DEF IInv, FrameOK, FrameAt
<1>6. LocalAt(p)'
  BY <1>1 DEF IInv, LocalBufs, LocalAt
<1> QED
  BY <1>1, <1>2, <1>3, <1>4, <1>5, <1>6, LocalStep

(* Waiting for a busy buffer only sets its B_WANTED.                       *)
LEMMA AwaitBufStep ==
  ASSUME IInv, NEW p \in Procs, NEW k, Runs(p, k), k # "age",
         NEW b \in Bufs, AwaitBuf(p, b),
         frame' \in [Procs -> FrameType],
         op(p)' = op(p), ret(p)' = ret(p), xb(p)' = xb(p), ra(p)' = ra(p),
         \A q \in Procs : q # p => frame'[q] = frame[q]
  PROVE  IInv'
<1>1. /\ flags' = [flags EXCEPT ![b] = flags[b] \cup {"B_WANTED"}]
      /\ Sleep(p, b)
      /\ UNCHANGED <<blk, bq_lru, bq_age, flwanted, ioq, dataVars, bp, wb>>
  BY DEF AwaitBuf
<1>2. flags' \in [Bufs -> SUBSET FlagSet] /\ flwanted' \in BOOLEAN
  BY <1>1 DEF IInv, TypeOK, FlagSet
<1>3. \A c \in Bufs : /\ "B_BUSY" \in flags'[c] <=> "B_BUSY" \in flags[c]
                      /\ "B_ASYNC" \in flags'[c] <=> "B_ASYNC" \in flags[c]
                      /\ "B_DONE" \in flags'[c] <=> "B_DONE" \in flags[c]
  BY <1>1 DEF IInv, TypeOK
<1> QED
  BY <1>1, <1>2, <1>3, SleepStep

(* getblk sleeps on a busy buffer of its block.                            *)
LEMMA GetblkSleepStep ==
  ASSUME IInv, NEW p \in Procs, GetblkSleep(p)
  PROVE  IInv'
<1>1. PICK b \in Bufs : AwaitBuf(p, b)
  BY DEF GetblkSleep, Match
<1>2. Runs(p, "getblk") /\ frame' = frame
  BY DEF GetblkSleep
<1>3. frame' \in [Procs -> FrameType]
  BY <1>2 DEF IInv, TypeOK
<1> QED
  BY <1>1, <1>2, <1>3, AwaitBufStep DEF op, ret, xb, ra

(* blkflush sleeps on a busy buffer of its block.                          *)
LEMMA BlkflushSleepStep ==
  ASSUME IInv, NEW p \in Procs, BlkflushSleep(p)
  PROVE  IInv'
<1>1. PICK b \in Bufs : AwaitBuf(p, b)
  BY DEF BlkflushSleep, Match
<1>2. Runs(p, "blkflush") /\ frame' = frame
  BY DEF BlkflushSleep
<1>3. frame' \in [Procs -> FrameType]
  BY <1>2 DEF IInv, TypeOK
<1> QED
  BY <1>1, <1>2, <1>3, AwaitBufStep DEF op, ret, xb, ra

(* syncip sleeps on a busy delayed write.                                  *)
LEMMA SyncipSleepStep ==
  ASSUME IInv, NEW p \in Procs, SyncipSleep(p)
  PROVE  IInv'
<1>1. PICK b \in Bufs :
        AwaitBuf(p, b) /\ frame' = [frame EXCEPT ![p] = [frame[p] EXCEPT !.lbn = b]]
  BY DEF SyncipSleep
<1>2. Runs(p, "syncip") /\ b \in Nat \ {0} /\ frame \in [Procs -> FrameType]
  BY BufferCacheAssumption DEF SyncipSleep, Bufs, IInv, TypeOK
<1>3. [frame[p] EXCEPT !.lbn = b] \in FrameType
  BY <1>2, FrameEdits
<1>4. /\ frame' \in [Procs -> FrameType]
      /\ frame'[p] = [frame[p] EXCEPT !.lbn = b]
      /\ \A q \in Procs : q # p => frame'[q] = frame[q]
  BY <1>1, <1>2, <1>3
<1>5. op(p)' = op(p) /\ ret(p)' = ret(p) /\ xb(p)' = xb(p) /\ ra(p)' = ra(p)
  BY <1>2, <1>4 DEF op, ret, xb, ra, FrameType
<1> QED
  BY <1>1, <1>2, <1>4, <1>5, AwaitBufStep

(* getnewbuf sleeps when both free lists are empty.                        *)
LEMMA GetnewbufSleepStep ==
  ASSUME IInv, NEW p \in Procs, GetnewbufSleep(p)
  PROVE  IInv'
<1>1. /\ Runs(p, "getnewbuf") /\ Sleep(p, BFREELIST) /\ flwanted' \in BOOLEAN
      /\ frame' = [frame EXCEPT ![p] = [frame[p] EXCEPT !.slept = TRUE]]
      /\ UNCHANGED <<flags, blk, bq_lru, bq_age, ioq, dataVars, bp, wb>>
  BY DEF GetnewbufSleep
<1>2. /\ flags' \in [Bufs -> SUBSET FlagSet] /\ frame \in [Procs -> FrameType]
      /\ BFREELIST \in Bufs \cup {BFREELIST, NoChan}
  BY <1>1 DEF IInv, TypeOK
<1>3. [frame[p] EXCEPT !.slept = TRUE] \in FrameType
  BY <1>2, FrameEdits
<1>4. /\ frame' \in [Procs -> FrameType]
      /\ frame'[p] = [frame[p] EXCEPT !.slept = TRUE]
      /\ \A q \in Procs : q # p => frame'[q] = frame[q]
  BY <1>1, <1>2, <1>3
<1>5. op(p)' = op(p) /\ ret(p)' = ret(p) /\ xb(p)' = xb(p) /\ ra(p)' = ra(p)
  BY <1>2, <1>4 DEF op, ret, xb, ra, FrameType
<1> QED
  BY <1>1, <1>2, <1>4, <1>5, SleepStep

(* biowait sleeps on the process's own buffer.                             *)
LEMMA BiowaitSleepStep ==
  ASSUME IInv, NEW p \in Procs, BiowaitSleep(p)
  PROVE  IInv'
<1>1. PICK k \in {"rwait", "wwait"} : Runs(p, k)
  BY DEF BiowaitSleep
<1>2. /\ Sleep(p, bp[p])
      /\ UNCHANGED <<flags, blk, bq_lru, bq_age, flwanted, ioq, dataVars, frame, bp, wb>>
  BY DEF BiowaitSleep, bufVars
<1>3. /\ flags' \in [Bufs -> SUBSET FlagSet] /\ frame' \in [Procs -> FrameType]
      /\ flwanted' \in BOOLEAN
  BY <1>2 DEF IInv, TypeOK
<1>4. bp[p] \in Bufs
  BY <1>1 DEF IInv, TypeOK, LocalBufs, LocalAt, Runs
<1>5. op(p)' = op(p) /\ ret(p)' = ret(p) /\ xb(p)' = xb(p) /\ ra(p)' = ra(p)
  BY <1>2 DEF op, ret, xb, ra
<1> QED
  BY <1>1, <1>2, <1>3, <1>4, <1>5, SleepStep

(* breada looks whether the read-ahead block is in core.                   *)
LEMMA RaCheckStep ==
  ASSUME IInv, NEW p \in Procs, RaCheck(p)
  PROVE  IInv'
<1>1. /\ Runs(p, "ra_check")
      /\ UNCHANGED <<bufVars, dataVars, bp, wb, wchan>>
      /\ u_error' \in [Procs -> BOOLEAN]
      /\ frame[p] \in FrameType
  BY FrameOf DEF RaCheck, IInv, TypeOK
<1>2. CASE Step(p, "ra_done", frame[p])
  <2>1. "ra_done" \in PCs
    BY DEF PCs
  <2>2. /\ pc[p] = "ra_check" /\ pc'[p] = "ra_done" /\ frame'[p] = frame[p]
        /\ FrameAt(p) /\ LocalAt(p)
    BY <1>1, <1>2, <2>1, MoveFacts
  <2>3. FrameAt(p)' /\ LocalAt(p)'
    BY <1>1, <2>2 DEF FrameAt, LocalAt, op, ret, xb, ra, Fetching, bufVars
  <2> QED
    BY <1>1, <1>2, <2>1, <2>3, Move
<1>3. CASE Step(p, "getblk", [frame[p] EXCEPT !.ret = "rahead"])
  <2> DEFINE f == [frame[p] EXCEPT !.ret = "rahead"]
  <2>1. "getblk" \in PCs /\ "rahead" \in PCs
    BY DEF PCs
  <2>2. f \in FrameType
    BY <1>1, <2>1, FrameEdits
  <2>3. f.op = op(p) /\ f.ret = "rahead" /\ f.xb = xb(p) /\ f.ra = ra(p)
    BY <1>1, <2>2 DEF FrameType, op, xb, ra
  <2>4. Step(p, "getblk", f)
    BY <1>3
  <2> HIDE DEF f
  <2>5. /\ pc[p] = "ra_check" /\ pc'[p] = "getblk" /\ frame'[p] = f
        /\ FrameAt(p) /\ LocalAt(p)
    BY <1>1, <2>1, <2>2, <2>4, MoveFacts
  <2>6. FrameAt(p)'
    BY <2>3, <2>5 DEF FrameAt, op, ret, xb, ra, Fetching, Fetchers
  <2>7. LocalAt(p)'
    BY <1>1, <2>3, <2>5 DEF LocalAt, ret, Fetching, bufVars
  <2> QED
    BY <1>1, <2>1, <2>2, <2>4, <2>6, <2>7, Move
<1> QED
  BY <1>2, <1>3 DEF RaCheck, Goto

(* biowait finds B_DONE: the driver no longer has the buffer.              *)
LEMMA BiowaitDoneStep ==
  ASSUME IInv, NEW p \in Procs, BiowaitDone(p)
  PROVE  IInv'
<1> DEFINE e == frame[p].failed \/ "B_ERROR" \in flags[bp[p]]
           f == [frame[p] EXCEPT !.failed = e]
           l == IF pc[p] = "rwait" THEN "hold" ELSE "brelse"
<1>1. PICK k \in {"rwait", "wwait"} : Runs(p, k)
  BY DEF BiowaitDone
<1>2. /\ Step(p, l, f) /\ "B_DONE" \in flags[bp[p]]
      /\ UNCHANGED <<bufVars, dataVars, bp, wb, wchan>>
  BY DEF BiowaitDone
<1>3. u_error' \in [Procs -> BOOLEAN]
  BY DEF BiowaitDone, IInv, TypeOK
<1>4. frame[p] \in FrameType /\ e \in BOOLEAN
  BY FrameOf
<1> HIDE DEF e
<1>5. f \in FrameType
  BY <1>4, FrameEdits
<1>6. f.op = op(p) /\ f.ret = ret(p) /\ f.xb = xb(p) /\ f.ra = ra(p)
  BY <1>4, <1>5 DEF FrameType, op, ret, xb, ra
<1>7. l \in PCs /\ l = IF k = "rwait" THEN "hold" ELSE "brelse"
  BY <1>1 DEF PCs, Runs
<1> HIDE DEF f, l
<1>8. /\ pc[p] = k /\ pc'[p] = l /\ frame'[p] = f
      /\ FrameAt(p) /\ LocalAt(p)
  BY <1>1, <1>2, <1>5, <1>7, MoveFacts
<1>9. bp[p] \notin Elems(ioq)
  BY <1>2 DEF IInv, NoDupBiodone
<1>10. FrameAt(p)'
  BY <1>6, <1>7, <1>8 DEF FrameAt, op, ret, xb, ra, Fetching, Fetchers
<1>11. LocalAt(p)'
  BY <1>1, <1>2, <1>6, <1>7, <1>8, <1>9 DEF LocalAt, ret, Fetching, bufVars
<1> QED
  BY <1>1, <1>2, <1>3, <1>5, <1>7, <1>10, <1>11, Move

(* syncip calls blkflush for the next block of the file.                   *)
LEMMA SyncipBlkflushStep ==
  ASSUME IInv, NEW p \in Procs, SyncipBlkflush(p)
  PROVE  IInv'
<1> DEFINE x == Dblk(File[lbn(p)])
           f == [frame[p] EXCEPT !.xb = x, !.lbn = lbn(p) + 1]
<1>1. /\ Runs(p, "syncip") /\ Step(p, "blkflush", f)
      /\ UNCHANGED <<bufVars, dataVars, bp, wb, wchan>>
      /\ u_error' \in [Procs -> BOOLEAN]
      /\ lbn(p) <= Len(File)
  BY DEF SyncipBlkflush, IInv, TypeOK, lbn
<1>2. frame[p] \in FrameType /\ lbn(p) \in Nat \ {0} /\ lbn(p) + 1 \in Nat \ {0}
  BY FrameOf
<1>3. x \in Int \X Int
  <2>1. lbn(p) \in 1..Len(File) /\ File \in Seq(Blocks)
    BY <1>1, <1>2, BufferCacheAssumption
  <2>2. File[lbn(p)] \in Blocks
    BY <2>1
  <2> QED
    BY <2>2, BlocksType
<1> HIDE DEF x
<1>4. f \in FrameType
  BY <1>2, <1>3, FrameEdits
<1>5. f.op = op(p) /\ f.ret = ret(p) /\ f.ra = ra(p)
  BY <1>2, <1>4 DEF FrameType, op, ret, ra
<1>6. "blkflush" \in PCs
  BY DEF PCs
<1> HIDE DEF f
<1>7. /\ pc[p] = "syncip" /\ pc'[p] = "blkflush" /\ frame'[p] = f
      /\ FrameAt(p) /\ LocalAt(p)
  BY <1>1, <1>4, <1>6, MoveFacts
<1>8. FrameAt(p)'
  BY <1>5, <1>7 DEF FrameAt, op, ret, xb, ra, Fetching, Fetchers
<1>9. LocalAt(p)'
  BY <1>1, <1>5, <1>7 DEF LocalAt, ret, Fetching, bufVars
<1> QED
  BY <1>1, <1>4, <1>6, <1>8, <1>9, Move

(* A caller of getblk goes on with the buffer it returned.                 *)
LEMMA TakeStep ==
  ASSUME IInv, NEW p \in Procs, Take(p)
  PROVE  IInv'
<1>1. /\ Runs(p, "take") /\ Step(p, "hold", frame[p])
      /\ bp' = [bp EXCEPT ![p] = wb[p]] /\ wb' = [wb EXCEPT ![p] = NoBuf]
      /\ UNCHANGED <<bufVars, dataVars, wchan, u_error>>
  BY DEF Take, Goto
<1>2. frame[p] \in FrameType /\ "hold" \in PCs
  BY FrameOf DEF PCs
<1>3. /\ pc' \in [Procs -> PCs] /\ frame' \in [Procs -> FrameType]
      /\ cur' \in Procs \cup {NoProc}
      /\ \A q \in Procs : q # p => pc'[q] = pc[q] /\ frame'[q] = frame[q]
  BY <1>1, <1>2, StepFacts DEF IInv
<1>4. /\ pc[p] = "take" /\ pc'[p] = "hold" /\ frame'[p] = frame[p]
      /\ FrameAt(p) /\ LocalAt(p)
  BY <1>1, <1>2, MoveFacts
<1>5. TypeOK'
  BY <1>1, <1>3 DEF IInv, TypeOK, bufVars, dataVars
<1>6. /\ bp'[p] = wb[p] /\ wb'[p] = NoBuf
      /\ \A q \in Procs : q # p => bp'[q] = bp[q] /\ wb'[q] = wb[q]
  BY <1>1 DEF IInv, TypeOK
<1>7. /\ bp[p] = NoBuf /\ wb[p] # NoBuf /\ wb[p] \notin Elems(ioq)
      /\ \A c \in Bufs : c # NoBuf
  BY <1>4 DEF LocalAt, Fetching, Bufs, NoBuf
<1>8. \A c \in Bufs : Owns(p, c)' <=> Owns(p, c)
  BY <1>4, <1>6, <1>7 DEF Owns
<1>9. FrameAt(p)'
  BY <1>4 DEF FrameAt, op, ret, xb, ra
<1>10. LocalAt(p)'
  BY <1>1, <1>4, <1>6, <1>7 DEF LocalAt, Fetching, bufVars
<1>11. \A q \in Procs : q # p => pc[q] # "age"
  BY <1>1, NoOtherAge
<1> QED
  BY <1>1, <1>3, <1>4, <1>5, <1>6, <1>8, <1>9, <1>10, <1>11, LocalStep DEF bufVars

(* binval marks buffers and takes none.                                    *)
LEMMA BinvalStep ==
  ASSUME IInv, NEW p \in Procs, Binval(p)
  PROVE  IInv'
<1>1. /\ Runs(p, "binval") /\ Step(p, "d_close", frame[p])
      /\ UNCHANGED <<blk, bq_lru, bq_age, flwanted, ioq, dataVars, bp, wb, wchan, u_error>>
  BY DEF Binval, Goto
<1>2. frame[p] \in FrameType /\ "d_close" \in PCs
  BY FrameOf DEF PCs
<1>3. /\ pc' \in [Procs -> PCs] /\ frame' \in [Procs -> FrameType]
      /\ cur' \in Procs \cup {NoProc}
      /\ \A q \in Procs : q # p => pc'[q] = pc[q] /\ frame'[q] = frame[q]
  BY <1>1, <1>2, StepFacts DEF IInv
<1>4. /\ pc[p] = "binval" /\ pc'[p] = "d_close" /\ frame'[p] = frame[p]
      /\ FrameAt(p) /\ LocalAt(p)
  BY <1>1, <1>2, MoveFacts
<1>5. /\ flags' \in [Bufs -> SUBSET FlagSet]
      /\ \A c \in Bufs : flags'[c] = flags[c] \/ flags'[c] = flags[c] \cup {"B_INVAL"}
  BY DEF Binval, IInv, TypeOK, FlagSet
<1>6. TypeOK'
  BY <1>1, <1>3, <1>5 DEF IInv, TypeOK, dataVars
<1>7. \A c \in Bufs : /\ "B_BUSY" \in flags'[c] <=> "B_BUSY" \in flags[c]
                      /\ "B_ASYNC" \in flags'[c] <=> "B_ASYNC" \in flags[c]
                      /\ "B_DONE" \in flags'[c] <=> "B_DONE" \in flags[c]
  BY <1>5
<1>8. \A c \in Bufs : Owns(p, c)' <=> Owns(p, c)
  BY <1>1, <1>4 DEF Owns
<1>9. FrameAt(p)' /\ LocalAt(p)'
  BY <1>1, <1>4 DEF FrameAt, LocalAt, op, ret, xb, ra, Fetching
<1>10. \A q \in Procs : q # p => pc[q] # "age"
  BY <1>1, NoOtherAge
<1> QED
  BY <1>1, <1>3, <1>4, <1>6, <1>7, <1>8, <1>9, <1>10, LocalStep

-----------------------------------------------------------------------------
(* Steps that take, use or release a buffer.                               *)

(* A free buffer has no owner and is not at the driver.                    *)
LEMMA FreeNotOwned ==
  ASSUME IInv, NEW b \in Bufs, ~ Busy(b)
  PROVE  /\ \A q \in Procs : ~ Owns(q, b)
         /\ b \notin Elems(ioq)
         /\ "B_ASYNC" \notin flags[b]
BY DEF IInv, OneOwner, NoDupBiodone, AsyncAtDriver

(* A buffer a process owns is busy, its own and not asynchronous.          *)
LEMMA OwnedAlone ==
  ASSUME IInv, NEW p \in Procs, NEW b \in Bufs, Owns(p, b)
  PROVE  /\ Busy(b)
         /\ \A q \in Procs : q # p => ~ Owns(q, b)
         /\ "B_ASYNC" \notin flags[b]
BY DEF IInv, OneOwner, AsyncAtDriver, DriverOwns

(* BufStep for a step of p from k to l with the frame f.                   *)
LEMMA BufMove ==
  ASSUME IInv, NEW p \in Procs, NEW k, Runs(p, k),
         NEW l \in PCs, NEW f \in FrameType, Step(p, l, f), NEW b \in Bufs,
         \A q \in Procs : q # p => bp'[q] = bp[q] /\ wb'[q] = wb[q] /\ ~ Owns(q, b),
         FreeIffNotBusy', bq_lru' \in Seq(Bufs), bq_age' \in Seq(Bufs),
         ioq' \in Seq(Bufs), Distinct(ioq'),
         flags' \in [Bufs -> SUBSET FlagSet], blk' \in [Bufs -> DevBlks \cup {NoBlk}],
         flwanted' \in BOOLEAN, u_error' \in [Procs -> BOOLEAN],
         wchan' \in [Procs -> Bufs \cup {BFREELIST, NoChan}],
         latest' \in [Bufs -> BOOLEAN], dlatest' \in [DevBlks -> BOOLEAN],
         bp' \in [Procs -> Bufs \cup {NoBuf}], wb' \in [Procs -> Bufs \cup {NoBuf}],
         \A c \in Bufs : c # b => /\ flags'[c] = flags[c]
                                  /\ c \in Elems(ioq') <=> c \in Elems(ioq)
                                  /\ Owns(p, c)' <=> Owns(p, c),
         b \in Elems(ioq') => "B_BUSY" \in flags'[b] /\ "B_DONE" \notin flags'[b],
         "B_ASYNC" \in flags'[b] => b \in Elems(ioq') /\ ~ Owns(p, b)',
         "B_BUSY" \in flags'[b] <=> "B_ASYNC" \in flags'[b] \/ Owns(p, b)',
         FrameAt(p)', LocalAt(p)', LateAgeAt(p)'
  PROVE  IInv'
<1>1. /\ pc' \in [Procs -> PCs] /\ frame' \in [Procs -> FrameType]
      /\ cur' \in Procs \cup {NoProc}
      /\ pc'[p] = l
      /\ \A q \in Procs : q # p => pc'[q] = pc[q] /\ frame'[q] = frame[q]
  BY StepFacts DEF IInv
<1>2. TypeOK'
  BY <1>1 DEF TypeOK
<1>3. \A q \in Procs : q # p => pc[q] # "age"
  BY NoOtherAge
<1>4. pc'[p] = "age" => cur' = p
  BY <1>1 DEF Step, Leaves
<1> QED
  BY <1>1, <1>2, <1>3, <1>4, BufStep

(* getblk takes a free buffer and returns it.                              *)
LEMMA TakeFree ==
  ASSUME IInv, NEW p \in Procs, NEW k \in {"getblk", "getnewbuf"}, Runs(p, k),
         NEW b \in Bufs, ~ Busy(b),
         NEW f \in SUBSET FlagSet, "B_BUSY" \in f, "B_ASYNC" \notin f, NotAvail(b, f),
         wb' = [wb EXCEPT ![p] = b], Goto(p, ret(p)),
         blk' \in [Bufs -> DevBlks \cup {NoBlk}], latest' \in [Bufs -> BOOLEAN],
         UNCHANGED <<flwanted, ioq, dlatest, bp, wchan, u_error>>
  PROVE  IInv'
<1>1. frame[p] \in FrameType /\ ret(p) \in PCs /\ Step(p, ret(p), frame[p])
  BY FrameOf DEF Goto
<1>2. /\ pc[p] = k /\ pc'[p] = ret(p) /\ FrameAt(p) /\ LocalAt(p)
      /\ ret(p) # "idle" => frame'[p] = frame[p]
  BY <1>1, MoveFacts
<1>3. ret(p) \in Fetching /\ op(p) \in Fetchers /\ frame'[p] = frame[p]
  BY <1>2 DEF FrameAt, Fetching
<1>4. /\ \A q \in Procs : ~ Owns(q, b)
      /\ b \notin Elems(ioq)
  BY FreeNotOwned
<1>5. /\ FreeIffNotBusy'
      /\ bq_lru' \in Seq(Bufs) /\ bq_age' \in Seq(Bufs)
      /\ flags' \in [Bufs -> SUBSET FlagSet]
      /\ flags'[b] = f
      /\ \A c \in Bufs : c # b => flags'[c] = flags[c]
  BY NotAvailFacts DEF IInv
<1>6. /\ ioq' \in Seq(Bufs) /\ Distinct(ioq') /\ ioq' = ioq
      /\ flwanted' \in BOOLEAN /\ u_error' \in [Procs -> BOOLEAN]
      /\ wchan' \in [Procs -> Bufs \cup {BFREELIST, NoChan}]
      /\ dlatest' \in [DevBlks -> BOOLEAN]
      /\ bp' \in [Procs -> Bufs \cup {NoBuf}] /\ wb' \in [Procs -> Bufs \cup {NoBuf}]
  BY DEF IInv, TypeOK, NoDupBiodone
<1>7. /\ bp' = bp /\ wb'[p] = b
      /\ \A q \in Procs : q # p => bp'[q] = bp[q] /\ wb'[q] = wb[q]
  BY DEF IInv, TypeOK
<1>8. wb[p] = NoBuf /\ b # NoBuf /\ bp[p] # b /\ \A c \in Bufs : c # NoBuf
  BY <1>2, <1>4 DEF LocalAt, Fetching, Bufs, NoBuf, Owns
<1>9. Owns(p, b)' /\ \A c \in Bufs : c # b => (Owns(p, c)' <=> Owns(p, c))
  BY <1>2, <1>3, <1>7, <1>8 DEF Owns, Fetching
<1>10. FrameAt(p)'
  BY <1>2, <1>3 DEF FrameAt, op, ret, xb, ra, Fetching, Fetchers
<1>11. LocalAt(p)' /\ LateAgeAt(p)'
  BY <1>2, <1>3, <1>4, <1>6, <1>7, <1>8 DEF LocalAt, FrameAt, LateAgeAt, op, ret, Fetching
<1> QED
  BY <1>1, <1>4, <1>5, <1>6, <1>7, <1>9, <1>10, <1>11, BufMove, ZenonT(30)

(* getblk takes a free buffer that holds the block.                        *)
LEMMA GetblkHitStep ==
  ASSUME IInv, NEW p \in Procs, GetblkHit(p)
  PROVE  IInv'
<1>1. PICK b \in Bufs :
        /\ ~ Busy(b)
        /\ NotAvail(b, flags[b] \cup {"B_BUSY"})
        /\ wb' = [wb EXCEPT ![p] = b]
  BY DEF GetblkHit, Match
<1>2. /\ Runs(p, "getblk") /\ Goto(p, ret(p))
      /\ UNCHANGED <<flwanted, ioq, bp, wchan, u_error>>
      /\ blk' = blk /\ latest' = latest /\ dlatest' = dlatest
  BY DEF GetblkHit, dataVars
<1>3. /\ flags[b] \cup {"B_BUSY"} \in SUBSET FlagSet
      /\ blk' \in [Bufs -> DevBlks \cup {NoBlk}] /\ latest' \in [Bufs -> BOOLEAN]
  BY <1>2 DEF IInv, TypeOK, FlagSet
<1>4. "B_ASYNC" \notin flags[b] \cup {"B_BUSY"}
  BY <1>1, FreeNotOwned
<1> QED
  BY <1>1, <1>2, <1>3, <1>4, TakeFree

(* getnewbuf takes the oldest clean buffer, which nobody else can have.    *)
LEMMA GetnewbufTakeStep ==
  ASSUME IInv, NEW p \in Procs, GetnewbufTake(p)
  PROVE  IInv'
<1> DEFINE b == Oldest
<1>1. /\ Runs(p, "getnewbuf") /\ ~ NoFree
      /\ latest' = [latest EXCEPT ![b] = FALSE]
      /\ wb' = [wb EXCEPT ![p] = b] /\ Goto(p, ret(p))
      /\ UNCHANGED <<flwanted, ioq, dlatest, bp, wchan, u_error>>
  BY DEF GetnewbufTake
<1>2. b \in Bufs /\ ~ Busy(b)
  BY <1>1, OldestFree DEF IInv
<1> HIDE DEF b
<1>3. latest' \in [Bufs -> BOOLEAN]
  BY <1>1 DEF IInv, TypeOK
<1>4. CASE op(p) = "geteblk"
  <2>1. NotAvail(b, {"B_BUSY", "B_INVAL"}) /\ blk' = [blk EXCEPT ![b] = NoBlk]
    BY <1>4 DEF GetnewbufTake, b
  <2>2. blk' \in [Bufs -> DevBlks \cup {NoBlk}] /\ {"B_BUSY", "B_INVAL"} \in SUBSET FlagSet
    BY <2>1 DEF IInv, TypeOK, FlagSet
  <2> QED
    BY <1>1, <1>2, <1>3, <2>1, <2>2, TakeFree
<1>5. CASE op(p) # "geteblk"
  <2>1. NotAvail(b, {"B_BUSY"}) /\ blk' = [blk EXCEPT ![b] = Dblk(Want(p))]
    BY <1>5 DEF GetnewbufTake, b
  <2>2. Want(p) \in Blocks
    <3>1. op(p) \in Fetchers /\ FrameAt(p)
      BY <1>1 DEF IInv, FrameOK, FrameAt, Runs
    <3> QED
      BY <1>5, <3>1 DEF FrameAt, Fetchers, Want
  <2>3. Dblk(Want(p)) \in DevBlks
    BY <2>2 DEF DevBlks
  <2>4. blk' \in [Bufs -> DevBlks \cup {NoBlk}] /\ {"B_BUSY"} \in SUBSET FlagSet
    BY <2>1, <2>3 DEF IInv, TypeOK, FlagSet
  <2> QED
    BY <1>1, <1>2, <1>3, <2>1, <2>4, TakeFree
<1> QED
  BY <1>4, <1>5

(* The flags of a buffer bwrite gives to the driver.                       *)
LEMMA WriteFlagsFacts ==
  ASSUME NEW f \in SUBSET FlagSet
  PROVE  /\ WriteFlags(f) \in SUBSET FlagSet
         /\ "B_DONE" \notin WriteFlags(f)
         /\ "B_BUSY" \in WriteFlags(f) <=> "B_BUSY" \in f
         /\ "B_ASYNC" \in WriteFlags(f) <=> "B_ASYNC" \in f
BY DEF WriteFlags

(* A free delayed write goes to the driver, which owns it from then on.    *)
LEMMA PushOutStep ==
  ASSUME IInv, NEW p \in Procs, NEW k \in {"getnewbuf", "bflush"}, Runs(p, k),
         NEW b \in Bufs, ~ Busy(b), PushOut(p, b)
  PROVE  IInv'
<1> DEFINE g == flags[b] \cup {"B_BUSY", "B_ASYNC"}
           f == WriteFlags(g)
<1>1. /\ NotAvail(b, f) /\ Strategy(b, FALSE)
      /\ wb' = [wb EXCEPT ![p] = b] /\ Step(p, "age", frame[p])
      /\ UNCHANGED <<blk, flwanted, latest, dlatest, bp, wchan, u_error>>
  BY DEF PushOut, Goto, dataVars
<1>2. g \in SUBSET FlagSet /\ "B_BUSY" \in g /\ "B_ASYNC" \in g
  BY DEF IInv, TypeOK, FlagSet
<1> HIDE DEF g
<1>3. f \in SUBSET FlagSet /\ "B_BUSY" \in f /\ "B_ASYNC" \in f /\ "B_DONE" \notin f
  BY <1>2, WriteFlagsFacts
<1> HIDE DEF f
<1>4. frame[p] \in FrameType /\ "age" \in PCs
  BY FrameOf DEF PCs
<1>5. /\ pc[p] = k /\ pc'[p] = "age" /\ FrameAt(p) /\ LocalAt(p)
      /\ frame'[p] = frame[p]
  BY <1>1, <1>4, MoveFacts
<1>6. /\ \A q \in Procs : ~ Owns(q, b)
      /\ b \notin Elems(ioq)
  BY FreeNotOwned
<1>7. /\ FreeIffNotBusy'
      /\ bq_lru' \in Seq(Bufs) /\ bq_age' \in Seq(Bufs)
      /\ flags' \in [Bufs -> SUBSET FlagSet]
      /\ flags'[b] = f
      /\ \A c \in Bufs : c # b => flags'[c] = flags[c]
  BY <1>1, <1>3, NotAvailFacts DEF IInv
<1>8. ioq' \in Seq(Bufs) /\ Distinct(ioq') /\ Elems(ioq') = Elems(ioq) \cup {b}
  BY <1>1, <1>6, StrategyFacts DEF IInv, TypeOK, NoDupBiodone
<1>9. /\ flwanted' \in BOOLEAN /\ u_error' \in [Procs -> BOOLEAN]
      /\ wchan' \in [Procs -> Bufs \cup {BFREELIST, NoChan}]
      /\ latest' \in [Bufs -> BOOLEAN] /\ dlatest' \in [DevBlks -> BOOLEAN]
      /\ blk' \in [Bufs -> DevBlks \cup {NoBlk}]
      /\ bp' \in [Procs -> Bufs \cup {NoBuf}] /\ wb' \in [Procs -> Bufs \cup {NoBuf}]
  BY <1>1 DEF IInv, TypeOK
<1>10. /\ bp' = bp /\ wb'[p] = b
       /\ \A q \in Procs : q # p => bp'[q] = bp[q] /\ wb'[q] = wb[q]
  BY <1>1 DEF IInv, TypeOK
<1>11. wb[p] = NoBuf /\ b # NoBuf /\ bp[p] # b /\ \A c \in Bufs : c # NoBuf
  BY <1>5, <1>6 DEF LocalAt, Fetching, Bufs, NoBuf, Owns
<1>12. ~ Owns(p, b)' /\ \A c \in Bufs : c # b => (Owns(p, c)' <=> Owns(p, c))
  BY <1>5, <1>10, <1>11 DEF Owns
<1>13. FrameAt(p)'
  BY <1>5 DEF FrameAt, op, ret, xb, ra
<1>14. LocalAt(p)'
  BY <1>5, <1>10, <1>11 DEF LocalAt, ret, Fetching
<1>15. LateAgeAt(p)'
  BY <1>3, <1>7, <1>8, <1>10 DEF LateAgeAt, DriverOwns
<1> QED
  BY <1>1, <1>3, <1>4, <1>6, <1>7, <1>8, <1>9, <1>10, <1>12, <1>13, <1>14, <1>15, BufMove

(* getnewbuf hands the oldest delayed write to the driver.                 *)
LEMMA GetnewbufWriteStep ==
  ASSUME IInv, NEW p \in Procs, GetnewbufWrite(p)
  PROVE  IInv'
<1>1. Oldest \in Bufs /\ ~ Busy(Oldest)
  BY OldestFree DEF GetnewbufWrite, IInv
<1> QED
  BY <1>1, PushOutStep DEF GetnewbufWrite

(* What bflush scans is free.                                              *)
LEMMA ScanOrderFree ==
  ASSUME TypeOK, FreeIffNotBusy, NEW i \in DOMAIN ScanOrder
  PROVE  ScanOrder[i] \in Bufs /\ ~ Busy(ScanOrder[i])
<1>1. bq_lru \in Seq(Bufs) /\ bq_age \in Seq(Bufs)
  BY DEF TypeOK
<1>2. \/ i \in DOMAIN bq_lru /\ ScanOrder[i] = bq_lru[i]
      \/ i - Len(bq_lru) \in DOMAIN bq_age /\ ScanOrder[i] = bq_age[i - Len(bq_lru)]
  BY <1>1 DEF ScanOrder
<1>3. ScanOrder[i] \in Elems(bq_lru) \cup Elems(bq_age)
  BY <1>2 DEF Elems
<1> QED
  BY <1>3 DEF FreeIffNotBusy

(* bflush hands a delayed write to the driver.                             *)
LEMMA BflushWriteStep ==
  ASSUME IInv, NEW p \in Procs, BflushWrite(p)
  PROVE  IInv'
<1>1. PICK i \in DOMAIN ScanOrder : PushOut(p, ScanOrder[i])
  BY DEF BflushWrite
<1>2. ScanOrder[i] \in Bufs /\ ~ Busy(ScanOrder[i])
  BY ScanOrderFree DEF IInv
<1>3. Runs(p, "bflush")
  BY DEF BflushWrite
<1> QED
  BY <1>1, <1>2, <1>3, PushOutStep

(* fsync takes a free delayed write and writes it synchronously.           *)
LEMMA FlushBufStep ==
  ASSUME IInv, NEW p \in Procs, NEW r \in {"syncip", "blkflush"}, Runs(p, r),
         NEW b \in Bufs, NEW n \in Nat \ {0}, FlushBuf(p, b, r, n)
  PROVE  IInv'
<1> DEFINE g == flags[b] \cup {"B_BUSY"}
           f == WriteFlags(g)
           fr == [frame[p] EXCEPT !.ret = r, !.lbn = n]
<1>1. /\ ~ Busy(b) /\ NotAvail(b, f) /\ Strategy(b, FALSE)
      /\ bp' = [bp EXCEPT ![p] = b] /\ Step(p, "wwait", fr)
      /\ UNCHANGED <<blk, flwanted, latest, dlatest, wb, wchan, u_error>>
  BY DEF FlushBuf, dataVars
<1>2. /\ \A q \in Procs : ~ Owns(q, b)
      /\ b \notin Elems(ioq) /\ "B_ASYNC" \notin flags[b]
  BY <1>1, FreeNotOwned
<1>3. g \in SUBSET FlagSet /\ "B_BUSY" \in g /\ "B_ASYNC" \notin g
  BY <1>2 DEF IInv, TypeOK, FlagSet
<1> HIDE DEF g
<1>4. f \in SUBSET FlagSet /\ "B_BUSY" \in f /\ "B_ASYNC" \notin f /\ "B_DONE" \notin f
  BY <1>3, WriteFlagsFacts
<1> HIDE DEF f
<1>5. frame[p] \in FrameType /\ "wwait" \in PCs /\ r \in PCs
  BY FrameOf DEF PCs
<1>6. fr \in FrameType
  BY <1>5, FrameEdits
<1>7. fr.op = op(p) /\ fr.ret = r /\ fr.xb = xb(p) /\ fr.ra = ra(p)
  BY <1>5, <1>6 DEF FrameType, op, xb, ra
<1> HIDE DEF fr
<1>8. /\ pc[p] = r /\ pc'[p] = "wwait" /\ FrameAt(p) /\ LocalAt(p)
      /\ frame'[p] = fr
  BY <1>1, <1>5, <1>6, MoveFacts
<1>9. /\ FreeIffNotBusy'
      /\ bq_lru' \in Seq(Bufs) /\ bq_age' \in Seq(Bufs)
      /\ flags' \in [Bufs -> SUBSET FlagSet]
      /\ flags'[b] = f
      /\ \A c \in Bufs : c # b => flags'[c] = flags[c]
  BY <1>1, <1>4, NotAvailFacts DEF IInv
<1>10. ioq' \in Seq(Bufs) /\ Distinct(ioq') /\ Elems(ioq') = Elems(ioq) \cup {b}
  BY <1>1, <1>2, StrategyFacts DEF IInv, TypeOK, NoDupBiodone
<1>11. /\ flwanted' \in BOOLEAN /\ u_error' \in [Procs -> BOOLEAN]
       /\ wchan' \in [Procs -> Bufs \cup {BFREELIST, NoChan}]
       /\ latest' \in [Bufs -> BOOLEAN] /\ dlatest' \in [DevBlks -> BOOLEAN]
       /\ blk' \in [Bufs -> DevBlks \cup {NoBlk}]
       /\ bp' \in [Procs -> Bufs \cup {NoBuf}] /\ wb' \in [Procs -> Bufs \cup {NoBuf}]
  BY <1>1 DEF IInv, TypeOK
<1>12. /\ bp'[p] = b /\ wb' = wb
       /\ \A q \in Procs : q # p => bp'[q] = bp[q] /\ wb'[q] = wb[q]
  BY <1>1 DEF IInv, TypeOK
<1>13. wb[p] = NoBuf /\ b # NoBuf /\ bp[p] = NoBuf /\ \A c \in Bufs : c # NoBuf
  BY <1>8 DEF LocalAt, Fetching, Bufs, NoBuf
<1>14. Owns(p, b)' /\ \A c \in Bufs : c # b => (Owns(p, c)' <=> Owns(p, c))
  BY <1>8, <1>12, <1>13 DEF Owns
<1>15. FrameAt(p)'
  BY <1>7, <1>8 DEF FrameAt, op, ret, xb, ra, Fetching
<1>16. LocalAt(p)' /\ LateAgeAt(p)'
  BY <1>7, <1>8, <1>12, <1>13 DEF LocalAt, LateAgeAt, ret, Fetching
<1>17. /\ \A q \in Procs : q # p => bp'[q] = bp[q] /\ wb'[q] = wb[q] /\ ~ Owns(q, b)
       /\ \A c \in Bufs : c # b => /\ flags'[c] = flags[c]
                                   /\ c \in Elems(ioq') <=> c \in Elems(ioq)
                                   /\ Owns(p, c)' <=> Owns(p, c)
  BY <1>2, <1>9, <1>10, <1>12, <1>14
<1>18. /\ b \in Elems(ioq') => "B_BUSY" \in flags'[b] /\ "B_DONE" \notin flags'[b]
       /\ "B_ASYNC" \in flags'[b] => b \in Elems(ioq') /\ ~ Owns(p, b)'
       /\ "B_BUSY" \in flags'[b] <=> "B_ASYNC" \in flags'[b] \/ Owns(p, b)'
  BY <1>4, <1>9, <1>14, Zenon
<1>19. Step(p, "wwait", fr)
  BY <1>1
<1> QED
  BY <1>5, <1>6, <1>9, <1>10, <1>11, <1>15, <1>16, <1>17, <1>18, <1>19, BufMove, ZenonT(30)

(* syncip writes a free delayed write and owns it till it is written.      *)
LEMMA SyncipWriteStep ==
  ASSUME IInv, NEW p \in Procs, SyncipWrite(p)
  PROVE  IInv'
<1>1. PICK b \in Bufs : FlushBuf(p, b, "syncip", b + 1)
  BY DEF SyncipWrite
<1>2. Runs(p, "syncip") /\ b + 1 \in Nat \ {0}
  BY BufferCacheAssumption DEF SyncipWrite, Bufs
<1> QED
  BY <1>1, <1>2, FlushBufStep

(* blkflush writes a free delayed write and owns it till it is written.    *)
LEMMA BlkflushWriteStep ==
  ASSUME IInv, NEW p \in Procs, BlkflushWrite(p)
  PROVE  IInv'
<1>1. PICK b \in Bufs : FlushBuf(p, b, "blkflush", lbn(p))
  BY DEF BlkflushWrite, Match
<1>2. Runs(p, "blkflush") /\ lbn(p) \in Nat \ {0}
  BY FrameOf DEF BlkflushWrite
<1> QED
  BY <1>1, <1>2, FlushBufStep

(* p gives its buffer to the driver, for good if it sets B_ASYNC.          *)
LEMMA StartIO ==
  ASSUME IInv, NEW p \in Procs, NEW k, Runs(p, k),
         NEW l \in PCs, NEW f \in FrameType, Step(p, l, f),
         NEW b \in Bufs, Owns(p, b), b \notin Elems(ioq),
         NEW g \in SUBSET FlagSet, "B_BUSY" \in g, "B_DONE" \notin g,
         flags' = [flags EXCEPT ![b] = g], NEW isread, Strategy(b, isread),
         UNCHANGED <<blk, bq_lru, bq_age, flwanted, wchan, u_error>>,
         latest' \in [Bufs -> BOOLEAN], dlatest' \in [DevBlks -> BOOLEAN],
         bp' \in [Procs -> Bufs \cup {NoBuf}], wb' \in [Procs -> Bufs \cup {NoBuf}],
         \A q \in Procs : q # p => bp'[q] = bp[q] /\ wb'[q] = wb[q],
         \A c \in Bufs : c # b => (Owns(p, c)' <=> Owns(p, c)),
         "B_ASYNC" \in g <=> ~ Owns(p, b)',
         FrameAt(p)', LocalAt(p)', pc'[p] = "age" => wb'[p] = b /\ "B_ASYNC" \in g
  PROVE  IInv'
<1>1. Busy(b) /\ \A q \in Procs : q # p => ~ Owns(q, b)
  BY OwnedAlone
<1>2. ioq' \in Seq(Bufs) /\ Distinct(ioq') /\ Elems(ioq') = Elems(ioq) \cup {b}
  BY StrategyFacts DEF IInv, TypeOK, NoDupBiodone
<1>3. /\ flags' \in [Bufs -> SUBSET FlagSet] /\ flags'[b] = g
      /\ \A c \in Bufs : c # b => flags'[c] = flags[c]
  BY DEF IInv, TypeOK
<1>4. /\ flwanted' \in BOOLEAN /\ u_error' \in [Procs -> BOOLEAN]
      /\ wchan' \in [Procs -> Bufs \cup {BFREELIST, NoChan}]
      /\ blk' \in [Bufs -> DevBlks \cup {NoBlk}]
      /\ bq_lru' \in Seq(Bufs) /\ bq_age' \in Seq(Bufs)
  BY DEF IInv, TypeOK
<1>5. \A c \in Bufs : Busy(c)' <=> Busy(c)
  BY <1>1, <1>3 DEF Busy
<1>6. FreeIffNotBusy'
  BY <1>5 DEF IInv, FreeIffNotBusy
<1>7. LateAgeAt(p)'
  BY <1>2, <1>3 DEF LateAgeAt, DriverOwns
<1>8. /\ b \in Elems(ioq') => "B_BUSY" \in flags'[b] /\ "B_DONE" \notin flags'[b]
      /\ "B_ASYNC" \in flags'[b] => b \in Elems(ioq') /\ ~ Owns(p, b)'
      /\ "B_BUSY" \in flags'[b] <=> "B_ASYNC" \in flags'[b] \/ Owns(p, b)'
  BY <1>2, <1>3
<1>9. \A c \in Bufs : c # b => /\ flags'[c] = flags[c]
                               /\ c \in Elems(ioq') <=> c \in Elems(ioq)
                               /\ Owns(p, c)' <=> Owns(p, c)
  BY <1>2, <1>3
<1>10. \A q \in Procs : q # p => bp'[q] = bp[q] /\ wb'[q] = wb[q] /\ ~ Owns(q, b)
  BY <1>1
<1> QED
  BY <1>2, <1>3, <1>4, <1>6, <1>7, <1>8, <1>9, <1>10, BufMove, ZenonT(30)

(* p releases its buffer.                                                  *)
LEMMA Release ==
  ASSUME IInv, NEW p \in Procs, NEW k, Runs(p, k),
         NEW l \in PCs, l # "age", NEW f \in FrameType, Step(p, l, f),
         NEW b \in Bufs, Owns(p, b), b \notin Elems(ioq),
         NEW g \in SUBSET FlagSet, Brelse(b, g), ioq' = ioq, u_error' = u_error,
         latest' \in [Bufs -> BOOLEAN], dlatest' \in [DevBlks -> BOOLEAN],
         bp' \in [Procs -> Bufs \cup {NoBuf}], wb' \in [Procs -> Bufs \cup {NoBuf}],
         \A q \in Procs : q # p => bp'[q] = bp[q] /\ wb'[q] = wb[q],
         \A c \in Bufs : c # b => (Owns(p, c)' <=> Owns(p, c)),
         ~ Owns(p, b)', FrameAt(p)', LocalAt(p)'
  PROVE  IInv'
<1>1. Busy(b) /\ \A q \in Procs : q # p => ~ Owns(q, b)
  BY OwnedAlone
<1>2. /\ FreeIffNotBusy'
      /\ bq_lru' \in Seq(Bufs) /\ bq_age' \in Seq(Bufs)
      /\ flags' \in [Bufs -> SUBSET FlagSet]
      /\ blk' \in [Bufs -> DevBlks \cup {NoBlk}]
      /\ wchan' \in [Procs -> Bufs \cup {BFREELIST, NoChan}]
      /\ flwanted' \in BOOLEAN
      /\ flags'[b] = g \ {"B_WANTED", "B_BUSY", "B_ASYNC", "B_AGE"}
      /\ \A c \in Bufs : c # b => flags'[c] = flags[c]
  BY <1>1, BrelseFacts DEF IInv
<1>3. ioq' \in Seq(Bufs) /\ Distinct(ioq') /\ u_error' \in [Procs -> BOOLEAN]
  BY DEF IInv, TypeOK, NoDupBiodone
<1>4. LateAgeAt(p)'
  BY StepFacts DEF LateAgeAt, IInv
<1> QED
  BY <1>1, <1>2, <1>3, <1>4, BufMove

(* bread and breada with the buffer from getblk.                           *)
LEMMA GotFirstStep ==
  ASSUME IInv, NEW p \in Procs, NEW k \in {"bread", "breada"}, Runs(p, k),
         NEW hit \in {"hold", "ra_check"}, NEW miss \in {"rwait", "ra_check"},
         k = "bread" => hit = "hold" /\ miss = "rwait",
         k = "breada" => hit = "ra_check" /\ miss = "ra_check" /\ op(p) = "breada",
         GotFirst(p, hit, miss)
  PROVE  IInv'
<1>0. PICK b \in Bufs : b = wb[p]
  BY DEF Runs, IInv, LocalBufs, LocalAt, TypeOK, Fetching
<1>1. /\ bp' = [bp EXCEPT ![p] = b] /\ wb' = [wb EXCEPT ![p] = NoBuf]
      /\ UNCHANGED <<blk, bq_lru, bq_age, flwanted, latest, dlatest, wchan, u_error>>
  BY <1>0 DEF GotFirst, dataVars
<1>2. /\ frame[p] \in FrameType /\ hit \in PCs /\ miss \in PCs
      /\ hit # "idle" /\ miss # "idle"
  BY FrameOf DEF PCs
<1>3. pc[p] = k /\ FrameAt(p) /\ LocalAt(p)
  BY DEF Runs, IInv, FrameOK, LocalBufs
<1>4. /\ b \in Bufs /\ b # NoBuf /\ bp[p] = NoBuf /\ b \notin Elems(ioq)
      /\ Owns(p, b) /\ \A c \in Bufs : c # NoBuf
  BY <1>0, <1>3 DEF LocalAt, Fetching, Owns, Bufs, NoBuf
<1>5. /\ bp' \in [Procs -> Bufs \cup {NoBuf}] /\ wb' \in [Procs -> Bufs \cup {NoBuf}]
      /\ bp'[p] = b /\ wb'[p] = NoBuf
      /\ \A q \in Procs : q # p => bp'[q] = bp[q] /\ wb'[q] = wb[q]
      /\ latest' \in [Bufs -> BOOLEAN] /\ dlatest' \in [DevBlks -> BOOLEAN]
  BY <1>1 DEF IInv, TypeOK
<1>6. \A c \in Bufs : Owns(p, c)' <=> Owns(p, c)
  BY <1>0, <1>3, <1>4, <1>5 DEF Owns
<1>7. CASE HasData(b)
  <2>1. Step(p, hit, frame[p]) /\ flags' = flags /\ ioq' = ioq
    BY <1>0, <1>7 DEF GotFirst, Goto
  <2>2. /\ pc' \in [Procs -> PCs] /\ frame' \in [Procs -> FrameType]
        /\ cur' \in Procs \cup {NoProc}
        /\ \A q \in Procs : q # p => pc'[q] = pc[q] /\ frame'[q] = frame[q]
    BY <1>2, <2>1, StepFacts DEF IInv
  <2>3. pc'[p] = hit /\ frame'[p] = frame[p]
    BY <1>2, <2>1, MoveFacts
  <2>4. TypeOK'
    BY <1>1, <1>5, <2>1, <2>2 DEF IInv, TypeOK
  <2>5. FrameAt(p)'
    BY <1>3, <2>3 DEF FrameAt, op, ret, xb, ra
  <2>6. LocalAt(p)'
    BY <1>3, <1>4, <1>5, <2>1, <2>3 DEF LocalAt, ret, Fetching
  <2>7. \A q \in Procs : q # p => pc[q] # "age"
    BY NoOtherAge
  <2> QED
    BY <1>1, <1>5, <1>6, <2>1, <2>2, <2>3, <2>4, <2>5, <2>6, <2>7, LocalStep
<1>8. CASE ~ HasData(b)
  <2> DEFINE g == flags[b] \cup {"B_READ"}
  <2>1. /\ Step(p, miss, frame[p])
        /\ flags' = [flags EXCEPT ![b] = g] /\ Strategy(b, TRUE)
    BY <1>0, <1>8 DEF GotFirst, Goto, StartRead
  <2>2. g \in SUBSET FlagSet /\ "B_BUSY" \in g /\ "B_DONE" \notin g /\ "B_ASYNC" \notin g
    BY <1>4, <1>8, OwnedAlone DEF IInv, TypeOK, FlagSet, HasData, Busy
  <2>3. ioq' \in Seq(Bufs) /\ Elems(ioq') = Elems(ioq) \cup {b}
    BY <1>4, <2>1, StrategyFacts DEF IInv, TypeOK, NoDupBiodone
  <2> HIDE DEF g
  <2>4. pc'[p] = miss /\ frame'[p] = frame[p]
    BY <1>2, <2>1, MoveFacts
  <2>5. FrameAt(p)'
    BY <1>3, <2>4 DEF FrameAt, op, ret, xb, ra
  <2>6. LocalAt(p)'
    BY <1>3, <1>4, <1>5, <2>4 DEF LocalAt, ret, Fetching
  <2>7. Owns(p, b)' /\ pc'[p] # "age"
    BY <1>4, <1>6, <2>4
  <2> QED
    BY <1>1, <1>2, <1>4, <1>5, <1>6, <2>1, <2>2, <2>4, <2>5, <2>6, <2>7, StartIO
<1> QED
  BY <1>7, <1>8

(* bread goes on with the buffer from getblk.                              *)
LEMMA BreadStep ==
  ASSUME IInv, NEW p \in Procs, Bread(p)
  PROVE  IInv'
BY GotFirstStep DEF Bread

(* breada goes on with the buffer of its first block.                      *)
LEMMA BreadaFirstStep ==
  ASSUME IInv, NEW p \in Procs, BreadaFirst(p)
  PROVE  IInv'
<1>1. Runs(p, "breada") /\ GotFirst(p, "ra_check", "ra_check")
  BY DEF BreadaFirst
<1>2. op(p) = "breada"
  BY <1>1 DEF IInv, FrameOK, FrameAt, Runs
<1> QED
  BY <1>1, <1>2, GotFirstStep

(* The buffer getblk returned for the read-ahead.                          *)
LEMMA RaheadBuf ==
  ASSUME IInv, NEW p \in Procs, Runs(p, "rahead")
  PROVE  /\ FrameAt(p) /\ LocalAt(p) /\ pc[p] = "rahead"
         /\ wb[p] \in Bufs /\ wb[p] \notin Elems(ioq) /\ Owns(p, wb[p])
         /\ bp[p] # wb[p] /\ wb[p] # NoBuf /\ \A c \in Bufs : c # NoBuf
<1>1. FrameAt(p) /\ LocalAt(p) /\ pc[p] = "rahead"
  BY DEF Runs, IInv, FrameOK, LocalBufs
<1>2. wb[p] \in Bufs /\ wb[p] # NoBuf /\ wb[p] \notin Elems(ioq)
  BY <1>1 DEF LocalAt, Fetching, IInv, TypeOK
<1>3. \A c \in Bufs : c # NoBuf
  BY DEF Bufs, NoBuf
<1> QED
  BY <1>1, <1>2, <1>3 DEF LocalAt, Owns

(* breada hands the read-ahead to the driver with B_ASYNC.                 *)
LEMMA RaheadStartStep ==
  ASSUME IInv, NEW p \in Procs, RaheadStart(p)
  PROVE  IInv'
<1>1. Runs(p, "rahead") /\ Step(p, "ra_done", frame[p])
  BY DEF RaheadStart, Goto
<1>2. /\ FrameAt(p) /\ LocalAt(p) /\ pc[p] = "rahead" /\ \A c \in Bufs : c # NoBuf
  BY <1>1, RaheadBuf
<1>3. PICK b \in Bufs : /\ b = wb[p] /\ b \notin Elems(ioq) /\ Owns(p, b)
                        /\ bp[p] # b /\ b # NoBuf
  BY <1>1, RaheadBuf
<1> DEFINE g == flags[b] \cup {"B_READ", "B_ASYNC"}
<1>4. /\ ~ HasData(b)
      /\ flags' = [flags EXCEPT ![b] = g] /\ Strategy(b, TRUE)
      /\ wb' = [wb EXCEPT ![p] = NoBuf]
      /\ UNCHANGED <<blk, bq_lru, bq_age, flwanted, latest, dlatest, bp, wchan, u_error>>
  BY <1>3 DEF RaheadStart, StartRead, dataVars
<1>5. g \in SUBSET FlagSet /\ "B_BUSY" \in g /\ "B_DONE" \notin g /\ "B_ASYNC" \in g
  BY <1>3, <1>4, OwnedAlone DEF IInv, TypeOK, FlagSet, HasData, Busy
<1> HIDE DEF g
<1>6. frame[p] \in FrameType /\ "ra_done" \in PCs
  BY FrameOf DEF PCs
<1>7. pc'[p] = "ra_done" /\ frame'[p] = frame[p]
  BY <1>1, <1>6, MoveFacts
<1>8. /\ bp' \in [Procs -> Bufs \cup {NoBuf}] /\ wb' \in [Procs -> Bufs \cup {NoBuf}]
      /\ bp' = bp /\ wb'[p] = NoBuf
      /\ \A q \in Procs : q # p => bp'[q] = bp[q] /\ wb'[q] = wb[q]
      /\ latest' \in [Bufs -> BOOLEAN] /\ dlatest' \in [DevBlks -> BOOLEAN]
  BY <1>4 DEF IInv, TypeOK
<1>9. ~ Owns(p, b)' /\ \A c \in Bufs : c # b => (Owns(p, c)' <=> Owns(p, c))
  BY <1>2, <1>3, <1>8 DEF Owns
<1>10. FrameAt(p)'
  BY <1>2, <1>7 DEF FrameAt, op, ret, xb, ra
<1>11. LocalAt(p)'
  BY <1>2, <1>7, <1>8 DEF LocalAt, ret, Fetching
<1> QED
  BY <1>1, <1>3, <1>4, <1>5, <1>6, <1>7, <1>8, <1>9, <1>10, <1>11, StartIO

(* breada releases a read-ahead block that is already valid.               *)
LEMMA RaheadHitStep ==
  ASSUME IInv, NEW p \in Procs, RaheadHit(p)
  PROVE  IInv'
<1>1. Runs(p, "rahead") /\ Step(p, "ra_done", frame[p])
  BY DEF RaheadHit, Goto
<1>2. /\ FrameAt(p) /\ LocalAt(p) /\ pc[p] = "rahead" /\ \A c \in Bufs : c # NoBuf
  BY <1>1, RaheadBuf
<1>3. PICK b \in Bufs : /\ b = wb[p] /\ b \notin Elems(ioq) /\ Owns(p, b)
                        /\ bp[p] # b /\ b # NoBuf
  BY <1>1, RaheadBuf
<1>4. /\ Brelse(b, flags[b]) /\ wb' = [wb EXCEPT ![p] = NoBuf]
      /\ UNCHANGED <<ioq, latest, dlatest, bp, u_error>>
  BY <1>3 DEF RaheadHit, dataVars
<1>5. flags[b] \in SUBSET FlagSet
  BY DEF IInv, TypeOK
<1>6. frame[p] \in FrameType /\ "ra_done" \in PCs
  BY FrameOf DEF PCs
<1>7. pc'[p] = "ra_done" /\ frame'[p] = frame[p]
  BY <1>1, <1>6, MoveFacts
<1>8. /\ bp' \in [Procs -> Bufs \cup {NoBuf}] /\ wb' \in [Procs -> Bufs \cup {NoBuf}]
      /\ bp' = bp /\ wb'[p] = NoBuf
      /\ \A q \in Procs : q # p => bp'[q] = bp[q] /\ wb'[q] = wb[q]
      /\ latest' \in [Bufs -> BOOLEAN] /\ dlatest' \in [DevBlks -> BOOLEAN]
  BY <1>4 DEF IInv, TypeOK
<1>9. ~ Owns(p, b)' /\ \A c \in Bufs : c # b => (Owns(p, c)' <=> Owns(p, c))
  BY <1>2, <1>3, <1>8 DEF Owns
<1>10. FrameAt(p)'
  BY <1>2, <1>7 DEF FrameAt, op, ret, xb, ra
<1>11. LocalAt(p)'
  BY <1>2, <1>7, <1>8 DEF LocalAt, ret, Fetching
<1> QED
  BY <1>1, <1>3, <1>4, <1>5, <1>6, <1>7, <1>8, <1>9, <1>10, <1>11, Release

(* Both cases of the read-ahead.                                           *)
LEMMA RaheadStep ==
  ASSUME IInv, NEW p \in Procs, Rahead(p)
  PROVE  IInv'
BY RaheadStartStep, RaheadHitStep DEF Rahead

(* The buffer of a process that is about to release or write it.           *)
LEMMA HeldBuf ==
  ASSUME IInv, NEW p \in Procs, NEW k \in {"hold", "brelse"}, Runs(p, k)
  PROVE  /\ FrameAt(p) /\ LocalAt(p) /\ pc[p] = k
         /\ bp[p] \in Bufs /\ bp[p] \notin Elems(ioq) /\ Owns(p, bp[p])
         /\ wb[p] = NoBuf /\ bp[p] # NoBuf /\ \A c \in Bufs : c # NoBuf
<1>1. FrameAt(p) /\ LocalAt(p) /\ pc[p] = k
  BY DEF Runs, IInv, FrameOK, LocalBufs
<1>2. bp[p] \in Bufs /\ bp[p] # NoBuf /\ bp[p] \notin Elems(ioq) /\ wb[p] = NoBuf
  BY <1>1 DEF LocalAt, Fetching, IInv, TypeOK
<1>3. \A c \in Bufs : c # NoBuf
  BY DEF Bufs, NoBuf
<1> QED
  BY <1>1, <1>2, <1>3 DEF Owns

(* The process releases the buffer it holds and goes on at l.              *)
LEMMA HeldRelease ==
  ASSUME IInv, NEW p \in Procs, NEW k \in {"hold", "brelse"}, Runs(p, k),
         NEW g \in SUBSET FlagSet, Brelse(bp[p], g), bp' = [bp EXCEPT ![p] = NoBuf],
         NEW l \in {"idle", "fsynced", "syncip", "blkflush"}, Goto(p, l),
         l \in {"syncip", "blkflush"} => op(p) = "fsync",
         UNCHANGED <<ioq, wb, u_error>>,
         latest' \in [Bufs -> BOOLEAN], dlatest' \in [DevBlks -> BOOLEAN]
  PROVE  IInv'
<1>1. Step(p, l, frame[p]) /\ l \in PCs /\ frame[p] \in FrameType
  BY FrameOf DEF Goto, PCs
<1>2. /\ FrameAt(p) /\ LocalAt(p) /\ pc[p] = k
      /\ wb[p] = NoBuf /\ \A c \in Bufs : c # NoBuf
  BY HeldBuf
<1>3. PICK b \in Bufs : b = bp[p] /\ b \notin Elems(ioq) /\ Owns(p, b) /\ b # NoBuf
  BY HeldBuf
<1>4. /\ pc'[p] = l /\ (l # "idle" => frame'[p] = frame[p])
      /\ l = "idle" => op(p)' = "none" /\ ret(p)' = "idle"
  BY <1>1, MoveFacts
<1>5. /\ bp' \in [Procs -> Bufs \cup {NoBuf}] /\ wb' \in [Procs -> Bufs \cup {NoBuf}]
      /\ bp'[p] = NoBuf /\ wb' = wb
      /\ \A q \in Procs : q # p => bp'[q] = bp[q] /\ wb'[q] = wb[q]
  BY DEF IInv, TypeOK
<1>6. ~ Owns(p, b)' /\ \A c \in Bufs : c # b => (Owns(p, c)' <=> Owns(p, c))
  BY <1>2, <1>3, <1>5 DEF Owns
<1>7. FrameAt(p)'
  BY <1>2, <1>4 DEF FrameAt, op, ret, xb, ra
<1>8. LocalAt(p)'
  BY <1>2, <1>4, <1>5 DEF LocalAt, ret, Fetching
<1> QED
  BY <1>1, <1>3, <1>4, <1>5, <1>6, <1>7, <1>8, Release

(* A process releases the buffer it holds.                                 *)
LEMMA HoldBrelseStep ==
  ASSUME IInv, NEW p \in Procs, HoldBrelse(p)
  PROVE  IInv'
<1>1. PICK aged \in {{}, {"B_AGE"}} : Brelse(bp[p], flags[bp[p]] \cup aged)
  BY DEF HoldBrelse
<1>2. Runs(p, "hold") /\ bp' = [bp EXCEPT ![p] = NoBuf] /\ ioq' = ioq /\ wb' = wb
      /\ u_error' = u_error /\ latest' = latest /\ dlatest' = dlatest
  BY DEF HoldBrelse, dataVars
<1>3. PICK l \in {"idle", "fsynced"} : Goto(p, l)
  BY DEF HoldBrelse
<1>4. bp[p] \in Bufs
  BY <1>2, HeldBuf
<1>5. /\ flags[bp[p]] \cup aged \in SUBSET FlagSet
      /\ latest' \in [Bufs -> BOOLEAN] /\ dlatest' \in [DevBlks -> BOOLEAN]
  BY <1>2, <1>4 DEF IInv, TypeOK, FlagSet
<1> QED
  BY <1>1, <1>2, <1>3, <1>5, HeldRelease

(* bwrite releases the buffer after the transfer.                          *)
LEMMA BwriteBrelseStep ==
  ASSUME IInv, NEW p \in Procs, BwriteBrelse(p)
  PROVE  IInv'
<1>1. /\ Runs(p, "brelse") /\ Brelse(bp[p], flags[bp[p]])
      /\ bp' = [bp EXCEPT ![p] = NoBuf] /\ ioq' = ioq /\ wb' = wb
      /\ u_error' = u_error /\ latest' = latest /\ dlatest' = dlatest
  BY DEF BwriteBrelse, dataVars
<1>2. bp[p] \in Bufs /\ FrameAt(p) /\ pc[p] = "brelse"
  BY <1>1, HeldBuf
<1>3. PICK l \in {"idle", "fsynced", "syncip", "blkflush"} :
        Goto(p, l) /\ (l \in {"syncip", "blkflush"} => op(p) = "fsync")
  <2>1. CASE op(p) = "fsync"
    BY <1>2, <2>1 DEF BwriteBrelse, FrameAt
  <2>2. CASE op(p) = "iupdat"
    BY <2>2 DEF BwriteBrelse
  <2>3. CASE op(p) # "fsync" /\ op(p) # "iupdat"
    BY <2>3 DEF BwriteBrelse
  <2> QED
    BY <2>1, <2>2, <2>3
<1>4. /\ flags[bp[p]] \in SUBSET FlagSet
      /\ latest' \in [Bufs -> BOOLEAN] /\ dlatest' \in [DevBlks -> BOOLEAN]
  BY <1>1, <1>2 DEF IInv, TypeOK
<1> QED
  BY <1>1, <1>3, <1>4, HeldRelease

(* The history variables stay Boolean.                                     *)
LEMMA UpdateType ==
  ASSUME TypeOK, NEW p \in Procs, Update(p)
  PROVE  latest' \in [Bufs -> BOOLEAN] /\ dlatest' \in [DevBlks -> BOOLEAN]
<1>1. latest' \in [Bufs -> BOOLEAN]
  BY DEF TypeOK, Update
<1>2. dlatest' \in [DevBlks -> BOOLEAN]
  BY DEF TypeOK, Update
<1> QED
  BY <1>1, <1>2

(* A process writes its buffer and keeps it till it is written.            *)
LEMMA HoldBwriteStep ==
  ASSUME IInv, NEW p \in Procs, HoldBwrite(p)
  PROVE  IInv'
<1>1. Runs(p, "hold") /\ Step(p, "wwait", frame[p]) /\ Update(p)
  BY DEF HoldBwrite, Goto
<1>2. FrameAt(p) /\ LocalAt(p) /\ pc[p] = "hold" /\ wb[p] = NoBuf
  BY <1>1, HeldBuf
<1>3. PICK b \in Bufs : b = bp[p] /\ b \notin Elems(ioq) /\ Owns(p, b) /\ b # NoBuf
  BY <1>1, HeldBuf
<1> DEFINE g == WriteFlags(flags[b])
<1>4. /\ flags' = [flags EXCEPT ![b] = g] /\ Strategy(b, FALSE)
      /\ UNCHANGED <<blk, bq_lru, bq_age, flwanted, bp, wb, wchan, u_error>>
  BY <1>3 DEF HoldBwrite
<1>5. g \in SUBSET FlagSet /\ "B_BUSY" \in g /\ "B_DONE" \notin g /\ "B_ASYNC" \notin g
  BY <1>3, OwnedAlone, WriteFlagsFacts DEF IInv, TypeOK, Busy
<1> HIDE DEF g
<1>6. frame[p] \in FrameType /\ "wwait" \in PCs
  BY FrameOf DEF PCs
<1>7. pc'[p] = "wwait" /\ frame'[p] = frame[p]
  BY <1>1, <1>6, MoveFacts
<1>8. /\ bp' \in [Procs -> Bufs \cup {NoBuf}] /\ wb' \in [Procs -> Bufs \cup {NoBuf}]
      /\ bp' = bp /\ wb' = wb
      /\ latest' \in [Bufs -> BOOLEAN] /\ dlatest' \in [DevBlks -> BOOLEAN]
  BY <1>1, <1>4, UpdateType DEF IInv, TypeOK
<1>9. \A c \in Bufs : Owns(p, c)' <=> Owns(p, c)
  BY <1>2, <1>7, <1>8 DEF Owns
<1>10. op(p) # "fsync"
  BY <1>1 DEF Update
<1>11. FrameAt(p)'
  BY <1>2, <1>7, <1>10 DEF FrameAt, op, ret, xb, ra
<1>12. LocalAt(p)'
  BY <1>2, <1>7, <1>8 DEF LocalAt, ret, Fetching
<1> QED
  BY <1>1, <1>3, <1>4, <1>5, <1>6, <1>7, <1>8, <1>9, <1>11, <1>12, StartIO

(* bawrite gives the process's buffer to the driver.                       *)
LEMMA BawriteStep ==
  ASSUME IInv, NEW p \in Procs, Runs(p, "hold"),
         NEW aged \in {{}, {"B_AGE"}}, Bawrite(p, aged),
         latest' \in [Bufs -> BOOLEAN], dlatest' \in [DevBlks -> BOOLEAN]
  PROVE  IInv'
<1> DEFINE f == [frame[p] EXCEPT !.ret = "idle"]
<1>1. FrameAt(p) /\ LocalAt(p) /\ pc[p] = "hold" /\ wb[p] = NoBuf /\ \A c \in Bufs : c # NoBuf
  BY HeldBuf
<1>2. PICK b \in Bufs : b = bp[p] /\ b \notin Elems(ioq) /\ Owns(p, b) /\ b # NoBuf
  BY HeldBuf
<1> DEFINE h == flags[b] \cup {"B_ASYNC"} \cup aged
           g == WriteFlags(h)
<1>3. /\ flags' = [flags EXCEPT ![b] = g] /\ Strategy(b, FALSE)
      /\ bp' = [bp EXCEPT ![p] = NoBuf]
      /\ UNCHANGED <<blk, bq_lru, bq_age, flwanted, wchan, u_error>>
  BY <1>2 DEF Bawrite
<1>4. PICK l \in {"age", "idle"} :
        /\ Step(p, l, f)
        /\ l = "age" => wb' = [wb EXCEPT ![p] = b]
        /\ l = "idle" => wb' = wb
  <2>1. CASE Delwri(b)
    BY <1>2, <2>1 DEF Bawrite
  <2>2. CASE ~ Delwri(b)
    BY <1>2, <2>2 DEF Bawrite
  <2> QED
    BY <2>1, <2>2
<1>5. h \in SUBSET FlagSet /\ "B_BUSY" \in h /\ "B_ASYNC" \in h
  BY <1>2, OwnedAlone DEF IInv, TypeOK, Busy, FlagSet
<1> HIDE DEF h
<1>6. g \in SUBSET FlagSet /\ "B_BUSY" \in g /\ "B_DONE" \notin g /\ "B_ASYNC" \in g
  BY <1>5, WriteFlagsFacts
<1> HIDE DEF g
<1>7. frame[p] \in FrameType /\ l \in PCs /\ "idle" \in PCs
  BY FrameOf DEF PCs
<1>8. f \in FrameType
  BY <1>7, FrameEdits
<1>9. f.op = op(p) /\ f.ret = "idle" /\ f.xb = xb(p) /\ f.ra = ra(p)
  BY <1>7, <1>8 DEF FrameType, op, xb, ra
<1> HIDE DEF f
<1>10. /\ pc'[p] = l /\ (l # "idle" => frame'[p] = f)
       /\ l = "idle" => op(p)' = "none" /\ ret(p)' = "idle"
  BY <1>4, <1>7, <1>8, MoveFacts
<1>11. /\ bp' \in [Procs -> Bufs \cup {NoBuf}] /\ wb' \in [Procs -> Bufs \cup {NoBuf}]
       /\ bp'[p] = NoBuf /\ wb'[p] = (IF l = "age" THEN b ELSE NoBuf)
       /\ \A q \in Procs : q # p => bp'[q] = bp[q] /\ wb'[q] = wb[q]
  BY <1>1, <1>3, <1>4 DEF IInv, TypeOK
<1>12. ~ Owns(p, b)' /\ \A c \in Bufs : c # b => (Owns(p, c)' <=> Owns(p, c))
  BY <1>1, <1>2, <1>10, <1>11 DEF Owns
<1>13. FrameAt(p)'
  BY <1>1, <1>9, <1>10 DEF FrameAt, op, ret, xb, ra
<1>14. LocalAt(p)'
  BY <1>1, <1>2, <1>10, <1>11 DEF LocalAt, ret, Fetching
<1>15. pc'[p] = "age" => wb'[p] = b /\ "B_ASYNC" \in g
  BY <1>6, <1>10, <1>11
<1> QED
  BY <1>2, <1>3, <1>4, <1>6, <1>7, <1>8, <1>11, <1>12, <1>13, <1>14, <1>15, StartIO

(* bawrite of a buffer the process has changed.                            *)
LEMMA HoldBawriteStep ==
  ASSUME IInv, NEW p \in Procs, HoldBawrite(p)
  PROVE  IInv'
<1>1. Runs(p, "hold") /\ Update(p)
  BY DEF HoldBawrite
<1>2. PICK aged \in {{}, {"B_AGE"}} : Bawrite(p, aged)
  BY DEF HoldBawrite
<1> QED
  BY <1>1, <1>2, UpdateType, BawriteStep DEF IInv

(* bdwrite releases the buffer marked, or is bawrite on a tape.            *)
LEMMA HoldBdwriteStep ==
  ASSUME IInv, NEW p \in Procs, HoldBdwrite(p)
  PROVE  IInv'
<1> DEFINE g == flags[bp[p]] \cup {"B_DELWRI", "B_DONE"}
<1>1. Runs(p, "hold") /\ Update(p)
  BY DEF HoldBdwrite
<1>2. /\ latest' \in [Bufs -> BOOLEAN] /\ dlatest' \in [DevBlks -> BOOLEAN]
      /\ bp[p] \in Bufs
  BY <1>1, UpdateType, HeldBuf DEF IInv
<1>3. CASE Bawrite(p, {})
  BY <1>1, <1>2, <1>3, BawriteStep
<1>4. CASE /\ Brelse(bp[p], g)
           /\ bp' = [bp EXCEPT ![p] = NoBuf]
           /\ Goto(p, "idle")
           /\ UNCHANGED <<ioq, wb, u_error>>
  <2>1. g \in SUBSET FlagSet
    BY <1>2 DEF IInv, TypeOK, FlagSet
  <2> HIDE DEF g
  <2> QED
    BY <1>1, <1>2, <1>4, <2>1, HeldRelease
<1> QED
  BY <1>3, <1>4 DEF HoldBdwrite

(* The late B_AGE: the buffer is the driver's or free.                     *)
LEMMA BwriteAgeStep ==
  ASSUME IInv, NEW p \in Procs, BwriteAge(p)
  PROVE  IInv'
<1>1. FrameAt(p) /\ LocalAt(p) /\ pc[p] = "age" /\ Runs(p, "age")
  BY DEF BwriteAge, Runs, IInv, FrameOK, LocalBufs
<1>2. PICK b \in Bufs : b = wb[p] /\ b # NoBuf /\ bp[p] # b
  BY <1>1 DEF LocalAt, IInv, TypeOK, NoBuf
<1>3. /\ flags' = [flags EXCEPT ![b] = flags[b] \cup {"B_AGE"}]
      /\ wb' = [wb EXCEPT ![p] = NoBuf]
      /\ UNCHANGED <<blk, bq_lru, bq_age, flwanted, ioq, latest, dlatest, bp, wchan, u_error>>
  BY <1>2 DEF BwriteAge, dataVars
<1>4. PICK l \in {"idle", "bflush", "getnewbuf"} :
        /\ Step(p, l, frame[p])
        /\ l = "idle" => ret(p) = "idle"
        /\ l = "bflush" => ret(p) \in {"bflush", "binval"}
        /\ l = "getnewbuf" => ret(p) \notin {"idle", "bflush", "binval"}
  <2>1. CASE ret(p) = "idle"
    BY <2>1 DEF BwriteAge, Goto
  <2>2. CASE ret(p) \in {"bflush", "binval"}
    BY <2>2 DEF BwriteAge, Goto
  <2>3. CASE ret(p) \notin {"idle", "bflush", "binval"}
    BY <2>3 DEF BwriteAge, Goto
  <2> QED
    BY <2>1, <2>2, <2>3
<1>5. frame[p] \in FrameType /\ l \in PCs
  BY FrameOf DEF PCs
<1>6. /\ pc'[p] = l /\ (l # "idle" => frame'[p] = frame[p])
      /\ l = "idle" => op(p)' = "none" /\ ret(p)' = "idle"
  BY <1>1, <1>4, <1>5, MoveFacts
<1>7. /\ flags' \in [Bufs -> SUBSET FlagSet]
      /\ flags'[b] = flags[b] \cup {"B_AGE"}
      /\ \A c \in Bufs : c # b => flags'[c] = flags[c]
  BY <1>3 DEF IInv, TypeOK, FlagSet
<1>8. FreeIffNotBusy'
  <2>1. \A c \in Bufs : Busy(c)' <=> Busy(c)
    BY <1>7 DEF Busy
  <2> QED
    BY <1>3, <2>1 DEF IInv, FreeIffNotBusy
<1>9. /\ ioq' = ioq /\ ioq' \in Seq(Bufs) /\ Distinct(ioq')
      /\ flwanted' \in BOOLEAN /\ u_error' \in [Procs -> BOOLEAN]
      /\ wchan' \in [Procs -> Bufs \cup {BFREELIST, NoChan}]
      /\ latest' \in [Bufs -> BOOLEAN] /\ dlatest' \in [DevBlks -> BOOLEAN]
      /\ blk' \in [Bufs -> DevBlks \cup {NoBlk}]
      /\ bq_lru' \in Seq(Bufs) /\ bq_age' \in Seq(Bufs)
      /\ bp' \in [Procs -> Bufs \cup {NoBuf}] /\ wb' \in [Procs -> Bufs \cup {NoBuf}]
  BY <1>3 DEF IInv, TypeOK, NoDupBiodone
<1>10. /\ bp' = bp /\ wb'[p] = NoBuf
       /\ \A q \in Procs : q # p => bp'[q] = bp[q] /\ wb'[q] = wb[q]
  BY <1>3 DEF IInv, TypeOK
<1>11. (DriverOwns(b) \/ ~ Busy(b)) /\ \A q \in Procs : ~ Owns(q, b)
  BY <1>1, <1>2 DEF IInv, LateAgeHarmless, OneOwner
<1>12. \A c \in Bufs : c # NoBuf
  BY DEF Bufs, NoBuf
<1>13. ~ Owns(p, b)' /\ \A c \in Bufs : c # b => (Owns(p, c)' <=> Owns(p, c))
  BY <1>1, <1>2, <1>6, <1>10, <1>12 DEF Owns
<1>14. /\ b \in Elems(ioq) => Busy(b) /\ "B_DONE" \notin flags[b]
       /\ "B_ASYNC" \in flags[b] => b \in Elems(ioq)
       /\ Busy(b) <=> "B_ASYNC" \in flags[b]
  BY <1>11 DEF IInv, NoDupBiodone, AsyncAtDriver, OneOwner, DriverOwns
<1>15. /\ b \in Elems(ioq') => "B_BUSY" \in flags'[b] /\ "B_DONE" \notin flags'[b]
       /\ "B_ASYNC" \in flags'[b] => b \in Elems(ioq') /\ ~ Owns(p, b)'
       /\ "B_BUSY" \in flags'[b] <=> "B_ASYNC" \in flags'[b] \/ Owns(p, b)'
  BY <1>7, <1>9, <1>13, <1>14 DEF Busy
<1>16. FrameAt(p)'
  BY <1>1, <1>4, <1>6 DEF FrameAt, op, ret, xb, ra, Fetching, Fetchers
<1>17. LocalAt(p)' /\ LateAgeAt(p)'
  BY <1>1, <1>4, <1>6, <1>10 DEF LocalAt, LateAgeAt, ret, Fetching
<1>18. \A q \in Procs : q # p => bp'[q] = bp[q] /\ wb'[q] = wb[q] /\ ~ Owns(q, b)
  BY <1>10, <1>11
<1>19. \A c \in Bufs : c # b => /\ flags'[c] = flags[c]
                                /\ c \in Elems(ioq') <=> c \in Elems(ioq)
                                /\ Owns(p, c)' <=> Owns(p, c)
  BY <1>7, <1>9, <1>13
<1> QED
  BY <1>1, <1>4, <1>5, <1>7, <1>8, <1>9, <1>15, <1>16, <1>17, <1>18, <1>19, BufMove

-----------------------------------------------------------------------------
(* The completion interrupt moves no process, so what the processes own    *)
(* does not change; an asynchronous buffer becomes free.                   *)
LEMMA InterruptStep ==
  ASSUME IInv, Interrupt
  PROVE  IInv'
<1>1. PICK i \in DOMAIN ioq, err \in BOOLEAN : Biodone(i, err)
  BY DEF Interrupt
<1>2. PICK b \in Bufs : b = ioq[i] /\ b \in Elems(ioq)
  BY ElemsType DEF IInv, TypeOK, Elems
<1>3. PICK f \in SUBSET FlagSet :
        f = flags[b] \cup {"B_DONE"} \cup (IF err THEN {"B_ERROR"} ELSE {})
  BY DEF IInv, TypeOK, FlagSet
<1>4. /\ ioq' = Unlink(ioq, b) /\ Transfer(b, err)
      /\ UNCHANGED <<pc, frame, bp, wb, u_error, cur>>
      /\ IF "B_ASYNC" \in f
           THEN Brelse(b, f)
           ELSE /\ flags' = [flags EXCEPT ![b] = f \ {"B_WANTED"}]
                /\ wchan' = [ q \in Procs |-> IF wchan[q] = b THEN NoChan ELSE wchan[q] ]
                /\ UNCHANGED <<blk, bq_lru, bq_age, flwanted>>
  BY <1>1, <1>2, <1>3 DEF Biodone
<1>5. ioq' \in Seq(Bufs) /\ Distinct(ioq') /\ Elems(ioq') = Elems(ioq) \ {b}
  BY <1>4, UnlinkFacts DEF IInv, TypeOK, NoDupBiodone
<1>6. Busy(b) /\ ("B_ASYNC" \in f <=> "B_ASYNC" \in flags[b]) /\ "B_BUSY" \in f
  BY <1>2, <1>3 DEF IInv, NoDupBiodone, Busy
<1>7. latest' \in [Bufs -> BOOLEAN] /\ dlatest' \in [DevBlks -> BOOLEAN]
  <2>1. CASE IsRead(b)
    BY <1>4, <2>1 DEF Transfer, IInv, TypeOK
  <2>2. CASE ~ IsRead(b)
    BY <1>4, <2>2 DEF Transfer, IInv, TypeOK
  <2> QED
    BY <2>1, <2>2
<1>8. /\ FreeIffNotBusy'
      /\ bq_lru' \in Seq(Bufs) /\ bq_age' \in Seq(Bufs)
      /\ flags' \in [Bufs -> SUBSET FlagSet]
      /\ blk' \in [Bufs -> DevBlks \cup {NoBlk}]
      /\ wchan' \in [Procs -> Bufs \cup {BFREELIST, NoChan}]
      /\ flwanted' \in BOOLEAN
      /\ \A c \in Bufs : c # b => flags'[c] = flags[c]
      /\ "B_ASYNC" \notin flags'[b]
      /\ "B_BUSY" \in flags'[b] <=> "B_ASYNC" \notin flags[b]
  <2>1. CASE "B_ASYNC" \in f
    <3>1. Brelse(b, f)
      BY <1>4, <2>1
    <3>2. /\ FreeIffNotBusy'
          /\ bq_lru' \in Seq(Bufs) /\ bq_age' \in Seq(Bufs)
          /\ flags' \in [Bufs -> SUBSET FlagSet]
          /\ blk' \in [Bufs -> DevBlks \cup {NoBlk}]
          /\ wchan' \in [Procs -> Bufs \cup {BFREELIST, NoChan}]
          /\ flwanted' \in BOOLEAN
          /\ flags'[b] = f \ {"B_WANTED", "B_BUSY", "B_ASYNC", "B_AGE"}
          /\ \A c \in Bufs : c # b => flags'[c] = flags[c]
      BY <1>6, <3>1, BrelseFacts DEF IInv
    <3> QED
      BY <1>6, <2>1, <3>2
  <2>2. CASE "B_ASYNC" \notin f
    <3>1. /\ flags' = [flags EXCEPT ![b] = f \ {"B_WANTED"}]
          /\ wchan' = [ q \in Procs |-> IF wchan[q] = b THEN NoChan ELSE wchan[q] ]
          /\ UNCHANGED <<blk, bq_lru, bq_age, flwanted>>
      BY <1>4, <2>2
    <3>2. /\ flags' \in [Bufs -> SUBSET FlagSet] /\ flags'[b] = f \ {"B_WANTED"}
          /\ \A c \in Bufs : c # b => flags'[c] = flags[c]
      BY <3>1 DEF IInv, TypeOK
    <3>3. /\ blk' \in [Bufs -> DevBlks \cup {NoBlk}]
          /\ wchan' \in [Procs -> Bufs \cup {BFREELIST, NoChan}]
          /\ flwanted' \in BOOLEAN
          /\ bq_lru' \in Seq(Bufs) /\ bq_age' \in Seq(Bufs)
      BY <3>1 DEF IInv, TypeOK
    <3>4. \A c \in Bufs : Busy(c)' <=> Busy(c)
      BY <1>6, <3>2 DEF Busy
    <3>5. FreeIffNotBusy'
      BY <3>1, <3>4 DEF IInv, FreeIffNotBusy
    <3> QED
      BY <1>6, <2>2, <3>2, <3>3, <3>5
  <2> QED
    BY <2>1, <2>2
<1>9. TypeOK'
  BY <1>4, <1>5, <1>7, <1>8 DEF IInv, TypeOK
<1>10. FrameOK' /\ AgeKeepsCpu'
  BY <1>4 DEF IInv, FrameOK, FrameAt, AgeKeepsCpu, op, ret, xb, ra
<1>11. LocalBufs'
  BY <1>4, <1>5 DEF IInv, LocalBufs, LocalAt, ret
<1>12. AsyncAtDriver'
  BY <1>5, <1>8 DEF IInv, AsyncAtDriver
<1>13. NoDupBiodone'
  <2> SUFFICES ASSUME NEW c \in Elems(ioq')
               PROVE  "B_BUSY" \in flags'[c] /\ "B_DONE" \notin flags'[c]
    BY <1>5 DEF NoDupBiodone, Busy
  <2>1. c \in Elems(ioq) /\ c # b /\ c \in Bufs
    BY <1>5, ElemsType DEF IInv, TypeOK
  <2> QED
    BY <1>8, <2>1 DEF IInv, NoDupBiodone, Busy
<1>14. \A q \in Procs, c \in Bufs : Owns(q, c)' <=> Owns(q, c)
  BY <1>4 DEF Owns
<1>15. \A c \in Bufs : c # b => (Busy(c)' <=> Busy(c)) /\ (DriverOwns(c)' <=> DriverOwns(c))
  BY <1>5, <1>8 DEF Busy, DriverOwns
<1>16. DriverOwns(b) <=> "B_ASYNC" \in flags[b]
  BY <1>2 DEF DriverOwns
<1>17. ~ DriverOwns(b)' /\ (Busy(b)' <=> ~ DriverOwns(b))
  BY <1>5, <1>8, <1>16 DEF DriverOwns, Busy
<1>18. OneOwner'
  <2>1. \A c \in Bufs : Busy(c)' <=> DriverOwns(c)' \/ \E q \in Procs : Owns(q, c)'
    <3>1. Busy(b)' <=> DriverOwns(b)' \/ \E q \in Procs : Owns(q, b)'
      <4>1. DriverOwns(b) => \A q \in Procs : ~ Owns(q, b)
        BY DEF IInv, OneOwner
      <4>2. ~ DriverOwns(b) => \E q \in Procs : Owns(q, b)
        BY <1>6 DEF IInv, OneOwner
      <4> QED
        BY <1>14, <1>17, <4>1, <4>2
    <3>2. \A c \in Bufs : c # b => (Busy(c)' <=> DriverOwns(c)' \/ \E q \in Procs : Owns(q, c)')
      BY <1>14, <1>15 DEF IInv, OneOwner
    <3> QED
      BY <3>1, <3>2
  <2>2. \A c \in Bufs : \A q \in Procs :
          Owns(q, c)' => /\ ~ DriverOwns(c)'
                         /\ \A r \in Procs : Owns(r, c)' => r = q
    <3> SUFFICES ASSUME NEW c \in Bufs, NEW q \in Procs, Owns(q, c)'
                 PROVE  ~ DriverOwns(c)' /\ \A r \in Procs : Owns(r, c)' => r = q
      OBVIOUS
    <3>1. Owns(q, c) /\ ~ DriverOwns(c) /\ \A r \in Procs : Owns(r, c) => r = q
      BY <1>14 DEF IInv, OneOwner
    <3> QED
      BY <1>14, <1>15, <1>17, <3>1
  <2> QED
    BY <2>1, <2>2, <1>11 DEF OneOwner, LocalBufs, LocalAt
<1>19. LateAgeHarmless'
  <2> SUFFICES ASSUME NEW q \in Procs, pc[q] = "age"
               PROVE  \/ wb'[q] \in Elems(ioq') /\ "B_ASYNC" \in flags'[wb'[q]]
                      \/ "B_BUSY" \notin flags'[wb'[q]]
    BY <1>4 DEF LateAgeHarmless, DriverOwns, Busy
  <2>1. PICK c \in Bufs : c = wb[q]
    BY DEF IInv, LocalBufs, LocalAt, TypeOK
  <2>2. wb'[q] = c
    BY <1>4, <2>1
  <2>3. DriverOwns(c) \/ ~ Busy(c)
    BY <2>1 DEF IInv, LateAgeHarmless
  <2>4. DriverOwns(c)' \/ ~ Busy(c)'
    BY <1>6, <1>15, <1>17, <2>3
  <2> QED
    BY <2>2, <2>4 DEF DriverOwns, Busy
<1> QED
  BY <1>8, <1>9, <1>10, <1>11, <1>12, <1>13, <1>18, <1>19 DEF IInv

-----------------------------------------------------------------------------
(* binit establishes the invariant: every buffer is free on the AGE list.  *)
LEMMA InitIInv ==
  ASSUME Init
  PROVE  IInv
<1> USE DEF Init
<1>1. bq_age \in Seq(Bufs) /\ Len(bq_age) = NBUF /\ \A i \in 1..NBUF : bq_age[i] = NBUF + 1 - i
  <2>1. \A i \in 1..NBUF : NBUF + 1 - i \in Bufs
    BY BufferCacheAssumption DEF Bufs
  <2> QED
    BY <2>1, BufferCacheAssumption
<1>2. Elems(bq_age) = Bufs /\ Distinct(bq_age)
  <2>1. DOMAIN bq_age = 1..NBUF
    BY <1>1, BufferCacheAssumption
  <2>2. ASSUME NEW b \in Bufs PROVE b \in Elems(bq_age)
    <3>1. NBUF + 1 - b \in 1..NBUF /\ bq_age[NBUF + 1 - b] = b
      BY <1>1, BufferCacheAssumption DEF Bufs
    <3> QED
      BY <2>1, <3>1 DEF Elems
  <2>3. Elems(bq_age) \subseteq Bufs
    BY <1>1, ElemsType
  <2>4. Distinct(bq_age)
    BY <1>1, <2>1, BufferCacheAssumption DEF Distinct
  <2> QED
    BY <2>2, <2>3, <2>4
<1>3. /\ <<>> \in Seq(Bufs) /\ Elems(<<>>) = {} /\ Distinct(<<>>)
  BY DEF Elems, Distinct
<1>4. NoFrame \in FrameType /\ NoFrame.op = "none" /\ NoFrame.ret = "idle"
  BY DEF NoFrame, Frame, FrameType, NoBlk, PCs
<1>5. TypeOK
  BY <1>1, <1>3, <1>4 DEF TypeOK, FlagSet, PCs
<1>6. FreeIffNotBusy
  BY <1>2, <1>3 DEF FreeIffNotBusy, Busy
<1>7. \A p \in Procs : FrameAt(p) /\ LocalAt(p) /\ pc[p] = "idle"
  BY <1>4 DEF FrameAt, LocalAt, op, ret, Fetching
<1>8. FrameOK /\ LocalBufs /\ AgeKeepsCpu /\ LateAgeHarmless
  BY <1>7 DEF FrameOK, LocalBufs, AgeKeepsCpu, LateAgeHarmless
<1>9. AsyncAtDriver /\ NoDupBiodone
  BY <1>3 DEF AsyncAtDriver, NoDupBiodone
<1>10. OneOwner
  <2>1. \A p \in Procs, b \in Bufs : ~ Owns(p, b)
    BY DEF Owns, NoBuf, Bufs
  <2>2. \A b \in Bufs : ~ Busy(b) /\ ~ DriverOwns(b)
    BY DEF Busy, DriverOwns
  <2>3. \A p \in Procs : bp[p] = NoBuf
    OBVIOUS
  <2> QED
    BY <2>1, <2>2, <2>3 DEF OneOwner
<1> QED
  BY <1>5, <1>6, <1>8, <1>9, <1>10 DEF IInv

(* Every step of a process that is in a system call keeps it.              *)
LEMMA ProceedStep ==
  ASSUME IInv, NEW p \in Procs, Proceed(p)
  PROVE  IInv'
BY GetblkSleepStep, GetblkHitStep, GetblkMissStep, GetnewbufSleepStep,
   GetnewbufWriteStep, GetnewbufTakeStep, BwriteAgeStep, TakeStep, BreadStep,
   BreadaFirstStep, RaCheckStep, RaheadStep, RaDoneStep,
   BiowaitSleepStep, BiowaitDoneStep, HoldBrelseStep, HoldBwriteStep,
   HoldBawriteStep, HoldBdwriteStep, BwriteBrelseStep, SyncipBlkflushStep,
   SyncipSleepStep, SyncipWriteStep, SyncipDoneStep, BlkflushSleepStep,
   BlkflushWriteStep, BlkflushDoneStep, FsyncReturnStep, BflushWriteStep,
   BflushDoneStep, BinvalStep, DevCloseStep
   DEF Proceed

(* A stuttering step keeps it.                                             *)
LEMMA StutterStep ==
  ASSUME IInv, UNCHANGED vars
  PROVE  IInv'
BY SMTT(30)
   DEF vars, bufVars, dataVars, procVars, IInv, TypeOK, FrameOK, FrameAt, LocalBufs,
       LocalAt, AsyncAtDriver, AgeKeepsCpu, FreeIffNotBusy, OneOwner, Owns, DriverOwns,
       NoDupBiodone, LateAgeHarmless, Busy, op, ret, xb, ra

(* The inductive invariant holds for every number of processes, buffers,   *)
(* devices and blocks, whatever system calls the processes make and in     *)
(* whatever order the driver ends the transfers.                           *)
THEOREM Invariance == Spec => []IInv
<1>1. Init => IInv
  BY InitIInv
<1>2. IInv /\ [Next]_vars => IInv'
  <2> SUFFICES ASSUME IInv, [Next]_vars PROVE IInv'
    OBVIOUS
  <2>1. CASE Next
    BY <2>1, InterruptStep, StartStep, ProceedStep DEF Next
  <2>2. CASE UNCHANGED vars
    BY <2>2, StutterStep
  <2> QED
    BY <2>1, <2>2
<1> QED
  BY <1>1, <1>2, PTL DEF Spec

(* The variables keep the types of the kernel's structures.                *)
THEOREM TypeCorrect == Spec => []TypeOK
<1>1. IInv => TypeOK
  BY DEF IInv
<1> QED
  BY <1>1, Invariance, PTL

(* A buffer is on a free list exactly when it is not busy: brelse, notavail *)
(* and getnewbuf keep the two lists and B_BUSY in step.                    *)
THEOREM FreeListsExact == Spec => []FreeIffNotBusy
<1>1. IInv => FreeIffNotBusy
  BY DEF IInv
<1> QED
  BY <1>1, Invariance, PTL

(* A busy buffer has one owner: no two processes, and no process and the   *)
(* driver's asynchronous completion, use or release the same buffer.       *)
THEOREM BufferOwnership == Spec => []OneOwner
<1>1. IInv => OneOwner
  BY DEF IInv
<1> QED
  BY <1>1, Invariance, PTL

(* biodone never meets a buffer that is already done or free, so its panic *)
(* "dup biodone" is unreachable.                                           *)
THEOREM NoBiodonePanic == Spec => []NoDupBiodone
<1>1. IInv => NoDupBiodone
  BY DEF IInv
<1> QED
  BY <1>1, Invariance, PTL

(* bwrite's "bp->b_flags |= B_AGE" after an asynchronous start never       *)
(* touches a buffer that belongs to another process by then.               *)
THEOREM LateAge == Spec => []LateAgeHarmless
<1>1. IInv => LateAgeHarmless
  BY DEF IInv
<1> QED
  BY <1>1, Invariance, PTL
=============================================================================
