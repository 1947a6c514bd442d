---------------------- MODULE BufferCacheCallers_proofs ----------------------
(***************************************************************************)
(* What the callers of the buffer cache rely on, for every number of       *)
(* processes, buffers, devices and blocks: who sleeps is woken, a search   *)
(* that failed stays true until getnewbuf sleeps, fsync leaves nothing     *)
(* behind, and a closed device has no delayed writes left; and, while no   *)
(* block has two buffers, a read returns what was last written and no      *)
(* update is lost.                                                         *)
(***************************************************************************)
EXTENDS BufferCache_proofs

(* While a buffer with unwritten data is in the cache it has data.         *)
DelwriDone == \A b \in Bufs : Delwri(b) => "B_DONE" \in flags[b]

(* The transfer a process will wait for is under way or has ended.         *)
AwaitedAt(p) ==
  bp[p] # NoBuf /\ pc[p] # "hold" => "B_DONE" \in flags[bp[p]] \/ bp[p] \in Elems(ioq)

(* From the search to the taking of a buffer the process keeps the CPU     *)
(* unless it sleeps, and the block stays out of the cache.                 *)
SearchAt(p) ==
  pc[p] \in {"getnewbuf", "age"} /\ ret(p) \in Fetching /\ ~ frame[p].slept =>
    cur = p /\ (op(p) # "geteblk" => ~ incore(Want(p)))

(* Whose block a process has in hand.                                      *)
NamedBuf(p, b) ==
  /\ op(p) \in {"bread", "getblk", "iupdat"} => blk[b] = Dblk(xb(p)) /\ Valid(b)
  /\ op(p) = "breada" => blk[b] \in {Dblk(xb(p)), Dblk(ra(p))} /\ Valid(b)
  /\ op(p) = "geteblk" => blk[b] = NoBlk
  /\ op(p) = "fsync" => blk[b][1] = InodeBlk[1]
  /\ op(p) \in Fetchers \cup {"fsync"}
NamedAt(p) ==
  /\ \A b \in Bufs : Owns(p, b) => NamedBuf(p, b)
  /\ op(p) = "breada" => ra(p)[1] = xb(p)[1]
  /\ op(p) \in {"fsync", "iupdat"} => xb(p)[1] = InodeBlk[1]
  /\ op(p) = "close" => xb(p)[1] \in Devs
  /\ op(p) = "none" => xb(p) = NoBlk
  /\ pc[p] = "fsynced" => op(p) = "iupdat"
  /\ ret(p) = "binval" => op(p) = "close"
  /\ pc[p] = "binval" => op(p) = "close" /\ cur = p

(* The inode lock and the last close.                                      *)
FileAlone ==
  \A p, q \in Procs : UsesFile(op(p), xb(p)) /\ UsesFile(op(q), xb(q)) => p = q
CloseAlone ==
  \A p, q \in Procs : op(p) = "close" /\ p # q => xb(q)[1] # xb(p)[1]

(* What fsync has passed is clean, and so is a device that binval is       *)
(* called for.                                                             *)
FileBuf(b) == \E i \in DOMAIN File : blk[b] = Dblk(File[i])
PassedAt(p) ==
  /\ ~ SmallFile /\ op(p) = "fsync" =>
       \A b \in Bufs : b < lbn(p) /\ FileBuf(b) => ~ Delwri(b)
  /\ ~ SmallFile /\ op(p) = "iupdat" => \A b \in Bufs : FileBuf(b) => ~ Delwri(b)
  /\ pc[p] = "binval" => \A b \in Bufs : blk[b][1] = xb(p)[1] => ~ Delwri(b)

(* What holds of one process, and the whole of it.                         *)
OwnAt(p) == AwaitedAt(p) /\ SearchAt(p) /\ NamedAt(p) /\ PassedAt(p)
CInv ==
  /\ DelwriDone /\ NoStaleDelwri /\ FileAlone /\ CloseAlone
  /\ \A p \in Procs : OwnAt(p)
Kept == CInv' /\ NoLostWakeup'

-----------------------------------------------------------------------------
(* What a step leaves alone.                                               *)

Same(c) ==
  /\ blk'[c] = blk[c]
  /\ c \in Elems(ioq') <=> c \in Elems(ioq)
  /\ "B_DELWRI" \in flags'[c] <=> "B_DELWRI" \in flags[c]
  /\ "B_DONE" \in flags'[c] <=> "B_DONE" \in flags[c]
  /\ "B_INVAL" \in flags'[c] <=> "B_INVAL" \in flags[c]
Others(p) ==
  \A q \in Procs : q # p => /\ pc'[q] = pc[q] /\ frame'[q] = frame[q]
                            /\ bp'[q] = bp[q] /\ wb'[q] = wb[q]

(* What a step of p may do to a buffer it changes.                         *)
Fair(p, b) ==
  /\ \A q \in Procs : q # p => ~ Owns(q, b)
  /\ "B_DELWRI" \in flags'[b] =>
       /\ "B_DONE" \in flags'[b] /\ "B_INVAL" \notin flags'[b]
       /\ \/ "B_DELWRI" \in flags[b] /\ blk'[b] \in {blk[b], NoBlk}
          \/ op(p) \in {"bread", "getblk"} /\ blk'[b] = Dblk(xb(p))

(* p changes the buffers of B and leaves the others alone.                 *)
Touches(p, B) ==
  /\ \A c \in Bufs : c \notin B => Same(c)
  /\ \A b \in B : b \in Bufs /\ Fair(p, b)

(* The locks p has after its step are those it had, or were free.          *)
Locks(p) ==
  /\ UsesFile(op(p)', xb(p)') => UsesFile(op(p), xb(p)) \/ ~ FileLocked
  /\ xb(p)'[1] = xb(p)[1] \/ ~ Closing(xb(p)'[1])
  /\ op(p)' = "close" => \/ op(p) = "close" /\ xb(p)'[1] = xb(p)[1]
                         \/ \A q \in Procs : xb(q)[1] # xb(p)'[1]

(* Blocks have different names on the disk, on their own device.           *)
LEMMA BlockNames ==
  ASSUME NEW x \in Blocks
  PROVE  /\ Dblk(x)[1] = x[1] /\ x[1] \in Devs /\ Dblk(x) # NoBlk
         /\ \A y \in Blocks : Dblk(x) = Dblk(y) => x = y
<1>1. Devs \subseteq Nat /\ FsBlks \subseteq Nat
  BY BufferCacheAssumption
<1>2. x[1] \in Devs /\ x[2] \in FsBlks /\ x = <<x[1], x[2]>>
  BY DEF Blocks
<1>3. Dblk(x)[1] = x[1] /\ Dblk(x) # NoBlk
  <2>1. x[1] \in Nat
    BY <1>1, <1>2
  <2> QED
    BY <2>1 DEF Dblk, NoBlk
<1>4. ASSUME NEW y \in Blocks, Dblk(x) = Dblk(y)
      PROVE  x = y
  <2>1. y[1] \in Devs /\ y[2] \in FsBlks /\ y = <<y[1], y[2]>>
    BY DEF Blocks
  <2>2. x[1] = y[1] /\ 2 * x[2] = 2 * y[2]
    BY <1>4 DEF Dblk, fsbtodb
  <2>3. x[2] \in Nat /\ y[2] \in Nat
    BY <1>1, <1>2, <2>1
  <2>4. x[2] = y[2]
    BY <2>2, <2>3
  <2> QED
    BY <1>2, <2>1, <2>2, <2>4
<1> QED
  BY <1>2, <1>3, <1>4

(* The file's blocks are blocks of its device.                             *)
LEMMA FileBlocks ==
  /\ \A i \in DOMAIN File : File[i] \in Blocks /\ File[i][1] = InodeBlk[1]
  /\ Elems(File) = { File[i] : i \in DOMAIN File } /\ Elems(File) \subseteq Blocks
  /\ InodeBlk \in Blocks /\ NoBlk \notin Blocks
<1>1. Devs \subseteq Nat
  BY BufferCacheAssumption
<1>2. File \in Seq(Blocks) /\ InodeBlk \in Blocks
  BY BufferCacheAssumption
<1>3. \A i \in DOMAIN File : File[i] \in Blocks
  BY <1>2
<1>4. NoBlk \notin Blocks
  BY <1>1 DEF NoBlk, Blocks
<1> QED
  BY <1>2, <1>3, <1>4, FileAssumption DEF Elems

(* Whoever has what is left alone keeps what holds of it, if it is not p.  *)
LEMMA OtherAt ==
  ASSUME IInv, CInv, NEW p \in Procs, NEW k, Runs(p, k), Others(p), NEW B,
         Touches(p, B),
         NEW q \in Procs, q # p
  PROVE  OwnAt(q)'
<1> USE DEF Touches
<1>1. /\ pc'[q] = pc[q] /\ frame'[q] = frame[q] /\ bp'[q] = bp[q] /\ wb'[q] = wb[q]
      /\ op(q)' = op(q) /\ ret(q)' = ret(q) /\ xb(q)' = xb(q) /\ ra(q)' = ra(q)
      /\ lbn(q)' = lbn(q)
  BY DEF Others, op, ret, xb, ra, lbn
<1>2. cur # q
  BY BufferCacheAssumption DEF Runs
<1>3. OwnAt(q)
  BY DEF CInv
<1>4. \A c \in Bufs : /\ Owns(q, c)' <=> Owns(q, c)
                      /\ Owns(q, c) => c \notin B /\ Same(c)
  BY <1>1 DEF Owns, Fair
<1>5. AwaitedAt(q)'
  <2>1. bp[q] # NoBuf => bp[q] \in Bufs /\ Owns(q, bp[q])
    BY DEF IInv, TypeOK, Owns
  <2> QED
    BY <1>1, <1>3, <1>4, <2>1 DEF OwnAt, AwaitedAt, Same
<1>6. SearchAt(q)'
  BY <1>1, <1>2, <1>3 DEF OwnAt, SearchAt
<1>7. NamedAt(q)'
  BY <1>1, <1>2, <1>3, <1>4 DEF OwnAt, NamedAt, NamedBuf, Same, Valid
<1>8. PassedAt(q)'
  <2>1. pc[q] # "binval"
    BY <1>2, <1>3 DEF OwnAt, NamedAt, NamedBuf
  <2>2. ASSUME NEW b \in Bufs, FileBuf(b)', Delwri(b)', op(q) \in {"fsync", "iupdat"}
        PROVE  FileBuf(b) /\ Delwri(b)
    <3>1. CASE b \notin B
      BY <2>2, <3>1 DEF Same, FileBuf, Delwri
    <3>2. CASE b \in B
      <4>1. CASE "B_DELWRI" \in flags[b] /\ blk'[b] \in {blk[b], NoBlk}
        BY <2>2, <4>1, FileBlocks, BlockNames DEF FileBuf, Delwri
      <4>2. CASE op(p) \in {"bread", "getblk"} /\ blk'[b] = Dblk(xb(p))
        <5>1. PICK i \in DOMAIN File : Dblk(xb(p)) = Dblk(File[i])
          BY <2>2, <4>2 DEF FileBuf
        <5>2. xb(p) \in Blocks /\ File[i] \in Blocks
          BY <4>2, FileBlocks DEF IInv, FrameOK, FrameAt
        <5>3. xb(p) = File[i]
          BY <5>1, <5>2, BlockNames
        <5>4. UsesFile(op(p), xb(p)) /\ UsesFile(op(q), xb(q))
          BY <2>2, <5>3, FileBlocks DEF UsesFile
        <5> QED
          BY <5>4 DEF CInv, FileAlone
      <4> QED
        BY <2>2, <3>2, <4>1, <4>2 DEF Fair, Delwri
    <3> QED
      BY <3>1, <3>2
  <2>3. ~ SmallFile /\ op(q) = "fsync" =>
          \A b \in Bufs : b < lbn(q) /\ FileBuf(b)' => ~ Delwri(b)'
    BY <1>3, <2>2 DEF OwnAt, PassedAt
  <2>4. ~ SmallFile /\ op(q) = "iupdat" => \A b \in Bufs : FileBuf(b)' => ~ Delwri(b)'
    BY <1>3, <2>2 DEF OwnAt, PassedAt
  <2> QED
    BY <1>1, <2>1, <2>3, <2>4 DEF PassedAt, SmallFile
<1> QED
  BY <1>5, <1>6, <1>7, <1>8 DEF OwnAt

(* A step of p that changes the buffers of B and leaves the others alone.  *)
LEMMA Effect ==
  ASSUME IInv, CInv, NEW p \in Procs, NEW k, Runs(p, k), Others(p), NEW B,
         Touches(p, B),
         OwnAt(p)', Locks(p)
  PROVE  CInv'
<1>1. \A q \in Procs : q # p => op(q)' = op(q) /\ xb(q)' = xb(q)
  BY DEF Others, op, xb
<1>2. \A q \in Procs : OwnAt(q)'
  BY OtherAt
<1>3. DelwriDone' /\ NoStaleDelwri'
  BY DEF Touches, CInv, DelwriDone, NoStaleDelwri, Same, Fair, Delwri, Valid
<1>4. FileAlone'
  BY <1>1 DEF CInv, FileAlone, Locks, FileLocked, UsesFile
<1>5. CloseAlone'
  BY <1>1 DEF CInv, CloseAlone, Locks, Closing
<1> QED
  BY <1>2, <1>3, <1>4, <1>5 DEF CInv

(* Most steps change neither the operation nor its block, or end it.       *)
LEMMA SameLocks ==
  ASSUME IInv, CInv, NEW p \in Procs,
         \/ op(p)' = op(p) /\ xb(p)' = xb(p)
         \/ op(p)' = "none" /\ xb(p)' = NoBlk
  PROVE  Locks(p)
<1>1. CASE op(p)' = op(p) /\ xb(p)' = xb(p)
  BY <1>1 DEF Locks
<1>2. CASE op(p)' = "none" /\ xb(p)' = NoBlk
  <2>1. NoBlk \notin Elems(File)
    BY FileBlocks
  <2>2. NoBlk[1] \notin Devs
    BY BufferCacheAssumption DEF NoBlk
  <2>3. ~ Closing(NoBlk[1])
    BY <2>2 DEF Closing, CInv, OwnAt, NamedAt, NamedBuf
  <2> QED
    BY <1>2, <2>1, <2>3 DEF Locks, UsesFile
<1> QED
  BY <1>1, <1>2

(* A step that wakes nobody takes nothing from those who sleep.            *)
Gentle ==
  /\ wchan' = wchan /\ flwanted' = flwanted /\ (NoFree => NoFree')
  /\ \A c \in Bufs : "B_BUSY" \in flags[c] =>
       /\ "B_BUSY" \in flags'[c]
       /\ "B_WANTED" \in flags[c] => "B_WANTED" \in flags'[c]
  /\ Elems(ioq) \subseteq Elems(ioq')

LEMMA Waiters ==
  ASSUME IInv, NoLostWakeup, NEW p \in Procs, NEW k, Runs(p, k), Others(p), Gentle
  PROVE  NoLostWakeup'
<1> SUFFICES ASSUME NEW q \in Procs
             PROVE  /\ wchan[q] = BFREELIST => flwanted /\ NoFree'
                    /\ wchan[q] \in Bufs =>
                         \/ wchan[q] = bp'[q] /\ wchan[q] \in Elems(ioq')
                         \/ Busy(wchan[q])' /\ "B_WANTED" \in flags'[wchan[q]]
  BY DEF Gentle, NoLostWakeup, Busy
<1>1. CASE q = p
  BY <1>1 DEF Runs, NoChan, BFREELIST, Bufs
<1>2. CASE q # p
  BY <1>2 DEF NoLostWakeup, Others, Gentle, Busy
<1> QED
  BY <1>1, <1>2

(* p went from k to l.                                                     *)
LEMMA Went ==
  ASSUME IInv, NEW p \in Procs, NEW k, Runs(p, k),
         NEW l \in PCs, NEW f \in FrameType, Step(p, l, f)
  PROVE  /\ pc[p] = k /\ pc'[p] = l
         /\ frame'[p] = IF l = "idle" THEN NoFrame ELSE f
         /\ cur' = IF l \in Leaves THEN NoProc ELSE p
         /\ \A q \in Procs : q # p => pc'[q] = pc[q] /\ frame'[q] = frame[q]
         /\ FrameAt(p) /\ LocalAt(p)
<1>1. /\ pc'[p] = l /\ frame'[p] = IF l = "idle" THEN NoFrame ELSE f
      /\ \A q \in Procs : q # p => pc'[q] = pc[q] /\ frame'[q] = frame[q]
  BY StepFacts DEF IInv
<1>2. cur' = IF l \in Leaves THEN NoProc ELSE p
  BY DEF Step
<1>3. pc[p] = k /\ FrameAt(p) /\ LocalAt(p)
  BY MoveFacts
<1> QED
  BY <1>1, <1>2, <1>3

(* The call is over.                                                       *)
LEMMA IdleAt ==
  ASSUME IInv', NEW p \in Procs, pc'[p] = "idle", frame'[p] = NoFrame
  PROVE  OwnAt(p)' /\ op(p)' = "none" /\ xb(p)' = NoBlk
<1>1. op(p)' = "none" /\ xb(p)' = NoBlk /\ ret(p)' = "idle"
  BY DEF NoFrame, Frame, op, xb, ret
<1>2. bp'[p] = NoBuf /\ wb'[p] = NoBuf
  BY DEF IInv, LocalBufs, LocalAt, Fetching
<1>3. \A b \in Bufs : ~ Owns(p, b)'
  BY <1>2 DEF Owns, Bufs, NoBuf
<1> QED
  BY <1>1, <1>2, <1>3 DEF OwnAt, AwaitedAt, SearchAt, NamedAt, NamedBuf, PassedAt, Fetchers

(* p only moves.                                                           *)
LEMMA MoveKept ==
  ASSUME IInv, CInv, NoLostWakeup, NEW p \in Procs, NEW k, Runs(p, k),
         NEW l \in PCs, NEW f \in FrameType, Step(p, l, f),
         UNCHANGED <<bufVars, bp, wb, wchan>>, OwnAt(p)', Locks(p)
  PROVE  Kept
<1>1. Others(p)
  BY Went DEF Others
<1>2. \A c \in Bufs : Same(c)
  BY DEF Same, bufVars
<1>3. CInv'
  <2>1. Touches(p, {})
    BY <1>2 DEF Touches
  <2> QED
    BY <1>1, <2>1, Effect
<1>4. Gentle
  BY DEF Gentle, bufVars, NoFree
<1> QED
  BY <1>1, <1>3, <1>4, Waiters DEF Kept

(* The operation and what p has in hand are as before.                     *)
LEMMA MovedAt ==
  ASSUME IInv, CInv, NEW p \in Procs, UNCHANGED <<bufVars, bp, wb>>,
         pc[p] # "age", pc'[p] # "age", pc[p] = "hold" => pc'[p] = "hold",
         op(p)' = op(p), xb(p)' = xb(p), ra(p)' = ra(p), lbn(p)' = lbn(p),
         ret(p)' # "binval", pc'[p] \notin {"getnewbuf", "fsynced", "binval"}
  PROVE  OwnAt(p)'
<1>1. OwnAt(p)
  BY DEF CInv
<1>2. \A c \in Bufs : /\ Owns(p, c)' <=> Owns(p, c)
                      /\ Valid(c)' <=> Valid(c)
                      /\ Delwri(c)' <=> Delwri(c)
                      /\ FileBuf(c)' <=> FileBuf(c)
                      /\ blk'[c] = blk[c]
  BY DEF Owns, Valid, Delwri, FileBuf, bufVars
<1>3. AwaitedAt(p)' /\ SearchAt(p)'
  BY <1>1 DEF OwnAt, AwaitedAt, SearchAt, bufVars
<1>4. NamedAt(p)'
  BY <1>1, <1>2 DEF OwnAt, NamedAt, NamedBuf
<1>5. PassedAt(p)'
  BY <1>1, <1>2 DEF OwnAt, PassedAt, SmallFile
<1> QED
  BY <1>3, <1>4, <1>5 DEF OwnAt

-----------------------------------------------------------------------------
(* Steps that move no buffer.                                              *)

(* A call starts with nothing in hand.                                     *)
LEMMA CallKept ==
  ASSUME IInv, CInv, NoLostWakeup, NEW p \in Procs,
         NEW l \in PCs, NEW f \in FrameType, Call(p, l, f), f.lbn = 1,
         l \notin {"idle", "age", "hold", "fsynced", "binval"},
         l = "getnewbuf" => f.op = "geteblk",
         f.op = "breada" => f.ra[1] = f.xb[1], f.op \notin {"iupdat", "none"},
         f.op = "fsync" => f.xb = InodeBlk, f.ret = "binval" => f.op = "close",
         f.op = "close" => f.xb[1] \in Devs /\ \A q \in Procs : xb(q)[1] # f.xb[1]
  PROVE  Kept
<1>1. /\ Runs(p, "idle") /\ Step(p, l, f) /\ UNCHANGED <<bufVars, bp, wb, wchan>>
      /\ ~ Closing(f.xb[1]) /\ (UsesFile(f.op, f.xb) => ~ FileLocked)
  BY DEF Call
<1>2. /\ pc[p] = "idle" /\ pc'[p] = l /\ frame'[p] = f /\ LocalAt(p)
      /\ cur' = IF l \in Leaves THEN NoProc ELSE p
  BY <1>1, Went
<1>3. /\ op(p)' = f.op /\ xb(p)' = f.xb /\ ra(p)' = f.ra /\ lbn(p)' = 1
      /\ ret(p)' = f.ret
  BY <1>2 DEF op, xb, ra, lbn, ret
<1>4. bp'[p] = NoBuf /\ wb'[p] = NoBuf
  BY <1>1, <1>2 DEF LocalAt, Fetching
<1>5. \A b \in Bufs : ~ Owns(p, b)' /\ ~ b < 1
  BY <1>4 DEF Owns, Bufs, NoBuf
<1>6. AwaitedAt(p)' /\ SearchAt(p)'
  BY <1>2, <1>3, <1>4 DEF AwaitedAt, SearchAt, Leaves
<1>7. NamedAt(p)' /\ PassedAt(p)'
  BY <1>2, <1>3, <1>5 DEF NamedAt, NamedBuf, PassedAt
<1>8. Locks(p)
  BY <1>1, <1>3 DEF Locks
<1> QED
  BY <1>1, <1>6, <1>7, <1>8, MoveKept DEF OwnAt

(* The fields of a new frame.                                              *)
IsFrame(f, o, r, x, y) ==
  /\ f = Frame(o, r, x, y)
  /\ f.op = o /\ f.ret = r /\ f.xb = x /\ f.ra = y /\ f.lbn = 1
LEMMA NewFrame ==
  ASSUME NEW o \in AllOps, NEW r \in PCs, NEW x \in Int \X Int, NEW y \in Int \X Int
  PROVE  \E f \in FrameType : IsFrame(f, o, r, x, y)
<1> DEFINE f == Frame(o, r, x, y)
<1>1. f.lbn = 1
  BY DEF Frame
<1>2. f \in FrameType /\ f.op = o /\ f.ret = r /\ f.xb = x /\ f.ra = y
  BY FrameFacts
<1>3. IsFrame(f, o, r, x, y)
  BY <1>1, <1>2 DEF IsFrame
<1> QED
  BY <1>2, <1>3

(* Each of the calls.                                                      *)
LEMMA StartKept ==
  ASSUME IInv, CInv, NoLostWakeup, NEW p \in Procs, Start(p)
  PROVE  Kept
<1>1. InodeBlk \in Int \X Int /\ \A x \in Blocks : x \in Int \X Int
  BY BlocksType, BufferCacheAssumption
<1>2. NoBlk \in Int \X Int /\ \A d \in Devs : <<d, -1>> \in Int \X Int
  BY BufferCacheAssumption DEF NoBlk
<1>0. /\ {"bread", "breada", "getblk", "geteblk", "fsync", "bflush", "close"} \subseteq AllOps
      /\ {"bread", "breada", "take", "syncip", "bflush", "binval"} \subseteq PCs
  BY DEF AllOps, PCs
<1>3. CASE CallBreada(p)
  <2>1. PICK x \in Blocks, y \in Blocks :
          /\ x[1] = y[1]
          /\ Call(p, IF incore(x) THEN "ra_check" ELSE "getblk", Frame("breada", "breada", x, y))
    BY <1>3 DEF CallBreada
  <2>2. x \in Int \X Int /\ y \in Int \X Int
    BY <1>1
  <2>3. PICK f \in FrameType : IsFrame(f, "breada", "breada", x, y)
    BY <1>0, <2>2, NewFrame
  <2>4. PICK l \in {"ra_check", "getblk"} : l \in PCs /\ Call(p, l, f)
    BY <2>1, <2>3 DEF PCs, IsFrame
  <2> QED
    BY <2>1, <2>3, <2>4, CallKept DEF IsFrame
<1>4. CASE CallBread(p)
  <2>1. PICK x \in Blocks :
          Call(p, "getblk", Frame("bread", "bread", x, NoBlk))
    BY <1>4 DEF CallBread
  <2>2. PICK f \in FrameType : IsFrame(f, "bread", "bread", x, NoBlk)
    BY <1>0, <1>1, <1>2, NewFrame
  <2>3. Call(p, "getblk", f) /\ "getblk" \in PCs
    BY <2>1, <2>2 DEF PCs, IsFrame
  <2> QED
    BY <2>1, <2>2, <2>3, CallKept DEF IsFrame
<1>5. CASE CallGetblk(p)
  <2>1. PICK x \in Blocks :
          Call(p, "getblk", Frame("getblk", "take", x, NoBlk))
    BY <1>5 DEF CallGetblk
  <2>2. PICK f \in FrameType : IsFrame(f, "getblk", "take", x, NoBlk)
    BY <1>0, <1>1, <1>2, NewFrame
  <2>3. Call(p, "getblk", f) /\ "getblk" \in PCs
    BY <2>1, <2>2 DEF PCs, IsFrame
  <2> QED
    BY <2>1, <2>2, <2>3, CallKept DEF IsFrame
<1>6. CASE CallGeteblk(p)
  <2>1. Call(p, "getnewbuf", Frame("geteblk", "take", NoBlk, NoBlk))
    BY <1>6 DEF CallGeteblk
  <2>2. PICK f \in FrameType : IsFrame(f, "geteblk", "take", NoBlk, NoBlk)
    BY <1>0, <1>1, <1>2, NewFrame
  <2>3. Call(p, "getnewbuf", f) /\ "getnewbuf" \in PCs
    BY <2>1, <2>2 DEF PCs, IsFrame
  <2> QED
    BY <2>1, <2>2, <2>3, CallKept DEF IsFrame
<1>7. CASE CallFsync(p)
  <2>1. Call(p, "syncip", Frame("fsync", "syncip", InodeBlk, NoBlk))
    BY <1>7 DEF CallFsync
  <2>2. PICK f \in FrameType : IsFrame(f, "fsync", "syncip", InodeBlk, NoBlk)
    BY <1>0, <1>1, <1>2, NewFrame
  <2>3. Call(p, "syncip", f) /\ "syncip" \in PCs
    BY <2>1, <2>2 DEF PCs, IsFrame
  <2> QED
    BY <2>1, <2>2, <2>3, CallKept DEF IsFrame
<1>8. CASE CallBflush(p)
  <2>1. PICK d \in Devs :
          Call(p, "bflush", Frame("bflush", "bflush", <<d, -1>>, NoBlk))
    BY <1>8 DEF CallBflush
  <2>2. PICK f \in FrameType : IsFrame(f, "bflush", "bflush", <<d, -1>>, NoBlk)
    BY <1>0, <1>1, <1>2, NewFrame
  <2>3. Call(p, "bflush", f) /\ "bflush" \in PCs
    BY <2>1, <2>2 DEF PCs, IsFrame
  <2> QED
    BY <2>1, <2>2, <2>3, CallKept DEF IsFrame
<1>9. CASE CallClose(p)
  <2>1. PICK d \in Devs :
          /\ \A q \in Procs : xb(q)[1] # d
          /\ Call(p, "bflush", Frame("close", "binval", <<d, -1>>, NoBlk))
    BY <1>9 DEF CallClose
  <2>2. PICK f \in FrameType : IsFrame(f, "close", "binval", <<d, -1>>, NoBlk)
    BY <1>0, <1>1, <1>2, NewFrame
  <2>3. Call(p, "bflush", f) /\ "bflush" \in PCs
    BY <2>1, <2>2 DEF PCs, IsFrame
  <2>4. f.xb[1] = d
    BY <2>2 DEF IsFrame
  <2> QED
    BY <2>1, <2>2, <2>3, <2>4, CallKept DEF IsFrame
<1> QED
  BY <1>3, <1>4, <1>5, <1>6, <1>7, <1>8, <1>9 DEF Start

(* getblk's search fails.                                                  *)
LEMMA GetblkMissKept ==
  ASSUME IInv, CInv, NoLostWakeup, NEW p \in Procs, GetblkMiss(p)
  PROVE  Kept
<1> DEFINE f == [frame[p] EXCEPT !.slept = FALSE]
<1>1. /\ Runs(p, "getblk") /\ Step(p, "getnewbuf", f) /\ ~ incore(Want(p))
      /\ UNCHANGED <<bufVars, bp, wb, wchan>>
  BY DEF GetblkMiss
<1>2. /\ f \in FrameType /\ "getnewbuf" \in PCs
      /\ f.op = op(p) /\ f.ret = ret(p) /\ f.xb = xb(p) /\ f.ra = ra(p) /\ f.lbn = lbn(p)
  <2>1. frame[p] \in FrameType
    BY FrameOf
  <2>2. f \in FrameType
    BY <2>1, FrameEdits
  <2> QED
    BY <2>1, <2>2 DEF FrameType, op, ret, xb, ra, lbn, PCs
<1> HIDE DEF f
<1>3. /\ pc[p] = "getblk" /\ pc'[p] = "getnewbuf" /\ frame'[p] = f /\ cur' = p
      /\ FrameAt(p)
  BY <1>1, <1>2, Went DEF Leaves
<1>4. /\ op(p)' = op(p) /\ xb(p)' = xb(p) /\ ra(p)' = ra(p) /\ lbn(p)' = lbn(p)
      /\ ret(p)' = ret(p)
  BY <1>2, <1>3 DEF op, ret, xb, ra, lbn
<1>5. OwnAt(p)
  BY DEF CInv
<1>6. SearchAt(p)'
  <2>1. Want(p)' = Want(p)
    BY <1>4 DEF Want
  <2>2. incore(Want(p))' <=> incore(Want(p))
    BY <1>1, <2>1 DEF incore, Match, Valid, bufVars
  <2> QED
    BY <1>1, <1>3, <2>2 DEF SearchAt
<1>7. AwaitedAt(p)'
  BY <1>1, <1>3, <1>5 DEF OwnAt, AwaitedAt, bufVars
<1>8. \A c \in Bufs : Owns(p, c)' <=> Owns(p, c)
  BY <1>1, <1>3 DEF Owns
<1>9. NamedAt(p)' /\ PassedAt(p)'
  BY <1>1, <1>3, <1>4, <1>5, <1>8
     DEF OwnAt, NamedAt, NamedBuf, PassedAt, FileBuf, SmallFile, Valid, Delwri, bufVars
<1>10. Locks(p)
  BY <1>4, SameLocks
<1> QED
  BY <1>1, <1>2, <1>6, <1>7, <1>9, <1>10, MoveKept DEF OwnAt

(* Moves within a call, with the frame changed in ret at most.             *)
LEMMA WithinKept ==
  ASSUME IInv, CInv, NoLostWakeup, NEW p \in Procs, NEW k, Runs(p, k),
         NEW l \in PCs, NEW f \in FrameType, Step(p, l, f),
         UNCHANGED <<bufVars, bp, wb, wchan>>,
         f.op = op(p), f.xb = xb(p), f.ra = ra(p), f.lbn = lbn(p), f.ret # "binval",
         k \notin {"age", "hold"},
         l \notin {"idle", "age", "getnewbuf", "fsynced", "binval"}
  PROVE  Kept
<1>1. pc[p] = k /\ pc'[p] = l /\ frame'[p] = f
  BY Went
<1>2. /\ op(p)' = op(p) /\ xb(p)' = xb(p) /\ ra(p)' = ra(p) /\ lbn(p)' = lbn(p)
      /\ ret(p)' # "binval"
  BY <1>1 DEF op, xb, ra, lbn, ret
<1>3. OwnAt(p)'
  BY <1>1, <1>2, MovedAt
<1>4. Locks(p)
  BY <1>2, SameLocks
<1> QED
  BY <1>3, <1>4, MoveKept

(* A call that ends has nothing in hand.                                   *)
LEMMA EndKept ==
  ASSUME IInv, IInv', CInv, NoLostWakeup, NEW p \in Procs, NEW k, Runs(p, k),
         Step(p, "idle", frame[p]), UNCHANGED <<bufVars, bp, wb, wchan>>
  PROVE  Kept
<1>1. frame[p] \in FrameType /\ "idle" \in PCs
  BY FrameOf DEF PCs
<1>2. pc'[p] = "idle" /\ frame'[p] = NoFrame
  BY <1>1, Went
<1>3. OwnAt(p)' /\ Locks(p)
  BY <1>2, IdleAt, SameLocks
<1> QED
  BY <1>1, <1>3, MoveKept

(* What breada, biowait and blkflush do between their waits.               *)
LEMMA MovesKept ==
  ASSUME IInv, IInv', CInv, NoLostWakeup, NEW p \in Procs,
         RaCheck(p) \/ RaDone(p) \/ BiowaitDone(p) \/ BlkflushDone(p)
           \/ FsyncReturn(p) \/ DevClose(p)
  PROVE  Kept
<1>1. frame[p] \in FrameType
  BY FrameOf
<1>2. {"ra_done", "getblk", "rwait", "hold", "brelse", "syncip", "rahead", "bread"} \subseteq PCs
  BY DEF PCs
<1>3. \A e \in BOOLEAN : LET f == [frame[p] EXCEPT !.failed = e]
                         IN  /\ f \in FrameType /\ f.op = op(p) /\ f.xb = xb(p)
                             /\ f.ra = ra(p) /\ f.lbn = lbn(p) /\ f.ret = ret(p)
  BY <1>1 DEF FrameType, op, xb, ra, lbn, ret
<1>4. \A r \in PCs : LET f == [frame[p] EXCEPT !.ret = r]
                     IN  /\ f \in FrameType /\ f.op = op(p) /\ f.xb = xb(p)
                         /\ f.ra = ra(p) /\ f.lbn = lbn(p) /\ f.ret = r
  BY <1>1 DEF FrameType, op, xb, ra, lbn
<1>5. FrameAt(p) /\ OwnAt(p)
  BY DEF IInv, FrameOK, CInv
<1>6. CASE RaCheck(p)
  <2>1. /\ Runs(p, "ra_check") /\ UNCHANGED <<bufVars, bp, wb, wchan>>
        /\ \/ Step(p, "ra_done", frame[p])
           \/ Step(p, "getblk", [frame[p] EXCEPT !.ret = "rahead"])
    BY <1>6 DEF RaCheck, Goto
  <2>2. ret(p) # "binval"
    BY <1>5, <2>1 DEF Runs, FrameAt, OwnAt, NamedAt, NamedBuf
  <2>3. CASE Step(p, "ra_done", frame[p])
    BY <1>1, <1>2, <2>1, <2>2, <2>3, WithinKept DEF op, xb, ra, lbn, ret
  <2>4. CASE Step(p, "getblk", [frame[p] EXCEPT !.ret = "rahead"])
    <3>1. PICK f \in FrameType :
            /\ f = [frame[p] EXCEPT !.ret = "rahead"] /\ f.op = op(p) /\ f.xb = xb(p)
            /\ f.ra = ra(p) /\ f.lbn = lbn(p) /\ f.ret = "rahead"
      BY <1>2, <1>4
    <3>2. Step(p, "getblk", f)
      BY <2>4, <3>1
    <3>3. /\ f.op = op(p) /\ f.xb = xb(p) /\ f.ra = ra(p) /\ f.lbn = lbn(p)
          /\ f.ret # "binval" /\ "getblk" \in PCs
          /\ Runs(p, "ra_check") /\ UNCHANGED <<bufVars, bp, wb, wchan>>
      BY <1>2, <2>1, <3>1
    <3> QED
      BY <3>2, <3>3, WithinKept
  <2> QED
    BY <2>1, <2>3, <2>4
<1>7. CASE RaDone(p)
  <2>1. /\ Runs(p, "ra_done") /\ UNCHANGED <<bufVars, bp, wb, wchan>>
        /\ \E l \in {"getblk", "rwait"} : Step(p, l, [frame[p] EXCEPT !.ret = "bread"])
    BY <1>7 DEF RaDone
  <2>2. PICK f \in FrameType :
          /\ f = [frame[p] EXCEPT !.ret = "bread"] /\ f.op = op(p) /\ f.xb = xb(p)
          /\ f.ra = ra(p) /\ f.lbn = lbn(p) /\ f.ret = "bread"
    BY <1>2, <1>4
  <2>3. PICK l \in {"getblk", "rwait"} : Step(p, l, f)
    BY <2>1, <2>2
  <2>4. /\ f.op = op(p) /\ f.xb = xb(p) /\ f.ra = ra(p) /\ f.lbn = lbn(p)
        /\ f.ret # "binval" /\ l \in PCs
        /\ Runs(p, "ra_done") /\ UNCHANGED <<bufVars, bp, wb, wchan>>
    BY <1>2, <2>1, <2>2
  <2> QED
    BY <2>3, <2>4, WithinKept
<1>8. CASE BiowaitDone(p)
  <2>1. PICK k \in {"rwait", "wwait"}, l \in {"hold", "brelse"}, e \in BOOLEAN :
          /\ Runs(p, k) /\ UNCHANGED <<bufVars, bp, wb, wchan>>
          /\ Step(p, l, [frame[p] EXCEPT !.failed = e])
    <3>1. frame[p].failed \in BOOLEAN
      BY <1>1 DEF FrameType
    <3> DEFINE e == frame[p].failed \/ "B_ERROR" \in flags[bp[p]]
               l == IF pc[p] = "rwait" THEN "hold" ELSE "brelse"
    <3>2. e \in BOOLEAN /\ l \in {"hold", "brelse"}
      BY <3>1
    <3>3. [frame[p] EXCEPT !.failed = @ \/ "B_ERROR" \in flags[bp[p]]]
            = [frame[p] EXCEPT !.failed = e]
      OBVIOUS
    <3>4. Step(p, l, [frame[p] EXCEPT !.failed = e])
      BY <1>8, <3>3 DEF BiowaitDone
    <3>5. (Runs(p, "rwait") \/ Runs(p, "wwait")) /\ UNCHANGED <<bufVars, bp, wb, wchan>>
      BY <1>8 DEF BiowaitDone
    <3> HIDE DEF e, l
    <3> QED
      BY <3>2, <3>4, <3>5
  <2>2. ret(p) # "binval"
    <3>1. \A c \in Bufs : Owns(p, c) => op(p) # "close"
      BY <1>5 DEF OwnAt, NamedAt, NamedBuf, Fetchers
    <3>2. bp[p] \in Bufs /\ Owns(p, bp[p])
      BY <2>1 DEF IInv, LocalBufs, LocalAt, TypeOK, Owns, Runs
    <3> QED
      BY <1>5, <3>1, <3>2 DEF OwnAt, NamedAt, NamedBuf
  <2> QED
    BY <1>2, <1>3, <2>1, <2>2, WithinKept
<1>9. CASE BlkflushDone(p)
  <2>1. /\ Runs(p, "blkflush") /\ UNCHANGED <<bufVars, bp, wb, wchan>>
        /\ Step(p, "syncip", frame[p])
    BY <1>9 DEF BlkflushDone, Goto
  <2>2. ret(p) # "binval"
    BY <1>5, <2>1 DEF Runs, FrameAt, OwnAt, NamedAt, NamedBuf
  <2> QED
    BY <1>1, <1>2, <2>1, <2>2, WithinKept DEF op, xb, ra, lbn, ret
<1>10. CASE FsyncReturn(p) \/ DevClose(p)
  <2>1. /\ \E k \in {"fsynced", "d_close"} : Runs(p, k)
        /\ Step(p, "idle", frame[p]) /\ UNCHANGED <<bufVars, bp, wb, wchan>>
    BY <1>10 DEF FsyncReturn, DevClose, Goto
  <2> QED
    BY <2>1, EndKept
<1> QED
  BY <1>6, <1>7, <1>8, <1>9, <1>10

(* The buffer becomes the caller's.                                        *)
LEMMA TakeKept ==
  ASSUME IInv, CInv, NoLostWakeup, NEW p \in Procs, Take(p)
  PROVE  Kept
<1>1. /\ Runs(p, "take") /\ Step(p, "hold", frame[p])
      /\ bp' = [bp EXCEPT ![p] = wb[p]] /\ wb' = [wb EXCEPT ![p] = NoBuf]
      /\ UNCHANGED <<bufVars, wchan>>
  BY DEF Take, Goto
<1>2. frame[p] \in FrameType /\ "hold" \in PCs
  BY FrameOf DEF PCs
<1>3. /\ pc[p] = "take" /\ pc'[p] = "hold" /\ frame'[p] = frame[p] /\ LocalAt(p)
      /\ \A q \in Procs : q # p => pc'[q] = pc[q] /\ frame'[q] = frame[q]
  BY <1>1, <1>2, Went
<1>4. /\ bp'[p] = wb[p] /\ wb'[p] = NoBuf /\ bp[p] = NoBuf
      /\ \A q \in Procs : q # p => bp'[q] = bp[q] /\ wb'[q] = wb[q]
  BY <1>1, <1>3 DEF IInv, TypeOK, LocalAt
<1>5. Others(p)
  BY <1>3, <1>4 DEF Others
<1>6. \A c \in Bufs : Owns(p, c)' <=> Owns(p, c)
  BY <1>3, <1>4 DEF Owns, Bufs, NoBuf
<1>7. \A c \in Bufs : Same(c)
  BY <1>1 DEF Same, bufVars
<1>8. /\ op(p)' = op(p) /\ xb(p)' = xb(p) /\ ra(p)' = ra(p) /\ lbn(p)' = lbn(p)
      /\ ret(p)' = ret(p)
  BY <1>3 DEF op, ret, xb, ra, lbn
<1>9. OwnAt(p)'
  <2>1. OwnAt(p)
    BY DEF CInv
  <2>2. NamedAt(p)'
    BY <1>1, <1>3, <1>6, <1>8, <2>1 DEF OwnAt, NamedAt, NamedBuf, Valid, bufVars
  <2>3. PassedAt(p)'
    BY <1>1, <1>3, <1>8, <2>1 DEF OwnAt, PassedAt, FileBuf, SmallFile, Delwri, bufVars
  <2> QED
    BY <1>3, <2>2, <2>3 DEF OwnAt, AwaitedAt, SearchAt
<1>10. CInv'
  <2>1. Touches(p, {})
    BY <1>7 DEF Touches
  <2> QED
    BY <1>1, <1>5, <1>8, <1>9, <2>1, SameLocks, Effect
<1>11. Gentle
  BY <1>1 DEF Gentle, NoFree, bufVars
<1> QED
  BY <1>1, <1>5, <1>10, <1>11, Waiters DEF Kept

(* syncip goes on to the next block of a small file.                       *)
LEMMA SyncipBlkflushKept ==
  ASSUME IInv, CInv, NoLostWakeup, NEW p \in Procs, SyncipBlkflush(p)
  PROVE  Kept
<1> DEFINE f == [frame[p] EXCEPT !.xb = Dblk(File[lbn(p)]), !.lbn = @ + 1]
<1>1. /\ Runs(p, "syncip") /\ Step(p, "blkflush", f) /\ SmallFile /\ lbn(p) <= Len(File)
      /\ UNCHANGED <<bufVars, bp, wb, wchan>>
  BY DEF SyncipBlkflush
<1>2. lbn(p) \in DOMAIN File /\ lbn(p) \in Nat \ {0} /\ frame[p].lbn = lbn(p)
  BY <1>1, FrameOf, BufferCacheAssumption DEF lbn
<1>3. /\ File[lbn(p)] \in Blocks
      /\ Dblk(File[lbn(p)]) \in Int \X Int
      /\ Dblk(File[lbn(p)])[1] = InodeBlk[1]
  BY <1>2, FileBlocks, BlocksType, BlockNames
<1>4. /\ f \in FrameType /\ f.op = op(p) /\ f.ret = ret(p) /\ f.ra = ra(p)
      /\ f.xb[1] = InodeBlk[1]
  <2>1. frame[p] \in FrameType /\ lbn(p) + 1 \in Nat \ {0}
    BY <1>2, FrameOf
  <2>2. f = [frame[p] EXCEPT !.xb = Dblk(File[lbn(p)]), !.lbn = lbn(p) + 1]
    BY <1>2
  <2>3. f \in FrameType
    BY <1>3, <2>1, <2>2, FrameEdits
  <2> QED
    BY <1>3, <2>1, <2>3 DEF FrameType, op, ret, ra
<1> HIDE DEF f
<1>5. /\ pc[p] = "syncip" /\ pc'[p] = "blkflush" /\ frame'[p] = f
      /\ FrameAt(p) /\ LocalAt(p)
  BY <1>1, <1>4, Went DEF PCs
<1>6. /\ op(p)' = op(p) /\ ra(p)' = ra(p) /\ ret(p)' = ret(p)
      /\ xb(p)'[1] = InodeBlk[1]
  BY <1>4, <1>5 DEF op, ret, xb, ra
<1>7. op(p) = "fsync" /\ xb(p)[1] = InodeBlk[1] /\ OwnAt(p)
  BY <1>5 DEF FrameAt, CInv, OwnAt, NamedAt, NamedBuf
<1>8. bp[p] = NoBuf /\ wb[p] = NoBuf
  BY <1>5 DEF LocalAt, Fetching
<1>9. \A b \in Bufs : ~ Owns(p, b)'
  BY <1>1, <1>8 DEF Owns, Bufs, NoBuf
<1>10. OwnAt(p)'
  <2>1. AwaitedAt(p)' /\ SearchAt(p)' /\ PassedAt(p)'
    BY <1>1, <1>5, <1>6, <1>7, <1>8 DEF AwaitedAt, SearchAt, PassedAt, SmallFile
  <2>2. NamedAt(p)'
    BY <1>5, <1>6, <1>7, <1>9 DEF OwnAt, NamedAt, NamedBuf
  <2> QED
    BY <2>1, <2>2 DEF OwnAt
<1>11. Locks(p)
  BY <1>6, <1>7 DEF Locks, UsesFile
<1>12. "blkflush" \in PCs
  BY DEF PCs
<1> QED
  BY <1>1, <1>4, <1>10, <1>11, <1>12, MoveKept

(* syncip has passed all buffers of the device, or all blocks of the file. *)
LEMMA SyncipDoneKept ==
  ASSUME IInv, CInv, NoLostWakeup, NEW p \in Procs, SyncipDone(p)
  PROVE  Kept
<1> DEFINE f == [frame[p] EXCEPT !.op = "iupdat", !.xb = InodeBlk, !.ret = "bread"]
<1>1. /\ Runs(p, "syncip") /\ Step(p, "getblk", f)
      /\ (~ SmallFile => Dirty(p) = {})
      /\ UNCHANGED <<bufVars, bp, wb, wchan>>
  BY DEF SyncipDone
<1>2. f \in FrameType /\ f.op = "iupdat" /\ f.ret = "bread" /\ f.xb = InodeBlk
  <2>1. frame[p] \in FrameType /\ "bread" \in PCs /\ InodeBlk \in Int \X Int
    BY FrameOf, FileBlocks, BlocksType DEF PCs
  <2>2. f \in FrameType
    BY <2>1, FrameEdits
  <2> QED
    BY <2>1, <2>2 DEF FrameType
<1> HIDE DEF f
<1>3. "getblk" \in PCs
  BY DEF PCs
<1>4. /\ pc[p] = "syncip" /\ pc'[p] = "getblk" /\ frame'[p] = f
      /\ FrameAt(p) /\ LocalAt(p)
  BY <1>1, <1>2, <1>3, Went
<1>5. op(p)' = "iupdat" /\ ret(p)' = "bread" /\ xb(p)' = InodeBlk
  BY <1>2, <1>4 DEF op, ret, xb
<1>6. op(p) = "fsync" /\ xb(p)[1] = InodeBlk[1] /\ OwnAt(p)
  BY <1>4 DEF FrameAt, CInv, OwnAt, NamedAt, NamedBuf
<1>7. bp[p] = NoBuf /\ wb[p] = NoBuf
  BY <1>4 DEF LocalAt, Fetching
<1>8. \A b \in Bufs : ~ Owns(p, b)'
  BY <1>1, <1>7 DEF Owns, Bufs, NoBuf
<1>9. PassedAt(p)'
  <2>1. ASSUME ~ SmallFile, NEW b \in Bufs, FileBuf(b), Delwri(b)
        PROVE  FALSE
    <3>1. ~ b < lbn(p)
      BY <1>6, <2>1 DEF OwnAt, PassedAt
    <3>2. b \in Nat /\ lbn(p) \in Nat
      BY FrameOf DEF Bufs
    <3>3. blk[b][1] = InodeBlk[1]
      BY <2>1, FileBlocks, BlockNames DEF FileBuf
    <3>4. b \in Dirty(p)
      BY <2>1, <3>1, <3>2, <3>3 DEF Dirty
    <3> QED
      BY <1>1, <2>1, <3>4
  <2> QED
    BY <1>1, <1>4, <1>5, <2>1 DEF PassedAt, SmallFile, FileBuf, Delwri, bufVars
<1>10. OwnAt(p)'
  <2>1. AwaitedAt(p)' /\ SearchAt(p)'
    BY <1>1, <1>4, <1>7 DEF AwaitedAt, SearchAt
  <2>2. NamedAt(p)'
    BY <1>4, <1>5, <1>8 DEF NamedAt, NamedBuf
  <2> QED
    BY <1>9, <2>1, <2>2 DEF OwnAt
<1>11. Locks(p)
  BY <1>5, <1>6 DEF Locks, UsesFile
<1> QED
  BY <1>1, <1>2, <1>3, <1>10, <1>11, MoveKept

(* The buffer a process has in hand is of the device its call is about, or *)
(* of none; a process that closes has none.                                *)
LEMMA OwnedDev ==
  ASSUME IInv, CInv, NEW q \in Procs, NEW b \in Bufs, Owns(q, b)
  PROVE  (blk[b][1] = xb(q)[1] \/ blk[b] = NoBlk) /\ op(q) # "close"
<1>1. OwnAt(q) /\ FrameAt(q)
  BY DEF CInv, IInv, FrameOK
<1>2. op(q) \in Fetchers \cup {"fsync"}
  BY <1>1 DEF OwnAt, NamedAt, NamedBuf
<1>3. CASE op(q) \in {"bread", "getblk", "iupdat"}
  BY <1>1, <1>3, BlockNames DEF OwnAt, NamedAt, NamedBuf, FrameAt
<1>4. CASE op(q) = "breada"
  BY <1>1, <1>4, BlockNames DEF OwnAt, NamedAt, NamedBuf, FrameAt
<1>5. CASE op(q) = "fsync"
  BY <1>1, <1>5 DEF OwnAt, NamedAt, NamedBuf
<1>6. CASE op(q) = "geteblk"
  BY <1>1, <1>6 DEF OwnAt, NamedAt, NamedBuf
<1> QED
  BY <1>2, <1>3, <1>4, <1>5, <1>6 DEF Fetchers

(* While a device is being closed nobody else has a buffer of it.          *)
LEMMA ClosedAlone ==
  ASSUME IInv, CInv, NEW p \in Procs, op(p) = "close",
         NEW b \in Bufs, blk[b][1] = xb(p)[1], NEW q \in Procs
  PROVE  ~ Owns(q, b)
<1>1. xb(p)[1] \in Devs /\ Devs \subseteq Nat
  BY BufferCacheAssumption DEF CInv, OwnAt, NamedAt, NamedBuf
<1>2. blk[b] # NoBlk
  BY <1>1 DEF NoBlk
<1>3. q # p => xb(q)[1] # xb(p)[1]
  BY DEF CInv, CloseAlone
<1> QED
  BY <1>2, <1>3, OwnedDev

(* What is free is in bflush's way.                                        *)
LEMMA FreeScanned ==
  ASSUME IInv, NEW b \in Bufs, ~ Busy(b)
  PROVE  b \in Elems(ScanOrder)
<1>1. bq_lru \in Seq(Bufs) /\ bq_age \in Seq(Bufs)
  BY DEF IInv, TypeOK
<1>2. CASE b \in Elems(bq_lru)
  <2>1. PICK i \in DOMAIN bq_lru : bq_lru[i] = b
    BY <1>2 DEF Elems
  <2>2. i \in DOMAIN ScanOrder /\ ScanOrder[i] = b
    BY <1>1, <2>1 DEF ScanOrder
  <2> QED
    BY <2>2 DEF Elems
<1>3. CASE b \in Elems(bq_age)
  <2>1. PICK i \in DOMAIN bq_age : bq_age[i] = b
    BY <1>3 DEF Elems
  <2>2. Len(bq_lru) + i \in DOMAIN ScanOrder /\ ScanOrder[Len(bq_lru) + i] = b
    BY <1>1, <2>1 DEF ScanOrder
  <2> QED
    BY <2>2 DEF Elems
<1> QED
  BY <1>2, <1>3 DEF IInv, FreeIffNotBusy

(* bflush finds nothing more: what is left of the device is at the driver. *)
LEMMA BflushDoneKept ==
  ASSUME IInv, IInv', CInv, NoLostWakeup, NEW p \in Procs, BflushDone(p)
  PROVE  Kept
<1>1. /\ Runs(p, "bflush") /\ UNCHANGED <<bufVars, bp, wb, wchan>>
      /\ \A b \in Elems(ScanOrder) : ~ Flushable(p, b)
      /\ Step(p, IF ret(p) = "binval" THEN "binval" ELSE "idle", frame[p])
  BY DEF BflushDone, Goto
<1>2. CASE ret(p) # "binval"
  <2>1. Step(p, "idle", frame[p])
    BY <1>1, <1>2
  <2> QED
    BY <1>1, <2>1, EndKept
<1>3. CASE ret(p) = "binval"
  <2>1. frame[p] \in FrameType /\ "binval" \in PCs /\ Step(p, "binval", frame[p])
    BY <1>1, <1>3, FrameOf DEF PCs
  <2>2. /\ pc[p] = "bflush" /\ pc'[p] = "binval" /\ frame'[p] = frame[p] /\ cur' = p
        /\ LocalAt(p)
    BY <1>1, <2>1, Went DEF Leaves
  <2>3. op(p) = "close" /\ OwnAt(p)
    BY <1>3 DEF CInv, OwnAt, NamedAt, NamedBuf
  <2>4. /\ op(p)' = op(p) /\ xb(p)' = xb(p) /\ ra(p)' = ra(p) /\ lbn(p)' = lbn(p)
        /\ ret(p)' = ret(p)
    BY <2>2 DEF op, ret, xb, ra, lbn
  <2>5. bp[p] = NoBuf /\ wb[p] = NoBuf
    BY <2>2 DEF LocalAt, Fetching
  <2>6. \A b \in Bufs : ~ Owns(p, b)'
    BY <1>1, <2>5 DEF Owns, Bufs, NoBuf
  <2>7. ASSUME NEW b \in Bufs, blk[b][1] = xb(p)[1], Delwri(b)
        PROVE  FALSE
    <3>1. CASE ~ Busy(b)
      BY <1>1, <2>7, <3>1, FreeScanned DEF Flushable
    <3>2. CASE Busy(b)
      <4>1. DriverOwns(b)
        BY <2>3, <2>7, <3>2, ClosedAlone DEF IInv, OneOwner
      <4>2. "B_DONE" \notin flags[b]
        BY <4>1 DEF DriverOwns, IInv, NoDupBiodone
      <4> QED
        BY <2>7, <4>2 DEF CInv, DelwriDone
    <3> QED
      BY <3>1, <3>2
  <2>8. OwnAt(p)'
    <3>1. AwaitedAt(p)' /\ SearchAt(p)'
      BY <1>1, <2>2, <2>5 DEF AwaitedAt, SearchAt
    <3>2. NamedAt(p)'
      BY <2>2, <2>3, <2>4, <2>6 DEF OwnAt, NamedAt, NamedBuf
    <3>3. PassedAt(p)'
      BY <1>1, <2>3, <2>4, <2>7 DEF PassedAt, Delwri, bufVars
    <3> QED
      BY <3>1, <3>2, <3>3 DEF OwnAt
  <2> QED
    BY <1>1, <2>1, <2>4, <2>8, SameLocks, MoveKept
<1> QED
  BY <1>2, <1>3

(* binval marks buffers that are clean and nobody's.                       *)
LEMMA BinvalKept ==
  ASSUME IInv, CInv, NoLostWakeup, NEW p \in Procs, Binval(p)
  PROVE  Kept
<1>1. /\ Runs(p, "binval") /\ Step(p, "d_close", frame[p])
      /\ UNCHANGED <<blk, bq_lru, bq_age, flwanted, ioq, bp, wb, wchan>>
  BY DEF Binval, Goto
<1>2. frame[p] \in FrameType /\ "d_close" \in PCs
  BY FrameOf DEF PCs
<1>3. /\ pc[p] = "binval" /\ pc'[p] = "d_close" /\ frame'[p] = frame[p] /\ LocalAt(p)
      /\ \A q \in Procs : q # p => pc'[q] = pc[q] /\ frame'[q] = frame[q]
  BY <1>1, <1>2, Went
<1>4. op(p) = "close" /\ OwnAt(p)
  BY <1>3 DEF CInv, OwnAt, NamedAt, NamedBuf
<1>5. \A c \in Bufs : /\ flags'[c] = flags[c] \/ flags'[c] = flags[c] \cup {"B_INVAL"}
                      /\ blk[c][1] # xb(p)[1] => flags'[c] = flags[c]
  BY DEF Binval
<1> DEFINE B == { b \in Bufs : blk[b][1] = xb(p)[1] }
<1>6. Touches(p, B)
  <2>1. \A c \in Bufs : c \notin B => Same(c)
    BY <1>1, <1>5 DEF Same
  <2>2. ASSUME NEW b \in B
        PROVE  b \in Bufs /\ Fair(p, b)
    <3>1. b \in Bufs /\ blk[b][1] = xb(p)[1]
      OBVIOUS
    <3>2. "B_DELWRI" \notin flags[b]
      BY <1>3, <1>4, <3>1 DEF OwnAt, PassedAt, Delwri
    <3>3. "B_DELWRI" \notin flags'[b]
      BY <1>5, <3>1, <3>2
    <3>4. \A q \in Procs : ~ Owns(q, b)
      BY <1>4, <3>1, ClosedAlone
    <3> QED
      BY <3>1, <3>3, <3>4 DEF Fair
  <2> QED
    BY <2>1, <2>2 DEF Touches
<1>7. Others(p)
  BY <1>1, <1>3 DEF Others
<1>8. /\ op(p)' = op(p) /\ xb(p)' = xb(p) /\ ra(p)' = ra(p) /\ lbn(p)' = lbn(p)
      /\ ret(p)' = ret(p)
  BY <1>3 DEF op, ret, xb, ra, lbn
<1>9. bp[p] = NoBuf /\ wb[p] = NoBuf
  BY <1>3 DEF LocalAt, Fetching
<1>10. \A b \in Bufs : ~ Owns(p, b)'
  BY <1>1, <1>9 DEF Owns, Bufs, NoBuf
<1>11. OwnAt(p)'
  <2>1. AwaitedAt(p)' /\ SearchAt(p)' /\ PassedAt(p)'
    BY <1>1, <1>3, <1>4, <1>8, <1>9 DEF AwaitedAt, SearchAt, PassedAt
  <2>2. NamedAt(p)'
    BY <1>3, <1>4, <1>8, <1>10 DEF OwnAt, NamedAt, NamedBuf
  <2> QED
    BY <2>1, <2>2 DEF OwnAt
<1>12. CInv'
  <2> HIDE DEF B
  <2> QED
    BY <1>1, <1>6, <1>7, <1>8, <1>11, SameLocks, Effect
<1>13. Gentle
  BY <1>1, <1>5 DEF Gentle, NoFree
<1> QED
  BY <1>1, <1>7, <1>12, <1>13, Waiters DEF Kept

-----------------------------------------------------------------------------
(* Falling asleep.                                                         *)

(* What p sleeps for will wake it.                                         *)
Waking(p, chan) ==
  /\ chan = BFREELIST => flwanted' /\ NoFree
  /\ chan \in Bufs => \/ chan = bp[p] /\ chan \in Elems(ioq)
                      \/ "B_BUSY" \in flags[chan] /\ "B_WANTED" \in flags'[chan]

LEMMA SleepKept ==
  ASSUME IInv, CInv, NoLostWakeup, NEW p \in Procs, NEW k, Runs(p, k),
         k \notin {"age", "binval"}, NEW chan, Sleep(p, chan), Waking(p, chan),
         \A c \in Bufs : flags'[c] = flags[c] \/ flags'[c] = flags[c] \cup {"B_WANTED"},
         UNCHANGED <<blk, bq_lru, bq_age, ioq, bp, wb>>, flwanted => flwanted',
         \A q \in Procs : q # p => frame'[q] = frame[q],
         op(p)' = op(p), xb(p)' = xb(p), ra(p)' = ra(p), ret(p)' = ret(p),
         k = "getnewbuf" => frame'[p].slept,
         ~ SmallFile /\ op(p) = "fsync" =>
            \A b \in Bufs : b < lbn(p)' /\ FileBuf(b) => ~ Delwri(b)
  PROVE  Kept
<1>1. pc' = pc /\ wchan' = [wchan EXCEPT ![p] = chan] /\ pc[p] = k
  BY DEF Sleep, Runs
<1>2. Others(p)
  BY <1>1 DEF Others
<1>3. \A c \in Bufs : Same(c) /\ ("B_BUSY" \in flags'[c] <=> "B_BUSY" \in flags[c])
  BY DEF Same
<1>4. OwnAt(p)
  BY DEF CInv
<1>5. \A c \in Bufs : /\ Owns(p, c)' <=> Owns(p, c)
                      /\ FileBuf(c)' <=> FileBuf(c)
                      /\ Delwri(c)' <=> Delwri(c)
                      /\ Valid(c)' <=> Valid(c)
  BY <1>1, <1>3 DEF Owns, FileBuf, Same, Delwri, Valid
<1>6. OwnAt(p)'
  <2>1. AwaitedAt(p)'
    <3>1. bp[p] # NoBuf => bp[p] \in Bufs
      BY DEF IInv, TypeOK
    <3> QED
      BY <1>1, <1>3, <1>4, <3>1 DEF OwnAt, AwaitedAt, Same
  <2>2. SearchAt(p)'
    BY <1>1 DEF SearchAt
  <2>3. NamedAt(p)'
    BY <1>1, <1>4, <1>5 DEF OwnAt, NamedAt, NamedBuf
  <2>4. PassedAt(p)'
    BY <1>1, <1>4, <1>5 DEF OwnAt, PassedAt, SmallFile
  <2> QED
    BY <2>1, <2>2, <2>3, <2>4 DEF OwnAt
<1>7. CInv'
  <2>1. Touches(p, {})
    BY <1>3 DEF Touches
  <2> QED
    BY <1>2, <1>6, <2>1, SameLocks, Effect
<1>8. NoLostWakeup'
  <2> SUFFICES ASSUME NEW q \in Procs
               PROVE  /\ wchan'[q] = BFREELIST => flwanted' /\ NoFree'
                      /\ wchan'[q] \in Bufs =>
                           \/ wchan'[q] = bp'[q] /\ wchan'[q] \in Elems(ioq')
                           \/ /\ "B_BUSY" \in flags'[wchan'[q]]
                              /\ "B_WANTED" \in flags'[wchan'[q]]
    BY DEF NoLostWakeup, Busy
  <2>1. NoFree' <=> NoFree
    BY DEF NoFree
  <2>2. CASE q = p
    <3>1. wchan'[q] = chan
      BY <1>1, <2>2 DEF IInv, TypeOK
    <3> QED
      BY <1>3, <2>1, <2>2, <3>1 DEF Waking, Busy
  <2>3. CASE q # p
    <3>1. wchan'[q] = wchan[q]
      BY <1>1, <2>3 DEF IInv, TypeOK
    <3>2. wchan[q] = BFREELIST => flwanted /\ NoFree
      BY DEF NoLostWakeup
    <3>3. wchan[q] \in Bufs =>
            \/ wchan[q] = bp[q] /\ wchan[q] \in Elems(ioq)
            \/ Busy(wchan[q]) /\ "B_WANTED" \in flags[wchan[q]]
      BY DEF NoLostWakeup
    <3>4. \A c \in Bufs : "B_WANTED" \in flags[c] => "B_WANTED" \in flags'[c]
      OBVIOUS
    <3> QED
      BY <1>3, <2>1, <3>1, <3>2, <3>3, <3>4 DEF Busy
  <2> QED
    BY <2>2, <2>3
<1> QED
  BY <1>7, <1>8 DEF Kept

(* A busy buffer is waited for.                                            *)
LEMMA AwaitBufKept ==
  ASSUME IInv, CInv, NoLostWakeup, NEW p \in Procs,
         NEW k \in {"getblk", "syncip", "blkflush"}, Runs(p, k),
         NEW b \in Bufs, AwaitBuf(p, b),
         \A q \in Procs : q # p => frame'[q] = frame[q],
         op(p)' = op(p), xb(p)' = xb(p), ra(p)' = ra(p), ret(p)' = ret(p),
         ~ SmallFile /\ op(p) = "fsync" =>
            \A c \in Bufs : c < lbn(p)' /\ FileBuf(c) => ~ Delwri(c)
  PROVE  Kept
<1>1. /\ Busy(b) /\ flags' = [flags EXCEPT ![b] = @ \cup {"B_WANTED"}] /\ Sleep(p, b)
      /\ UNCHANGED <<blk, bq_lru, bq_age, flwanted, ioq, bp, wb>>
  BY DEF AwaitBuf
<1>2. /\ \A c \in Bufs : flags'[c] = flags[c] \/ flags'[c] = flags[c] \cup {"B_WANTED"}
      /\ "B_WANTED" \in flags'[b]
  BY <1>1 DEF IInv, TypeOK
<1>3. Waking(p, b)
  BY <1>1, <1>2 DEF Waking, Busy, Bufs, BFREELIST
<1> QED
  BY <1>1, <1>2, <1>3, SleepKept

LEMMA SleepsKept ==
  ASSUME IInv, CInv, NoLostWakeup, NEW p \in Procs,
         GetblkSleep(p) \/ BlkflushSleep(p) \/ SyncipSleep(p)
           \/ GetnewbufSleep(p) \/ BiowaitSleep(p)
  PROVE  Kept
<1>0. OwnAt(p) /\ frame \in [Procs -> FrameType]
  BY DEF CInv, IInv, TypeOK
<1>1. ASSUME frame' = frame
      PROVE  /\ \A q \in Procs : q # p => frame'[q] = frame[q]
             /\ op(p)' = op(p) /\ xb(p)' = xb(p) /\ ra(p)' = ra(p) /\ ret(p)' = ret(p)
             /\ ~ SmallFile /\ op(p) = "fsync" =>
                   \A c \in Bufs : c < lbn(p)' /\ FileBuf(c) => ~ Delwri(c)
  BY <1>0, <1>1 DEF op, xb, ra, ret, lbn, OwnAt, PassedAt
<1>2. CASE GetblkSleep(p)
  <2>1. PICK b \in Bufs : AwaitBuf(p, b)
    BY <1>2 DEF GetblkSleep, Match
  <2>2. Runs(p, "getblk") /\ frame' = frame
    BY <1>2 DEF GetblkSleep
  <2> QED
    BY <1>1, <2>1, <2>2, AwaitBufKept
<1>3. CASE BlkflushSleep(p)
  <2>1. PICK b \in Bufs : AwaitBuf(p, b)
    BY <1>3 DEF BlkflushSleep, Match
  <2>2. Runs(p, "blkflush") /\ frame' = frame
    BY <1>3 DEF BlkflushSleep
  <2> QED
    BY <1>1, <2>1, <2>2, AwaitBufKept
<1>4. CASE SyncipSleep(p)
  <2>1. PICK b \in Bufs : /\ IsFirst(b, Dirty(p)) /\ AwaitBuf(p, b)
                          /\ frame' = [frame EXCEPT ![p].lbn = b]
    BY <1>4 DEF SyncipSleep
  <2>2. Runs(p, "syncip")
    BY <1>4 DEF SyncipSleep
  <2>3. /\ \A q \in Procs : q # p => frame'[q] = frame[q]
        /\ frame'[p] = [frame[p] EXCEPT !.lbn = b]
    BY <1>0, <2>1
  <2>4. frame[p] \in FrameType
    BY <1>0
  <2>5. /\ op(p)' = op(p) /\ xb(p)' = xb(p) /\ ra(p)' = ra(p) /\ ret(p)' = ret(p)
        /\ lbn(p)' = b
    BY <2>3, <2>4 DEF op, xb, ra, ret, lbn, FrameType
  <2>6. ASSUME ~ SmallFile, op(p) = "fsync", NEW c \in Bufs, c < b, FileBuf(c), Delwri(c)
        PROVE  FALSE
    <3>1. ~ c < lbn(p)
      BY <1>0, <2>6 DEF OwnAt, PassedAt
    <3>2. c \in Nat /\ b \in Nat /\ lbn(p) \in Nat
      BY FrameOf DEF Bufs
    <3>3. blk[c][1] = InodeBlk[1]
      BY <2>6, FileBlocks, BlockNames DEF FileBuf
    <3>4. c \in Dirty(p)
      BY <2>6, <3>1, <3>2, <3>3 DEF Dirty
    <3>5. b <= c
      BY <2>1, <3>4 DEF IsFirst
    <3> QED
      BY <2>6, <3>2, <3>5
  <2> QED
    BY <2>1, <2>2, <2>3, <2>5, <2>6, AwaitBufKept
<1>5. CASE GetnewbufSleep(p)
  <2>1. /\ Runs(p, "getnewbuf") /\ NoFree /\ flwanted' = TRUE /\ Sleep(p, BFREELIST)
        /\ frame' = [frame EXCEPT ![p].slept = TRUE]
        /\ UNCHANGED <<flags, blk, bq_lru, bq_age, ioq, bp, wb>>
    BY <1>5 DEF GetnewbufSleep
  <2>2. /\ \A q \in Procs : q # p => frame'[q] = frame[q]
        /\ frame'[p] = [frame[p] EXCEPT !.slept = TRUE]
    BY <1>0, <2>1
  <2>3. frame[p] \in FrameType
    BY <1>0
  <2>4. /\ op(p)' = op(p) /\ xb(p)' = xb(p) /\ ra(p)' = ra(p) /\ ret(p)' = ret(p)
        /\ lbn(p)' = lbn(p) /\ frame'[p].slept
    BY <2>2, <2>3 DEF op, xb, ra, ret, lbn, FrameType
  <2>5. ~ SmallFile /\ op(p) = "fsync" =>
           \A c \in Bufs : c < lbn(p)' /\ FileBuf(c) => ~ Delwri(c)
    BY <1>0, <2>4 DEF OwnAt, PassedAt
  <2>6. Waking(p, BFREELIST)
    BY <2>1 DEF Waking, BFREELIST, Bufs
  <2> QED
    BY <2>1, <2>2, <2>4, <2>5, <2>6, SleepKept
<1>6. CASE BiowaitSleep(p)
  <2>1. PICK k \in {"rwait", "wwait"} :
          /\ Runs(p, k) /\ "B_DONE" \notin flags[bp[p]] /\ Sleep(p, bp[p])
          /\ UNCHANGED <<bufVars, frame, bp, wb>>
    BY <1>6 DEF BiowaitSleep
  <2>2. bp[p] \in Bufs
    BY <2>1 DEF Runs, IInv, LocalBufs, LocalAt, TypeOK
  <2>3. bp[p] \in Elems(ioq)
    BY <1>0, <2>1, <2>2 DEF Runs, OwnAt, AwaitedAt, Bufs, NoBuf
  <2>4. Waking(p, bp[p])
    BY <2>2, <2>3 DEF Waking, BFREELIST, Bufs
  <2>5. /\ UNCHANGED <<blk, bq_lru, bq_age, ioq, bp, wb>> /\ flwanted' = flwanted
        /\ flags' = flags /\ frame' = frame
    BY <2>1 DEF bufVars
  <2> QED
    BY <1>1, <2>1, <2>4, <2>5, SleepKept
<1> QED
  BY <1>2, <1>3, <1>4, <1>5, <1>6

(* The late B_AGE.                                                         *)
LEMMA BwriteAgeKept ==
  ASSUME IInv, IInv', CInv, NoLostWakeup, NEW p \in Procs, BwriteAge(p)
  PROVE  Kept
<1> DEFINE l == CASE ret(p) = "idle"                -> "idle"
                  [] ret(p) \in {"bflush", "binval"} -> "bflush"
                  [] OTHER                          -> "getnewbuf"
<1>1. /\ Runs(p, "age") /\ Step(p, l, frame[p])
      /\ flags' = [flags EXCEPT ![wb[p]] = @ \cup {"B_AGE"}]
      /\ wb' = [wb EXCEPT ![p] = NoBuf]
      /\ UNCHANGED <<blk, bq_lru, bq_age, flwanted, ioq, bp, wchan>>
  BY DEF BwriteAge, Goto
<1>2. /\ frame[p] \in FrameType /\ l \in PCs /\ l \in {"idle", "bflush", "getnewbuf"}
      /\ l = "getnewbuf" => ret(p) \notin {"idle", "bflush", "binval"}
  BY FrameOf DEF PCs
<1> HIDE DEF l
<1>3. /\ pc[p] = "age" /\ pc'[p] = l /\ FrameAt(p) /\ LocalAt(p)
      /\ frame'[p] = IF l = "idle" THEN NoFrame ELSE frame[p]
      /\ cur' = IF l \in Leaves THEN NoProc ELSE p
      /\ \A q \in Procs : q # p => pc'[q] = pc[q] /\ frame'[q] = frame[q]
  BY <1>1, <1>2, Went
<1>4. /\ wb'[p] = NoBuf
      /\ \A q \in Procs : q # p => wb'[q] = wb[q]
  BY <1>1 DEF IInv, TypeOK
<1>5. Others(p)
  BY <1>1, <1>3, <1>4 DEF Others
<1>6. wb[p] \in Bufs
  BY <1>3 DEF IInv, TypeOK, LocalAt
<1>7. \A c \in Bufs : flags'[c] = flags[c] \/ flags'[c] = flags[c] \cup {"B_AGE"}
  BY <1>1, <1>6 DEF IInv, TypeOK
<1>8. \A c \in Bufs : Same(c)
  BY <1>1, <1>7 DEF Same
<1>9. OwnAt(p)' /\ Locks(p)
  <2>1. CASE l = "idle"
    BY <1>3, <2>1, IdleAt, SameLocks
  <2>2. CASE l # "idle"
    <3>1. frame'[p] = frame[p] /\ cur' = p /\ OwnAt(p)
      BY <1>2, <1>3, <2>2 DEF CInv, Leaves
    <3>2. /\ op(p)' = op(p) /\ xb(p)' = xb(p) /\ ra(p)' = ra(p) /\ lbn(p)' = lbn(p)
          /\ ret(p)' = ret(p)
      BY <3>1 DEF op, ret, xb, ra, lbn
    <3>3. \A c \in Bufs : /\ Owns(p, c)' <=> Owns(p, c)
                          /\ FileBuf(c)' <=> FileBuf(c)
                          /\ Delwri(c)' <=> Delwri(c)
                          /\ Valid(c)' <=> Valid(c)
      BY <1>1, <1>2, <1>3, <1>4, <1>8 DEF Owns, FileBuf, Same, Delwri, Valid, Bufs, NoBuf
    <3>4. AwaitedAt(p)'
      <4>1. bp[p] # NoBuf => bp[p] \in Bufs
        BY DEF IInv, TypeOK
      <4> QED
        BY <1>1, <1>2, <1>3, <1>8, <3>1, <4>1 DEF OwnAt, AwaitedAt, Same
    <3>5. SearchAt(p)'
      <4>1. Want(p)' = Want(p)
        BY <3>2 DEF Want
      <4>2. incore(Want(p))' <=> incore(Want(p))
        BY <1>1, <3>3, <4>1 DEF incore, Match
      <4> QED
        BY <1>2, <1>3, <3>1, <3>2, <4>2 DEF OwnAt, SearchAt
    <3>6. NamedAt(p)'
      BY <1>1, <1>2, <1>3, <3>1, <3>2, <3>3 DEF OwnAt, NamedAt, NamedBuf
    <3>7. PassedAt(p)'
      BY <1>1, <1>2, <1>3, <3>1, <3>2, <3>3 DEF OwnAt, PassedAt, SmallFile
    <3> QED
      BY <3>2, <3>4, <3>5, <3>6, <3>7, SameLocks DEF OwnAt
  <2> QED
    BY <2>1, <2>2
<1>10. CInv'
  <2>1. Touches(p, {})
    BY <1>8 DEF Touches
  <2> QED
    BY <1>1, <1>5, <1>9, <2>1, Effect
<1>11. Gentle
  BY <1>1, <1>7 DEF Gentle, NoFree
<1> QED
  BY <1>1, <1>5, <1>10, <1>11, Waiters DEF Kept

-----------------------------------------------------------------------------
(* Steps that take, use or release a buffer.                               *)

(* A step of p that changes no buffer but b.                               *)
OneBuf(p, b) ==
  /\ Others(p)
  /\ \A c \in Bufs : c # b => /\ flags'[c] = flags[c] /\ blk'[c] = blk[c]
                              /\ c \in Elems(ioq') <=> c \in Elems(ioq)
                              /\ Owns(p, c)' <=> Owns(p, c)

(* The operation goes on with the same arguments.                          *)
SameCall(p) ==
  /\ op(p)' = op(p) /\ xb(p)' = xb(p) /\ ra(p)' = ra(p)
  /\ ret(p)' = ret(p) \/ ret(p)' # "binval"
  /\ pc'[p] # "binval" /\ (pc'[p] = "fsynced" => op(p) = "iupdat")

(* No delayed write appears.                                               *)
NotDirtied(b) ==
  "B_DELWRI" \in flags'[b] => "B_DELWRI" \in flags[b] /\ blk'[b] \in {blk[b], NoBlk}

LEMMA Touched ==
  ASSUME NEW p \in Procs, NEW b \in Bufs, OneBuf(p, b), Fair(p, b)
  PROVE  Touches(p, {b})
BY DEF Touches, OneBuf, Same

(* What fsync has passed stays clean.                                      *)
LEMMA PassedOn ==
  ASSUME CInv, NEW p \in Procs, NEW b \in Bufs, OneBuf(p, b), NotDirtied(b),
         op(p)' = op(p), lbn(p)' = lbn(p), pc'[p] # "binval"
  PROVE  PassedAt(p)'
<1>1. OwnAt(p)
  BY DEF CInv
<1>2. \A c \in Bufs : FileBuf(c)' /\ Delwri(c)' => FileBuf(c) /\ Delwri(c)
  <2> SUFFICES ASSUME NEW c \in Bufs, FileBuf(c)', Delwri(c)'
               PROVE  FileBuf(c) /\ Delwri(c)
    OBVIOUS
  <2>1. CASE c = b
    BY <2>1, FileBlocks, BlockNames DEF NotDirtied, FileBuf, Delwri
  <2>2. CASE c # b
    BY <2>2 DEF OneBuf, FileBuf, Delwri
  <2> QED
    BY <2>1, <2>2
<1> QED
  BY <1>1, <1>2 DEF OwnAt, PassedAt, SmallFile

(* The call goes on.                                                       *)
LEMMA OneGoesOn ==
  ASSUME IInv, CInv, NEW p \in Procs, NEW k, Runs(p, k),
         NEW b \in Bufs, OneBuf(p, b), Fair(p, b), SameCall(p),
         Owns(p, b)' => NamedBuf(p, b)',
         bp'[p] # NoBuf /\ bp'[p] # b => bp'[p] = bp[p] /\ k # "hold",
         bp'[p] = b /\ pc'[p] # "hold" => "B_DONE" \in flags'[b] \/ b \in Elems(ioq'),
         SearchAt(p)', PassedAt(p)'
  PROVE  CInv'
<1>1. OwnAt(p)
  BY DEF CInv
<1>2. AwaitedAt(p)'
  <2> SUFFICES ASSUME bp'[p] # NoBuf, pc'[p] # "hold"
               PROVE  "B_DONE" \in flags'[bp'[p]] \/ bp'[p] \in Elems(ioq')
    BY DEF AwaitedAt
  <2>1. CASE bp'[p] = b
    BY <2>1
  <2>2. CASE bp'[p] # b
    <3>1. bp'[p] = bp[p] /\ bp[p] \in Bufs /\ bp[p] # b /\ pc[p] # "hold" /\ bp[p] # NoBuf
      BY <2>2 DEF IInv, TypeOK, Runs
    <3>2. "B_DONE" \in flags[bp[p]] \/ bp[p] \in Elems(ioq)
      BY <1>1, <3>1 DEF OwnAt, AwaitedAt
    <3> QED
      BY <3>1, <3>2 DEF OneBuf
  <2> QED
    BY <2>1, <2>2
<1>3. NamedAt(p)'
  <2>1. \A c \in Bufs : Owns(p, c)' => NamedBuf(p, c)'
    <3> SUFFICES ASSUME NEW c \in Bufs, Owns(p, c)', c # b
                 PROVE  NamedBuf(p, c)'
      OBVIOUS
    <3>1. flags'[c] = flags[c] /\ blk'[c] = blk[c] /\ Owns(p, c)
      BY DEF OneBuf
    <3> QED
      BY <1>1, <3>1 DEF OwnAt, NamedAt, NamedBuf, SameCall, Valid
  <2> QED
    BY <1>1, <2>1 DEF OwnAt, NamedAt, SameCall
<1>4. OwnAt(p)'
  BY <1>2, <1>3 DEF OwnAt
<1>5. Others(p) /\ Touches(p, {b})
  BY Touched DEF OneBuf
<1>6. Locks(p)
  BY SameLocks DEF SameCall
<1> QED
  BY <1>4, <1>5, <1>6, Effect

(* The call ends.                                                          *)
LEMMA OneEnds ==
  ASSUME IInv, IInv', CInv, NEW p \in Procs, NEW k, Runs(p, k),
         NEW b \in Bufs, OneBuf(p, b), Fair(p, b),
         pc'[p] = "idle", frame'[p] = NoFrame
  PROVE  CInv'
<1>1. OwnAt(p)' /\ Locks(p)
  BY IdleAt, SameLocks
<1>2. Others(p) /\ Touches(p, {b})
  BY Touched DEF OneBuf
<1> QED
  BY <1>1, <1>2, Effect

(* A step that wakes nobody.                                               *)
LEMMA OneWaits ==
  ASSUME IInv, NoLostWakeup, NEW p \in Procs, NEW k, Runs(p, k),
         NEW b \in Bufs, OneBuf(p, b), wchan' = wchan, flwanted' = flwanted,
         ~ Busy(b) \/ UNCHANGED <<bq_lru, bq_age>>,
         Busy(b) => /\ "B_BUSY" \in flags'[b]
                    /\ "B_WANTED" \in flags[b] => "B_WANTED" \in flags'[b],
         Elems(ioq) \subseteq Elems(ioq')
  PROVE  NoLostWakeup'
<1>1. NoFree => NoFree'
  <2>1. ~ Busy(b) => ~ NoFree
    <3>1. Elems(<<>>) = {}
      BY DEF Elems
    <3> QED
      BY <3>1 DEF IInv, FreeIffNotBusy, NoFree
  <2> QED
    BY <2>1 DEF NoFree
<1>2. Gentle
  BY <1>1 DEF Gentle, OneBuf, Busy
<1> QED
  BY <1>2, Waiters DEF OneBuf

(* brelse wakes who waits for the buffer, and who waits for any.           *)
LEMMA BrelseWakes ==
  ASSUME IInv, NoLostWakeup, NEW b \in Bufs, Busy(b), NEW g \in SUBSET FlagSet,
         "B_WANTED" \in flags[b] => "B_WANTED" \in g, Brelse(b, g),
         \A q \in Procs : wchan[q] # NoChan => bp'[q] = bp[q],
         \A q \in Procs : wchan[q] = b => bp[q] # b,
         \A c \in Bufs : c # b => (c \in Elems(ioq') <=> c \in Elems(ioq))
  PROVE  NoLostWakeup'
<1>1. \A c \in Bufs : c # b => flags'[c] = flags[c]
  BY BrelseFacts DEF IInv
<1>2. \A q \in Procs :
        wchan'[q] = IF \/ wchan[q] = b /\ "B_WANTED" \in g
                       \/ wchan[q] = BFREELIST /\ flwanted
                      THEN NoChan ELSE wchan[q]
  BY DEF Brelse
<1>3. NoChan \notin Bufs /\ NoChan # BFREELIST /\ BFREELIST \notin Bufs
  BY DEF NoChan, BFREELIST, Bufs
<1> SUFFICES ASSUME NEW q \in Procs
             PROVE  /\ wchan'[q] # BFREELIST
                    /\ wchan'[q] \in Bufs =>
                         \/ wchan'[q] = bp'[q] /\ wchan'[q] \in Elems(ioq')
                         \/ /\ "B_BUSY" \in flags'[wchan'[q]]
                            /\ "B_WANTED" \in flags'[wchan'[q]]
  BY DEF NoLostWakeup, Busy
<1>4. wchan'[q] # BFREELIST
  BY <1>2, <1>3 DEF NoLostWakeup
<1>5. ASSUME wchan'[q] \in Bufs
      PROVE  \/ wchan'[q] = bp'[q] /\ wchan'[q] \in Elems(ioq')
             \/ /\ "B_BUSY" \in flags'[wchan'[q]]
                /\ "B_WANTED" \in flags'[wchan'[q]]
  <2>1. PICK c \in Bufs : c = wchan[q] /\ c = wchan'[q]
    BY <1>2, <1>3, <1>5
  <2>2. \/ c = bp[q] /\ c \in Elems(ioq)
        \/ "B_BUSY" \in flags[c] /\ "B_WANTED" \in flags[c]
    BY <2>1 DEF NoLostWakeup, Busy
  <2>3. c # b
    BY <1>2, <1>3, <2>1, <2>2
  <2>4. bp'[q] = bp[q]
    BY <1>3, <2>1
  <2> QED
    BY <1>1, <2>1, <2>2, <2>3, <2>4
<1> QED
  BY <1>4, <1>5

(* getblk or getnewbuf takes a free buffer and returns it.                 *)
LEMMA TakeFreeKept ==
  ASSUME IInv, CInv, NoLostWakeup, NEW p \in Procs,
         NEW k \in {"getblk", "getnewbuf"}, Runs(p, k), NEW b \in Bufs, ~ Busy(b),
         NEW f \in SUBSET FlagSet, "B_BUSY" \in f, NotAvail(b, f),
         wb' = [wb EXCEPT ![p] = b], Goto(p, ret(p)),
         UNCHANGED <<flwanted, ioq, bp, wchan>>,
         \A c \in Bufs : c # b => blk'[c] = blk[c],
         op(p) = "geteblk" => blk'[b] = NoBlk,
         op(p) # "geteblk" => blk'[b] = Dblk(Want(p)) /\ "B_INVAL" \notin f,
         "B_DELWRI" \in f => /\ "B_DELWRI" \in flags[b] /\ blk'[b] = blk[b]
                             /\ "B_DONE" \in f /\ "B_INVAL" \notin f
  PROVE  Kept
<1>1. frame[p] \in FrameType /\ ret(p) \in PCs /\ Step(p, ret(p), frame[p])
  BY FrameOf DEF Goto
<1>2. /\ pc[p] = k /\ pc'[p] = ret(p) /\ FrameAt(p) /\ LocalAt(p)
      /\ frame'[p] = IF ret(p) = "idle" THEN NoFrame ELSE frame[p]
      /\ \A q \in Procs : q # p => pc'[q] = pc[q] /\ frame'[q] = frame[q]
  BY <1>1, Went
<1>3. ret(p) \in Fetching /\ op(p) \in Fetchers /\ frame'[p] = frame[p]
  BY <1>2 DEF FrameAt, Fetching
<1>4. \A q \in Procs : ~ Owns(q, b)
  BY FreeNotOwned
<1>5. flags'[b] = f /\ \A c \in Bufs : c # b => flags'[c] = flags[c]
  BY NotAvailFacts DEF IInv
<1>6. /\ bp' = bp /\ wb'[p] = b
      /\ \A q \in Procs : q # p => bp'[q] = bp[q] /\ wb'[q] = wb[q]
  BY DEF IInv, TypeOK
<1>7. wb[p] = NoBuf /\ bp[p] # b /\ \A c \in Bufs : c # NoBuf
  BY <1>2, <1>4 DEF LocalAt, Fetching, Bufs, NoBuf, Owns
<1>8. \A c \in Bufs : c # b => (Owns(p, c)' <=> Owns(p, c))
  BY <1>2, <1>3, <1>6, <1>7 DEF Owns, Fetching
<1>9. OneBuf(p, b)
  BY <1>2, <1>5, <1>6, <1>8 DEF OneBuf, Others
<1>10. Fair(p, b) /\ NotDirtied(b)
  BY <1>4, <1>5 DEF Fair, NotDirtied
<1>11. /\ op(p)' = op(p) /\ xb(p)' = xb(p) /\ ra(p)' = ra(p) /\ lbn(p)' = lbn(p)
       /\ ret(p)' = ret(p)
  BY <1>3 DEF op, ret, xb, ra, lbn
<1>12. SameCall(p) /\ pc'[p] # "binval"
  BY <1>2, <1>3, <1>11 DEF SameCall, Fetching
<1>13. NamedBuf(p, b)'
  <2>1. op(p) # "breada" => Want(p) = xb(p)
    BY <1>2 DEF FrameAt, Want
  <2>2. Want(p) \in {xb(p), ra(p)}
    BY DEF Want
  <2>3. op(p) # "fsync"
    BY <1>3 DEF Fetchers
  <2>4. op(p) # "geteblk" => blk'[b] = Dblk(Want(p)) /\ Valid(b)'
    BY <1>5 DEF Valid
  <2> QED
    BY <1>3, <1>11, <2>1, <2>2, <2>3, <2>4 DEF NamedBuf
<1>14. SearchAt(p)'
  BY <1>2, <1>3 DEF SearchAt, Fetching
<1>15. PassedAt(p)'
  BY <1>9, <1>10, <1>11, <1>12, PassedOn
<1>16. CInv'
  <2>1. bp'[p] # b /\ bp'[p] = bp[p] /\ k # "hold"
    BY <1>6, <1>7
  <2> QED
    BY <1>9, <1>10, <1>12, <1>13, <1>14, <1>15, <2>1, OneGoesOn
<1>17. NoLostWakeup'
  BY <1>9, OneWaits
<1> QED
  BY <1>16, <1>17 DEF Kept

LEMMA GetblkHitKept ==
  ASSUME IInv, CInv, NoLostWakeup, NEW p \in Procs, GetblkHit(p)
  PROVE  Kept
<1>1. PICK b \in Bufs :
        /\ ~ Busy(b) /\ blk[b] = Dblk(Want(p)) /\ Valid(b)
        /\ NotAvail(b, flags[b] \cup {"B_BUSY"})
        /\ wb' = [wb EXCEPT ![p] = b]
  BY DEF GetblkHit, Match
<1>2. /\ Runs(p, "getblk") /\ Goto(p, ret(p)) /\ blk' = blk
      /\ UNCHANGED <<flwanted, ioq, bp, wchan>>
  BY DEF GetblkHit
<1>3. op(p) # "geteblk"
  BY <1>2 DEF IInv, FrameOK, FrameAt, Runs
<1> DEFINE f == flags[b] \cup {"B_BUSY"}
<1>4. f \in SUBSET FlagSet /\ "B_BUSY" \in f /\ NotAvail(b, f)
  BY <1>1 DEF IInv, TypeOK, FlagSet
<1>5. /\ "B_INVAL" \notin f
      /\ "B_DELWRI" \in f => "B_DELWRI" \in flags[b] /\ "B_DONE" \in f
  BY <1>1 DEF Valid, CInv, DelwriDone, Delwri
<1> HIDE DEF f
<1>6. /\ \A c \in Bufs : c # b => blk'[c] = blk[c]
      /\ blk'[b] = Dblk(Want(p)) /\ blk'[b] = blk[b]
  BY <1>1, <1>2
<1> QED
  BY <1>1, <1>2, <1>3, <1>4, <1>5, <1>6, TakeFreeKept

LEMMA GetnewbufTakeKept ==
  ASSUME IInv, CInv, NoLostWakeup, NEW p \in Procs, GetnewbufTake(p)
  PROVE  Kept
<1>1. PICK b \in Bufs : b = Oldest /\ ~ Busy(b)
  BY OldestFree DEF GetnewbufTake, IInv
<1>2. /\ Runs(p, "getnewbuf") /\ wb' = [wb EXCEPT ![p] = b] /\ Goto(p, ret(p))
      /\ UNCHANGED <<flwanted, ioq, bp, wchan>>
  BY <1>1 DEF GetnewbufTake
<1>3. CASE op(p) = "geteblk"
  <2>1. NotAvail(b, {"B_BUSY", "B_INVAL"}) /\ blk' = [blk EXCEPT ![b] = NoBlk]
    BY <1>1, <1>3 DEF GetnewbufTake
  <2>2. PICK f \in SUBSET FlagSet : f = {"B_BUSY", "B_INVAL"}
    BY DEF FlagSet
  <2>3. /\ NotAvail(b, f) /\ "B_BUSY" \in f /\ "B_DELWRI" \notin f
        /\ blk'[b] = NoBlk /\ \A c \in Bufs : c # b => blk'[c] = blk[c]
    BY <2>1, <2>2 DEF IInv, TypeOK
  <2> QED
    BY <1>1, <1>2, <1>3, <2>3, TakeFreeKept
<1>4. CASE op(p) # "geteblk"
  <2>1. NotAvail(b, {"B_BUSY"}) /\ blk' = [blk EXCEPT ![b] = Dblk(Want(p))]
    BY <1>1, <1>4 DEF GetnewbufTake
  <2>2. PICK f \in SUBSET FlagSet : f = {"B_BUSY"}
    BY DEF FlagSet
  <2>3. /\ NotAvail(b, f) /\ "B_BUSY" \in f /\ "B_DELWRI" \notin f /\ "B_INVAL" \notin f
        /\ blk'[b] = Dblk(Want(p)) /\ \A c \in Bufs : c # b => blk'[c] = blk[c]
    BY <2>1, <2>2 DEF IInv, TypeOK
  <2> QED
    BY <1>1, <1>2, <1>4, <2>3, TakeFreeKept
<1> QED
  BY <1>3, <1>4

(* bwrite clears B_DELWRI and keeps what sleepers and lookups depend on.   *)
LEMMA WrittenFlags ==
  ASSUME NEW f, NEW g \in {f, f \cup {"B_BUSY"}, f \cup {"B_ASYNC"},
                            f \cup {"B_BUSY", "B_ASYNC"}}
  PROVE  /\ "B_DELWRI" \notin WriteFlags(g)
         /\ "B_INVAL" \in WriteFlags(g) <=> "B_INVAL" \in f
         /\ "B_WANTED" \in WriteFlags(g) <=> "B_WANTED" \in f
         /\ "B_BUSY" \in f => "B_BUSY" \in WriteFlags(g)
BY DEF WriteFlags

(* A free delayed write is given to the driver.                            *)
LEMMA PushOutKept ==
  ASSUME IInv, CInv, NoLostWakeup, NEW p \in Procs,
         NEW k \in {"getnewbuf", "bflush"}, Runs(p, k),
         NEW b \in Bufs, ~ Busy(b), PushOut(p, b)
  PROVE  Kept
<1> DEFINE g == flags[b] \cup {"B_BUSY", "B_ASYNC"}
           f == WriteFlags(g)
<1>1. /\ NotAvail(b, f) /\ Strategy(b, FALSE)
      /\ wb' = [wb EXCEPT ![p] = b] /\ Step(p, "age", frame[p])
      /\ UNCHANGED <<blk, flwanted, bp, wchan>>
  BY DEF PushOut, Goto
<1>2. g \in SUBSET FlagSet /\ "B_BUSY" \in g
  BY DEF IInv, TypeOK, FlagSet
<1>3. "B_DELWRI" \notin f /\ ("B_INVAL" \in f <=> "B_INVAL" \in flags[b])
  BY WrittenFlags
<1> HIDE DEF g
<1>4. f \in SUBSET FlagSet /\ "B_BUSY" \in f
  BY <1>2, WriteFlagsFacts
<1> HIDE DEF f
<1>5. frame[p] \in FrameType /\ "age" \in PCs
  BY FrameOf DEF PCs
<1>6. /\ pc[p] = k /\ pc'[p] = "age" /\ FrameAt(p) /\ LocalAt(p)
      /\ frame'[p] = frame[p] /\ cur' = p
      /\ \A q \in Procs : q # p => pc'[q] = pc[q] /\ frame'[q] = frame[q]
  BY <1>1, <1>5, Went DEF Leaves
<1>7. (\A q \in Procs : ~ Owns(q, b)) /\ b \notin Elems(ioq)
  BY FreeNotOwned
<1>8. flags'[b] = f /\ \A c \in Bufs : c # b => flags'[c] = flags[c]
  BY <1>1, <1>4, NotAvailFacts DEF IInv
<1>9. Elems(ioq') = Elems(ioq) \cup {b}
  BY <1>1, <1>7, StrategyFacts DEF IInv, TypeOK, NoDupBiodone
<1>10. /\ bp' = bp /\ wb'[p] = b
       /\ \A q \in Procs : q # p => bp'[q] = bp[q] /\ wb'[q] = wb[q]
  BY <1>1 DEF IInv, TypeOK
<1>11. wb[p] = NoBuf /\ bp[p] # b /\ \A c \in Bufs : c # NoBuf
  BY <1>6, <1>7 DEF LocalAt, Fetching, Bufs, NoBuf, Owns
<1>12. ~ Owns(p, b)' /\ \A c \in Bufs : c # b => (Owns(p, c)' <=> Owns(p, c))
  BY <1>6, <1>10, <1>11 DEF Owns
<1>13. OneBuf(p, b)
  BY <1>1, <1>6, <1>8, <1>9, <1>10, <1>12 DEF OneBuf, Others
<1>14. Fair(p, b) /\ NotDirtied(b)
  BY <1>3, <1>7, <1>8 DEF Fair, NotDirtied
<1>15. /\ op(p)' = op(p) /\ xb(p)' = xb(p) /\ ra(p)' = ra(p) /\ lbn(p)' = lbn(p)
       /\ ret(p)' = ret(p) /\ frame'[p].slept = frame[p].slept
  BY <1>6 DEF op, ret, xb, ra, lbn
<1>16. SameCall(p)
  BY <1>6, <1>15 DEF SameCall
<1>17. SearchAt(p)'
  <2>1. Want(p)' = Want(p)
    BY <1>15 DEF Want
  <2>2. incore(Want(p))' <=> incore(Want(p))
    BY <1>1, <1>3, <1>8, <2>1 DEF incore, Match, Valid
  <2>3. k = "bflush" => ret(p) \notin Fetching
    BY <1>6 DEF FrameAt, Fetching
  <2>4. OwnAt(p)
    BY DEF CInv
  <2> QED
    BY <1>6, <1>15, <2>2, <2>3, <2>4 DEF OwnAt, SearchAt
<1>18. PassedAt(p)'
  BY <1>6, <1>13, <1>14, <1>15, PassedOn
<1>19. CInv'
  <2>1. bp'[p] # b /\ bp'[p] = bp[p] /\ k # "hold"
    BY <1>10, <1>11
  <2> QED
    BY <1>12, <1>13, <1>14, <1>16, <1>17, <1>18, <2>1, OneGoesOn
<1>20. NoLostWakeup'
  <2>1. wchan' = wchan /\ flwanted' = flwanted /\ Elems(ioq) \subseteq Elems(ioq')
    BY <1>1, <1>9
  <2> QED
    BY <1>13, <2>1, OneWaits
<1> QED
  BY <1>19, <1>20 DEF Kept

LEMMA PushOutsKept ==
  ASSUME IInv, CInv, NoLostWakeup, NEW p \in Procs, GetnewbufWrite(p) \/ BflushWrite(p)
  PROVE  Kept
<1>1. CASE GetnewbufWrite(p)
  <2>1. /\ Oldest \in Bufs /\ ~ Busy(Oldest)
        /\ Runs(p, "getnewbuf") /\ PushOut(p, Oldest)
    BY <1>1, OldestFree DEF GetnewbufWrite, IInv
  <2> QED
    BY <2>1, PushOutKept
<1>2. CASE BflushWrite(p)
  <2>1. PICK i \in DOMAIN ScanOrder : PushOut(p, ScanOrder[i])
    BY <1>2 DEF BflushWrite
  <2>2. ScanOrder[i] \in Bufs /\ ~ Busy(ScanOrder[i]) /\ Runs(p, "bflush")
    BY <1>2, ScanOrderFree DEF IInv, BflushWrite
  <2> QED
    BY <2>1, <2>2, PushOutKept
<1> QED
  BY <1>1, <1>2

(* fsync takes a delayed write of the device and writes it.                *)
LEMMA FlushBufKept ==
  ASSUME IInv, CInv, NoLostWakeup, NEW p \in Procs,
         NEW r \in {"syncip", "blkflush"}, Runs(p, r),
         NEW b \in Bufs, NEW n \in Nat \ {0}, FlushBuf(p, b, r, n),
         blk[b][1] = InodeBlk[1],
         ~ SmallFile => \A c \in Bufs : c < n /\ FileBuf(c) /\ Delwri(c) => c = b
  PROVE  Kept
<1> DEFINE g == flags[b] \cup {"B_BUSY"}
           f == WriteFlags(g)
           fr == [frame[p] EXCEPT !.ret = r, !.lbn = n]
<1>1. /\ ~ Busy(b) /\ NotAvail(b, f) /\ Strategy(b, FALSE)
      /\ bp' = [bp EXCEPT ![p] = b] /\ Step(p, "wwait", fr)
      /\ UNCHANGED <<blk, flwanted, wb, wchan>>
  BY DEF FlushBuf
<1>2. g \in SUBSET FlagSet /\ "B_BUSY" \in g
  BY DEF IInv, TypeOK, FlagSet
<1>3. "B_DELWRI" \notin f
  BY WrittenFlags
<1> HIDE DEF g
<1>4. f \in SUBSET FlagSet /\ "B_BUSY" \in f
  BY <1>2, WriteFlagsFacts
<1> HIDE DEF f
<1>5. frame[p] \in FrameType /\ "wwait" \in PCs /\ r \in PCs
  BY FrameOf DEF PCs
<1>6. fr \in FrameType
  BY <1>5, FrameEdits
<1>7. fr.op = op(p) /\ fr.ret = r /\ fr.xb = xb(p) /\ fr.ra = ra(p) /\ fr.lbn = n
  BY <1>5, <1>6 DEF FrameType, op, xb, ra
<1> HIDE DEF fr
<1>8. /\ pc[p] = r /\ pc'[p] = "wwait" /\ FrameAt(p) /\ LocalAt(p)
      /\ frame'[p] = fr
      /\ \A q \in Procs : q # p => pc'[q] = pc[q] /\ frame'[q] = frame[q]
  BY <1>1, <1>5, <1>6, Went
<1>9. (\A q \in Procs : ~ Owns(q, b)) /\ b \notin Elems(ioq)
  BY <1>1, FreeNotOwned
<1>10. flags'[b] = f /\ \A c \in Bufs : c # b => flags'[c] = flags[c]
  BY <1>1, <1>4, NotAvailFacts DEF IInv
<1>11. Elems(ioq') = Elems(ioq) \cup {b}
  BY <1>1, <1>9, StrategyFacts DEF IInv, TypeOK, NoDupBiodone
<1>12. /\ bp'[p] = b /\ wb' = wb
       /\ \A q \in Procs : q # p => bp'[q] = bp[q] /\ wb'[q] = wb[q]
  BY <1>1 DEF IInv, TypeOK
<1>13. wb[p] = NoBuf /\ bp[p] = NoBuf /\ \A c \in Bufs : c # NoBuf
  BY <1>8 DEF LocalAt, Fetching, Bufs, NoBuf
<1>14. \A c \in Bufs : c # b => (Owns(p, c)' <=> Owns(p, c))
  BY <1>8, <1>12, <1>13 DEF Owns
<1>15. OneBuf(p, b)
  BY <1>1, <1>8, <1>10, <1>11, <1>12, <1>14 DEF OneBuf, Others
<1>16. Fair(p, b)
  BY <1>3, <1>9, <1>10 DEF Fair
<1>17. /\ op(p)' = op(p) /\ xb(p)' = xb(p) /\ ra(p)' = ra(p) /\ lbn(p)' = n
       /\ ret(p)' = r /\ op(p) = "fsync"
  BY <1>7, <1>8 DEF op, ret, xb, ra, lbn, FrameAt
<1>18. SameCall(p) /\ NamedBuf(p, b)' /\ SearchAt(p)'
  BY <1>1, <1>8, <1>17 DEF SameCall, NamedBuf, SearchAt
<1>19. PassedAt(p)'
  <2>1. ASSUME ~ SmallFile, NEW c \in Bufs, c < n, FileBuf(c)', Delwri(c)'
        PROVE  FALSE
    <3>1. c # b
      BY <1>3, <1>10, <2>1 DEF Delwri
    <3>2. FileBuf(c) /\ Delwri(c)
      BY <1>1, <1>10, <2>1, <3>1 DEF FileBuf, Delwri
    <3> QED
      BY <2>1, <3>1, <3>2
  <2> QED
    BY <1>8, <1>17, <2>1 DEF PassedAt, SmallFile
<1>20. CInv'
  BY <1>11, <1>12, <1>15, <1>16, <1>18, <1>19, OneGoesOn
<1>21. NoLostWakeup'
  <2>1. /\ wchan' = wchan /\ flwanted' = flwanted /\ Elems(ioq) \subseteq Elems(ioq')
        /\ ~ Busy(b)
    BY <1>1, <1>11
  <2> QED
    BY <1>15, <2>1, OneWaits
<1> QED
  BY <1>20, <1>21 DEF Kept

LEMMA FlushesKept ==
  ASSUME IInv, CInv, NoLostWakeup, NEW p \in Procs, SyncipWrite(p) \/ BlkflushWrite(p)
  PROVE  Kept
<1>0. OwnAt(p) /\ FrameAt(p)
  BY DEF CInv, IInv, FrameOK
<1>1. CASE SyncipWrite(p)
  <2>1. PICK b \in Bufs : IsFirst(b, Dirty(p)) /\ FlushBuf(p, b, "syncip", b + 1)
    BY <1>1 DEF SyncipWrite
  <2>2. Runs(p, "syncip") /\ b + 1 \in Nat \ {0} /\ blk[b][1] = InodeBlk[1]
    BY <1>1, <2>1, BufferCacheAssumption DEF SyncipWrite, Bufs, IsFirst, Dirty
  <2>3. ASSUME ~ SmallFile, NEW c \in Bufs, c < b + 1, FileBuf(c), Delwri(c)
        PROVE  c = b
    <3>1. op(p) = "fsync"
      BY <1>0, <2>2 DEF FrameAt, Runs
    <3>2. ~ c < lbn(p)
      BY <1>0, <2>3, <3>1 DEF OwnAt, PassedAt
    <3>3. c \in Nat /\ b \in Nat /\ lbn(p) \in Nat
      BY FrameOf DEF Bufs
    <3>4. blk[c][1] = InodeBlk[1]
      BY <2>3, FileBlocks, BlockNames DEF FileBuf
    <3>5. c \in Dirty(p)
      BY <2>3, <3>2, <3>3, <3>4 DEF Dirty
    <3>6. b <= c
      BY <2>1, <3>5 DEF IsFirst
    <3> QED
      BY <2>3, <3>3, <3>6
  <2> QED
    BY <2>1, <2>2, <2>3, FlushBufKept
<1>2. CASE BlkflushWrite(p)
  <2>1. PICK b \in Bufs : blk[b] = Dblk(xb(p)) /\ FlushBuf(p, b, "blkflush", lbn(p))
    BY <1>2 DEF BlkflushWrite, Match
  <2>2. Runs(p, "blkflush") /\ lbn(p) \in Nat \ {0}
    BY <1>2, FrameOf DEF BlkflushWrite
  <2>3. op(p) = "fsync"
    BY <1>0, <2>2 DEF FrameAt, Runs
  <2>4. blk[b][1] = InodeBlk[1]
    BY <1>0, <2>1, <2>3 DEF OwnAt, NamedAt, Dblk
  <2>5. ~ SmallFile => \A c \in Bufs : c < lbn(p) /\ FileBuf(c) /\ Delwri(c) => c = b
    BY <1>0, <2>3 DEF OwnAt, PassedAt
  <2> QED
    BY <2>1, <2>2, <2>4, <2>5, FlushBufKept
<1> QED
  BY <1>1, <1>2

(* p gives the buffer it owns to the driver, and goes on.                  *)
LEMMA StartIOKept ==
  ASSUME IInv, CInv, NoLostWakeup, NEW p \in Procs, NEW k, Runs(p, k),
         NEW b \in Bufs, Owns(p, b), b \notin Elems(ioq),
         NEW g \in SUBSET FlagSet, flags' = [flags EXCEPT ![b] = g],
         "B_BUSY" \in g, "B_WANTED" \in flags[b] => "B_WANTED" \in g,
         "B_DELWRI" \notin g, "B_INVAL" \in g <=> "B_INVAL" \in flags[b],
         NEW isread, Strategy(b, isread),
         UNCHANGED <<blk, bq_lru, bq_age, flwanted, wchan>>,
         \A q \in Procs : q # p => /\ pc'[q] = pc[q] /\ frame'[q] = frame[q]
                                   /\ bp'[q] = bp[q] /\ wb'[q] = wb[q],
         \A c \in Bufs : c # b => (Owns(p, c)' <=> Owns(p, c))
  PROVE  /\ OneBuf(p, b) /\ Fair(p, b) /\ NotDirtied(b) /\ NoLostWakeup'
         /\ b \in Elems(ioq')
         /\ SameCall(p) => NamedBuf(p, b)'
<1>1. Busy(b) /\ \A q \in Procs : q # p => ~ Owns(q, b)
  BY OwnedAlone
<1>2. Elems(ioq') = Elems(ioq) \cup {b}
  BY StrategyFacts DEF IInv, TypeOK, NoDupBiodone
<1>3. flags'[b] = g /\ \A c \in Bufs : c # b => flags'[c] = flags[c]
  BY DEF IInv, TypeOK
<1>4. OneBuf(p, b)
  BY <1>2, <1>3 DEF OneBuf, Others
<1>5. Fair(p, b) /\ NotDirtied(b)
  BY <1>1, <1>3 DEF Fair, NotDirtied
<1>6. NoLostWakeup'
  <2>1. /\ Busy(b) => /\ "B_BUSY" \in flags'[b]
                      /\ "B_WANTED" \in flags[b] => "B_WANTED" \in flags'[b]
        /\ Elems(ioq) \subseteq Elems(ioq')
    BY <1>2, <1>3
  <2> QED
    BY <1>4, <2>1, OneWaits
<1>7. SameCall(p) => NamedBuf(p, b)'
  <2>1. NamedBuf(p, b)
    BY DEF CInv, OwnAt, NamedAt
  <2> QED
    BY <1>3, <2>1 DEF NamedBuf, SameCall, Valid
<1> QED
  BY <1>2, <1>4, <1>5, <1>6, <1>7

(* bread and breada with the buffer from getblk.                           *)
LEMMA GotFirstKept ==
  ASSUME IInv, CInv, NoLostWakeup, NEW p \in Procs,
         NEW k \in {"bread", "breada"}, Runs(p, k),
         NEW hit \in {"hold", "ra_check"}, NEW miss \in {"rwait", "ra_check"},
         GotFirst(p, hit, miss)
  PROVE  Kept
<1>0. PICK b \in Bufs : b = wb[p]
  BY DEF Runs, IInv, LocalBufs, LocalAt, TypeOK, Fetching
<1>1. /\ bp' = [bp EXCEPT ![p] = b] /\ wb' = [wb EXCEPT ![p] = NoBuf]
      /\ UNCHANGED <<blk, bq_lru, bq_age, flwanted, wchan>>
  BY <1>0 DEF GotFirst
<1>2. /\ frame[p] \in FrameType /\ hit \in PCs /\ miss \in PCs
      /\ hit # "idle" /\ miss # "idle"
  BY FrameOf DEF PCs
<1>3. pc[p] = k /\ LocalAt(p)
  BY DEF Runs, IInv, LocalBufs
<1>4. /\ b # NoBuf /\ bp[p] = NoBuf /\ b \notin Elems(ioq)
      /\ Owns(p, b) /\ \A c \in Bufs : c # NoBuf
  BY <1>0, <1>3 DEF LocalAt, Fetching, Owns, Bufs, NoBuf
<1>5. /\ bp'[p] = b /\ wb'[p] = NoBuf
      /\ \A q \in Procs : q # p => bp'[q] = bp[q] /\ wb'[q] = wb[q]
  BY <1>1 DEF IInv, TypeOK
<1>6. \A c \in Bufs : Owns(p, c)' <=> Owns(p, c)
  BY <1>0, <1>3, <1>4, <1>5 DEF Owns
<1>7. PICK l \in {"hold", "rwait", "ra_check"} :
        /\ Step(p, l, frame[p])
        /\ \/ HasData(b) /\ UNCHANGED <<flags, ioq>>
           \/ ~ HasData(b) /\ StartRead(b, {"B_READ"})
  BY <1>0 DEF GotFirst, Goto
<1>8. l \in PCs
  BY DEF PCs
<1>9. /\ pc'[p] = l /\ frame'[p] = frame[p]
      /\ \A q \in Procs : q # p => pc'[q] = pc[q] /\ frame'[q] = frame[q]
  BY <1>2, <1>7, <1>8, Went
<1>10. /\ op(p)' = op(p) /\ xb(p)' = xb(p) /\ ra(p)' = ra(p) /\ lbn(p)' = lbn(p)
       /\ ret(p)' = ret(p)
  BY <1>9 DEF op, ret, xb, ra, lbn
<1>11. SameCall(p) /\ SearchAt(p)' /\ pc'[p] # "binval"
  BY <1>9, <1>10 DEF SameCall, SearchAt
<1>12. /\ OneBuf(p, b) /\ Fair(p, b) /\ NotDirtied(b) /\ NoLostWakeup' /\ NamedBuf(p, b)'
       /\ "B_DONE" \in flags'[b] \/ b \in Elems(ioq')
  <2>1. CASE HasData(b) /\ UNCHANGED <<flags, ioq>>
    <3>1. OneBuf(p, b)
      BY <1>1, <1>5, <1>6, <1>9, <2>1 DEF OneBuf, Others
    <3>2. "B_DONE" \in flags[b]
      BY <2>1 DEF HasData, CInv, DelwriDone, Delwri
    <3>3. Fair(p, b) /\ NotDirtied(b)
      BY <1>1, <1>4, <2>1, <3>2, OwnedAlone
         DEF Fair, NotDirtied, CInv, NoStaleDelwri, Delwri, Valid
    <3>4. NoLostWakeup'
      BY <1>1, <2>1, <3>1, OneWaits DEF Busy
    <3>5. NamedBuf(p, b)'
      BY <1>1, <1>4, <1>10, <2>1 DEF CInv, OwnAt, NamedAt, NamedBuf, Valid
    <3> QED
      BY <2>1, <3>1, <3>2, <3>3, <3>4, <3>5
  <2>2. CASE ~ HasData(b) /\ StartRead(b, {"B_READ"})
    <3>1. PICK g \in SUBSET FlagSet : g = flags[b] \cup {"B_READ"}
      BY DEF IInv, TypeOK, FlagSet
    <3>2. flags' = [flags EXCEPT ![b] = g] /\ Strategy(b, TRUE)
      BY <2>2, <3>1 DEF StartRead
    <3>3. /\ "B_BUSY" \in g /\ ("B_WANTED" \in flags[b] => "B_WANTED" \in g)
          /\ "B_DELWRI" \notin g /\ ("B_INVAL" \in g <=> "B_INVAL" \in flags[b])
      BY <1>4, <2>2, <3>1, OwnedAlone DEF HasData, Busy
    <3> QED
      BY <1>1, <1>4, <1>5, <1>6, <1>9, <1>11, <3>2, <3>3, StartIOKept
  <2> QED
    BY <1>7, <2>1, <2>2
<1>13. PassedAt(p)'
  BY <1>10, <1>11, <1>12, PassedOn
<1>14. CInv'
  BY <1>5, <1>11, <1>12, <1>13, OneGoesOn
<1> QED
  BY <1>12, <1>14 DEF Kept

LEMMA GotFirstsKept ==
  ASSUME IInv, CInv, NoLostWakeup, NEW p \in Procs, Bread(p) \/ BreadaFirst(p)
  PROVE  Kept
BY GotFirstKept DEF Bread, BreadaFirst

(* The read-ahead is given to the driver for good.                         *)
LEMMA RaheadStartKept ==
  ASSUME IInv, CInv, NoLostWakeup, NEW p \in Procs, RaheadStart(p)
  PROVE  Kept
<1>1. Runs(p, "rahead") /\ Step(p, "ra_done", frame[p])
  BY DEF RaheadStart, Goto
<1>2. pc[p] = "rahead" /\ \A c \in Bufs : c # NoBuf
  BY <1>1, RaheadBuf
<1>3. PICK b \in Bufs : /\ b = wb[p] /\ b \notin Elems(ioq) /\ Owns(p, b)
                        /\ bp[p] # b /\ b # NoBuf
  BY <1>1, RaheadBuf
<1>4. PICK g \in SUBSET FlagSet : g = flags[b] \cup {"B_READ", "B_ASYNC"}
  BY DEF IInv, TypeOK, FlagSet
<1>5. /\ ~ HasData(b)
      /\ flags' = [flags EXCEPT ![b] = g] /\ Strategy(b, TRUE)
      /\ wb' = [wb EXCEPT ![p] = NoBuf]
      /\ UNCHANGED <<blk, bq_lru, bq_age, flwanted, bp, wchan>>
  BY <1>3, <1>4 DEF RaheadStart, StartRead
<1>6. /\ "B_BUSY" \in g /\ ("B_WANTED" \in flags[b] => "B_WANTED" \in g)
      /\ "B_DELWRI" \notin g /\ ("B_INVAL" \in g <=> "B_INVAL" \in flags[b])
  BY <1>3, <1>4, <1>5, OwnedAlone DEF HasData, Busy
<1>7. frame[p] \in FrameType /\ "ra_done" \in PCs
  BY FrameOf DEF PCs
<1>8. /\ pc'[p] = "ra_done" /\ frame'[p] = frame[p]
      /\ \A q \in Procs : q # p => pc'[q] = pc[q] /\ frame'[q] = frame[q]
  BY <1>1, <1>7, Went
<1>9. /\ bp' = bp /\ wb'[p] = NoBuf
      /\ \A q \in Procs : q # p => bp'[q] = bp[q] /\ wb'[q] = wb[q]
  BY <1>5 DEF IInv, TypeOK
<1>10. ~ Owns(p, b)' /\ \A c \in Bufs : c # b => (Owns(p, c)' <=> Owns(p, c))
  BY <1>2, <1>3, <1>9 DEF Owns
<1>11. OneBuf(p, b) /\ Fair(p, b) /\ NotDirtied(b) /\ NoLostWakeup'
  BY <1>1, <1>3, <1>5, <1>6, <1>8, <1>9, <1>10, StartIOKept
<1>12. /\ op(p)' = op(p) /\ xb(p)' = xb(p) /\ ra(p)' = ra(p) /\ lbn(p)' = lbn(p)
       /\ ret(p)' = ret(p)
  BY <1>8 DEF op, ret, xb, ra, lbn
<1>13. SameCall(p) /\ SearchAt(p)' /\ pc'[p] # "binval"
  BY <1>8, <1>12 DEF SameCall, SearchAt
<1>14. PassedAt(p)'
  BY <1>11, <1>12, <1>13, PassedOn
<1>15. CInv'
  <2>1. bp'[p] # b /\ bp'[p] = bp[p]
    BY <1>3, <1>9
  <2> QED
    BY <1>1, <1>10, <1>11, <1>13, <1>14, <2>1, OneGoesOn
<1> QED
  BY <1>11, <1>15 DEF Kept

(* A process writes its buffer and waits.                                  *)
LEMMA HoldBwriteKept ==
  ASSUME IInv, CInv, NoLostWakeup, NEW p \in Procs, HoldBwrite(p)
  PROVE  Kept
<1>1. Runs(p, "hold") /\ Step(p, "wwait", frame[p])
  BY DEF HoldBwrite, Goto
<1>2. pc[p] = "hold" /\ wb[p] = NoBuf
  BY <1>1, HeldBuf
<1>3. PICK b \in Bufs : b = bp[p] /\ b \notin Elems(ioq) /\ Owns(p, b) /\ b # NoBuf
  BY <1>1, HeldBuf
<1> DEFINE g == WriteFlags(flags[b])
<1>4. /\ flags' = [flags EXCEPT ![b] = g] /\ Strategy(b, FALSE)
      /\ UNCHANGED <<blk, bq_lru, bq_age, flwanted, bp, wb, wchan>>
  BY <1>3 DEF HoldBwrite
<1>5. g \in SUBSET FlagSet
  BY WriteFlagsFacts DEF IInv, TypeOK
<1>6. /\ "B_BUSY" \in g /\ ("B_WANTED" \in flags[b] => "B_WANTED" \in g)
      /\ "B_DELWRI" \notin g /\ ("B_INVAL" \in g <=> "B_INVAL" \in flags[b])
  BY <1>3, OwnedAlone, WrittenFlags DEF Busy
<1> HIDE DEF g
<1>7. frame[p] \in FrameType /\ "wwait" \in PCs
  BY FrameOf DEF PCs
<1>8. /\ pc'[p] = "wwait" /\ frame'[p] = frame[p]
      /\ \A q \in Procs : q # p => pc'[q] = pc[q] /\ frame'[q] = frame[q]
  BY <1>1, <1>7, Went
<1>9. /\ \A q \in Procs : q # p => bp'[q] = bp[q] /\ wb'[q] = wb[q]
      /\ \A c \in Bufs : Owns(p, c)' <=> Owns(p, c)
  BY <1>2, <1>4, <1>8 DEF Owns
<1>10. /\ op(p)' = op(p) /\ xb(p)' = xb(p) /\ ra(p)' = ra(p) /\ lbn(p)' = lbn(p)
       /\ ret(p)' = ret(p)
  BY <1>8 DEF op, ret, xb, ra, lbn
<1>11. SameCall(p) /\ SearchAt(p)' /\ pc'[p] # "binval"
  BY <1>8, <1>10 DEF SameCall, SearchAt
<1>12. /\ OneBuf(p, b) /\ Fair(p, b) /\ NotDirtied(b) /\ NoLostWakeup' /\ NamedBuf(p, b)'
       /\ b \in Elems(ioq')
  BY <1>1, <1>3, <1>4, <1>5, <1>6, <1>8, <1>9, <1>11, StartIOKept
<1>13. PassedAt(p)'
  BY <1>10, <1>11, <1>12, PassedOn
<1>14. CInv'
  <2>1. bp'[p] = b
    BY <1>3, <1>4
  <2> QED
    BY <1>1, <1>11, <1>12, <1>13, <2>1, OneGoesOn
<1> QED
  BY <1>12, <1>14 DEF Kept

(* bawrite gives the buffer away.                                          *)
LEMMA BawriteKept ==
  ASSUME IInv, IInv', CInv, NoLostWakeup, NEW p \in Procs, Runs(p, "hold"),
         NEW aged \in {{}, {"B_AGE"}}, Bawrite(p, aged)
  PROVE  Kept
<1> DEFINE f == [frame[p] EXCEPT !.ret = "idle"]
<1>1. pc[p] = "hold" /\ wb[p] = NoBuf /\ \A c \in Bufs : c # NoBuf
  BY HeldBuf
<1>2. PICK b \in Bufs : b = bp[p] /\ b \notin Elems(ioq) /\ Owns(p, b) /\ b # NoBuf
  BY HeldBuf
<1> DEFINE h == flags[b] \cup {"B_ASYNC"} \cup aged
           g == WriteFlags(h)
<1>3. /\ flags' = [flags EXCEPT ![b] = g] /\ Strategy(b, FALSE)
      /\ bp' = [bp EXCEPT ![p] = NoBuf]
      /\ UNCHANGED <<blk, bq_lru, bq_age, flwanted, wchan>>
  BY <1>2 DEF Bawrite
<1>4. PICK l \in {"age", "idle"} :
        /\ Step(p, l, f)
        /\ l = "age" => wb' = [wb EXCEPT ![p] = b]
        /\ l = "idle" => wb' = wb
  <2>1. CASE Delwri(b)
    BY <1>2, <2>1 DEF Bawrite
  <2>2. CASE ~ Delwri(b)
    BY <1>2, <2>2 DEF Bawrite
  <2> QED
    BY <2>1, <2>2
<1>5. /\ "B_BUSY" \in g /\ ("B_WANTED" \in flags[b] => "B_WANTED" \in g)
      /\ "B_DELWRI" \notin g /\ ("B_INVAL" \in g <=> "B_INVAL" \in flags[b])
  BY <1>2, OwnedAlone, WrittenFlags DEF Busy
<1>6. h \in SUBSET FlagSet
  BY DEF IInv, TypeOK, FlagSet
<1> HIDE DEF h
<1>7. g \in SUBSET FlagSet
  BY <1>6, WriteFlagsFacts
<1> HIDE DEF g
<1>8. frame[p] \in FrameType /\ l \in PCs /\ "idle" \in PCs
  BY FrameOf DEF PCs
<1>9. f \in FrameType
  BY <1>8, FrameEdits
<1>10. /\ f.op = op(p) /\ f.ret = "idle" /\ f.xb = xb(p) /\ f.ra = ra(p)
       /\ f.lbn = lbn(p)
  BY <1>8, <1>9 DEF FrameType, op, xb, ra, lbn
<1> HIDE DEF f
<1>11. /\ pc'[p] = l /\ frame'[p] = IF l = "idle" THEN NoFrame ELSE f
       /\ \A q \in Procs : q # p => pc'[q] = pc[q] /\ frame'[q] = frame[q]
  BY <1>4, <1>8, <1>9, Went
<1>12. /\ bp'[p] = NoBuf /\ wb'[p] = (IF l = "age" THEN b ELSE NoBuf)
       /\ \A q \in Procs : q # p => bp'[q] = bp[q] /\ wb'[q] = wb[q]
  BY <1>1, <1>3, <1>4 DEF IInv, TypeOK
<1>13. ~ Owns(p, b)' /\ \A c \in Bufs : c # b => (Owns(p, c)' <=> Owns(p, c))
  BY <1>1, <1>2, <1>11, <1>12 DEF Owns
<1>14. OneBuf(p, b) /\ Fair(p, b) /\ NotDirtied(b) /\ NoLostWakeup'
  BY <1>2, <1>3, <1>5, <1>7, <1>11, <1>12, <1>13, StartIOKept
<1>15. CASE l = "idle"
  BY <1>11, <1>14, <1>15, OneEnds DEF Kept
<1>16. CASE l = "age"
  <2>1. /\ op(p)' = op(p) /\ xb(p)' = xb(p) /\ ra(p)' = ra(p) /\ lbn(p)' = lbn(p)
        /\ ret(p)' = "idle"
    BY <1>10, <1>11, <1>16 DEF op, ret, xb, ra, lbn
  <2>2. SameCall(p) /\ SearchAt(p)' /\ pc'[p] # "binval"
    BY <1>11, <1>16, <2>1 DEF SameCall, SearchAt, Fetching
  <2>3. PassedAt(p)'
    BY <1>14, <2>1, <2>2, PassedOn
  <2>4. bp'[p] = NoBuf /\ bp'[p] # b
    BY <1>2, <1>12
  <2>5. CInv'
    BY <1>13, <1>14, <2>2, <2>3, <2>4, OneGoesOn
  <2> QED
    BY <1>14, <2>5 DEF Kept
<1> QED
  BY <1>15, <1>16

(* p releases the buffer it owns.                                          *)
LEMMA ReleaseKept ==
  ASSUME IInv, CInv, NoLostWakeup, NEW p \in Procs, NEW k, Runs(p, k),
         NEW b \in Bufs, Owns(p, b), NEW g \in SUBSET FlagSet, Brelse(b, g),
         flags[b] \subseteq g, ioq' = ioq,
         "B_DELWRI" \in g => "B_DONE" \in g /\ "B_INVAL" \notin g,
         \/ "B_DELWRI" \in g => "B_DELWRI" \in flags[b]
         \/ op(p) \in {"bread", "getblk"} /\ "B_ERROR" \notin g,
         \A q \in Procs : q # p => /\ pc'[q] = pc[q] /\ frame'[q] = frame[q]
                                   /\ bp'[q] = bp[q] /\ wb'[q] = wb[q],
         \A c \in Bufs : c # b => (Owns(p, c)' <=> Owns(p, c))
  PROVE  /\ OneBuf(p, b) /\ Fair(p, b) /\ NoLostWakeup'
         /\ ("B_DELWRI" \in g => "B_DELWRI" \in flags[b]) => NotDirtied(b)
<1>1. Busy(b) /\ \A q \in Procs : q # p => ~ Owns(q, b)
  BY OwnedAlone
<1>2. /\ flags'[b] = g \ {"B_WANTED", "B_BUSY", "B_ASYNC", "B_AGE"}
      /\ \A c \in Bufs : c # b => flags'[c] = flags[c]
  BY <1>1, BrelseFacts DEF IInv
<1>3. /\ blk'[b] \in {blk[b], NoBlk} /\ ("B_ERROR" \notin g => blk'[b] = blk[b])
      /\ \A c \in Bufs : c # b => blk'[c] = blk[c]
  <2>1. blk' = IF "B_ERROR" \in g THEN [blk EXCEPT ![b] = NoBlk] ELSE blk
    BY DEF Brelse
  <2> QED
    BY <2>1 DEF IInv, TypeOK
<1>4. OneBuf(p, b)
  BY <1>2, <1>3 DEF OneBuf, Others
<1>5. ("B_DELWRI" \in g => "B_DELWRI" \in flags[b]) => NotDirtied(b)
  BY <1>2, <1>3 DEF NotDirtied
<1>6. Fair(p, b)
  <2>1. NamedBuf(p, b)
    BY DEF CInv, OwnAt, NamedAt
  <2> QED
    BY <1>1, <1>2, <1>3, <2>1 DEF Fair, NamedBuf
<1>7. NoLostWakeup'
  <2>1. \A q \in Procs : wchan[q] # NoChan => q # p
    BY DEF Runs
  <2>2. NoChan # b
    BY DEF NoChan, Bufs
  <2>3. \A q \in Procs : wchan[q] = b => bp[q] # b
    BY <1>1, <2>1, <2>2 DEF Owns
  <2>4. /\ \A q \in Procs : wchan[q] # NoChan => bp'[q] = bp[q]
        /\ \A c \in Bufs : c # b => (c \in Elems(ioq') <=> c \in Elems(ioq))
    BY <2>1
  <2>5. "B_WANTED" \in flags[b] => "B_WANTED" \in g
    OBVIOUS
  <2> QED
    BY <1>1, <2>3, <2>4, <2>5, BrelseWakes
<1> QED
  BY <1>4, <1>5, <1>6, <1>7

(* The read-ahead block was in core.                                       *)
LEMMA RaheadHitKept ==
  ASSUME IInv, CInv, NoLostWakeup, NEW p \in Procs, RaheadHit(p)
  PROVE  Kept
<1>1. Runs(p, "rahead") /\ Step(p, "ra_done", frame[p])
  BY DEF RaheadHit, Goto
<1>2. pc[p] = "rahead" /\ \A c \in Bufs : c # NoBuf
  BY <1>1, RaheadBuf
<1>3. PICK b \in Bufs : /\ b = wb[p] /\ b \notin Elems(ioq) /\ Owns(p, b)
                        /\ bp[p] # b /\ b # NoBuf
  BY <1>1, RaheadBuf
<1>4. /\ Brelse(b, flags[b]) /\ wb' = [wb EXCEPT ![p] = NoBuf]
      /\ UNCHANGED <<ioq, bp>>
  BY <1>3 DEF RaheadHit
<1>5. /\ flags[b] \in SUBSET FlagSet
      /\ "B_DELWRI" \in flags[b] => "B_DONE" \in flags[b] /\ "B_INVAL" \notin flags[b]
  BY DEF IInv, TypeOK, CInv, DelwriDone, NoStaleDelwri, Delwri, Valid
<1>6. frame[p] \in FrameType /\ "ra_done" \in PCs
  BY FrameOf DEF PCs
<1>7. /\ pc'[p] = "ra_done" /\ frame'[p] = frame[p]
      /\ \A q \in Procs : q # p => pc'[q] = pc[q] /\ frame'[q] = frame[q]
  BY <1>1, <1>6, Went
<1>8. /\ bp' = bp /\ wb'[p] = NoBuf
      /\ \A q \in Procs : q # p => bp'[q] = bp[q] /\ wb'[q] = wb[q]
  BY <1>4 DEF IInv, TypeOK
<1>9. ~ Owns(p, b)' /\ \A c \in Bufs : c # b => (Owns(p, c)' <=> Owns(p, c))
  BY <1>2, <1>3, <1>8 DEF Owns
<1>10. OneBuf(p, b) /\ Fair(p, b) /\ NotDirtied(b) /\ NoLostWakeup'
  BY <1>1, <1>3, <1>4, <1>5, <1>7, <1>8, <1>9, ReleaseKept
<1>11. /\ op(p)' = op(p) /\ xb(p)' = xb(p) /\ ra(p)' = ra(p) /\ lbn(p)' = lbn(p)
       /\ ret(p)' = ret(p)
  BY <1>7 DEF op, ret, xb, ra, lbn
<1>12. SameCall(p) /\ SearchAt(p)' /\ pc'[p] # "binval"
  BY <1>7, <1>11 DEF SameCall, SearchAt
<1>13. PassedAt(p)'
  BY <1>10, <1>11, <1>12, PassedOn
<1>14. CInv'
  <2>1. bp'[p] # b /\ bp'[p] = bp[p]
    BY <1>3, <1>8
  <2> QED
    BY <1>1, <1>9, <1>10, <1>12, <1>13, <2>1, OneGoesOn
<1> QED
  BY <1>10, <1>14 DEF Kept

(* A process releases the buffer it holds and goes on at l.                *)
LEMMA HeldReleaseKept ==
  ASSUME IInv, IInv', CInv, NoLostWakeup, NEW p \in Procs,
         NEW k \in {"hold", "brelse"}, Runs(p, k),
         NEW g \in SUBSET FlagSet, Brelse(bp[p], g), bp' = [bp EXCEPT ![p] = NoBuf],
         NEW l \in {"idle", "fsynced", "syncip", "blkflush"}, Goto(p, l),
         l = "fsynced" => op(p) = "iupdat", UNCHANGED <<ioq, wb>>,
         flags[bp[p]] \subseteq g,
         "B_DELWRI" \in g => "B_DONE" \in g /\ "B_INVAL" \notin g,
         \/ "B_DELWRI" \in g => "B_DELWRI" \in flags[bp[p]]
         \/ l = "idle" /\ op(p) \in {"bread", "getblk"} /\ "B_ERROR" \notin g
  PROVE  Kept
<1>1. Step(p, l, frame[p]) /\ l \in PCs /\ frame[p] \in FrameType
  BY FrameOf DEF Goto, PCs
<1>2. pc[p] = k /\ wb[p] = NoBuf /\ \A c \in Bufs : c # NoBuf
  BY HeldBuf
<1>3. PICK b \in Bufs : b = bp[p] /\ b \notin Elems(ioq) /\ Owns(p, b) /\ b # NoBuf
  BY HeldBuf
<1>4. /\ pc'[p] = l /\ frame'[p] = IF l = "idle" THEN NoFrame ELSE frame[p]
      /\ \A q \in Procs : q # p => pc'[q] = pc[q] /\ frame'[q] = frame[q]
  BY <1>1, Went
<1>5. /\ bp'[p] = NoBuf /\ wb' = wb
      /\ \A q \in Procs : q # p => bp'[q] = bp[q] /\ wb'[q] = wb[q]
  BY DEF IInv, TypeOK
<1>6. ~ Owns(p, b)' /\ \A c \in Bufs : c # b => (Owns(p, c)' <=> Owns(p, c))
  BY <1>2, <1>3, <1>5 DEF Owns
<1>7. /\ Brelse(b, g) /\ flags[b] \subseteq g /\ ioq' = ioq
      /\ \/ "B_DELWRI" \in g => "B_DELWRI" \in flags[b]
         \/ l = "idle" /\ op(p) \in {"bread", "getblk"} /\ "B_ERROR" \notin g
  BY <1>3
<1>8. /\ OneBuf(p, b) /\ Fair(p, b) /\ NoLostWakeup'
      /\ ("B_DELWRI" \in g => "B_DELWRI" \in flags[b]) => NotDirtied(b)
  BY <1>3, <1>4, <1>5, <1>6, <1>7, ReleaseKept
<1>9. CASE l = "idle"
  BY <1>4, <1>8, <1>9, OneEnds DEF Kept
<1>10. CASE l # "idle"
  <2>1. frame'[p] = frame[p] /\ NotDirtied(b)
    BY <1>4, <1>7, <1>8, <1>10
  <2>2. /\ op(p)' = op(p) /\ xb(p)' = xb(p) /\ ra(p)' = ra(p) /\ lbn(p)' = lbn(p)
        /\ ret(p)' = ret(p)
    BY <2>1 DEF op, ret, xb, ra, lbn
  <2>3. SameCall(p) /\ SearchAt(p)' /\ pc'[p] # "binval"
    BY <1>4, <1>10, <2>2 DEF SameCall, SearchAt
  <2>4. PassedAt(p)'
    BY <1>8, <2>1, <2>2, <2>3, PassedOn
  <2>5. bp'[p] = NoBuf /\ bp'[p] # b
    BY <1>3, <1>5
  <2>6. CInv'
    BY <1>6, <1>8, <2>3, <2>4, <2>5, OneGoesOn
  <2> QED
    BY <1>8, <2>6 DEF Kept
<1> QED
  BY <1>9, <1>10

LEMMA HoldsKept ==
  ASSUME IInv, IInv', CInv, NoLostWakeup, NEW p \in Procs,
         HoldBrelse(p) \/ BwriteBrelse(p) \/ HoldBawrite(p) \/ HoldBdwrite(p)
  PROVE  Kept
<1>1. CASE HoldBrelse(p)
  <2>1. PICK aged \in {{}, {"B_AGE"}} : Brelse(bp[p], flags[bp[p]] \cup aged)
    BY <1>1 DEF HoldBrelse
  <2>2. /\ Runs(p, "hold") /\ bp' = [bp EXCEPT ![p] = NoBuf]
        /\ UNCHANGED <<ioq, wb>>
    BY <1>1 DEF HoldBrelse
  <2>3. PICK l \in {"idle", "fsynced"} : Goto(p, l) /\ (l = "fsynced" => op(p) = "iupdat")
    BY <1>1 DEF HoldBrelse
  <2>4. bp[p] \in Bufs
    BY <2>2, HeldBuf
  <2>5. PICK g \in SUBSET FlagSet : g = flags[bp[p]] \cup aged
    BY <2>4 DEF IInv, TypeOK, FlagSet
  <2>6. /\ Brelse(bp[p], g) /\ flags[bp[p]] \subseteq g
        /\ "B_DELWRI" \in g => /\ "B_DELWRI" \in flags[bp[p]]
                               /\ "B_DONE" \in g /\ "B_INVAL" \notin g
    BY <2>1, <2>4, <2>5 DEF CInv, DelwriDone, NoStaleDelwri, Delwri, Valid
  <2> QED
    BY <2>2, <2>3, <2>6, HeldReleaseKept
<1>2. CASE BwriteBrelse(p)
  <2>1. /\ Runs(p, "brelse") /\ Brelse(bp[p], flags[bp[p]])
        /\ bp' = [bp EXCEPT ![p] = NoBuf] /\ UNCHANGED <<ioq, wb>>
    BY <1>2 DEF BwriteBrelse
  <2>2. bp[p] \in Bufs /\ FrameAt(p) /\ pc[p] = "brelse"
    BY <2>1, HeldBuf
  <2>3. PICK l \in {"idle", "fsynced", "syncip", "blkflush"} :
          Goto(p, l) /\ (l = "fsynced" => op(p) = "iupdat")
    <3>1. CASE op(p) = "fsync"
      BY <1>2, <2>2, <3>1 DEF BwriteBrelse, FrameAt
    <3>2. CASE op(p) = "iupdat"
      BY <1>2, <3>2 DEF BwriteBrelse
    <3>3. CASE op(p) # "fsync" /\ op(p) # "iupdat"
      BY <1>2, <3>3 DEF BwriteBrelse
    <3> QED
      BY <3>1, <3>2, <3>3
  <2>4. PICK g \in SUBSET FlagSet : g = flags[bp[p]]
    BY <2>2 DEF IInv, TypeOK
  <2>5. /\ Brelse(bp[p], g) /\ flags[bp[p]] \subseteq g
        /\ "B_DELWRI" \in g => /\ "B_DELWRI" \in flags[bp[p]]
                               /\ "B_DONE" \in g /\ "B_INVAL" \notin g
    BY <2>1, <2>2, <2>4 DEF CInv, DelwriDone, NoStaleDelwri, Delwri, Valid
  <2> QED
    BY <2>1, <2>3, <2>5, HeldReleaseKept
<1>3. CASE HoldBawrite(p)
  <2>1. Runs(p, "hold")
    BY <1>3 DEF HoldBawrite
  <2>2. PICK aged \in {{}, {"B_AGE"}} : Bawrite(p, aged)
    BY <1>3 DEF HoldBawrite
  <2> QED
    BY <2>1, <2>2, BawriteKept
<1>4. CASE HoldBdwrite(p)
  <2>1. Runs(p, "hold") /\ op(p) \in {"bread", "getblk"} /\ "B_ERROR" \notin flags[bp[p]]
    BY <1>4 DEF HoldBdwrite, Update
  <2>2. CASE Bawrite(p, {})
    BY <2>1, <2>2, BawriteKept
  <2>3. CASE /\ Brelse(bp[p], flags[bp[p]] \cup {"B_DELWRI", "B_DONE"})
             /\ bp' = [bp EXCEPT ![p] = NoBuf]
             /\ Goto(p, "idle")
             /\ UNCHANGED <<ioq, wb>>
    <3>1. bp[p] \in Bufs /\ Owns(p, bp[p])
      BY <2>1, HeldBuf
    <3>2. PICK g \in SUBSET FlagSet : g = flags[bp[p]] \cup {"B_DELWRI", "B_DONE"}
      BY <3>1 DEF IInv, TypeOK, FlagSet
    <3>3. "B_INVAL" \notin flags[bp[p]]
      BY <2>1, <3>1 DEF CInv, OwnAt, NamedAt, NamedBuf, Valid
    <3>4. /\ Brelse(bp[p], g) /\ flags[bp[p]] \subseteq g /\ "B_ERROR" \notin g
          /\ "B_DONE" \in g /\ "B_INVAL" \notin g
      BY <2>1, <2>3, <3>2, <3>3
    <3> QED
      BY <2>1, <2>3, <3>4, HeldReleaseKept
  <2> QED
    BY <1>4, <2>2, <2>3 DEF HoldBdwrite
<1> QED
  BY <1>1, <1>2, <1>3, <1>4

-----------------------------------------------------------------------------
(* The completion interrupt marks the transfer done and wakes who waits.   *)
LEMMA InterruptKept ==
  ASSUME IInv, CInv, NoLostWakeup, Interrupt
  PROVE  Kept
<1>1. PICK i \in DOMAIN ioq, err \in BOOLEAN : Biodone(i, err)
  BY DEF Interrupt
<1>2. PICK b \in Bufs : b = ioq[i] /\ b \in Elems(ioq)
  BY ElemsType DEF IInv, TypeOK, Elems
<1>3. PICK f \in SUBSET FlagSet :
        f = flags[b] \cup {"B_DONE"} \cup (IF err THEN {"B_ERROR"} ELSE {})
  BY DEF IInv, TypeOK, FlagSet
<1>4. /\ ioq' = Unlink(ioq, b)
      /\ UNCHANGED <<pc, frame, bp, wb, cur>>
      /\ IF "B_ASYNC" \in f
           THEN Brelse(b, f)
           ELSE /\ flags' = [flags EXCEPT ![b] = f \ {"B_WANTED"}]
                /\ wchan' = [ q \in Procs |-> IF wchan[q] = b THEN NoChan ELSE wchan[q] ]
                /\ UNCHANGED <<blk, bq_lru, bq_age, flwanted>>
  BY <1>1, <1>2, <1>3 DEF Biodone
<1>5. Elems(ioq') = Elems(ioq) \ {b}
  BY <1>4, UnlinkFacts DEF IInv, TypeOK, NoDupBiodone
<1>6. Busy(b) /\ "B_DONE" \notin flags[b] /\ "B_DELWRI" \notin flags[b]
  BY <1>2 DEF IInv, NoDupBiodone, CInv, DelwriDone, Delwri
<1>7. /\ "B_DONE" \in f /\ "B_DELWRI" \notin f
      /\ "B_INVAL" \in f <=> "B_INVAL" \in flags[b]
      /\ "B_WANTED" \in f <=> "B_WANTED" \in flags[b]
      /\ "B_ASYNC" \in f <=> "B_ASYNC" \in flags[b]
  BY <1>3, <1>6
<1>8. /\ "B_DONE" \in flags'[b] /\ "B_DELWRI" \notin flags'[b]
      /\ "B_INVAL" \in flags'[b] <=> "B_INVAL" \in flags[b]
      /\ blk'[b] \in {blk[b], NoBlk} /\ ("B_ASYNC" \notin flags[b] => blk'[b] = blk[b])
      /\ \A c \in Bufs : c # b => flags'[c] = flags[c] /\ blk'[c] = blk[c]
      /\ NoLostWakeup'
  <2>1. CASE "B_ASYNC" \in f
    <3>1. Brelse(b, f)
      BY <1>4, <2>1
    <3>2. /\ flags'[b] = f \ {"B_WANTED", "B_BUSY", "B_ASYNC", "B_AGE"}
          /\ \A c \in Bufs : c # b => flags'[c] = flags[c]
      BY <1>6, <3>1, BrelseFacts DEF IInv
    <3>3. blk'[b] \in {blk[b], NoBlk} /\ \A c \in Bufs : c # b => blk'[c] = blk[c]
      <4>1. blk' = IF "B_ERROR" \in f THEN [blk EXCEPT ![b] = NoBlk] ELSE blk
        BY <3>1 DEF Brelse
      <4> QED
        BY <4>1 DEF IInv, TypeOK
    <3>4. \A q \in Procs : ~ Owns(q, b)
      BY <1>7, <2>1, OwnedAlone
    <3>5. /\ \A q \in Procs : wchan[q] # NoChan => bp'[q] = bp[q]
          /\ \A q \in Procs : wchan[q] = b => bp[q] # b
          /\ \A c \in Bufs : c # b => (c \in Elems(ioq') <=> c \in Elems(ioq))
      BY <1>4, <1>5, <3>4 DEF Owns
    <3>6. NoLostWakeup'
      BY <1>6, <1>7, <3>1, <3>5, BrelseWakes
    <3> QED
      BY <1>7, <2>1, <3>2, <3>3, <3>6
  <2>2. CASE "B_ASYNC" \notin f
    <3>1. /\ flags' = [flags EXCEPT ![b] = f \ {"B_WANTED"}]
          /\ wchan' = [ q \in Procs |-> IF wchan[q] = b THEN NoChan ELSE wchan[q] ]
          /\ UNCHANGED <<blk, bq_lru, bq_age, flwanted>>
      BY <1>4, <2>2
    <3>2. /\ flags'[b] = f \ {"B_WANTED"}
          /\ \A c \in Bufs : c # b => flags'[c] = flags[c]
      BY <3>1 DEF IInv, TypeOK
    <3>3. NoLostWakeup'
      <4> SUFFICES ASSUME NEW q \in Procs
                   PROVE  /\ wchan'[q] = BFREELIST => flwanted' /\ NoFree'
                          /\ wchan'[q] \in Bufs =>
                               \/ wchan'[q] = bp'[q] /\ wchan'[q] \in Elems(ioq')
                               \/ /\ "B_BUSY" \in flags'[wchan'[q]]
                                  /\ "B_WANTED" \in flags'[wchan'[q]]
        BY DEF NoLostWakeup, Busy
      <4>1. wchan'[q] = IF wchan[q] = b THEN NoChan ELSE wchan[q]
        BY <3>1
      <4>2. NoChan \notin Bufs /\ NoChan # BFREELIST
        BY DEF NoChan, BFREELIST, Bufs
      <4>3. wchan'[q] = BFREELIST => flwanted' /\ NoFree'
        BY <3>1, <4>1, <4>2 DEF NoLostWakeup, NoFree
      <4>4. ASSUME wchan'[q] \in Bufs
            PROVE  \/ wchan'[q] = bp'[q] /\ wchan'[q] \in Elems(ioq')
                   \/ /\ "B_BUSY" \in flags'[wchan'[q]]
                      /\ "B_WANTED" \in flags'[wchan'[q]]
        <5>1. PICK c \in Bufs : c = wchan[q] /\ c = wchan'[q] /\ c # b
          BY <4>1, <4>2, <4>4
        <5>2. \/ c = bp[q] /\ c \in Elems(ioq)
              \/ "B_BUSY" \in flags[c] /\ "B_WANTED" \in flags[c]
          BY <5>1 DEF NoLostWakeup, Busy
        <5>3. bp'[q] = bp[q]
          BY <1>4
        <5> QED
          BY <1>5, <3>2, <5>1, <5>2, <5>3
      <4> QED
        BY <4>3, <4>4
    <3> QED
      BY <1>7, <3>1, <3>2, <3>3
  <2> QED
    BY <2>1, <2>2
<1>9. DelwriDone' /\ NoStaleDelwri'
  BY <1>8 DEF CInv, DelwriDone, NoStaleDelwri, Delwri, Valid
<1>10. FileAlone' /\ CloseAlone'
  BY <1>4 DEF CInv, FileAlone, CloseAlone, UsesFile, op, xb
<1>11. ASSUME NEW q \in Procs
       PROVE  OwnAt(q)'
  <2>1. /\ pc'[q] = pc[q] /\ frame'[q] = frame[q] /\ bp'[q] = bp[q] /\ wb'[q] = wb[q]
        /\ op(q)' = op(q) /\ ret(q)' = ret(q) /\ xb(q)' = xb(q) /\ ra(q)' = ra(q)
        /\ lbn(q)' = lbn(q) /\ cur' = cur
    BY <1>4 DEF op, ret, xb, ra, lbn
  <2>2. OwnAt(q) /\ FrameAt(q)
    BY DEF CInv, IInv, FrameOK
  <2>3. AwaitedAt(q)'
    <3> SUFFICES ASSUME bp[q] # NoBuf, pc[q] # "hold"
                 PROVE  "B_DONE" \in flags'[bp[q]] \/ bp[q] \in Elems(ioq')
      BY <2>1 DEF AwaitedAt
    <3>1. bp[q] \in Bufs /\ ("B_DONE" \in flags[bp[q]] \/ bp[q] \in Elems(ioq))
      BY <2>2 DEF OwnAt, AwaitedAt, IInv, TypeOK
    <3> QED
      BY <1>5, <1>8, <3>1
  <2>4. SearchAt(q)'
    <3>1. Want(q)' = Want(q)
      BY <2>1 DEF Want
    <3>2. ASSUME Want(q) \in Blocks, incore(Want(q))'
          PROVE  incore(Want(q))
      <4>1. PICK c \in Bufs : blk'[c] = Dblk(Want(q)) /\ "B_INVAL" \notin flags'[c]
        BY <3>1, <3>2 DEF incore, Match, Valid
      <4>2. blk[c] = Dblk(Want(q)) /\ "B_INVAL" \notin flags[c]
        BY <1>8, <3>2, <4>1, BlockNames
      <4> QED
        BY <4>2 DEF incore, Match, Valid
    <3>3. pc[q] \in {"getnewbuf", "age"} /\ ret(q) \in Fetching /\ op(q) # "geteblk"
            => Want(q) \in Blocks
      BY <2>2 DEF FrameAt, Want, Fetchers, Fetching
    <3> QED
      BY <2>1, <2>2, <3>2, <3>3 DEF OwnAt, SearchAt
  <2>5. NamedAt(q)'
    <3>1. ASSUME NEW c \in Bufs, Owns(q, c)'
          PROVE  NamedBuf(q, c)'
      <4>1. Owns(q, c)
        BY <2>1, <3>1 DEF Owns
      <4>2. blk'[c] = blk[c] /\ ("B_INVAL" \in flags'[c] <=> "B_INVAL" \in flags[c])
        BY <1>8, <4>1, OwnedAlone
      <4> QED
        BY <2>1, <2>2, <4>1, <4>2 DEF OwnAt, NamedAt, NamedBuf, Valid
    <3> QED
      BY <2>1, <2>2, <3>1 DEF OwnAt, NamedAt
  <2>6. PassedAt(q)'
    <3>1. \A c \in Bufs : Delwri(c)' => Delwri(c) /\ blk'[c] = blk[c]
      BY <1>8 DEF Delwri
    <3>2. \A c \in Bufs : Delwri(c)' /\ FileBuf(c)' => Delwri(c) /\ FileBuf(c)
      BY <3>1 DEF FileBuf
    <3> QED
      BY <2>1, <2>2, <3>1, <3>2 DEF OwnAt, PassedAt, SmallFile
  <2> QED
    BY <2>3, <2>4, <2>5, <2>6 DEF OwnAt
<1> QED
  BY <1>8, <1>9, <1>10, <1>11 DEF CInv, Kept

-----------------------------------------------------------------------------
(* Nothing is under way when the system starts.                            *)
LEMMA InitKept ==
  ASSUME Init
  PROVE  CInv /\ NoLostWakeup
<1>1. \A p \in Procs : /\ pc[p] = "idle" /\ op(p) = "none" /\ ret(p) = "idle"
                       /\ xb(p) = NoBlk /\ bp[p] = NoBuf /\ wb[p] = NoBuf
                       /\ wchan[p] = NoChan
  BY DEF Init, NoFrame, Frame, op, ret, xb
<1>2. \A b \in Bufs : "B_DELWRI" \notin flags[b] /\ \A p \in Procs : ~ Owns(p, b)
  BY <1>1 DEF Init, Owns, Bufs, NoBuf
<1>3. \A p \in Procs : OwnAt(p)
  BY <1>1, <1>2 DEF OwnAt, AwaitedAt, SearchAt, NamedAt, PassedAt
<1>4. DelwriDone /\ NoStaleDelwri
  BY <1>2 DEF DelwriDone, NoStaleDelwri, Delwri
<1>5. FileAlone /\ CloseAlone
  BY <1>1, FileBlocks DEF FileAlone, CloseAlone, UsesFile
<1>6. NoLostWakeup
  BY <1>1 DEF NoLostWakeup, NoChan, BFREELIST, Bufs
<1> QED
  BY <1>3, <1>4, <1>5, <1>6 DEF CInv

(* Every step of a process that is in a system call.                       *)
LEMMA ProceedKept ==
  ASSUME IInv, CInv, NoLostWakeup, NEW p \in Procs, Proceed(p)
  PROVE  Kept
<1>1. IInv'
  BY ProceedStep
<1>2. CASE \/ RaCheck(p) \/ RaDone(p) \/ BiowaitDone(p) \/ BlkflushDone(p)
           \/ FsyncReturn(p) \/ DevClose(p)
  BY <1>1, <1>2, MovesKept
<1>3. CASE \/ GetblkSleep(p) \/ BlkflushSleep(p) \/ SyncipSleep(p)
           \/ GetnewbufSleep(p) \/ BiowaitSleep(p)
  BY <1>3, SleepsKept
<1>4. CASE \/ GetblkHit(p) \/ GetblkMiss(p) \/ GetnewbufTake(p) \/ Take(p)
  BY <1>4, GetblkHitKept, GetblkMissKept, GetnewbufTakeKept, TakeKept
<1>5. CASE \/ GetnewbufWrite(p) \/ BflushWrite(p) \/ SyncipWrite(p) \/ BlkflushWrite(p)
  BY <1>5, PushOutsKept, FlushesKept
<1>6. CASE \/ Bread(p) \/ BreadaFirst(p) \/ Rahead(p)
  BY <1>6, GotFirstsKept, RaheadStartKept, RaheadHitKept DEF Rahead
<1>7. CASE \/ HoldBrelse(p) \/ BwriteBrelse(p) \/ HoldBawrite(p) \/ HoldBdwrite(p)
  BY <1>1, <1>7, HoldsKept
<1>8. CASE \/ HoldBwrite(p) \/ BwriteAge(p)
  BY <1>1, <1>8, HoldBwriteKept, BwriteAgeKept
<1>9. CASE \/ SyncipBlkflush(p) \/ SyncipDone(p) \/ BflushDone(p) \/ Binval(p)
  BY <1>1, <1>9, SyncipBlkflushKept, SyncipDoneKept, BflushDoneKept, BinvalKept
<1> QED
  BY <1>2, <1>3, <1>4, <1>5, <1>6, <1>7, <1>8, <1>9 DEF Proceed

LEMMA StutterKept ==
  ASSUME CInv, NoLostWakeup, UNCHANGED vars
  PROVE  Kept
<1>1. /\ UNCHANGED <<flags, blk, bq_lru, bq_age, flwanted, ioq>>
      /\ UNCHANGED <<pc, frame, bp, wb, wchan, cur>>
  BY DEF vars, bufVars, procVars
<1>2. NoLostWakeup'
  BY <1>1 DEF NoLostWakeup, NoFree, Busy
<1>3. DelwriDone' /\ NoStaleDelwri' /\ FileAlone' /\ CloseAlone'
  BY <1>1 DEF CInv, DelwriDone, NoStaleDelwri, FileAlone, CloseAlone, UsesFile, op, xb,
              Delwri, Valid
<1>4. \A p \in Procs : AwaitedAt(p)' /\ SearchAt(p)'
  BY <1>1 DEF CInv, OwnAt, AwaitedAt, SearchAt, Want, incore, Match, Valid, op, ret, xb, ra
<1>5. \A p \in Procs : NamedAt(p)'
  BY <1>1 DEF CInv, OwnAt, NamedAt, NamedBuf, Owns, Valid, op, ret, xb, ra
<1>6. \A p \in Procs : PassedAt(p)'
  BY <1>1 DEF CInv, OwnAt, PassedAt, SmallFile, FileBuf, Delwri, op, xb, lbn
<1> QED
  BY <1>2, <1>3, <1>4, <1>5, <1>6 DEF CInv, OwnAt, Kept

(* Every reachable state satisfies what the callers rely on: it is kept    *)
(* together with the cache's own invariant by each step of each process    *)
(* and by the completion interrupt.                                        *)
THEOREM CallersInvariance == Spec => [](IInv /\ CInv /\ NoLostWakeup)
<1>1. Init => IInv /\ CInv /\ NoLostWakeup
  BY InitIInv, InitKept
<1>2. (IInv /\ CInv /\ NoLostWakeup) /\ [Next]_vars => (IInv /\ CInv /\ NoLostWakeup)'
  <2> SUFFICES ASSUME IInv, CInv, NoLostWakeup, [Next]_vars
               PROVE  IInv' /\ Kept
    BY DEF Kept
  <2>1. CASE Next
    BY <2>1, InterruptStep, StartStep, ProceedStep, InterruptKept, StartKept, ProceedKept
       DEF Next
  <2>2. CASE UNCHANGED vars
    BY <2>2, StutterStep, StutterKept
  <2> QED
    BY <2>1, <2>2
<1> QED
  BY <1>1, <1>2, PTL DEF Spec

(* No wakeup is lost: getblk, getnewbuf, biowait, blkflush and syncip      *)
(* never sleep on a buffer or on the free lists unless brelse or biodone   *)
(* is still to come and will wake them.                                    *)
THEOREM BufferNoLostWakeup == Spec => []NoLostWakeup
BY CallersInvariance, PTL

(* Until getnewbuf sleeps, the block getblk did not find stays out of the  *)
(* cache, so only that sleep can give a block two buffers.                 *)
THEOREM BufferSearchHolds == Spec => []SearchHolds
<1>1. IInv /\ CInv => SearchHolds
  <2> SUFFICES ASSUME IInv, CInv, NEW p \in Procs, pc[p] = "getnewbuf",
                      op(p) # "geteblk", ~ frame[p].slept
               PROVE  ~ incore(Want(p))
    BY DEF SearchHolds
  <2>1. ret(p) \in Fetching
    BY DEF IInv, FrameOK, FrameAt
  <2> QED
    BY <2>1 DEF CInv, OwnAt, SearchAt
<1> QED
  BY <1>1, CallersInvariance, PTL

(* binval never invalidates a delayed write: the last close of a device    *)
(* flushes it first, and nobody dirties a block of it in between.          *)
THEOREM BufferNoStaleDelwri == Spec => []NoStaleDelwri
<1>1. CInv => NoStaleDelwri
  BY DEF CInv
<1> QED
  BY <1>1, CallersInvariance, PTL

(* fsync of a large file, whose syncip walks the buffers of the device,    *)
(* leaves no delayed write of the file behind, however often it sleeps on  *)
(* the way and whatever other processes do meanwhile.                      *)
THEOREM BufferFsyncFlushed ==
  ASSUME ~ SmallFile
  PROVE  Spec => []FsyncFlushed
<1>1. CInv => FsyncFlushed
  <2> SUFFICES ASSUME CInv, NEW p \in Procs, pc[p] = "fsynced", NEW i \in DOMAIN File,
                      NEW b \in Match(File[i])
               PROVE  ~ Delwri(b)
    BY DEF FsyncFlushed
  <2>1. b \in Bufs /\ FileBuf(b)
    BY DEF Match, FileBuf
  <2>2. op(p) = "iupdat" /\ OwnAt(p)
    BY DEF CInv, OwnAt, NamedAt
  <2> QED
    BY <2>1, <2>2 DEF OwnAt, PassedAt
<1> QED
  BY <1>1, CallersInvariance, PTL
-----------------------------------------------------------------------------
(* The data, while no block has two buffers, no transfer fails and a       *)
(* driver's close routine waits for its queue.                             *)

(* b is at the driver to be written; it has what the disk may not have.    *)
Writing(b) == b \in Elems(ioq) /\ ~ IsRead(b)
Carries(b) == latest[b] /\ (Delwri(b) \/ Writing(b))

(* A valid buffer with data, or one that is being written, holds every     *)
(* update, and one that does has data or is being written.                 *)
DataAt(b) ==
  /\ "B_ERROR" \notin flags[b]
  /\ Valid(b) => blk[b] \in DevBlks
  /\ "B_DONE" \in flags[b] /\ Valid(b) => latest[b]
  /\ Writing(b) => latest[b]
  /\ latest[b] => "B_DONE" \in flags[b] \/ Writing(b)

(* What the disk lacks is on its way, or marked to be written.             *)
Carried == \A x \in DevBlks : ~ dlatest[x] => \E b \in Bufs : blk[b] = x /\ Carries(b)

(* While the driver's close routine waits the device has no valid buffer,  *)
(* and only then is an invalid buffer written.                             *)
ClosedBy(q, b) == pc[q] = "d_close" /\ xb(q)[1] = blk[b][1]
Closers ==
  /\ \A q \in Procs : pc[q] = "d_close" => op(q) = "close"
  /\ \A q \in Procs, b \in Bufs : ClosedBy(q, b) => ~ Valid(b)
  /\ \A b \in Bufs : Writing(b) /\ ~ Valid(b) => \E q \in Procs : ClosedBy(q, b)

(* Who reads has data.                                                     *)
Readers == {"bread", "breada", "iupdat"}
Takers == {"getblk", "geteblk"}
ReaderAt(p) ==
  /\ pc[p] = "hold" /\ op(p) \in Readers => "B_DONE" \in flags[bp[p]]
  /\ "take" \in {pc[p], ret(p)} => op(p) \in Takers

DInv ==
  /\ \A b \in Bufs : DataAt(b)
  /\ Carried /\ Closers
  /\ \A p \in Procs : ReaderAt(p)

-----------------------------------------------------------------------------
(* What a step leaves alone, and what it may do to the rest.               *)
Still(c) ==
  /\ blk'[c] = blk[c] /\ latest'[c] = latest[c]
  /\ c \in Elems(ioq') <=> c \in Elems(ioq)
  /\ "B_READ" \in flags'[c] <=> "B_READ" \in flags[c]
  /\ "B_DONE" \in flags'[c] <=> "B_DONE" \in flags[c]
  /\ "B_ERROR" \in flags'[c] <=> "B_ERROR" \in flags[c]
  /\ "B_DELWRI" \in flags'[c] <=> "B_DELWRI" \in flags[c]
  /\ "B_INVAL" \in flags'[c] <=> "B_INVAL" \in flags[c]

Stays(q) == pc'[q] = pc[q] /\ frame'[q] = frame[q] /\ bp'[q] = bp[q]
Moves(q) == "d_close" \notin {pc[q], pc'[q]} /\ ReaderAt(q)'

Changed(c) ==
  /\ DataAt(c)'
  /\ Writing(c)' => Valid(c)'
  /\ Valid(c)' => \/ Valid(c) /\ blk'[c] = blk[c]
                  \/ \A q \in Procs : op(q) = "close" => xb(q)[1] # blk'[c][1]
  /\ "B_DONE" \in flags[c] /\ "B_DONE" \notin flags'[c] =>
       \A q \in Procs : bp[q] = c => Moves(q)

LEMMA StillFacts ==
  ASSUME NEW c \in Bufs, Still(c)
  PROVE  /\ DataAt(c) => DataAt(c)'
         /\ Carries(c) => Carries(c)'
         /\ blk'[c] = blk[c]
         /\ Writing(c)' <=> Writing(c)
         /\ Valid(c)' <=> Valid(c)
<1>1. (Writing(c)' <=> Writing(c)) /\ (Valid(c)' <=> Valid(c)) /\ (Delwri(c)' <=> Delwri(c))
  BY DEF Still, Writing, IsRead, Valid, Delwri
<1> QED
  BY <1>1 DEF Still, DataAt, Carries

LEMMA DataStep ==
  ASSUME IInv, DInv, \A q \in Procs : Stays(q) \/ Moves(q),
         \A c \in Bufs : Still(c) \/ Changed(c), Carried'
  PROVE  DInv'
<1>1. \A c \in Bufs : DataAt(c)'
  BY StillFacts DEF DInv, Changed
<1>2. ASSUME NEW q \in Procs, pc'[q] = "d_close"
      PROVE  pc[q] = "d_close" /\ op(q)' = op(q) /\ xb(q)' = xb(q) /\ op(q) = "close"
  <2>1. Stays(q)
    BY <1>2 DEF Moves
  <2> QED
    BY <1>2, <2>1 DEF Stays, op, xb, DInv, Closers
<1>3. ASSUME NEW q \in Procs, pc[q] = "d_close"
      PROVE  pc'[q] = "d_close" /\ xb(q)' = xb(q)
  BY <1>3 DEF Stays, Moves, xb
<1>4. ASSUME NEW q \in Procs, NEW c \in Bufs, ClosedBy(q, c)', Valid(c)'
      PROVE  FALSE
  <2>1. pc[q] = "d_close" /\ xb(q)' = xb(q) /\ op(q) = "close" /\ xb(q)'[1] = blk'[c][1]
    BY <1>2, <1>4 DEF ClosedBy
  <2>2. Valid(c) /\ blk'[c] = blk[c]
    BY <1>4, <2>1, StillFacts DEF Changed, Still
  <2> QED
    BY <2>1, <2>2 DEF DInv, Closers, ClosedBy
<1>5. ASSUME NEW c \in Bufs, Writing(c)', ~ Valid(c)'
      PROVE  \E q \in Procs : ClosedBy(q, c)'
  <2>1. Still(c)
    BY <1>5 DEF Changed
  <2>2. Writing(c) /\ ~ Valid(c) /\ blk'[c] = blk[c]
    BY <1>5, <2>1, StillFacts
  <2>3. PICK q \in Procs : ClosedBy(q, c)
    BY <2>2 DEF DInv, Closers
  <2>4. ClosedBy(q, c)'
    BY <1>3, <2>2, <2>3 DEF ClosedBy
  <2> QED
    BY <2>4
<1>6. Closers'
  BY <1>2, <1>4, <1>5 DEF Closers
<1>7. ASSUME NEW q \in Procs
      PROVE  ReaderAt(q)'
  <2>1. CASE Moves(q)
    BY <2>1 DEF Moves
  <2>2. CASE Stays(q) /\ ~ Moves(q)
    <3>1. ReaderAt(q) /\ op(q)' = op(q) /\ ret(q)' = ret(q)
      BY <2>2 DEF DInv, Stays, op, ret
    <3>2. ASSUME pc[q] = "hold", "B_DONE" \in flags[bp[q]]
          PROVE  "B_DONE" \in flags'[bp[q]]
      <4>1. bp[q] \in Bufs
        BY <3>2 DEF IInv, TypeOK, LocalBufs, LocalAt
      <4> QED
        BY <2>2, <3>2, <4>1 DEF Still, Changed
    <3> QED
      BY <2>2, <3>1, <3>2 DEF ReaderAt, Stays
  <2> QED
    BY <2>1, <2>2
<1> QED
  BY <1>1, <1>6, <1>7 DEF DInv

(* The disk is as it was and nothing dirty is dropped.                     *)
LEMMA CarriedKept ==
  ASSUME Carried, dlatest' = dlatest,
         \A c \in Bufs : Carries(c) => Carries(c)' /\ blk'[c] = blk[c]
  PROVE  Carried'
<1> SUFFICES ASSUME NEW x \in DevBlks, ~ dlatest[x]
             PROVE  \E b \in Bufs : blk'[b] = x /\ Carries(b)'
  BY DEF Carried
<1>1. PICK b \in Bufs : blk[b] = x /\ Carries(b)
  BY DEF Carried
<1> QED
  BY <1>1

LEMMA StillData ==
  ASSUME IInv, DInv, \A q \in Procs : Stays(q) \/ Moves(q),
         \A c \in Bufs : Still(c), dlatest' = dlatest
  PROVE  DInv'
<1>1. Carried'
  BY StillFacts, CarriedKept DEF DInv
<1> QED
  BY <1>1, DataStep

LEMMA Going ==
  ASSUME IInv, NEW p \in Procs, NEW k, Runs(p, k), NEW l \in PCs, NEW f \in FrameType,
         Step(p, l, f), "d_close" \notin {k, l},
         \A q \in Procs : q # p => bp'[q] = bp[q],
         "take" \in {l, f.ret} => f.op \in Takers,
         l = "hold" /\ f.op \in Readers => "B_DONE" \in flags'[bp'[p]]
  PROVE  (\A q \in Procs : Stays(q) \/ Moves(q)) /\ Moves(p)
<1>1. /\ pc[p] = k /\ pc'[p] = l /\ frame'[p] = IF l = "idle" THEN NoFrame ELSE f
      /\ \A q \in Procs : q # p => pc'[q] = pc[q] /\ frame'[q] = frame[q]
  BY Went
<1>2. ReaderAt(p)'
  <2>1. CASE l = "idle"
    <3>1. ret(p)' = "idle"
      BY <1>1, <2>1 DEF ret, NoFrame, Frame
    <3> QED
      BY <1>1, <2>1, <3>1 DEF ReaderAt
  <2>2. CASE l # "idle"
    <3>1. op(p)' = f.op /\ ret(p)' = f.ret
      BY <1>1, <2>2 DEF op, ret
    <3> QED
      BY <1>1, <3>1 DEF ReaderAt
  <2> QED
    BY <2>1, <2>2
<1> QED
  BY <1>1, <1>2 DEF Stays, Moves

(* p only moves.                                                           *)
LEMMA MoveData ==
  ASSUME IInv, DInv, NEW p \in Procs, NEW k, Runs(p, k), NEW l \in PCs, NEW f \in FrameType,
         Step(p, l, f), "d_close" \notin {k, l}, UNCHANGED <<bufVars, dataVars, bp>>,
         "take" \in {l, f.ret} => f.op \in Takers,
         l = "hold" /\ f.op \in Readers => "B_DONE" \in flags[bp[p]]
  PROVE  DInv'
<1>1. UNCHANGED <<flags, blk, ioq, latest, dlatest, bp>>
  BY DEF bufVars, dataVars
<1>2. \A c \in Bufs : Still(c)
  BY <1>1 DEF Still
<1>3. \A q \in Procs : Stays(q) \/ Moves(q)
  BY <1>1, Going
<1> QED
  BY <1>1, <1>2, <1>3, StillData

LEMMA CallData ==
  ASSUME IInv, DInv, NEW p \in Procs,
         NEW l \in {"getblk", "getnewbuf", "ra_check", "syncip", "bflush"},
         NEW f \in FrameType, Call(p, l, f), f.ret = "take" => f.op \in Takers
  PROVE  DInv'
<1>1. /\ Runs(p, "idle") /\ Step(p, l, f) /\ UNCHANGED <<bufVars, dataVars, bp>>
      /\ l \in PCs
  BY DEF Call, PCs
<1> QED
  BY <1>1, MoveData

LEMMA StartData ==
  ASSUME IInv, DInv, NEW p \in Procs, Start(p)
  PROVE  DInv'
<1>1. InodeBlk \in Int \X Int /\ \A x \in Blocks : x \in Int \X Int
  BY BlocksType, BufferCacheAssumption
<1>2. NoBlk \in Int \X Int /\ \A d \in Devs : <<d, -1>> \in Int \X Int
  BY BufferCacheAssumption DEF NoBlk
<1>3. PICK l \in {"getblk", "getnewbuf", "ra_check", "syncip", "bflush"},
           o \in {"bread", "breada", "getblk", "geteblk", "fsync", "bflush", "close"},
           r \in {"bread", "breada", "take", "syncip", "bflush", "binval"},
           x \in Int \X Int, y \in Int \X Int :
        Call(p, l, Frame(o, r, x, y)) /\ (r = "take" => o \in Takers)
  <2>1. CASE CallBreada(p)
    <3>1. PICK x \in Blocks, y \in Blocks :
            Call(p, IF incore(x) THEN "ra_check" ELSE "getblk", Frame("breada", "breada", x, y))
      BY <2>1 DEF CallBreada
    <3>2. PICK l \in {"ra_check", "getblk"} : Call(p, l, Frame("breada", "breada", x, y))
      BY <3>1
    <3>3. x \in Int \X Int /\ y \in Int \X Int
      BY <1>1
    <3> QED
      BY <3>2, <3>3
  <2>2. CASE CallBread(p) \/ CallGetblk(p) \/ CallGeteblk(p)
    BY <1>1, <1>2, <2>2 DEF CallBread, CallGetblk, CallGeteblk, Takers
  <2>3. CASE CallFsync(p) \/ CallBflush(p) \/ CallClose(p)
    BY <1>1, <1>2, <2>3 DEF CallFsync, CallBflush, CallClose
  <2> QED
    BY <2>1, <2>2, <2>3 DEF Start
<1>4. o \in AllOps /\ r \in PCs
  BY DEF AllOps, PCs
<1>5. PICK f \in FrameType : IsFrame(f, o, r, x, y)
  BY <1>4, NewFrame
<1> QED
  BY <1>3, <1>5, CallData DEF IsFrame

(* The frame of p with its operation and return address.                   *)
LEMMA FrameTake ==
  ASSUME IInv, DInv, NEW p \in Procs
  PROVE  /\ frame[p] \in FrameType /\ frame[p].ret = ret(p) /\ frame[p].op = op(p)
         /\ "take" \in {pc[p], ret(p)} => op(p) \in Takers
BY FrameOf DEF DInv, ReaderAt, ret, op

LEMMA GotoData ==
  ASSUME IInv, DInv, NEW p \in Procs,
         NEW k \in {"ra_check", "blkflush", "fsynced", "bflush"}, Runs(p, k),
         NEW l \in {"ra_done", "syncip", "idle", "binval"}, Goto(p, l),
         UNCHANGED <<bufVars, dataVars, bp>>
  PROVE  DInv'
<1>1. frame[p] \in FrameType /\ ("take" \in {l, frame[p].ret} => frame[p].op \in Takers)
  BY FrameTake
<1>2. Step(p, l, frame[p]) /\ l \in PCs
  BY DEF Goto, PCs
<1> QED
  BY <1>1, <1>2, MoveData

LEMMA MovesData ==
  ASSUME IInv, DInv, NEW p \in Procs,
         \/ GetblkMiss(p) \/ RaCheck(p) \/ RaDone(p)
         \/ SyncipBlkflush(p) \/ SyncipDone(p) \/ BlkflushDone(p)
         \/ FsyncReturn(p) \/ BflushDone(p)
  PROVE  DInv'
<1>1. frame[p] \in FrameType /\ ("take" = frame[p].ret => frame[p].op \in Takers)
  BY FrameTake
<1>2. CASE GetblkMiss(p)
  <2>1. PICK f \in FrameType : f = [frame[p] EXCEPT !.slept = FALSE]
    BY <1>1, FrameEdits
  <2>2. f.ret = frame[p].ret /\ f.op = frame[p].op
    BY <1>1, <2>1 DEF FrameType
  <2>3. /\ Runs(p, "getblk") /\ Step(p, "getnewbuf", f) /\ "getnewbuf" \in PCs
        /\ UNCHANGED <<bufVars, dataVars, bp>>
    BY <1>2, <2>1 DEF GetblkMiss, PCs
  <2> QED
    BY <1>1, <2>2, <2>3, MoveData
<1>3. CASE RaCheck(p)
  <2>1. /\ Runs(p, "ra_check") /\ UNCHANGED <<bufVars, dataVars, bp>>
        /\ \/ Goto(p, "ra_done")
           \/ Step(p, "getblk", [frame[p] EXCEPT !.ret = "rahead"])
    BY <1>3 DEF RaCheck
  <2>2. CASE Goto(p, "ra_done")
    BY <2>1, <2>2, GotoData
  <2>3. CASE Step(p, "getblk", [frame[p] EXCEPT !.ret = "rahead"])
    <3>1. PICK f \in FrameType : f = [frame[p] EXCEPT !.ret = "rahead"]
      BY <1>1, FrameEdits DEF PCs
    <3>2. f.ret = "rahead" /\ "getblk" \in PCs /\ Step(p, "getblk", f)
      BY <1>1, <2>3, <3>1 DEF FrameType, PCs
    <3> QED
      BY <2>1, <3>2, MoveData
  <2> QED
    BY <2>1, <2>2, <2>3
<1>4. CASE RaDone(p)
  <2>1. PICK f \in FrameType : f = [frame[p] EXCEPT !.ret = "bread"]
    BY <1>1, FrameEdits DEF PCs
  <2>2. f.ret = "bread"
    BY <1>1, <2>1 DEF FrameType
  <2>3. PICK l \in {"getblk", "rwait"} : Step(p, l, f)
    BY <1>4, <2>1 DEF RaDone
  <2>4. Runs(p, "ra_done") /\ l \in PCs /\ UNCHANGED <<bufVars, dataVars, bp>>
    BY <1>4 DEF RaDone, PCs
  <2> QED
    BY <2>2, <2>3, <2>4, MoveData
<1>5. CASE SyncipBlkflush(p)
  <2>1. /\ Runs(p, "syncip") /\ UNCHANGED <<bufVars, dataVars, bp>>
        /\ Step(p, "blkflush", [frame[p] EXCEPT !.xb = Dblk(File[lbn(p)]), !.lbn = @ + 1])
        /\ lbn(p) <= Len(File)
    BY <1>5 DEF SyncipBlkflush
  <2>2. lbn(p) \in DOMAIN File /\ lbn(p) + 1 \in Nat \ {0} /\ frame[p].lbn = lbn(p)
    BY <2>1, FrameOf, BufferCacheAssumption DEF lbn
  <2>3. Dblk(File[lbn(p)]) \in Int \X Int
    BY <2>2, FileBlocks, BlocksType
  <2>4. PICK f \in FrameType : f = [frame[p] EXCEPT !.xb = Dblk(File[lbn(p)]), !.lbn = lbn(p) + 1]
    BY <1>1, <2>2, <2>3, FrameEdits
  <2>5. f.ret = frame[p].ret /\ f.op = frame[p].op
    BY <1>1, <2>4 DEF FrameType
  <2>6. Step(p, "blkflush", f) /\ "blkflush" \in PCs
    BY <2>1, <2>2, <2>4 DEF PCs
  <2> QED
    BY <1>1, <2>1, <2>5, <2>6, MoveData
<1>6. CASE SyncipDone(p)
  <2>1. PICK f \in FrameType :
              f = [frame[p] EXCEPT !.op = "iupdat", !.xb = InodeBlk, !.ret = "bread"]
    BY <1>1, FileBlocks, BlocksType, FrameEdits DEF PCs
  <2>2. f.ret = "bread" /\ "getblk" \in PCs
    BY <1>1, <2>1 DEF FrameType, PCs
  <2>3. /\ Runs(p, "syncip") /\ Step(p, "getblk", f)
        /\ UNCHANGED <<bufVars, dataVars, bp>>
    BY <1>6, <2>1 DEF SyncipDone
  <2> QED
    BY <2>2, <2>3, MoveData
<1>7. CASE BlkflushDone(p) \/ FsyncReturn(p)
  BY <1>7, GotoData DEF BlkflushDone, FsyncReturn
<1>8. CASE BflushDone(p)
  <2>1. PICK l \in {"idle", "binval"} : Goto(p, l)
    BY <1>8 DEF BflushDone
  <2> QED
    BY <1>8, <2>1, GotoData DEF BflushDone
<1> QED
  BY <1>2, <1>3, <1>4, <1>5, <1>6, <1>7, <1>8

(* biowait has seen B_DONE.                                                *)
LEMMA BiowaitDoneData ==
  ASSUME IInv, DInv, NEW p \in Procs, BiowaitDone(p)
  PROVE  DInv'
<1>1. frame[p] \in FrameType /\ ("take" = frame[p].ret => frame[p].op \in Takers)
  BY FrameTake
<1>2. PICK k \in {"rwait", "wwait"}, l \in {"hold", "brelse"} :
        /\ Runs(p, k) /\ UNCHANGED <<bufVars, dataVars, bp>>
        /\ "B_DONE" \in flags[bp[p]]
        /\ Step(p, l, [frame[p] EXCEPT !.failed = @ \/ "B_ERROR" \in flags[bp[p]]])
  BY DEF BiowaitDone
<1>3. PICK e \in BOOLEAN : e = (frame[p].failed \/ "B_ERROR" \in flags[bp[p]])
  BY <1>1 DEF FrameType
<1>4. PICK f \in FrameType : f = [frame[p] EXCEPT !.failed = e]
  BY <1>1, FrameEdits
<1>5. f.ret = frame[p].ret /\ f.op = frame[p].op /\ l \in PCs
  BY <1>1, <1>4 DEF FrameType, PCs
<1>6. Step(p, l, f)
  BY <1>2, <1>3, <1>4
<1> QED
  BY <1>1, <1>2, <1>5, <1>6, MoveData

(* The caller of getblk or geteblk has not read the block.                 *)
LEMMA TakeData ==
  ASSUME IInv, DInv, NEW p \in Procs, Take(p)
  PROVE  DInv'
<1>1. /\ Runs(p, "take") /\ Step(p, "hold", frame[p]) /\ bp' = [bp EXCEPT ![p] = wb[p]]
      /\ UNCHANGED <<flags, blk, ioq, latest, dlatest>> /\ "hold" \in PCs
  BY DEF Take, Goto, bufVars, dataVars, PCs
<1>2. frame[p] \in FrameType /\ frame[p].op \in Takers
  BY <1>1, FrameTake DEF Runs
<1>3. \A c \in Bufs : Still(c)
  BY <1>1 DEF Still
<1>4. \A q \in Procs : q # p => bp'[q] = bp[q]
  BY <1>1 DEF IInv, TypeOK
<1>5. frame[p].op \notin Readers
  BY <1>2 DEF Takers, Readers
<1>6. \A q \in Procs : Stays(q) \/ Moves(q)
  BY <1>1, <1>2, <1>4, <1>5, Going
<1> QED
  BY <1>1, <1>3, <1>6, StillData

(* The driver's close routine has waited for its queue.                    *)
LEMMA DevCloseData ==
  ASSUME CloseWaits, IInv, DInv, NEW p \in Procs, DevClose(p)
  PROVE  DInv'
<1>1. /\ Runs(p, "d_close") /\ Step(p, "idle", frame[p]) /\ ioq = <<>>
      /\ UNCHANGED <<flags, blk, ioq, latest, dlatest, bp>> /\ "idle" \in PCs
  BY DEF DevClose, Goto, bufVars, dataVars, PCs
<1>2. frame[p] \in FrameType
  BY FrameTake
<1>3. /\ pc'[p] = "idle" /\ frame'[p] = NoFrame
      /\ \A q \in Procs : q # p => pc'[q] = pc[q] /\ frame'[q] = frame[q]
  BY <1>1, <1>2, Went
<1>4. \A c \in Bufs : Still(c) /\ ~ Writing(c)
  BY <1>1 DEF Still, Writing, Elems
<1>5. \A c \in Bufs : /\ DataAt(c)' /\ (Carries(c) => Carries(c)') /\ blk'[c] = blk[c]
                      /\ ~ Writing(c)' /\ (Valid(c)' <=> Valid(c))
  BY <1>4, StillFacts DEF DInv
<1>6. Carried'
  BY <1>1, <1>5, CarriedKept DEF DInv
<1>7. \A q \in Procs : pc'[q] = "d_close" =>
        /\ pc[q] = "d_close" /\ op(q)' = op(q) /\ xb(q)' = xb(q)
  BY <1>3 DEF op, xb
<1>8. Closers'
  BY <1>5, <1>7 DEF DInv, Closers, ClosedBy
<1>9. ASSUME NEW q \in Procs
      PROVE  ReaderAt(q)'
  <2>1. CASE q = p
    BY <1>3, <2>1 DEF ReaderAt, ret, NoFrame, Frame
  <2>2. CASE q # p
    BY <1>1, <1>3, <2>2 DEF DInv, ReaderAt, op, ret
  <2> QED
    BY <2>1, <2>2
<1> QED
  BY <1>5, <1>6, <1>8, <1>9 DEF DInv

(* Falling asleep changes no more than B_WANTED.                           *)
LEMMA SleepData ==
  ASSUME IInv, DInv, NEW p \in Procs, NEW k, Runs(p, k), k \notin {"d_close", "hold"},
         pc' = pc, UNCHANGED <<blk, ioq, dataVars, bp>>,
         \A c \in Bufs : flags'[c] = flags[c] \/ flags'[c] = flags[c] \cup {"B_WANTED"},
         \A q \in Procs : q # p => frame'[q] = frame[q],
         op(p)' = op(p), ret(p)' = ret(p)
  PROVE  DInv'
<1>1. UNCHANGED <<latest, dlatest>> /\ pc[p] = k
  BY DEF dataVars, Runs
<1>2. \A c \in Bufs : Still(c)
  BY <1>1 DEF Still
<1>3. ReaderAt(p)'
  BY <1>1 DEF DInv, ReaderAt
<1>4. \A q \in Procs : Stays(q) \/ Moves(q)
  BY <1>1, <1>3 DEF Stays, Moves
<1> QED
  BY <1>1, <1>2, <1>4, StillData

LEMMA SleepsData ==
  ASSUME IInv, DInv, NEW p \in Procs,
         \/ GetblkSleep(p) \/ BlkflushSleep(p) \/ SyncipSleep(p)
         \/ GetnewbufSleep(p) \/ BiowaitSleep(p)
  PROVE  DInv'
<1>1. PICK k \in {"getblk", "blkflush", "syncip", "getnewbuf", "rwait", "wwait"} : Runs(p, k)
  BY DEF GetblkSleep, BlkflushSleep, SyncipSleep, GetnewbufSleep, BiowaitSleep
<1>2. frame \in [Procs -> FrameType] /\ flags \in [Bufs -> SUBSET FlagSet]
  BY DEF IInv, TypeOK
<1>3. ASSUME NEW b \in Bufs, AwaitBuf(p, b)
      PROVE  /\ pc' = pc /\ UNCHANGED <<blk, ioq, dataVars, bp>>
             /\ \A c \in Bufs : flags'[c] = flags[c] \/ flags'[c] = flags[c] \cup {"B_WANTED"}
  BY <1>2, <1>3 DEF AwaitBuf, Sleep
<1>4. CASE GetblkSleep(p) \/ BlkflushSleep(p)
  <2>1. frame' = frame /\ \E b \in Bufs : AwaitBuf(p, b)
    BY <1>4 DEF GetblkSleep, BlkflushSleep, Match
  <2> QED
    BY <1>1, <1>3, <2>1, SleepData DEF op, ret
<1>5. CASE SyncipSleep(p)
  <2>1. PICK b \in Bufs : AwaitBuf(p, b) /\ frame' = [frame EXCEPT ![p].lbn = b]
    BY <1>5 DEF SyncipSleep
  <2>2. /\ \A q \in Procs : q # p => frame'[q] = frame[q]
        /\ frame'[p].op = frame[p].op /\ frame'[p].ret = frame[p].ret
    BY <1>2, <2>1 DEF FrameType
  <2> QED
    BY <1>1, <1>3, <2>1, <2>2, SleepData DEF op, ret
<1>6. CASE GetnewbufSleep(p)
  <2>1. /\ frame' = [frame EXCEPT ![p].slept = TRUE] /\ pc' = pc
        /\ UNCHANGED <<flags, blk, ioq, dataVars, bp>>
    BY <1>6 DEF GetnewbufSleep, Sleep
  <2>2. /\ \A q \in Procs : q # p => frame'[q] = frame[q]
        /\ frame'[p].op = frame[p].op /\ frame'[p].ret = frame[p].ret
    BY <1>2, <2>1 DEF FrameType
  <2> QED
    BY <1>1, <2>1, <2>2, SleepData DEF op, ret
<1>7. CASE BiowaitSleep(p)
  <2>1. frame' = frame /\ pc' = pc /\ UNCHANGED <<flags, blk, ioq, dataVars, bp>>
    BY <1>7 DEF BiowaitSleep, Sleep, bufVars
  <2> QED
    BY <1>1, <2>1, SleepData DEF op, ret
<1> QED
  BY <1>4, <1>5, <1>6, <1>7

LEMMA BwriteAgeData ==
  ASSUME IInv, DInv, NEW p \in Procs, BwriteAge(p)
  PROVE  DInv'
<1>1. PICK l \in {"idle", "bflush", "getnewbuf"} : Goto(p, l)
  BY DEF BwriteAge
<1>2. /\ Runs(p, "age") /\ Step(p, l, frame[p]) /\ l \in PCs
      /\ flags' = [flags EXCEPT ![wb[p]] = @ \cup {"B_AGE"}]
      /\ UNCHANGED <<blk, ioq, latest, dlatest, bp>>
  BY <1>1 DEF BwriteAge, Goto, dataVars, PCs
<1>3. frame[p] \in FrameType /\ ("take" \in {l, frame[p].ret} => frame[p].op \in Takers)
  BY FrameTake
<1>4. \A c \in Bufs : flags'[c] = flags[c] \/ flags'[c] = flags[c] \cup {"B_AGE"}
  BY <1>2 DEF IInv, TypeOK
<1>5. \A c \in Bufs : Still(c)
  BY <1>2, <1>4 DEF Still
<1>6. \A q \in Procs : Stays(q) \/ Moves(q)
  BY <1>2, <1>3, Going
<1> QED
  BY <1>2, <1>5, <1>6, StillData

(* A step that changes one buffer.                                         *)
LEMMA OneData ==
  ASSUME IInv, DInv, NEW b \in Bufs, \A q \in Procs : Stays(q) \/ Moves(q),
         \A c \in Bufs : c # b => Still(c), Changed(b), dlatest' = dlatest,
         Carries(b) => Carries(b)' /\ blk'[b] = blk[b]
  PROVE  DInv'
<1>1. \A c \in Bufs : Carries(c) => Carries(c)' /\ blk'[c] = blk[c]
  BY StillFacts
<1>2. Carried'
  BY <1>1, CarriedKept DEF DInv
<1> QED
  BY <1>2, DataStep

(* What bwrite hands to the driver is what the buffer should hold.         *)
LEMMA WrittenOut ==
  ASSUME IInv, NEW b \in Bufs, b \notin Elems(ioq), Valid(b), latest'[b],
         NEW g, flags'[b] = WriteFlags(g), Strategy(b, FALSE), blk'[b] = blk[b],
         "B_INVAL" \notin g, DataAt(b), \A q \in Procs : bp[q] = b => Moves(q)
  PROVE  Changed(b) /\ Carries(b)' /\ Elems(ioq') = Elems(ioq) \cup {b}
<1>1. Elems(ioq') = Elems(ioq) \cup {b}
  BY StrategyFacts DEF IInv, TypeOK, NoDupBiodone
<1>2. /\ {"B_READ", "B_DONE", "B_ERROR", "B_INVAL"} \cap flags'[b] = {}
  BY DEF WriteFlags
<1>3. Writing(b)' /\ Valid(b)'
  BY <1>1, <1>2 DEF Writing, IsRead, Valid
<1>4. DataAt(b)' /\ Carries(b)'
  BY <1>2, <1>3 DEF DataAt, Carries
<1> QED
  BY <1>1, <1>3, <1>4 DEF Changed

(* A free delayed write is written.                                        *)
LEMMA DirtyOut ==
  ASSUME IInv, CInv, DInv, NEW b \in Bufs, ~ Busy(b), Delwri(b),
         NEW m \in SUBSET {"B_BUSY", "B_ASYNC"}, "B_BUSY" \in m,
         NotAvail(b, WriteFlags(flags[b] \cup m)), Strategy(b, FALSE),
         UNCHANGED <<blk, dataVars>>, \A q \in Procs : Stays(q) \/ Moves(q)
  PROVE  DInv'
<1>1. (\A q \in Procs : ~ Owns(q, b)) /\ b \notin Elems(ioq)
  BY FreeNotOwned
<1>2. "B_DONE" \in flags[b] /\ Valid(b)
  BY DEF CInv, DelwriDone, NoStaleDelwri
<1>3. latest[b] /\ DataAt(b) /\ UNCHANGED <<latest, dlatest>>
  BY <1>2 DEF DInv, DataAt, dataVars
<1>4. PICK g \in SUBSET FlagSet : g = flags[b] \cup m
  BY DEF IInv, TypeOK, FlagSet
<1>5. /\ WriteFlags(g) \in SUBSET FlagSet /\ "B_BUSY" \in WriteFlags(g)
      /\ "B_INVAL" \notin g
  BY <1>2, <1>4, WriteFlagsFacts DEF Valid
<1>6. flags'[b] = WriteFlags(g) /\ \A c \in Bufs : c # b => flags'[c] = flags[c]
  BY <1>4, <1>5, NotAvailFacts DEF IInv
<1>7. Changed(b) /\ Carries(b)' /\ Elems(ioq') = Elems(ioq) \cup {b}
  BY <1>1, <1>2, <1>3, <1>5, <1>6, WrittenOut DEF Owns
<1>8. \A c \in Bufs : c # b => Still(c)
  BY <1>3, <1>6, <1>7 DEF Still
<1> QED
  BY <1>3, <1>7, <1>8, OneData

LEMMA PushOutData ==
  ASSUME IInv, CInv, DInv, NEW p \in Procs,
         NEW k \in {"getnewbuf", "bflush"}, Runs(p, k),
         NEW b \in Bufs, ~ Busy(b), Delwri(b), PushOut(p, b)
  PROVE  DInv'
<1>1. /\ NotAvail(b, WriteFlags(flags[b] \cup {"B_BUSY", "B_ASYNC"}))
      /\ Strategy(b, FALSE) /\ Step(p, "age", frame[p]) /\ "age" \in PCs
      /\ UNCHANGED <<blk, dataVars, bp>>
  BY DEF PushOut, Goto, PCs
<1>2. frame[p] \in FrameType /\ ("take" \in {"age", frame[p].ret} => frame[p].op \in Takers)
  BY FrameTake
<1>3. \A q \in Procs : Stays(q) \/ Moves(q)
  BY <1>1, <1>2, Going
<1>4. PICK m \in SUBSET {"B_BUSY", "B_ASYNC"} : m = {"B_BUSY", "B_ASYNC"}
  OBVIOUS
<1>5. "B_BUSY" \in m /\ NotAvail(b, WriteFlags(flags[b] \cup m))
  BY <1>1, <1>4
<1> QED
  BY <1>1, <1>3, <1>5, DirtyOut

LEMMA FlushBufData ==
  ASSUME IInv, CInv, DInv, NEW p \in Procs, NEW r \in {"syncip", "blkflush"}, Runs(p, r),
         NEW b \in Bufs, NEW n \in Nat \ {0}, Delwri(b), FlushBuf(p, b, r, n)
  PROVE  DInv'
<1>1. /\ ~ Busy(b) /\ NotAvail(b, WriteFlags(flags[b] \cup {"B_BUSY"}))
      /\ Strategy(b, FALSE) /\ bp' = [bp EXCEPT ![p] = b]
      /\ Step(p, "wwait", [frame[p] EXCEPT !.ret = r, !.lbn = n])
      /\ UNCHANGED <<blk, dataVars>> /\ "wwait" \in PCs /\ r \in PCs
  BY DEF FlushBuf, PCs
<1>2. PICK f \in FrameType : f = [frame[p] EXCEPT !.ret = r, !.lbn = n]
  BY <1>1, FrameOf, FrameEdits
<1>3. f.ret = r
  BY <1>2, FrameOf DEF FrameType
<1>4. \A q \in Procs : q # p => bp'[q] = bp[q]
  BY <1>1 DEF IInv, TypeOK
<1>5. Step(p, "wwait", f)
  BY <1>1, <1>2
<1>6. \A q \in Procs : Stays(q) \/ Moves(q)
  BY <1>1, <1>3, <1>4, <1>5, Going
<1>7. PICK m \in SUBSET {"B_BUSY", "B_ASYNC"} : m = {"B_BUSY"}
  OBVIOUS
<1>8. "B_BUSY" \in m /\ NotAvail(b, WriteFlags(flags[b] \cup m))
  BY <1>1, <1>7
<1> QED
  BY <1>1, <1>6, <1>8, DirtyOut

LEMMA FlushesData ==
  ASSUME IInv, CInv, DInv, NEW p \in Procs,
         GetnewbufWrite(p) \/ BflushWrite(p) \/ SyncipWrite(p) \/ BlkflushWrite(p)
  PROVE  DInv'
<1>1. CASE GetnewbufWrite(p)
  <2>1. /\ Oldest \in Bufs /\ ~ Busy(Oldest) /\ Delwri(Oldest)
        /\ Runs(p, "getnewbuf") /\ PushOut(p, Oldest)
    BY <1>1, OldestFree DEF GetnewbufWrite, IInv
  <2> QED
    BY <2>1, PushOutData
<1>2. CASE BflushWrite(p)
  <2>1. PICK i \in DOMAIN ScanOrder : Delwri(ScanOrder[i]) /\ PushOut(p, ScanOrder[i])
    BY <1>2 DEF BflushWrite, Flushable
  <2>2. ScanOrder[i] \in Bufs /\ ~ Busy(ScanOrder[i]) /\ Runs(p, "bflush")
    BY <1>2, ScanOrderFree DEF IInv, BflushWrite
  <2> QED
    BY <2>1, <2>2, PushOutData
<1>3. CASE SyncipWrite(p)
  <2>1. PICK b \in Bufs : Delwri(b) /\ FlushBuf(p, b, "syncip", b + 1)
    BY <1>3 DEF SyncipWrite, IsFirst, Dirty
  <2>2. Runs(p, "syncip") /\ b + 1 \in Nat \ {0}
    BY <1>3, BufferCacheAssumption DEF SyncipWrite, Bufs
  <2> QED
    BY <2>1, <2>2, FlushBufData
<1>4. CASE BlkflushWrite(p)
  <2>1. PICK b \in Bufs : Delwri(b) /\ FlushBuf(p, b, "blkflush", lbn(p))
    BY <1>4 DEF BlkflushWrite, Match
  <2>2. Runs(p, "blkflush") /\ lbn(p) \in Nat \ {0}
    BY <1>4, FrameOf DEF BlkflushWrite
  <2> QED
    BY <2>1, <2>2, FlushBufData
<1> QED
  BY <1>1, <1>2, <1>3, <1>4

(* getblk's search finds a free buffer.                                    *)
LEMMA GetblkHitData ==
  ASSUME IInv, CInv, DInv, NEW p \in Procs, GetblkHit(p)
  PROVE  DInv'
<1>1. PICK b \in Bufs : NotAvail(b, flags[b] \cup {"B_BUSY"})
  BY DEF GetblkHit, Match
<1>2. /\ Runs(p, "getblk") /\ Step(p, ret(p), frame[p])
      /\ UNCHANGED <<blk, ioq, latest, dlatest, bp>>
  BY DEF GetblkHit, Goto, dataVars
<1>3. /\ frame[p] \in FrameType /\ ret(p) \in PCs /\ frame[p].ret = ret(p)
      /\ "take" \in {ret(p), frame[p].ret} => frame[p].op \in Takers
  BY FrameTake, FrameOf
<1>4. ret(p) \notin {"d_close", "hold"}
  BY <1>2 DEF IInv, FrameOK, FrameAt, Runs, Fetching
<1>5. \A q \in Procs : Stays(q) \/ Moves(q)
  BY <1>2, <1>3, <1>4, Going
<1>6. flags[b] \cup {"B_BUSY"} \in SUBSET FlagSet
  BY DEF IInv, TypeOK, FlagSet
<1>7. \A c \in Bufs : flags'[c] = flags[c] \/ flags'[c] = flags[c] \cup {"B_BUSY"}
  BY <1>1, <1>6, NotAvailFacts DEF IInv
<1>8. \A c \in Bufs : Still(c)
  BY <1>2, <1>7 DEF Still
<1> QED
  BY <1>2, <1>5, <1>8, StillData

(* The device of the block a process fetches is not being closed.          *)
LEMMA FetchOpen ==
  ASSUME IInv, CInv, NEW p \in Procs, op(p) \in Fetchers \ {"geteblk"},
         NEW x \in {xb(p), ra(p)}, x = ra(p) => op(p) = "breada" \/ x = xb(p),
         NEW q \in Procs, op(q) = "close"
  PROVE  xb(q)[1] # Dblk(x)[1]
<1>1. q # p
  BY DEF Fetchers
<1>2. x[1] = xb(p)[1]
  BY DEF CInv, OwnAt, NamedAt
<1>3. Dblk(x)[1] = x[1]
  BY DEF Dblk
<1> QED
  BY <1>1, <1>2, <1>3 DEF CInv, CloseAlone

(* A clean buffer is given another name.                                   *)
LEMMA GetnewbufTakeData ==
  ASSUME IInv, CInv, DInv, NEW p \in Procs, GetnewbufTake(p)
  PROVE  DInv'
<1>1. PICK b \in Bufs : b = Oldest /\ ~ Busy(b)
  BY OldestFree DEF GetnewbufTake, IInv
<1>2. /\ Runs(p, "getnewbuf") /\ Step(p, ret(p), frame[p]) /\ ~ Delwri(b)
      /\ latest' = [latest EXCEPT ![b] = FALSE]
      /\ UNCHANGED <<ioq, dlatest, bp>>
  BY <1>1 DEF GetnewbufTake, Goto
<1>3. /\ frame[p] \in FrameType /\ ret(p) \in PCs /\ frame[p].ret = ret(p)
      /\ "take" \in {ret(p), frame[p].ret} => frame[p].op \in Takers
  BY FrameTake, FrameOf
<1>4. FrameAt(p) /\ pc[p] = "getnewbuf"
  BY <1>2 DEF IInv, FrameOK, Runs
<1>5. ret(p) \notin {"d_close", "hold"}
  BY <1>4 DEF FrameAt, Fetching
<1>6. \A q \in Procs : Stays(q) \/ Moves(q)
  BY <1>2, <1>3, <1>5, Going
<1>7. (\A q \in Procs : ~ Owns(q, b)) /\ b \notin Elems(ioq)
  BY <1>1, FreeNotOwned
<1>8. PICK f \in SUBSET {"B_BUSY", "B_INVAL"}, x \in {NoBlk, Dblk(Want(p))} :
        /\ NotAvail(b, f) /\ "B_BUSY" \in f /\ blk' = [blk EXCEPT ![b] = x]
        /\ op(p) = "geteblk" => "B_INVAL" \in f
        /\ op(p) # "geteblk" => x = Dblk(Want(p))
  <2>1. CASE op(p) = "geteblk"
    <3>1. NotAvail(b, {"B_BUSY", "B_INVAL"}) /\ blk' = [blk EXCEPT ![b] = NoBlk]
      BY <1>1, <2>1 DEF GetnewbufTake
    <3> QED
      BY <2>1, <3>1
  <2>2. CASE op(p) # "geteblk"
    <3>1. NotAvail(b, {"B_BUSY"}) /\ blk' = [blk EXCEPT ![b] = Dblk(Want(p))]
      BY <1>1, <2>2 DEF GetnewbufTake
    <3> QED
      BY <2>2, <3>1
  <2> QED
    BY <2>1, <2>2
<1>9. /\ flags'[b] = f /\ blk'[b] = x
      /\ \A c \in Bufs : c # b => flags'[c] = flags[c] /\ blk'[c] = blk[c]
  <2>1. f \in SUBSET FlagSet
    BY DEF FlagSet
  <2>2. flags'[b] = f /\ \A c \in Bufs : c # b => flags'[c] = flags[c]
    BY <1>8, <2>1, NotAvailFacts DEF IInv
  <2> QED
    BY <1>8, <2>2 DEF IInv, TypeOK
<1>10. ~ latest'[b] /\ \A c \in Bufs : c # b => latest'[c] = latest[c]
  BY <1>2 DEF IInv, TypeOK
<1>11. \A c \in Bufs : c # b => Still(c)
  BY <1>2, <1>9, <1>10 DEF Still
<1>12. ~ Writing(b)' /\ DataAt(b)'
  <2>1. "B_INVAL" \notin f => x \in DevBlks
    <3>1. Want(p) \in Blocks \/ op(p) = "geteblk"
      BY <1>4 DEF FrameAt, Want, Fetchers
    <3> QED
      BY <1>8, <3>1 DEF DevBlks
  <2>2. ~ Writing(b)'
    BY <1>2, <1>7 DEF Writing
  <2> QED
    BY <1>9, <1>10, <2>1, <2>2 DEF DataAt, Valid
<1>13. Valid(b)' => \A q \in Procs : op(q) = "close" => xb(q)[1] # blk'[b][1]
  <2> SUFFICES ASSUME "B_INVAL" \notin f, NEW q \in Procs, op(q) = "close"
               PROVE  xb(q)[1] # x[1]
    BY <1>9 DEF Valid
  <2>1. op(p) # "geteblk" /\ x = Dblk(Want(p)) /\ op(p) \in Fetchers \ {"geteblk"}
    BY <1>4, <1>8 DEF FrameAt
  <2>2. Want(p) \in {xb(p), ra(p)} /\ (Want(p) = ra(p) => op(p) = "breada" \/ Want(p) = xb(p))
    BY <1>4 DEF FrameAt, Want
  <2> QED
    BY <2>1, <2>2, FetchOpen
<1>14. Changed(b)
  BY <1>7, <1>12, <1>13 DEF Changed, Owns
<1>15. ~ Carries(b)
  BY <1>2, <1>7 DEF Carries, Writing
<1> QED
  BY <1>2, <1>6, <1>11, <1>14, <1>15, OneData

(* A buffer with no data is given to the driver to be read.                *)
LEMMA ReadIn ==
  ASSUME IInv, DInv, NEW b \in Bufs, b \notin Elems(ioq), ~ HasData(b),
         NEW m \in SUBSET {"B_READ", "B_ASYNC"}, "B_READ" \in m, StartRead(b, m),
         UNCHANGED <<blk, dataVars>>, \A q \in Procs : Stays(q) \/ Moves(q)
  PROVE  DInv' /\ b \in Elems(ioq')
<1>1. /\ flags' = [flags EXCEPT ![b] = @ \cup m] /\ Strategy(b, TRUE)
      /\ UNCHANGED <<blk, latest, dlatest>>
  BY DEF StartRead, dataVars
<1>2. flags'[b] = flags[b] \cup m /\ \A c \in Bufs : c # b => flags'[c] = flags[c]
  BY <1>1 DEF IInv, TypeOK
<1>3. Elems(ioq') = Elems(ioq) \cup {b}
  BY <1>1, StrategyFacts DEF IInv, TypeOK, NoDupBiodone
<1>4. \A c \in Bufs : c # b => Still(c)
  BY <1>1, <1>2, <1>3 DEF Still
<1>5. "B_DONE" \notin flags[b] /\ ~ Delwri(b) /\ ~ Writing(b)
  BY DEF HasData, Delwri, Writing
<1>6. ~ latest[b] /\ "B_ERROR" \notin flags[b] /\ (Valid(b) => blk[b] \in DevBlks)
  BY <1>5 DEF DInv, DataAt
<1>7. "B_DONE" \notin flags'[b] /\ "B_ERROR" \notin flags'[b] /\ "B_READ" \in flags'[b]
  BY <1>2, <1>5, <1>6
<1>8. ~ Writing(b)' /\ ~ latest'[b] /\ (Valid(b)' <=> Valid(b))
  BY <1>1, <1>2, <1>6, <1>7 DEF Writing, IsRead, Valid
<1>9. Changed(b) /\ ~ Carries(b)
  BY <1>1, <1>5, <1>6, <1>7, <1>8 DEF Changed, DataAt, Carries
<1> QED
  BY <1>1, <1>3, <1>4, <1>9, OneData

LEMMA GotFirstData ==
  ASSUME IInv, CInv, DInv, NEW p \in Procs,
         NEW k \in {"bread", "breada"}, Runs(p, k),
         NEW hit \in {"hold", "ra_check"}, NEW miss \in {"rwait", "ra_check"},
         GotFirst(p, hit, miss)
  PROVE  DInv'
<1>1. PICK b \in Bufs : b = wb[p]
  BY DEF Runs, IInv, LocalBufs, LocalAt, TypeOK, Fetching
<1>2. /\ bp' = [bp EXCEPT ![p] = b] /\ UNCHANGED <<blk, dataVars>>
  BY <1>1 DEF GotFirst
<1>3. b \notin Elems(ioq) /\ hit \in PCs /\ miss \in PCs
  BY <1>1 DEF Runs, IInv, LocalBufs, LocalAt, Fetching, PCs
<1>4. bp'[p] = b /\ \A q \in Procs : q # p => bp'[q] = bp[q]
  BY <1>2 DEF IInv, TypeOK
<1>5. frame[p] \in FrameType /\ ("take" = frame[p].ret => frame[p].op \in Takers)
  BY FrameTake
<1>6. CASE HasData(b)
  <2>1. Step(p, hit, frame[p]) /\ UNCHANGED <<flags, ioq, latest, dlatest>>
    BY <1>1, <1>2, <1>6 DEF GotFirst, Goto, dataVars
  <2>2. "B_DONE" \in flags[b]
    BY <1>6 DEF HasData, CInv, DelwriDone, Delwri
  <2>3. \A c \in Bufs : Still(c)
    BY <1>2, <2>1 DEF Still
  <2>4. "B_DONE" \in flags'[bp'[p]]
    BY <1>4, <2>1, <2>2
  <2>5. \A q \in Procs : Stays(q) \/ Moves(q)
    BY <1>3, <1>4, <1>5, <2>1, <2>4, Going
  <2> QED
    BY <2>1, <2>3, <2>5, StillData
<1>7. CASE ~ HasData(b)
  <2>1. Step(p, miss, frame[p]) /\ StartRead(b, {"B_READ"})
    BY <1>1, <1>7 DEF GotFirst, Goto
  <2>2. \A q \in Procs : Stays(q) \/ Moves(q)
    BY <1>3, <1>4, <1>5, <2>1, Going
  <2>3. PICK m \in SUBSET {"B_READ", "B_ASYNC"} : m = {"B_READ"}
    OBVIOUS
  <2>4. "B_READ" \in m /\ StartRead(b, m)
    BY <2>1, <2>3
  <2> QED
    BY <1>2, <1>3, <1>7, <2>2, <2>4, ReadIn
<1> QED
  BY <1>6, <1>7

LEMMA GotFirstsData ==
  ASSUME IInv, CInv, DInv, NEW p \in Procs, Bread(p) \/ BreadaFirst(p)
  PROVE  DInv'
BY GotFirstData DEF Bread, BreadaFirst

LEMMA RaheadStartData ==
  ASSUME IInv, CInv, DInv, NEW p \in Procs, RaheadStart(p)
  PROVE  DInv'
<1>1. /\ Runs(p, "rahead") /\ Step(p, "ra_done", frame[p]) /\ ~ HasData(wb[p])
      /\ StartRead(wb[p], {"B_READ", "B_ASYNC"}) /\ "ra_done" \in PCs
      /\ UNCHANGED <<blk, dataVars, bp>>
  BY DEF RaheadStart, Goto, PCs
<1>2. wb[p] \in Bufs /\ wb[p] \notin Elems(ioq)
  BY <1>1, RaheadBuf
<1>3. frame[p] \in FrameType /\ ("take" = frame[p].ret => frame[p].op \in Takers)
  BY FrameTake
<1>4. \A q \in Procs : Stays(q) \/ Moves(q)
  BY <1>1, <1>3, Going
<1>5. PICK m \in SUBSET {"B_READ", "B_ASYNC"} : m = {"B_READ", "B_ASYNC"}
  OBVIOUS
<1>6. "B_READ" \in m /\ StartRead(wb[p], m)
  BY <1>1, <1>5
<1> QED
  BY <1>1, <1>2, <1>4, <1>6, ReadIn

(* A buffer is released as it is.                                          *)
LEMMA ReleaseData ==
  ASSUME IInv, DInv, NEW p \in Procs, NEW k \in {"rahead", "hold", "brelse"}, Runs(p, k),
         NEW l \in {"ra_done", "idle", "fsynced", "syncip", "blkflush"}, Goto(p, l),
         NEW b \in Bufs, Owns(p, b), NEW m \in {{}, {"B_AGE"}}, Brelse(b, flags[b] \cup m),
         UNCHANGED <<ioq, dataVars>>, \A q \in Procs : q # p => bp'[q] = bp[q]
  PROVE  DInv'
<1>1. UNCHANGED <<latest, dlatest>> /\ Busy(b) /\ Step(p, l, frame[p]) /\ l \in PCs
  BY OwnedAlone DEF dataVars, Goto, PCs
<1>2. PICK g \in SUBSET FlagSet : g = flags[b] \cup m
  BY DEF IInv, TypeOK, FlagSet
<1>3. /\ flags'[b] = g \ {"B_WANTED", "B_BUSY", "B_ASYNC", "B_AGE"}
      /\ \A c \in Bufs : c # b => flags'[c] = flags[c]
  BY <1>1, <1>2, BrelseFacts DEF IInv
<1>4. "B_ERROR" \notin flags[b] \cup m
  BY DEF DInv, DataAt
<1>5. blk' = blk
  BY <1>4 DEF Brelse
<1>6. \A c \in Bufs : Still(c)
  BY <1>1, <1>2, <1>3, <1>5 DEF Still
<1>7. frame[p] \in FrameType /\ ("take" = frame[p].ret => frame[p].op \in Takers)
  BY FrameTake
<1>8. \A q \in Procs : Stays(q) \/ Moves(q)
  BY <1>1, <1>7, Going
<1> QED
  BY <1>1, <1>6, <1>8, StillData

LEMMA ReleasesData ==
  ASSUME IInv, DInv, NEW p \in Procs,
         RaheadHit(p) \/ HoldBrelse(p) \/ BwriteBrelse(p)
  PROVE  DInv'
<1>1. CASE RaheadHit(p)
  <2>1. /\ Runs(p, "rahead") /\ Goto(p, "ra_done") /\ Brelse(wb[p], flags[wb[p]] \cup {})
        /\ UNCHANGED <<ioq, dataVars>> /\ bp' = bp
    BY <1>1 DEF RaheadHit
  <2>2. wb[p] \in Bufs /\ Owns(p, wb[p])
    BY <2>1, RaheadBuf
  <2> QED
    BY <2>1, <2>2, ReleaseData
<1>2. CASE HoldBrelse(p)
  <2>1. PICK aged \in {{}, {"B_AGE"}} : Brelse(bp[p], flags[bp[p]] \cup aged)
    BY <1>2 DEF HoldBrelse
  <2>2. PICK l \in {"idle", "fsynced"} : Goto(p, l)
    BY <1>2 DEF HoldBrelse
  <2>3. /\ Runs(p, "hold") /\ UNCHANGED <<ioq, dataVars>>
        /\ \A q \in Procs : q # p => bp'[q] = bp[q]
    BY <1>2 DEF HoldBrelse, IInv, TypeOK
  <2>4. bp[p] \in Bufs /\ Owns(p, bp[p])
    BY <2>3, HeldBuf
  <2> QED
    BY <2>1, <2>2, <2>3, <2>4, ReleaseData
<1>3. CASE BwriteBrelse(p)
  <2>1. /\ Runs(p, "brelse") /\ Brelse(bp[p], flags[bp[p]] \cup {})
        /\ UNCHANGED <<ioq, dataVars>>
        /\ \A q \in Procs : q # p => bp'[q] = bp[q]
    BY <1>3 DEF BwriteBrelse, IInv, TypeOK
  <2>2. bp[p] \in Bufs /\ Owns(p, bp[p]) /\ FrameAt(p) /\ pc[p] = "brelse"
    BY <2>1, HeldBuf
  <2>3. PICK l \in {"idle", "fsynced", "syncip", "blkflush"} : Goto(p, l)
    <3>1. CASE op(p) = "fsync"
      BY <1>3, <2>2, <3>1 DEF BwriteBrelse, FrameAt
    <3>2. CASE op(p) = "iupdat"
      BY <1>3, <3>2 DEF BwriteBrelse
    <3>3. CASE op(p) # "fsync" /\ op(p) # "iupdat"
      BY <1>3, <3>3 DEF BwriteBrelse
    <3> QED
      BY <3>1, <3>2, <3>3
  <2> QED
    BY <2>1, <2>2, <2>3, ReleaseData
<1> QED
  BY <1>1, <1>2, <1>3

(* binval: what is not at the driver holds nothing the disk lacks.         *)
LEMMA BinvalData ==
  ASSUME IInv, CInv, DInv, NEW p \in Procs, Binval(p)
  PROVE  DInv'
<1>1. /\ Runs(p, "binval") /\ Step(p, "d_close", frame[p])
      /\ UNCHANGED <<blk, ioq, latest, dlatest, bp>> /\ "d_close" \in PCs
  BY DEF Binval, Goto, dataVars, PCs
<1>2. frame[p] \in FrameType
  BY FrameTake
<1>3. /\ pc[p] = "binval" /\ pc'[p] = "d_close" /\ frame'[p] = frame[p]
      /\ \A q \in Procs : q # p => pc'[q] = pc[q] /\ frame'[q] = frame[q]
  BY <1>1, <1>2, Went DEF Leaves
<1>4. op(p) = "close"
  BY <1>3 DEF CInv, OwnAt, NamedAt
<1>5. \A c \in Bufs : flags'[c] = IF blk[c][1] = xb(p)[1]
                                   THEN flags[c] \cup {"B_INVAL"} ELSE flags[c]
  BY DEF Binval
<1>6. \A c \in Bufs : /\ Writing(c)' <=> Writing(c)
                      /\ Delwri(c)' <=> Delwri(c)
                      /\ "B_DONE" \in flags'[c] <=> "B_DONE" \in flags[c]
                      /\ "B_ERROR" \in flags'[c] <=> "B_ERROR" \in flags[c]
                      /\ Valid(c)' <=> Valid(c) /\ blk[c][1] # xb(p)[1]
  <2> SUFFICES ASSUME NEW c \in Bufs
               PROVE  /\ Writing(c)' <=> Writing(c)
                      /\ Delwri(c)' <=> Delwri(c)
                      /\ "B_DONE" \in flags'[c] <=> "B_DONE" \in flags[c]
                      /\ "B_ERROR" \in flags'[c] <=> "B_ERROR" \in flags[c]
                      /\ Valid(c)' <=> Valid(c) /\ blk[c][1] # xb(p)[1]
    OBVIOUS
  <2>1. \A e \in FlagSet \ {"B_INVAL"} : e \in flags'[c] <=> e \in flags[c]
    BY <1>5
  <2>2. "B_INVAL" \in flags'[c] <=> "B_INVAL" \in flags[c] \/ blk[c][1] = xb(p)[1]
    BY <1>5
  <2>3. {"B_READ", "B_DELWRI", "B_DONE", "B_ERROR"} \subseteq FlagSet \ {"B_INVAL"}
    BY DEF FlagSet
  <2> QED
    BY <1>1, <2>1, <2>2, <2>3 DEF Writing, IsRead, Delwri, Valid
<1>7. \A c \in Bufs : DataAt(c)' /\ (Carries(c)' <=> Carries(c))
  BY <1>1, <1>6 DEF DInv, DataAt, Carries
<1>8. Carried'
  BY <1>1, <1>7, CarriedKept DEF DInv
<1>9. \A q \in Procs : op(q)' = op(q) /\ xb(q)' = xb(q) /\ ret(q)' = ret(q)
  BY <1>3 DEF op, xb, ret
<1>10. Closers'
  <2>1. \A q \in Procs : pc'[q] = "d_close" => op(q)' = "close"
    BY <1>3, <1>4, <1>9 DEF DInv, Closers
  <2>2. ASSUME NEW q \in Procs, NEW c \in Bufs, ClosedBy(q, c)', Valid(c)'
        PROVE  FALSE
    <3>1. Valid(c) /\ blk[c][1] # xb(p)[1] /\ pc'[q] = "d_close" /\ xb(q)[1] = blk[c][1]
      BY <1>1, <1>6, <1>9, <2>2 DEF ClosedBy
    <3> QED
      BY <1>3, <3>1 DEF DInv, Closers, ClosedBy
  <2>3. ASSUME NEW c \in Bufs, Writing(c)', ~ Valid(c)'
        PROVE  \E q \in Procs : ClosedBy(q, c)'
    <3>1. CASE blk[c][1] = xb(p)[1]
      <4>1. ClosedBy(p, c)'
        BY <1>1, <1>3, <1>9, <3>1 DEF ClosedBy
      <4> QED
        BY <4>1
    <3>2. CASE blk[c][1] # xb(p)[1]
      <4>1. PICK q \in Procs : ClosedBy(q, c)
        BY <1>6, <2>3, <3>2 DEF DInv, Closers
      <4>2. ClosedBy(q, c)'
        BY <1>1, <1>3, <1>9, <4>1 DEF ClosedBy
      <4> QED
        BY <4>2
    <3> QED
      BY <3>1, <3>2
  <2> QED
    BY <2>1, <2>2, <2>3 DEF Closers
<1>11. ASSUME NEW q \in Procs
       PROVE  ReaderAt(q)'
  <2>1. pc'[q] = pc[q] \/ pc'[q] = "d_close"
    BY <1>3
  <2>2. pc[q] = "hold" => bp[q] \in Bufs
    BY DEF IInv, TypeOK, LocalBufs, LocalAt
  <2> QED
    BY <1>1, <1>6, <1>9, <2>1, <2>2 DEF DInv, ReaderAt
<1> QED
  BY <1>7, <1>8, <1>10, <1>11 DEF DInv

(* Only the updated buffer holds the block as it should be, and nobody has *)
(* another one with its data.                                              *)
LEMMA Updated ==
  ASSUME IInv, CInv, DInv, UniqueBlock, NEW p \in Procs, Runs(p, "hold"), Update(p),
         NEW b \in Bufs, b = bp[p]
  PROVE  /\ latest'[b] /\ Valid(b) /\ "B_ERROR" \notin flags[b]
         /\ \A c \in Bufs : c # b => \/ blk[c] # blk[b] /\ latest'[c] = latest[c]
                                     \/ ~ latest'[c] /\ ~ Valid(c) /\ ~ Writing(c)
         /\ \A x \in DevBlks : dlatest'[x] = dlatest[x] \/ x = blk[b]
<1>1. /\ op(p) \in {"bread", "getblk", "iupdat"} /\ "B_ERROR" \notin flags[b]
      /\ latest' = [ c \in Bufs |-> IF c = b THEN op(p) = "getblk" \/ latest[b]
                                    ELSE latest[c] /\ blk[c] # blk[b] ]
      /\ dlatest' = [dlatest EXCEPT ![blk[b]] = FALSE]
  BY DEF Update
<1>2. Owns(p, b) /\ pc[p] = "hold"
  BY HeldBuf
<1>3. blk[b] = Dblk(xb(p)) /\ Valid(b)
  BY <1>1, <1>2 DEF CInv, OwnAt, NamedAt, NamedBuf
<1>4. xb(p) \in Blocks
  BY <1>1 DEF IInv, FrameOK, FrameAt
<1>5. blk[b] # NoBlk /\ blk[b][1] = xb(p)[1]
  BY <1>3, <1>4, BlockNames
<1>6. latest'[b]
  <2>1. op(p) \in {"bread", "iupdat"} => "B_DONE" \in flags[b]
    BY <1>2 DEF DInv, ReaderAt, Readers
  <2>2. op(p) \in {"bread", "iupdat"} => latest[b]
    BY <1>3, <2>1 DEF DInv, DataAt
  <2>3. latest'[b] = (op(p) = "getblk" \/ latest[b])
    BY <1>1
  <2> QED
    BY <1>1, <2>2, <2>3
<1>7. ASSUME NEW c \in Bufs, c # b, blk[c] = blk[b]
      PROVE  ~ latest'[c] /\ ~ Valid(c) /\ ~ Writing(c)
  <2>1. ~ Valid(c)
    BY <1>3, <1>5, <1>7 DEF UniqueBlock
  <2>2. ~ Writing(c)
    <3>1. ASSUME NEW q \in Procs, ClosedBy(q, c)
          PROVE  FALSE
      <4>1. op(q) = "close" /\ xb(q)[1] = xb(p)[1]
        BY <1>5, <1>7, <3>1 DEF ClosedBy, DInv, Closers
      <4>2. q # p
        BY <1>1, <4>1
      <4> QED
        BY <4>1, <4>2 DEF CInv, CloseAlone
    <3> QED
      BY <2>1, <3>1 DEF DInv, Closers
  <2>3. ~ latest'[c]
    BY <1>1, <1>7
  <2> QED
    BY <2>1, <2>2, <2>3
<1>8. \A c \in Bufs : c # b /\ blk[c] # blk[b] => latest'[c] = latest[c]
  BY <1>1 DEF IInv, TypeOK
<1>9. \A x \in DevBlks : dlatest'[x] = dlatest[x] \/ x = blk[b]
  BY <1>1 DEF IInv, TypeOK
<1> QED
  BY <1>1, <1>3, <1>6, <1>7, <1>8, <1>9

(* An update that marks the buffer or gives it to the driver.              *)
LEMMA UpdateData ==
  ASSUME IInv, CInv, DInv, UniqueBlock, NEW p \in Procs, Runs(p, "hold"), Update(p),
         NEW b \in Bufs, b = bp[p], \A q \in Procs : Stays(q) \/ Moves(q),
         \A c \in Bufs : c # b => flags'[c] = flags[c] /\ blk'[c] = blk[c],
         \A c \in Bufs : c # b => (c \in Elems(ioq') <=> c \in Elems(ioq)),
         blk'[b] = blk[b], Changed(b), Carries(b)'
  PROVE  DInv'
<1>1. /\ \A c \in Bufs : c # b => \/ blk[c] # blk[b] /\ latest'[c] = latest[c]
                                  \/ ~ latest'[c] /\ ~ Valid(c) /\ ~ Writing(c)
      /\ \A x \in DevBlks : dlatest'[x] = dlatest[x] \/ x = blk[b]
  BY Updated
<1>2. ASSUME NEW c \in Bufs, c # b
      PROVE  (Still(c) \/ Changed(c)) /\ (Carries(c) /\ blk[c] # blk[b] => Carries(c)')
  <2>1. CASE latest'[c] = latest[c]
    <3>1. Still(c)
      BY <1>2, <2>1 DEF Still
    <3> QED
      BY <3>1, StillFacts
  <2>2. CASE ~ latest'[c] /\ ~ Valid(c) /\ ~ Writing(c)
    <3>1. ~ Writing(c)' /\ ~ Valid(c)' /\ "B_ERROR" \notin flags'[c]
      BY <1>2, <2>2 DEF Writing, IsRead, Valid, DInv, DataAt
    <3>2. Changed(c)
      BY <1>2, <2>2, <3>1 DEF Changed, DataAt
    <3>3. ~ Carries(c)
      BY <2>2 DEF Carries, CInv, NoStaleDelwri
    <3> QED
      BY <3>2, <3>3
  <2> QED
    BY <1>1, <1>2, <2>1, <2>2
<1>3. Carried'
  <2> SUFFICES ASSUME NEW x \in DevBlks, ~ dlatest'[x]
               PROVE  \E c \in Bufs : blk'[c] = x /\ Carries(c)'
    BY DEF Carried
  <2>1. CASE x = blk[b]
    BY <2>1
  <2>2. CASE x # blk[b]
    <3>1. ~ dlatest[x]
      BY <1>1, <2>2
    <3>2. PICK c \in Bufs : blk[c] = x /\ Carries(c)
      BY <3>1 DEF DInv, Carried
    <3>3. c # b /\ blk'[c] = x /\ Carries(c)'
      BY <1>2, <2>2, <3>2
    <3> QED
      BY <3>3
  <2> QED
    BY <2>1, <2>2
<1> QED
  BY <1>2, <1>3, DataStep

LEMMA UpdateOut ==
  ASSUME IInv, CInv, DInv, UniqueBlock, NEW p \in Procs, Runs(p, "hold"), Update(p),
         NEW b \in Bufs, b = bp[p], NEW m \in {{}, {"B_ASYNC"}, {"B_ASYNC", "B_AGE"}},
         flags' = [flags EXCEPT ![b] = WriteFlags(@ \cup m)], Strategy(b, FALSE),
         blk' = blk, NEW l \in {"wwait", "age", "idle"}, NEW f \in FrameType, Step(p, l, f),
         f.ret \in {"idle", ret(p)}, f.op = op(p), \A q \in Procs : q # p => bp'[q] = bp[q]
  PROVE  DInv'
<1>1. b \notin Elems(ioq) /\ Owns(p, b) /\ \A q \in Procs : q # p => ~ Owns(q, b)
  BY HeldBuf, OwnedAlone
<1>2. latest'[b] /\ Valid(b) /\ DataAt(b)
  BY Updated DEF DInv
<1>3. PICK g \in {flags[b] \cup m} : g = flags[b] \cup m
  OBVIOUS
<1>4. "B_INVAL" \notin g
  BY <1>2, <1>3 DEF Valid
<1>5. flags'[b] = WriteFlags(g) /\ \A c \in Bufs : c # b => flags'[c] = flags[c]
  BY <1>3 DEF IInv, TypeOK
<1>6. l \in PCs /\ ("take" \in {l, f.ret} => f.op \in Takers)
  BY FrameTake DEF PCs
<1>7. (\A q \in Procs : Stays(q) \/ Moves(q)) /\ Moves(p)
  BY <1>6, Going
<1>8. \A q \in Procs : bp[q] = b => Moves(q)
  BY <1>1, <1>7 DEF Owns
<1>9. Changed(b) /\ Carries(b)' /\ Elems(ioq') = Elems(ioq) \cup {b}
  BY <1>1, <1>2, <1>4, <1>5, <1>8, WrittenOut
<1>10. \A c \in Bufs : c # b => (c \in Elems(ioq') <=> c \in Elems(ioq))
  BY <1>9
<1> QED
  BY <1>5, <1>7, <1>9, <1>10, UpdateData

LEMMA HoldBwriteData ==
  ASSUME IInv, CInv, DInv, UniqueBlock, NEW p \in Procs, HoldBwrite(p)
  PROVE  DInv'
<1>1. /\ Runs(p, "hold") /\ Update(p) /\ Step(p, "wwait", frame[p])
      /\ flags' = [flags EXCEPT ![bp[p]] = WriteFlags(@ \cup {})]
      /\ Strategy(bp[p], FALSE) /\ blk' = blk /\ bp' = bp
  <2>1. WriteFlags(flags[bp[p]]) = WriteFlags(flags[bp[p]] \cup {})
    BY DEF WriteFlags
  <2> QED
    BY <2>1 DEF HoldBwrite, Goto
<1>2. bp[p] \in Bufs
  BY <1>1, HeldBuf
<1>3. frame[p] \in FrameType /\ frame[p].ret = ret(p) /\ frame[p].op = op(p)
  BY FrameTake
<1> QED
  BY <1>1, <1>2, <1>3, UpdateOut

LEMMA BawriteData ==
  ASSUME IInv, CInv, DInv, UniqueBlock, NEW p \in Procs, Runs(p, "hold"), Update(p),
         NEW aged \in {{}, {"B_AGE"}}, Bawrite(p, aged)
  PROVE  DInv'
<1>0. PICK m \in {{"B_ASYNC"}, {"B_ASYNC", "B_AGE"}} : m = {"B_ASYNC"} \cup aged
  OBVIOUS
<1>1. /\ flags' = [flags EXCEPT ![bp[p]] = WriteFlags(@ \cup m)]
      /\ Strategy(bp[p], FALSE) /\ bp' = [bp EXCEPT ![p] = NoBuf] /\ blk' = blk
      /\ \E l \in {"age", "idle"} : Step(p, l, [frame[p] EXCEPT !.ret = "idle"])
  <2>1. flags[bp[p]] \cup {"B_ASYNC"} \cup aged = flags[bp[p]] \cup m
    BY <1>0
  <2> QED
    BY <2>1 DEF Bawrite
<1>2. PICK f \in FrameType : f = [frame[p] EXCEPT !.ret = "idle"]
  BY FrameOf, FrameEdits DEF PCs
<1>3. f.ret = "idle" /\ f.op = op(p)
  BY <1>2, FrameOf DEF FrameType, op
<1>4. PICK l \in {"age", "idle"} : Step(p, l, f)
  BY <1>1, <1>2
<1>5. bp[p] \in Bufs
  BY HeldBuf
<1>6. \A q \in Procs : q # p => bp'[q] = bp[q]
  BY <1>1 DEF IInv, TypeOK
<1> QED
  BY <1>1, <1>3, <1>4, <1>5, <1>6, UpdateOut

LEMMA HoldBdwriteData ==
  ASSUME IInv, CInv, DInv, UniqueBlock, NEW p \in Procs, HoldBdwrite(p)
  PROVE  DInv'
<1>1. Runs(p, "hold") /\ Update(p)
  BY DEF HoldBdwrite
<1>2. CASE Bawrite(p, {})
  BY <1>1, <1>2, BawriteData
<1>3. CASE /\ Brelse(bp[p], flags[bp[p]] \cup {"B_DELWRI", "B_DONE"})
           /\ bp' = [bp EXCEPT ![p] = NoBuf]
           /\ Goto(p, "idle")
           /\ UNCHANGED <<ioq, wb, u_error>>
  <2>1. PICK b \in Bufs : /\ b = bp[p] /\ b \notin Elems(ioq) /\ Owns(p, b)
    BY <1>1, HeldBuf
  <2>2. Busy(b) /\ \A q \in Procs : q # p => ~ Owns(q, b)
    BY <2>1, OwnedAlone
  <2>3. latest'[b] /\ Valid(b) /\ "B_ERROR" \notin flags[b] /\ blk[b] \in DevBlks
    BY <1>1, <2>1, Updated DEF DInv, DataAt
  <2>4. PICK g \in SUBSET FlagSet : g = flags[b] \cup {"B_DELWRI", "B_DONE"}
    BY DEF IInv, TypeOK, FlagSet
  <2>5. Brelse(b, g) /\ "B_ERROR" \notin g /\ "B_INVAL" \notin g
    BY <1>3, <2>1, <2>3, <2>4 DEF Valid
  <2>6. /\ flags'[b] = g \ {"B_WANTED", "B_BUSY", "B_ASYNC", "B_AGE"}
        /\ \A c \in Bufs : c # b => flags'[c] = flags[c]
    BY <2>2, <2>5, BrelseFacts DEF IInv
  <2>7. blk' = blk /\ ioq' = ioq
    BY <1>3, <2>5 DEF Brelse
  <2>8. Delwri(b)' /\ "B_DONE" \in flags'[b] /\ "B_ERROR" \notin flags'[b] /\ Valid(b)'
    BY <2>4, <2>5, <2>6 DEF Delwri, Valid
  <2>9. ~ Writing(b)'
    BY <2>1, <2>7 DEF Writing
  <2>10. Changed(b) /\ Carries(b)'
    BY <2>3, <2>7, <2>8, <2>9 DEF Changed, DataAt, Carries
  <2>11. Step(p, "idle", frame[p]) /\ "idle" \in PCs /\ frame[p] \in FrameType
    BY <1>3, FrameTake DEF Goto, PCs
  <2>12. \A q \in Procs : q # p => bp'[q] = bp[q]
    BY <1>3 DEF IInv, TypeOK
  <2>13. "take" = frame[p].ret => frame[p].op \in Takers
    BY FrameTake
  <2>14. \A q \in Procs : Stays(q) \/ Moves(q)
    BY <1>1, <2>11, <2>12, <2>13, Going
  <2> QED
    BY <1>1, <2>1, <2>6, <2>7, <2>10, <2>14, UpdateData
<1> QED
  BY <1>2, <1>3 DEF HoldBdwrite

(* A transfer ends: what was read is what the disk has, and what the disk  *)
(* lacks is in no other buffer than the one that is read.                  *)
LEMMA InterruptData ==
  ASSUME ~ DiskErrors, IInv, CInv, DInv, UniqueBlock, Interrupt
  PROVE  DInv'
<1>1. PICK i \in DOMAIN ioq, err \in BOOLEAN : Biodone(i, err)
  BY DEF Interrupt
<1>2. PICK b \in Bufs : b = ioq[i] /\ b \in Elems(ioq)
  BY ElemsType DEF IInv, TypeOK, Elems
<1>3. err = FALSE
  BY <1>1 DEF Biodone
<1>4. PICK f \in SUBSET FlagSet : f = flags[b] \cup {"B_DONE"}
  BY DEF IInv, TypeOK, FlagSet
<1>5. /\ ioq' = Unlink(ioq, b) /\ Transfer(b, FALSE)
      /\ UNCHANGED <<pc, frame, bp>>
      /\ IF "B_ASYNC" \in f
           THEN Brelse(b, f)
           ELSE flags' = [flags EXCEPT ![b] = f \ {"B_WANTED"}] /\ blk' = blk
  <2>1. f = flags[b] \cup {"B_DONE"} \cup (IF err THEN {"B_ERROR"} ELSE {})
    BY <1>3, <1>4
  <2> QED
    BY <1>1, <1>2, <1>3, <2>1 DEF Biodone
<1>6. Elems(ioq') = Elems(ioq) \ {b}
  BY <1>5, UnlinkFacts DEF IInv, TypeOK, NoDupBiodone
<1>7. Busy(b) /\ "B_DONE" \notin flags[b] /\ ~ Delwri(b) /\ "B_ERROR" \notin f
  BY <1>2, <1>4 DEF IInv, NoDupBiodone, CInv, DelwriDone, Delwri, DInv, DataAt
<1>8. /\ "B_DONE" \in flags'[b] /\ "B_ERROR" \notin flags'[b]
      /\ "B_INVAL" \in flags'[b] <=> "B_INVAL" \in flags[b]
      /\ blk' = blk /\ \A c \in Bufs : c # b => flags'[c] = flags[c]
  <2>1. CASE "B_ASYNC" \in f
    <3>1. /\ flags'[b] = f \ {"B_WANTED", "B_BUSY", "B_ASYNC", "B_AGE"}
          /\ \A c \in Bufs : c # b => flags'[c] = flags[c]
      BY <1>5, <1>7, <2>1, BrelseFacts DEF IInv
    <3>2. blk' = blk
      BY <1>5, <1>7, <2>1 DEF Brelse
    <3> QED
      BY <1>4, <1>7, <3>1, <3>2
  <2>2. CASE "B_ASYNC" \notin f
    BY <1>4, <1>5, <1>7, <2>2 DEF IInv, TypeOK
  <2> QED
    BY <2>1, <2>2
<1>9. \A q \in Procs : Stays(q)
  BY <1>5 DEF Stays
<1>10. ~ Writing(b)' /\ (Valid(b)' <=> Valid(b))
  BY <1>6, <1>8 DEF Writing, Valid
<1>11. DataAt(b) /\ DataAt(b)' => Changed(b)
  BY <1>8, <1>10 DEF Changed
<1>12. CASE IsRead(b)
  <2>1. /\ latest' = [latest EXCEPT ![b] = TRUE /\ dlatest[blk[b]]] /\ dlatest' = dlatest
    BY <1>5, <1>12 DEF Transfer
  <2>2. /\ latest'[b] <=> dlatest[blk[b]]
        /\ \A c \in Bufs : c # b => latest'[c] = latest[c]
    BY <2>1 DEF IInv, TypeOK
  <2>3. \A c \in Bufs : c # b => Still(c)
    BY <1>6, <1>8, <2>2 DEF Still
  <2>4. ASSUME Valid(b), ~ dlatest[blk[b]]
        PROVE  FALSE
    <3>1. blk[b] \in DevBlks
      BY <2>4 DEF DInv, DataAt
    <3>2. PICK c \in Bufs : blk[c] = blk[b] /\ Carries(c)
      BY <2>4, <3>1 DEF DInv, Carried
    <3>3. c # b
      BY <1>7, <1>12, <3>2 DEF Carries, Writing
    <3>4. blk[b] # NoBlk
      BY <3>1, BlockNames DEF DevBlks
    <3>5. ~ Valid(c)
      BY <2>4, <3>2, <3>3, <3>4 DEF UniqueBlock
    <3>6. Writing(c)
      BY <3>2, <3>5 DEF Carries, CInv, NoStaleDelwri
    <3>7. PICK q \in Procs : ClosedBy(q, c)
      BY <3>5, <3>6 DEF DInv, Closers
    <3>8. ClosedBy(q, b)
      BY <3>2, <3>7 DEF ClosedBy
    <3> QED
      BY <2>4, <3>8 DEF DInv, Closers
  <2>5. DataAt(b)'
    BY <1>8, <1>10, <2>2, <2>4 DEF DInv, DataAt
  <2>6. Changed(b)
    BY <1>11, <2>5 DEF DInv
  <2>7. ~ Carries(b)
    BY <1>7, <1>12 DEF Carries, Writing
  <2> QED
    BY <1>9, <2>1, <2>3, <2>6, <2>7, OneData
<1>13. CASE ~ IsRead(b)
  <2>1. /\ dlatest' = [dlatest EXCEPT ![blk[b]] = latest[b]] /\ latest' = latest
    BY <1>5, <1>13 DEF Transfer
  <2>2. Writing(b) /\ latest[b]
    BY <1>2, <1>13 DEF Writing, DInv, DataAt
  <2>3. \A c \in Bufs : c # b => Still(c)
    BY <1>6, <1>8, <2>1 DEF Still
  <2>4. DataAt(b)'
    BY <1>8, <1>10, <2>1, <2>2 DEF DInv, DataAt
  <2>5. Changed(b)
    BY <1>11, <2>4 DEF DInv
  <2>6. Carried'
    <3> SUFFICES ASSUME NEW x \in DevBlks, ~ dlatest'[x]
                 PROVE  \E c \in Bufs : blk'[c] = x /\ Carries(c)'
      BY DEF Carried
    <3>1. x # blk[b] /\ ~ dlatest[x]
      BY <2>1, <2>2 DEF IInv, TypeOK
    <3>2. PICK c \in Bufs : blk[c] = x /\ Carries(c)
      BY <3>1 DEF DInv, Carried
    <3>3. c # b /\ blk'[c] = x /\ Carries(c)'
      BY <1>8, <2>3, <3>1, <3>2, StillFacts
    <3> QED
      BY <3>3
  <2> QED
    BY <1>9, <2>3, <2>5, <2>6, DataStep
<1> QED
  BY <1>12, <1>13

LEMMA StutterData ==
  ASSUME IInv, DInv, UNCHANGED vars
  PROVE  DInv'
<1>1. UNCHANGED <<flags, blk, ioq, pc, frame, bp, latest, dlatest>>
  BY DEF vars, bufVars, procVars, dataVars
<1>2. (\A c \in Bufs : Still(c)) /\ \A q \in Procs : Stays(q)
  BY <1>1 DEF Still, Stays
<1> QED
  BY <1>1, <1>2, StillData

LEMMA InitData ==
  ASSUME Init
  PROVE  DInv
<1>1. \A p \in Procs : pc[p] = "idle" /\ ret(p) = "idle"
  BY DEF Init, NoFrame, Frame, ret
<1>2. \A b \in Bufs : /\ flags[b] = {"B_INVAL"} /\ ~ latest[b] /\ ~ Writing(b)
  BY DEF Init, Writing, Elems
<1>3. (\A b \in Bufs : DataAt(b)) /\ \A p \in Procs : ReaderAt(p)
  BY <1>1, <1>2 DEF DataAt, ReaderAt, Valid
<1>4. Carried
  BY DEF Init, Carried
<1>5. Closers
  BY <1>1, <1>2 DEF Closers, ClosedBy
<1> QED
  BY <1>3, <1>4, <1>5 DEF DInv

LEMMA ProceedData ==
  ASSUME CloseWaits, IInv, CInv, DInv, UniqueBlock, NEW p \in Procs, Proceed(p)
  PROVE  DInv'
<1>1. CASE \/ GetblkMiss(p) \/ RaCheck(p) \/ RaDone(p)
           \/ SyncipBlkflush(p) \/ SyncipDone(p) \/ BlkflushDone(p)
           \/ FsyncReturn(p) \/ BflushDone(p)
  BY <1>1, MovesData
<1>2. CASE \/ BiowaitDone(p) \/ Take(p) \/ DevClose(p) \/ BwriteAge(p) \/ Binval(p)
  BY <1>2, BiowaitDoneData, TakeData, DevCloseData, BwriteAgeData, BinvalData
<1>3. CASE \/ GetblkSleep(p) \/ BlkflushSleep(p) \/ SyncipSleep(p)
           \/ GetnewbufSleep(p) \/ BiowaitSleep(p)
  BY <1>3, SleepsData
<1>4. CASE \/ GetnewbufWrite(p) \/ BflushWrite(p) \/ SyncipWrite(p) \/ BlkflushWrite(p)
  BY <1>4, FlushesData
<1>5. CASE \/ GetblkHit(p) \/ GetnewbufTake(p) \/ Bread(p) \/ BreadaFirst(p)
  BY <1>5, GetblkHitData, GetnewbufTakeData, GotFirstsData
<1>6. CASE \/ Rahead(p) \/ HoldBrelse(p) \/ BwriteBrelse(p)
  BY <1>6, RaheadStartData, ReleasesData DEF Rahead
<1>7. CASE HoldBwrite(p) \/ HoldBdwrite(p)
  BY <1>7, HoldBwriteData, HoldBdwriteData
<1>8. CASE HoldBawrite(p)
  <2>1. Runs(p, "hold") /\ Update(p)
    BY <1>8 DEF HoldBawrite
  <2>2. PICK aged \in {{}, {"B_AGE"}} : Bawrite(p, aged)
    BY <1>8 DEF HoldBawrite
  <2> QED
    BY <2>1, <2>2, BawriteData
<1> QED
  BY <1>1, <1>2, <1>3, <1>4, <1>5, <1>6, <1>7, <1>8 DEF Proceed

(* The data stay right for as long as getnewbuf's sleep has not given a    *)
(* block two buffers (BufferCache_duplicate shows one), where no transfer  *)
(* fails and binval is called with no transfer under way.                  *)
THEOREM DataInvariance ==
  ASSUME ~ DiskErrors, CloseWaits
  PROVE  Spec /\ []UniqueBlock => []DInv
<1>1. Init => DInv
  BY InitData
<1>2. IInv /\ CInv /\ UniqueBlock /\ DInv /\ [Next]_vars => DInv'
  <2> SUFFICES ASSUME IInv, CInv, UniqueBlock, DInv, [Next]_vars
               PROVE  DInv'
    OBVIOUS
  <2>1. CASE Next
    BY <2>1, InterruptData, StartData, ProceedData DEF Next
  <2>2. CASE UNCHANGED vars
    BY <2>2, StutterData
  <2> QED
    BY <2>1, <2>2
<1> QED
  BY <1>1, <1>2, CallersInvariance, PTL DEF Spec

(* bread and breada return the block with every update that was released   *)
(* before. TLC refutes this without any one of the hypotheses: where a     *)
(* block has two buffers (the instance of BufferCache_duplicate), where    *)
(* the driver's close routine does not wait (BufferCache_close), and where *)
(* a failed write dissociates the buffer (ufs_bio.c:184).                  *)
THEOREM BufferCoherent ==
  ASSUME ~ DiskErrors, CloseWaits
  PROVE  Spec /\ []UniqueBlock => []Coherent
<1>1. IInv /\ CInv /\ DInv => Coherent
  <2> SUFFICES ASSUME IInv, CInv, DInv, NEW p \in Procs, pc[p] = "hold",
                      op(p) \in {"bread", "breada"}
               PROVE  latest[bp[p]]
    BY DEF Coherent
  <2>1. bp[p] \in Bufs /\ Owns(p, bp[p])
    BY DEF IInv, TypeOK, LocalBufs, LocalAt, Owns
  <2>2. Valid(bp[p])
    BY <2>1 DEF CInv, OwnAt, NamedAt, NamedBuf
  <2>3. "B_DONE" \in flags[bp[p]]
    BY DEF DInv, ReaderAt, Readers
  <2> QED
    BY <2>1, <2>2, <2>3 DEF DInv, DataAt
<1> QED
  BY <1>1, DataInvariance, CallersInvariance, PTL

(* bwrite, bawrite, bdwrite, bflush, getnewbuf and binval never give up    *)
(* the only copy of an update: while the disk is out of date a buffer has  *)
(* the block, busy with the write or marked B_DELWRI. The hypotheses are   *)
(* needed for the same reasons as those of BufferCoherent.                 *)
THEOREM BufferNoLostUpdate ==
  ASSUME ~ DiskErrors, CloseWaits
  PROVE  Spec /\ []UniqueBlock => []NoLostUpdate
<1>1. IInv /\ DInv => NoLostUpdate
  <2> SUFFICES ASSUME IInv, DInv, NEW x \in DevBlks, ~ dlatest[x]
               PROVE  \E b \in Bufs : /\ blk[b] = x /\ latest[b]
                                      /\ Busy(b) \/ Delwri(b)
    BY DEF NoLostUpdate
  <2>1. PICK b \in Bufs : blk[b] = x /\ Carries(b)
    BY DEF DInv, Carried
  <2>2. Writing(b) => Busy(b)
    BY DEF Writing, IInv, NoDupBiodone
  <2> QED
    BY <2>1, <2>2 DEF Carries
<1> QED
  BY <1>1, DataInvariance, CallersInvariance, PTL
=============================================================================
