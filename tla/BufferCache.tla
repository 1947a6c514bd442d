----------------------------- MODULE BufferCache -----------------------------
(***************************************************************************)
(* The block buffer cache of the 2.11BSD kernel (sys/sys/ufs_bio.c), with  *)
(* the callers that matter to it: a process that reads, writes or flushes  *)
(* blocks, fsync's syncip and iupdat, the last close of a block device,    *)
(* and the disk driver's completion interrupt, which calls biodone.        *)
(*                                                                         *)
(* The kernel is not preemptive.  A process inside it runs until it sleeps *)
(* or returns, so cur names the process in the middle of such a stretch    *)
(* and only the interrupt (Biodone) may act between two of its steps.      *)
(* Code between splbio() and splx() is one step.  sleep() records the      *)
(* channel in wchan; wakeup() clears it and the process goes on at its pc, *)
(* which is the loop the code returns to.                                  *)
(***************************************************************************)
EXTENDS Integers, FiniteSets, Sequences, FreeLists

CONSTANTS
  Procs,       \* the processes that use the cache
  NoProc,      \* no process: the CPU is idle or in user mode
  NBUF,        \* nbuf, the size of the buffer pool
  Devs,        \* block devices, natural numbers
  FsBlks,      \* file system block numbers on each device
  TapeDevs,    \* the devices whose bdevsw entry has B_TAPE
  Cylin,       \* the cylinder of each block
  File,        \* the blocks of the file fsync is called on, in order
  InodeBlk,    \* the block that holds that file's inode
  Ops,         \* the operations the processes call
  CloseWaits,  \* does the driver's close routine wait for its queue to drain?
  DiskErrors   \* may a transfer end with B_ERROR?

Bufs == 1..NBUF
NoBuf == 0
Blocks == Devs \X FsBlks

(* fsbtodb: a file system block is two device blocks.                      *)
fsbtodb(n) == 2 * n
Dblk(x) == <<x[1], fsbtodb(x[2])>>
DevBlks == { Dblk(x) : x \in Blocks }
NoBlk == <<-1, 0>>                       \* b_dev == NODEV

(* Sleep channels: a buffer, or the head bfreelist[0].                     *)
BFREELIST == 0
NoChan == -1

FlagSet == { "B_READ", "B_DONE", "B_ERROR", "B_BUSY", "B_WANTED",
             "B_AGE", "B_ASYNC", "B_DELWRI", "B_INVAL" }

AllOps == { "bread", "breada", "getblk", "geteblk", "fsync", "bflush", "close" }

ASSUME BufferCacheAssumption ==
  /\ NBUF \in Nat \ {0}
  /\ Devs \subseteq Nat
  /\ FsBlks \subseteq Nat
  /\ TapeDevs \subseteq Devs
  /\ Cylin \in [DevBlks -> Nat]
  /\ File \in Seq(Blocks)
  /\ InodeBlk \in Blocks
  /\ Ops \subseteq AllOps
  /\ DiskErrors \in BOOLEAN
  /\ CloseWaits \in BOOLEAN
  /\ NoProc \notin Procs

(* A file's blocks are on the device of its inode, ip->i_dev.              *)
ASSUME FileAssumption == \A i \in DOMAIN File : File[i][1] = InodeBlk[1]

VARIABLES
  flags,     \* b_flags
  blk,       \* <<b_dev, b_blkno>>: the hash chains hold exactly these names
  bq_lru,    \* bfreelist[BQ_LRU]
  bq_age,    \* bfreelist[BQ_AGE]
  flwanted,  \* B_WANTED in bfreelist[0].b_flags
  ioq,       \* the request queue, as if all Devs were on one drive
  pc,        \* where a process is in the code
  frame,     \* its kernel stack: the call's arguments and return address
  bp,        \* the buffer the process owns
  wb,        \* the buffer getblk returns, or the one just given to bawrite
  wchan,     \* sleep channel
  u_error,   \* is u.u_error set?
  cur,       \* the process in the kernel
  latest,    \* history: does the buffer hold every update of its block?
  dlatest    \* history: does the disk hold every update of the block?

bufVars  == <<flags, blk, bq_lru, bq_age, flwanted, ioq>>
dataVars == <<latest, dlatest>>
procVars == <<pc, frame, bp, wb, wchan, u_error, cur>>
vars == <<bufVars, dataVars, procVars>>

(* The frame of a call: the operation, where getblk or bwrite returns to,  *)
(* the block (for bflush and close its device), breada's read-ahead block, *)
(* syncip's position and, as history, whether a transfer has failed and    *)
(* whether getnewbuf has slept since getblk searched the cache.            *)
Frame(o, r, x, y) ==
  [ op |-> o, ret |-> r, xb |-> x, ra |-> y, lbn |-> 1,
    failed |-> FALSE, slept |-> FALSE ]
NoFrame == Frame("none", "idle", NoBlk, NoBlk)

op(p) == frame[p].op
ret(p) == frame[p].ret
xb(p) == frame[p].xb
ra(p) == frame[p].ra
lbn(p) == frame[p].lbn

-----------------------------------------------------------------------------
(* Lookups.                                                                *)

Valid(b) == "B_INVAL" \notin flags[b]
Match(x) == { b \in Bufs : blk[b] = Dblk(x) /\ Valid(b) }
incore(x) == Match(x) # {}
Busy(b) == "B_BUSY" \in flags[b]
Delwri(b) == "B_DELWRI" \in flags[b]
HasData(b) == flags[b] \cap {"B_DONE", "B_DELWRI"} # {}

(* The block getblk is asked for.                                          *)
Want(p) == IF ret(p) = "rahead" THEN ra(p) ELSE xb(p)

(* Mutant: a process may be preempted anywhere in the kernel.              *)
RunsPreempted(p, l) == pc[p] = l /\ wchan[p] = NoChan

(* p may take its next step, from l.                                       *)
Runs(p, l) == pc[p] = l /\ cur \in {p, NoProc} /\ wchan[p] = NoChan

(* p goes on at l with the frame f, and keeps the CPU unless the call is   *)
(* over or it is up to the caller what happens next.                       *)
Leaves == {"idle", "hold", "fsynced", "d_close"}
Step(p, l, f) ==
  /\ pc' = [pc EXCEPT ![p] = l]
  /\ frame' = [frame EXCEPT ![p] = IF l = "idle" THEN NoFrame ELSE f]
  /\ cur' = IF l \in Leaves THEN NoProc ELSE p
Goto(p, l) == Step(p, l, frame[p])

(* sleep(chan, PRIBIO): not interruptible, so tsleep returns 0, and        *)
(* "u.u_error = tsleep(...)" leaves that in u.u_error.                     *)
Sleep(p, chan) ==
  /\ wchan' = [wchan EXCEPT ![p] = chan]
  /\ u_error' = [u_error EXCEPT ![p] = FALSE]
  /\ cur' = NoProc
  /\ UNCHANGED pc

-----------------------------------------------------------------------------
(* Mutant: nobody is told that there is a free buffer again.               *)
BrelseNoFreeWakeup(b, f) ==
  /\ wchan' = [ q \in Procs |->
                  IF wchan[q] = b /\ "B_WANTED" \in f THEN NoChan ELSE wchan[q] ]
  /\ flwanted' = flwanted
  /\ blk' = IF "B_ERROR" \in f THEN [blk EXCEPT ![b] = NoBlk] ELSE blk
  /\ bq_lru' = PushTail(bq_lru, b) /\ bq_age' = bq_age
  /\ flags' = [flags EXCEPT ![b] = f \ {"B_WANTED", "B_BUSY", "B_ASYNC", "B_AGE"}]

(* brelse(b), entered with the flags f.                                    *)
Brelse(b, f) ==
  /\ wchan' = [ q \in Procs |->
                  IF \/ wchan[q] = b /\ "B_WANTED" \in f
                     \/ wchan[q] = BFREELIST /\ flwanted
                    THEN NoChan ELSE wchan[q] ]
  /\ flwanted' = FALSE
  /\ blk' = IF "B_ERROR" \in f THEN [blk EXCEPT ![b] = NoBlk] ELSE blk
  /\ IF f \cap {"B_ERROR", "B_INVAL"} # {}
       THEN bq_age' = PushHead(bq_age, b) /\ bq_lru' = bq_lru
       ELSE IF "B_AGE" \in f
         THEN bq_age' = PushTail(bq_age, b) /\ bq_lru' = bq_lru
         ELSE bq_lru' = PushTail(bq_lru, b) /\ bq_age' = bq_age
  /\ flags' = [flags EXCEPT ![b] = f \ {"B_WANTED", "B_BUSY", "B_ASYNC", "B_AGE"}]

(* Mutant: the buffer stays linked on the AGE list.                        *)
NotAvailLeftOnAge(b, f) ==
  /\ bq_lru' = Unlink(bq_lru, b)
  /\ bq_age' = bq_age
  /\ flags' = [flags EXCEPT ![b] = f]

(* notavail(b): off its free list; b_flags becomes f, which has B_BUSY.    *)
NotAvail(b, f) ==
  /\ bq_lru' = Unlink(bq_lru, b)
  /\ bq_age' = Unlink(bq_age, b)
  /\ flags' = [flags EXCEPT ![b] = f]

(* Mutant: bwrite leaves B_DONE from the last transfer.                    *)
WriteFlagsKeepDone(f) == f \ {"B_READ", "B_ERROR", "B_DELWRI"}

(* The flags bwrite hands to the driver.                                   *)
WriteFlags(f) == f \ {"B_READ", "B_DONE", "B_ERROR", "B_DELWRI"}

(* disksort.  A read is compared with the reads in front of the first      *)
(* write, a write with the writes; the new request goes behind the one     *)
(* with the highest cylinder that is not above its own, the last of them.  *)
(* If there is none, a read goes behind the first write, and any other     *)
(* request to the end.                                                     *)
IsRead(b) == "B_READ" \in flags[b]
Seen(isread) ==
  { j \in DOMAIN ioq : IF isread THEN \A i \in 1..j : IsRead(ioq[i]) ELSE ~ IsRead(ioq[j]) }
FirstWrite(j) == ~ IsRead(ioq[j]) /\ \A i \in 1..(j - 1) : IsRead(ioq[i])

(* Is k the slot of a new request for buffer b?                            *)
Slot(b, isread, k) ==
  LET at(j) == Cylin[blk[ioq[j]]]
      below == { j \in Seen(isread) : at(j) <= Cylin[blk[b]] }
  IN  CASE below # {} ->
             /\ k - 1 \in below
             /\ \A j \in below : at(j) < at(k - 1) \/ (at(j) = at(k - 1) /\ j < k)
        [] below = {} /\ isread /\ (\E j \in DOMAIN ioq : ~ IsRead(ioq[j])) ->
             k > 1 /\ FirstWrite(k - 1)
        [] OTHER -> k = Len(ioq) + 1

(* d_strategy(b): the request is queued.                                   *)
Strategy(b, isread) ==
  \E k \in 1..(Len(ioq) + 1) : Slot(b, isread, k) /\ ioq' = Insert(ioq, k, b)

-----------------------------------------------------------------------------
(* A process calls the cache.                                              *)

(* ilock: operations on the file exclude each other.                       *)
UsesFile(o, x) == x \in Elems(File) \/ o \in {"fsync", "iupdat"}
FileLocked == \E q \in Procs : UsesFile(op(q), xb(q))

(* An open waits while the driver's close routine has DKF_CLOSING set.     *)
Closing(d) == \E q \in Procs : op(q) = "close" /\ xb(q)[1] = d

Call(p, l, f) ==
  /\ Runs(p, "idle") /\ cur = NoProc
  /\ ~ Closing(f.xb[1])
  /\ f.op \in Ops
  /\ UsesFile(f.op, f.xb) => ~ FileLocked
  /\ Step(p, l, f)
  /\ u_error' = [u_error EXCEPT ![p] = FALSE]
  /\ UNCHANGED <<bufVars, dataVars, bp, wb, wchan>>

CallBread(p) ==
  \E x \in Blocks : Call(p, "getblk", Frame("bread", "bread", x, NoBlk))
CallGetblk(p) ==
  \E x \in Blocks : Call(p, "getblk", Frame("getblk", "take", x, NoBlk))
CallGeteblk(p) == Call(p, "getnewbuf", Frame("geteblk", "take", NoBlk, NoBlk))

(* breada first asks incore, to avoid waiting for a busy block before the  *)
(* read-ahead is started.                                                  *)
CallBreada(p) ==
  \E x, y \in Blocks :
    /\ x # y /\ x[1] = y[1]
    /\ Call(p, IF incore(x) THEN "ra_check" ELSE "getblk",
               Frame("breada", "breada", x, y))

CallFsync(p) == Call(p, "syncip", Frame("fsync", "syncip", InodeBlk, NoBlk))
CallBflush(p) ==
  \E d \in Devs : Call(p, "bflush", Frame("bflush", "bflush", <<d, -1>>, NoBlk))

(* The last close of a device: nobody else has it open.                    *)
CallClose(p) ==
  \E d \in Devs :
    /\ \A q \in Procs : xb(q)[1] # d
    /\ Call(p, "bflush", Frame("close", "binval", <<d, -1>>, NoBlk))

-----------------------------------------------------------------------------
(* getblk and getnewbuf.                                                   *)

(* Mutant: sleep without asking for a wakeup.                              *)
AwaitBufUnwanted(p, b) ==
  /\ Busy(b)
  /\ flags' = flags
  /\ Sleep(p, b)
  /\ UNCHANGED <<blk, bq_lru, bq_age, flwanted, ioq, dataVars, bp, wb>>

(* A busy buffer is wanted: ask for a wakeup and look again after it.      *)
AwaitBuf(p, b) ==
  /\ Busy(b)
  /\ flags' = [flags EXCEPT ![b] = @ \cup {"B_WANTED"}]
  /\ Sleep(p, b)
  /\ UNCHANGED <<blk, bq_lru, bq_age, flwanted, ioq, dataVars, bp, wb>>

GetblkSleep(p) ==
  /\ Runs(p, "getblk")
  /\ \E b \in Match(Want(p)) : AwaitBuf(p, b)
  /\ UNCHANGED frame

GetblkHit(p) ==
  /\ Runs(p, "getblk")
  /\ \E b \in Match(Want(p)) :
       /\ ~ Busy(b)
       /\ NotAvail(b, flags[b] \cup {"B_BUSY"})
       /\ wb' = [wb EXCEPT ![p] = b]
  /\ Goto(p, ret(p))
  /\ UNCHANGED <<blk, flwanted, ioq, dataVars, bp, wchan, u_error>>

GetblkMiss(p) ==
  /\ Runs(p, "getblk")
  /\ ~ incore(Want(p))
  /\ Step(p, "getnewbuf", [frame[p] EXCEPT !.slept = FALSE])
  /\ UNCHANGED <<bufVars, dataVars, bp, wb, wchan, u_error>>

NoFree == bq_age = <<>> /\ bq_lru = <<>>

(* The oldest free buffer, from the AGE list before the LRU list.          *)
Oldest == IF bq_age # <<>> THEN Head(bq_age) ELSE Head(bq_lru)

GetnewbufSleep(p) ==
  /\ Runs(p, "getnewbuf")
  /\ NoFree
  /\ flwanted' = TRUE
  /\ Sleep(p, BFREELIST)
  /\ frame' = [frame EXCEPT ![p].slept = TRUE]
  /\ UNCHANGED <<flags, blk, bq_lru, bq_age, ioq, dataVars, bp, wb>>

(* notavail and bawrite of a free delayed write.  bwrite goes on at "age". *)
PushOut(p, b) ==
  /\ NotAvail(b, WriteFlags(flags[b] \cup {"B_BUSY", "B_ASYNC"}))
  /\ Strategy(b, FALSE)
  /\ wb' = [wb EXCEPT ![p] = b]
  /\ Goto(p, "age")
  /\ UNCHANGED <<blk, flwanted, dataVars, bp, wchan, u_error>>

GetnewbufWrite(p) ==
  /\ Runs(p, "getnewbuf")
  /\ ~ NoFree
  /\ Delwri(Oldest)
  /\ PushOut(p, Oldest)

(* Mutants of GetnewbufTake: the block number is not converted; the flags  *)
(* of the buffer's last use are kept; a delayed write is taken too.        *)
TakeAs(p, b, f, x) ==
  /\ NotAvail(b, f)
  /\ blk' = [blk EXCEPT ![b] = x]
  /\ latest' = [latest EXCEPT ![b] = FALSE]
  /\ wb' = [wb EXCEPT ![p] = b]
  /\ Goto(p, ret(p))
  /\ UNCHANGED <<flwanted, ioq, dlatest, bp, wchan, u_error>>
GetnewbufTakeUnconverted(p) ==
  /\ Runs(p, "getnewbuf") /\ ~ NoFree /\ ~ Delwri(Oldest)
  /\ TakeAs(p, Oldest, {"B_BUSY"}, Want(p))
GetnewbufTakeOldFlags(p) ==
  /\ Runs(p, "getnewbuf") /\ ~ NoFree /\ ~ Delwri(Oldest)
  /\ TakeAs(p, Oldest, (flags[Oldest] \ {"B_INVAL"}) \cup {"B_BUSY"}, Dblk(Want(p)))
GetnewbufTakeDirty(p) ==
  /\ Runs(p, "getnewbuf") /\ ~ NoFree
  /\ TakeAs(p, Oldest, {"B_BUSY"}, Dblk(Want(p)))

(* A clean buffer is taken and, by getblk, renamed to the block.  getblk   *)
(* does not look the block up again, however long getnewbuf slept.         *)
GetnewbufTake(p) ==
  /\ Runs(p, "getnewbuf")
  /\ ~ NoFree
  /\ ~ Delwri(Oldest)
  /\ IF op(p) = "geteblk"
       THEN /\ NotAvail(Oldest, {"B_BUSY", "B_INVAL"})
            /\ blk' = [blk EXCEPT ![Oldest] = NoBlk]
       ELSE /\ NotAvail(Oldest, {"B_BUSY"})
            /\ blk' = [blk EXCEPT ![Oldest] = Dblk(Want(p))]
  /\ latest' = [latest EXCEPT ![Oldest] = FALSE]
  /\ wb' = [wb EXCEPT ![p] = Oldest]
  /\ Goto(p, ret(p))
  /\ UNCHANGED <<flwanted, ioq, dlatest, bp, wchan, u_error>>

(* The end of bwrite for an asynchronous delayed write.  The transfer may  *)
(* have ended already, and the buffer with it been released.               *)
BwriteAge(p) ==
  /\ Runs(p, "age")
  /\ flags' = [flags EXCEPT ![wb[p]] = @ \cup {"B_AGE"}]
  /\ wb' = [wb EXCEPT ![p] = NoBuf]
  /\ Goto(p, CASE ret(p) = "idle"                -> "idle"
               [] ret(p) \in {"bflush", "binval"} -> "bflush"
               [] OTHER                          -> "getnewbuf")
  /\ UNCHANGED <<blk, bq_lru, bq_age, flwanted, ioq, dataVars, bp, wchan, u_error>>

(* A caller of getblk or geteblk has its buffer.                           *)
Take(p) ==
  /\ Runs(p, "take")
  /\ bp' = [bp EXCEPT ![p] = wb[p]]
  /\ wb' = [wb EXCEPT ![p] = NoBuf]
  /\ Goto(p, "hold")
  /\ UNCHANGED <<bufVars, dataVars, wchan, u_error>>

-----------------------------------------------------------------------------
(* bread, breada and biowait.                                              *)

StartRead(b, f) ==
  /\ flags' = [flags EXCEPT ![b] = @ \cup f]
  /\ Strategy(b, TRUE)

(* bread, or breada's first block, with the buffer from getblk: start the  *)
(* read unless the buffer has the data.                                    *)
GotFirst(p, hit, miss) ==
  /\ bp' = [bp EXCEPT ![p] = wb[p]]
  /\ wb' = [wb EXCEPT ![p] = NoBuf]
  /\ IF HasData(wb[p])
       THEN Goto(p, hit) /\ UNCHANGED <<flags, ioq>>
       ELSE Goto(p, miss) /\ StartRead(wb[p], {"B_READ"})
  /\ UNCHANGED <<blk, bq_lru, bq_age, flwanted, dataVars, wchan, u_error>>

Bread(p) == Runs(p, "bread") /\ GotFirst(p, "hold", "rwait")
BreadaFirst(p) == Runs(p, "breada") /\ GotFirst(p, "ra_check", "ra_check")

(* The read-ahead block is fetched only if it is not in core.              *)
RaCheck(p) ==
  /\ Runs(p, "ra_check")
  /\ IF incore(ra(p))
       THEN Goto(p, "ra_done")
       ELSE Step(p, "getblk", [frame[p] EXCEPT !.ret = "rahead"])
  /\ UNCHANGED <<bufVars, dataVars, bp, wb, wchan, u_error>>

(* Mutant: the read-ahead is not marked asynchronous.                      *)
RaheadStartSync(p) ==
  /\ Runs(p, "rahead")
  /\ ~ HasData(wb[p])
  /\ StartRead(wb[p], {"B_READ"})
  /\ wb' = [wb EXCEPT ![p] = NoBuf]
  /\ Goto(p, "ra_done")
  /\ UNCHANGED <<blk, bq_lru, bq_age, flwanted, dataVars, bp, wchan, u_error>>

(* An asynchronous read: the interrupt releases the buffer.                *)
RaheadStart(p) ==
  /\ Runs(p, "rahead")
  /\ ~ HasData(wb[p])
  /\ StartRead(wb[p], {"B_READ", "B_ASYNC"})
  /\ wb' = [wb EXCEPT ![p] = NoBuf]
  /\ Goto(p, "ra_done")
  /\ UNCHANGED <<blk, bq_lru, bq_age, flwanted, dataVars, bp, wchan, u_error>>

RaheadHit(p) ==
  /\ Runs(p, "rahead")
  /\ HasData(wb[p])
  /\ Brelse(wb[p], flags[wb[p]])
  /\ wb' = [wb EXCEPT ![p] = NoBuf]
  /\ Goto(p, "ra_done")
  /\ UNCHANGED <<ioq, dataVars, bp, u_error>>

(* The read-ahead block, with the buffer from getblk.                      *)
Rahead(p) ==
  /\ Runs(p, "rahead")
  /\ IF HasData(wb[p]) THEN RaheadHit(p) ELSE RaheadStart(p)

(* The first block was in core: let bread get it.  Otherwise wait for it.  *)
RaDone(p) ==
  /\ Runs(p, "ra_done")
  /\ Step(p, IF bp[p] = NoBuf THEN "getblk" ELSE "rwait",
             [frame[p] EXCEPT !.ret = "bread"])
  /\ UNCHANGED <<bufVars, dataVars, bp, wb, wchan, u_error>>

(* biowait, from bread ("rwait") and from bwrite ("wwait").                *)
BiowaitSleep(p) ==
  /\ Runs(p, "rwait") \/ Runs(p, "wwait")
  /\ "B_DONE" \notin flags[bp[p]]
  /\ Sleep(p, bp[p])
  /\ UNCHANGED <<bufVars, dataVars, frame, bp, wb>>

BiowaitDone(p) ==
  LET err == "B_ERROR" \in flags[bp[p]]
  IN  /\ Runs(p, "rwait") \/ Runs(p, "wwait")
      /\ "B_DONE" \in flags[bp[p]]
      /\ u_error' = [u_error EXCEPT ![p] = @ \/ err]
      /\ Step(p, IF pc[p] = "rwait" THEN "hold" ELSE "brelse",
                 [frame[p] EXCEPT !.failed = @ \/ err])
      /\ UNCHANGED <<bufVars, dataVars, bp, wb, wchan>>

(* A driver serves a drive's queue from its head.  Which blocks share a    *)
(* drive is left open: only requests for one block end in queue order.     *)
CanFinish(i) == \A j \in 1..(i - 1) : blk[ioq[j]] # blk[ioq[i]]

(* What the transfer does to the data.                                     *)
Transfer(b, err) ==
  IF IsRead(b)
    THEN /\ latest' = [latest EXCEPT ![b] = ~ err /\ dlatest[blk[b]]]
         /\ UNCHANGED dlatest
    ELSE /\ dlatest' = [dlatest EXCEPT ![blk[b]] = IF err THEN @ ELSE latest[b]]
         /\ UNCHANGED latest

(* biodone, called by the driver's interrupt routine.                      *)
Biodone(i, err) ==
  LET b == ioq[i]
      f == flags[b] \cup {"B_DONE"} \cup (IF err THEN {"B_ERROR"} ELSE {})
  IN  /\ CanFinish(i)
      /\ err => DiskErrors
      /\ ioq' = Unlink(ioq, b)
      /\ Transfer(b, err)
      /\ IF "B_ASYNC" \in f
           THEN Brelse(b, f)
           ELSE /\ flags' = [flags EXCEPT ![b] = f \ {"B_WANTED"}]
                /\ wchan' = [ q \in Procs |-> IF wchan[q] = b THEN NoChan ELSE wchan[q] ]
                /\ UNCHANGED <<blk, bq_lru, bq_age, flwanted>>
      /\ UNCHANGED <<pc, frame, bp, wb, u_error, cur>>

Interrupt == \E i \in DOMAIN ioq : \E err \in BOOLEAN : Biodone(i, err)

-----------------------------------------------------------------------------
(* A process that owns a buffer ends its operation.                        *)

(* brelse by a reader, who may have set B_AGE because he is through with   *)
(* the block (rwip); iupdat releases the buffer only after a failed read.  *)
HoldBrelse(p) ==
  /\ Runs(p, "hold")
  /\ op(p) = "iupdat" => "B_ERROR" \in flags[bp[p]]
  /\ \E aged \in {{}, {"B_AGE"}} : Brelse(bp[p], flags[bp[p]] \cup aged)
  /\ bp' = [bp EXCEPT ![p] = NoBuf]
  /\ Goto(p, IF op(p) = "iupdat" THEN "fsynced" ELSE "idle")
  /\ UNCHANGED <<ioq, dataVars, wb, u_error>>

(* The process changes the block: after getblk it overwrites all of it,    *)
(* after bread part of what it read.  Every other copy is out of date.     *)
Update(p) ==
  LET b == bp[p]
  IN  /\ op(p) \in {"bread", "getblk", "iupdat"}
      /\ "B_ERROR" \notin flags[b]
      /\ latest' = [ c \in Bufs |->
                       IF c = b THEN op(p) = "getblk" \/ latest[b]
                       ELSE latest[c] /\ blk[c] # blk[b] ]
      /\ dlatest' = [dlatest EXCEPT ![blk[b]] = FALSE]

(* bwrite: write and wait.                                                 *)
HoldBwrite(p) ==
  /\ Runs(p, "hold")
  /\ Update(p)
  /\ flags' = [flags EXCEPT ![bp[p]] = WriteFlags(@)]
  /\ Strategy(bp[p], FALSE)
  /\ Goto(p, "wwait")
  /\ UNCHANGED <<blk, bq_lru, bq_age, flwanted, bp, wb, wchan, u_error>>

(* bawrite: the buffer is the driver's from here on.  On a delayed write   *)
(* bwrite goes on to set B_AGE; rwip, through with the block, has set it   *)
(* before.                                                                 *)
Bawrite(p, aged) ==
  LET b == bp[p]
  IN  /\ flags' = [flags EXCEPT ![b] = WriteFlags(@ \cup {"B_ASYNC"} \cup aged)]
      /\ Strategy(b, FALSE)
      /\ bp' = [bp EXCEPT ![p] = NoBuf]
      /\ wb' = IF Delwri(b) THEN [wb EXCEPT ![p] = b] ELSE wb
      /\ Step(p, IF Delwri(b) THEN "age" ELSE "idle",
                 [frame[p] EXCEPT !.ret = "idle"])
      /\ UNCHANGED <<blk, bq_lru, bq_age, flwanted, wchan, u_error>>

HoldBawrite(p) ==
  /\ Runs(p, "hold")
  /\ op(p) # "iupdat"
  /\ Update(p)
  /\ \E aged \in {{}, {"B_AGE"}} : Bawrite(p, aged)

(* bdwrite: marked and released; on a tape it is bawrite.                  *)
HoldBdwrite(p) ==
  /\ Runs(p, "hold")
  /\ op(p) # "iupdat"
  /\ Update(p)
  /\ IF blk[bp[p]][1] \in TapeDevs
       THEN Bawrite(p, {})
       ELSE /\ Brelse(bp[p], flags[bp[p]] \cup {"B_DELWRI", "B_DONE"})
            /\ bp' = [bp EXCEPT ![p] = NoBuf]
            /\ Goto(p, "idle")
            /\ UNCHANGED <<ioq, wb, u_error>>

(* The end of a synchronous bwrite: release the buffer, go on with the     *)
(* caller.                                                                 *)
BwriteBrelse(p) ==
  /\ Runs(p, "brelse")
  /\ Brelse(bp[p], flags[bp[p]])
  /\ bp' = [bp EXCEPT ![p] = NoBuf]
  /\ Goto(p, CASE op(p) = "fsync"  -> ret(p)
               [] op(p) = "iupdat" -> "fsynced"
               [] OTHER            -> "idle")
  /\ UNCHANGED <<ioq, dataVars, wb, u_error>>

-----------------------------------------------------------------------------
(* fsync: syncip flushes the blocks of a small file one by one, and the    *)
(* whole device for a large file; then iupdat writes the inode.            *)

SmallFile == Len(File) < NBUF \div 2

(* syncip hands blkflush a block number fsbtodb has already converted.     *)
SyncipBlkflush(p) ==
  /\ Runs(p, "syncip")
  /\ SmallFile /\ lbn(p) <= Len(File)
  /\ Step(p, "blkflush", [frame[p] EXCEPT !.xb = Dblk(File[lbn(p)]), !.lbn = @ + 1])
  /\ UNCHANGED <<bufVars, dataVars, bp, wb, wchan, u_error>>

(* Mutant: the walk starts one buffer late.                                *)
DirtyLate(p) == { b \in Bufs : b > lbn(p) /\ blk[b][1] = InodeBlk[1] /\ Delwri(b) }

(* The buffers the large-file walk stops at, from position lbn on.         *)
Dirty(p) == { b \in Bufs : b >= lbn(p) /\ blk[b][1] = InodeBlk[1] /\ Delwri(b) }
IsFirst(b, S) == b \in S /\ \A c \in S : b <= c

SyncipSleep(p) ==
  /\ Runs(p, "syncip")
  /\ ~ SmallFile
  /\ \E b \in Bufs :
       /\ IsFirst(b, Dirty(p))
       /\ AwaitBuf(p, b)
       /\ frame' = [frame EXCEPT ![p].lbn = b]

(* Mutant: the buffer is written whether or not it is busy.                *)
FlushBufUnchecked(p, b, r, n) ==
  /\ NotAvail(b, WriteFlags(flags[b] \cup {"B_BUSY"}))
  /\ Strategy(b, FALSE)
  /\ bp' = [bp EXCEPT ![p] = b]
  /\ Step(p, "wwait", [frame[p] EXCEPT !.ret = r, !.lbn = n])
  /\ UNCHANGED <<blk, flwanted, dataVars, wb, wchan, u_error>>

(* notavail and a synchronous bwrite of a free buffer; then go on at r.    *)
FlushBuf(p, b, r, n) ==
  /\ ~ Busy(b)
  /\ NotAvail(b, WriteFlags(flags[b] \cup {"B_BUSY"}))
  /\ Strategy(b, FALSE)
  /\ bp' = [bp EXCEPT ![p] = b]
  /\ Step(p, "wwait", [frame[p] EXCEPT !.ret = r, !.lbn = n])
  /\ UNCHANGED <<blk, flwanted, dataVars, wb, wchan, u_error>>

SyncipWrite(p) ==
  /\ Runs(p, "syncip")
  /\ ~ SmallFile
  /\ \E b \in Bufs : IsFirst(b, Dirty(p)) /\ FlushBuf(p, b, "syncip", b + 1)

SyncipDone(p) ==
  /\ Runs(p, "syncip")
  /\ IF SmallFile THEN lbn(p) > Len(File) ELSE Dirty(p) = {}
  /\ Step(p, "getblk", [frame[p] EXCEPT !.op = "iupdat", !.xb = InodeBlk, !.ret = "bread"])
  /\ UNCHANGED <<bufVars, dataVars, bp, wb, wchan, u_error>>

BlkflushSleep(p) ==
  /\ Runs(p, "blkflush")
  /\ \E b \in Match(xb(p)) : AwaitBuf(p, b)
  /\ UNCHANGED frame

BlkflushWrite(p) ==
  /\ Runs(p, "blkflush")
  /\ \E b \in Match(xb(p)) : Delwri(b) /\ FlushBuf(p, b, "blkflush", lbn(p))

BlkflushDone(p) ==
  /\ Runs(p, "blkflush")
  /\ \A b \in Match(xb(p)) : ~ Busy(b) /\ ~ Delwri(b)
  /\ Goto(p, "syncip")
  /\ UNCHANGED <<bufVars, dataVars, bp, wb, wchan, u_error>>

(* The system call returns u.u_error to the user.                          *)
FsyncReturn(p) ==
  /\ Runs(p, "fsynced")
  /\ Goto(p, "idle")
  /\ UNCHANGED <<bufVars, dataVars, bp, wb, wchan, u_error>>

-----------------------------------------------------------------------------
(* bflush and binval.                                                      *)

(* Mutant: the AGE list is not scanned.                                    *)
ScanLruOnly == bq_lru

(* bflush scans the LRU list and then the AGE list.                        *)
ScanOrder == bq_lru \o bq_age
Flushable(p, b) == Delwri(b) /\ blk[b][1] = xb(p)[1]

(* One write, asynchronous; the scan then starts over.                     *)
BflushWrite(p) ==
  /\ Runs(p, "bflush")
  /\ \E i \in DOMAIN ScanOrder :
       /\ Flushable(p, ScanOrder[i])
       /\ \A j \in 1..(i - 1) : ~ Flushable(p, ScanOrder[j])
       /\ PushOut(p, ScanOrder[i])

BflushDone(p) ==
  /\ Runs(p, "bflush")
  /\ \A b \in Elems(ScanOrder) : ~ Flushable(p, b)
  /\ Goto(p, IF ret(p) = "binval" THEN "binval" ELSE "idle")
  /\ UNCHANGED <<bufVars, dataVars, bp, wb, wchan, u_error>>

(* binval: nothing of the closed device may be found again.                *)
Binval(p) ==
  /\ Runs(p, "binval")
  /\ flags' = [ b \in Bufs |-> IF blk[b][1] = xb(p)[1]
                                 THEN flags[b] \cup {"B_INVAL"} ELSE flags[b] ]
  /\ Goto(p, "d_close")
  /\ UNCHANGED <<blk, bq_lru, bq_age, flwanted, ioq, dataVars, bp, wb, wchan, u_error>>

(* The driver's close routine: with nulldev there is none, and hk, rl and  *)
(* xp wait for the drive's queue if no other partition is open.            *)
DevClose(p) ==
  /\ Runs(p, "d_close")
  /\ CloseWaits => ioq = <<>>
  /\ Goto(p, "idle")
  /\ UNCHANGED <<bufVars, dataVars, bp, wb, wchan, u_error>>

-----------------------------------------------------------------------------
(* binit: every buffer is released as B_INVAL, so the AGE list holds them  *)
(* in reverse order of their release.                                      *)
Init ==
  /\ flags = [b \in Bufs |-> {"B_INVAL"}]
  /\ blk = [b \in Bufs |-> NoBlk]
  /\ bq_lru = <<>>
  /\ bq_age = [i \in 1..NBUF |-> NBUF + 1 - i]
  /\ flwanted = FALSE
  /\ ioq = <<>>
  /\ pc = [p \in Procs |-> "idle"]
  /\ frame = [p \in Procs |-> NoFrame]
  /\ bp = [p \in Procs |-> NoBuf]
  /\ wb = [p \in Procs |-> NoBuf]
  /\ wchan = [p \in Procs |-> NoChan]
  /\ u_error = [p \in Procs |-> FALSE]
  /\ cur = NoProc
  /\ latest = [b \in Bufs |-> FALSE]
  /\ dlatest = [x \in DevBlks |-> TRUE]

Start(p) ==
  \/ CallBread(p) \/ CallBreada(p) \/ CallGetblk(p) \/ CallGeteblk(p)
  \/ CallFsync(p) \/ CallBflush(p) \/ CallClose(p)

Proceed(p) ==
  \/ GetblkSleep(p) \/ GetblkHit(p) \/ GetblkMiss(p)
  \/ GetnewbufSleep(p) \/ GetnewbufWrite(p) \/ GetnewbufTake(p)
  \/ BwriteAge(p) \/ Take(p) \/ Bread(p)
  \/ BreadaFirst(p) \/ RaCheck(p) \/ Rahead(p) \/ RaDone(p)
  \/ BiowaitSleep(p) \/ BiowaitDone(p)
  \/ HoldBrelse(p) \/ HoldBwrite(p) \/ HoldBawrite(p) \/ HoldBdwrite(p)
  \/ BwriteBrelse(p)
  \/ SyncipBlkflush(p) \/ SyncipSleep(p) \/ SyncipWrite(p) \/ SyncipDone(p)
  \/ BlkflushSleep(p) \/ BlkflushWrite(p) \/ BlkflushDone(p) \/ FsyncReturn(p)
  \/ BflushWrite(p) \/ BflushDone(p) \/ Binval(p) \/ DevClose(p)

Next == Interrupt \/ \E p \in Procs : Start(p) \/ Proceed(p)

Spec == Init /\ [][Next]_vars

(* A process that can run is run, and the controller ends every transfer.  *)
FairSpec == Spec /\ WF_vars(Interrupt) /\ \A p \in Procs : WF_vars(Proceed(p))

-----------------------------------------------------------------------------
PCs == { "idle", "getblk", "getnewbuf", "age", "take", "bread", "breada",
         "ra_check", "rahead", "ra_done", "rwait", "wwait", "hold", "brelse",
         "syncip", "blkflush", "fsynced", "bflush", "binval", "d_close" }

FrameType ==
  [ op : AllOps \cup {"iupdat", "none"}, ret : PCs, xb : Int \X Int,
    ra : Int \X Int, lbn : Nat \ {0}, failed : BOOLEAN, slept : BOOLEAN ]

(* The variables have the types of the structures they stand for.          *)
TypeOK ==
  /\ flags \in [Bufs -> SUBSET FlagSet]
  /\ blk \in [Bufs -> DevBlks \cup {NoBlk}]
  /\ bq_lru \in Seq(Bufs) /\ bq_age \in Seq(Bufs) /\ ioq \in Seq(Bufs)
  /\ flwanted \in BOOLEAN
  /\ pc \in [Procs -> PCs]
  /\ frame \in [Procs -> FrameType]
  /\ bp \in [Procs -> Bufs \cup {NoBuf}]
  /\ wb \in [Procs -> Bufs \cup {NoBuf}]
  /\ wchan \in [Procs -> Bufs \cup {BFREELIST, NoChan}]
  /\ u_error \in [Procs -> BOOLEAN]
  /\ cur \in Procs \cup {NoProc}
  /\ latest \in [Bufs -> BOOLEAN]
  /\ dlatest \in [DevBlks -> BOOLEAN]

(* A buffer is on exactly one free list, and once, unless it is busy:      *)
(* brelse and notavail are the only places that link and unlink it.        *)
FreeIffNotBusy ==
  /\ Distinct(bq_lru) /\ Distinct(bq_age)
  /\ Elems(bq_lru) \cap Elems(bq_age) = {}
  /\ Elems(bq_lru) \cup Elems(bq_age) = { b \in Bufs : ~ Busy(b) }

(* Who may touch a busy buffer: the process that took it, or the driver    *)
(* that got it with B_ASYNC.  At "age" the process has given it away.      *)
Owns(p, b) == bp[p] = b \/ (wb[p] = b /\ pc[p] # "age")
DriverOwns(b) == b \in Elems(ioq) /\ "B_ASYNC" \in flags[b]

(* A busy buffer has exactly one owner, so it is never leaked, never given *)
(* to two processes and never released twice.                              *)
OneOwner ==
  /\ \A b \in Bufs : Busy(b) <=> DriverOwns(b) \/ \E p \in Procs : Owns(p, b)
  /\ \A b \in Bufs : \A p \in Procs :
       Owns(p, b) => /\ ~ DriverOwns(b)
                     /\ \A q \in Procs : Owns(q, b) => q = p
  /\ \A p \in Procs : bp[p] # NoBuf => wb[p] # bp[p]

(* biodone never panics with "dup biodone": a buffer at a driver is there  *)
(* once, is busy and is not marked done.                                   *)
NoDupBiodone ==
  /\ Distinct(ioq)
  /\ \A b \in Elems(ioq) : Busy(b) /\ "B_DONE" \notin flags[b]

(* No wakeup is lost: who sleeps on a buffer either waits for its transfer *)
(* or has B_WANTED set on a busy buffer, and who sleeps for a free buffer  *)
(* has B_WANTED set on bfreelist[0] while there is none.                   *)
NoLostWakeup ==
  \A p \in Procs :
    /\ wchan[p] = BFREELIST => flwanted /\ NoFree
    /\ wchan[p] \in Bufs =>
         \/ wchan[p] = bp[p] /\ wchan[p] \in Elems(ioq)
         \/ Busy(wchan[p]) /\ "B_WANTED" \in flags[wchan[p]]

(* The late "b_flags |= B_AGE" of bwrite lands on the buffer while it is   *)
(* still at the driver or already free, never on one another process has   *)
(* taken since.                                                            *)
LateAgeHarmless ==
  \A p \in Procs : pc[p] = "age" =>
    \/ wb[p] \in Elems(ioq) /\ DriverOwns(wb[p])
    \/ ~ Busy(wb[p])

(* getblk: "If the appropriate block is already associated, return it":    *)
(* a block is never in two valid buffers.                                  *)
UniqueBlock ==
  \A b, c \in Bufs :
    b # c /\ blk[b] = blk[c] /\ blk[b] # NoBlk => ~ (Valid(b) /\ Valid(c))

(* Until it sleeps in getnewbuf, a process that missed still knows that    *)
(* nobody has brought the block in: only that sleep makes duplicates.      *)
SearchHolds ==
  \A p \in Procs :
    pc[p] = "getnewbuf" /\ op(p) # "geteblk" /\ ~ frame[p].slept => ~ incore(Want(p))

(* What a process reads out of the cache holds every update made so far.   *)
Coherent ==
  \A p \in Procs :
    pc[p] = "hold" /\ op(p) \in {"bread", "breada"}
      /\ "B_ERROR" \notin flags[bp[p]] => latest[bp[p]]

(* No update is lost: while the disk is out of date, some valid or dirty   *)
(* buffer holds the block as it should be.                                 *)
NoLostUpdate ==
  \A x \in DevBlks : ~ dlatest[x] =>
    \E b \in Bufs : /\ blk[b] = x /\ latest[b]
                    /\ Busy(b) \/ Delwri(b)

(* Closing a device leaves no delayed write behind: binval marks a buffer  *)
(* invalid only after bflush has started the write, so no stale block is   *)
(* written over the device once it is in use again.                        *)
NoStaleDelwri == \A b \in Bufs : ~ (Delwri(b) /\ ~ Valid(b))

(* fsync leaves no delayed write of the file behind.                       *)
FsyncFlushed ==
  \A p \in Procs : pc[p] = "fsynced" =>
    \A i \in DOMAIN File : \A b \in Match(File[i]) : ~ Delwri(b)

(* fsync returns an error if one of its transfers failed.                  *)
FsyncErrorReported ==
  \A p \in Procs : pc[p] = "fsynced" /\ frame[p].failed => u_error[p]

(* With finitely many calls, every call returns and every transfer ends.   *)
Quiescent == ioq = <<>> /\ \A p \in Procs : pc[p] = "idle"
EventuallyQuiescent == <>[]Quiescent
=============================================================================
