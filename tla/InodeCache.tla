------------------------------ MODULE InodeCache ------------------------------
(***************************************************************************)
(* The table of in-core inodes (sys/sys/ufs_inode.c: iget, igrab, iput,    *)
(* irele, iupdat), the name cache and the directory search of namei, the   *)
(* list of free inodes in the super-block (sys/sys/ufs_alloc.c: ialloc,    *)
(* ifree), and the calls that use them: open, creat, close, unlink, sync.  *)
(*                                                                         *)
(* The kernel is not preempted: a process that is inside it keeps the cpu  *)
(* until it sleeps, in a transfer or for a lock.  A path has one component *)
(* in a directory that stays in core; the names are those of regular       *)
(* files, with one link each.                                              *)
(***************************************************************************)
EXTENDS Integers, Sequences, FiniteSets, SequencesExt, FiniteSetsExt, FreeLists

CONSTANTS
  Procs, Nobody,
  Slots, NoSlot,      \* the table inode[]
  Entries, NoEntry,   \* the name cache
  Dirs, Names, NoName,
  DirOf,              \* the directory each name is in
  NINO,               \* the disk has the inodes 1 .. NINO ...
  INOPB,              \* ... in blocks of INOPB
  NICINOD,            \* the room of fs_inode
  NBEHIND,            \* ialloc scans from the top after so many frees behind
                      \* fs_lasti; 4 * NICINOD in the code
  Loads               \* the slots there are, the calls each process makes,
                      \* and what may fail

Inodes == 1 .. NINO

ASSUME InodeAssumption ==
  /\ Nobody \notin Procs /\ NoSlot \notin Slots /\ NoEntry \notin Entries
  /\ NoName \notin Names /\ DirOf \in [Names -> Dirs]
  /\ IsFiniteSet(Procs) /\ IsFiniteSet(Slots) /\ IsFiniteSet(Entries) /\ Entries # {}
  /\ NINO \in Nat \ {0} /\ INOPB \in Nat \ {0} /\ NICINOD \in Nat \ {0} /\ NBEHIND \in Nat
  /\ NINO % INOPB = 0
  /\ Loads \subseteq [slots: SUBSET Slots,
                      calls: [Procs -> SUBSET {"open", "creat", "unlink", "write", "sync"}],
                      faults: SUBSET {"iget", "bread", "direnter", "dirremove",
                                      "dirwrite", "iupdat", "access"}]

VARIABLES
  load,   \* the load, which never changes
  x,      \* the table of inodes
  free,   \* its free list, from ifreeh
  nc,     \* the entries of the name cache
  lru,    \* their order, from nchhead
  disk,   \* the inodes on the disk
  dir,    \* the inode each name leads to; 0: none
  dlock,  \* who has locked each directory
  fs,     \* the super-block
  file,   \* the file a process has open
  cpu,    \* who runs in the kernel
  pc,     \* where a process is
  fr,     \* its arguments and local variables
  slp     \* the inode whose lock it sleeps for

vars == <<load, x, free, nc, lru, disk, dir, dlock, fs, file, cpu, pc, fr, slp>>

(* ino: i_number, 0 when the slot is on no hash chain; mode: i_mode # 0;   *)
(* dirty: any of IUPD, IACC, ICHG, IMOD; lock: who set ILOCKED.            *)
NoInode ==
  [ino |-> 0, count |-> 0, mode |-> FALSE, nlink |-> 0, dirty |-> FALSE,
   lock |-> Nobody, want |-> FALSE]

(* ok: nc_id is the i_id of nc_ip.  An entry that is on no hash chain has  *)
(* no name, and keeps the rest.                                            *)
NoCache == [name |-> NoName, slot |-> NoSlot, ok |-> FALSE]

(* slot: the inode it has a reference to; seen, ncp: what the name cache   *)
(* gave; ino: the inode asked for; first, blk: the scan of the disk; back, *)
(* then: where the callers of iget and of irele go on.                     *)
NoFrame ==
  [call |-> "none", name |-> NoName, slot |-> NoSlot, seen |-> NoSlot,
   ncp |-> NoEntry, ino |-> 0, first |-> FALSE, blk |-> 0,
   back |-> "user", then |-> "user"]

-----------------------------------------------------------------------------
(* Where a process does not hold the cpu: in user mode, or in a transfer.  *)
Asleep ==
  {"user", "namei", "search", "iget_read", "itrunc", "ifree", "irele_iupdat",
   "sync_iupdat", "maknode_iupdat", "direnter", "dirremove", "ialloc_bread", "rwip"}

Runs(p, l) == pc[p] = l /\ slp[p] = NoSlot /\ cpu \in {p, Nobody}
Goto(p, l) ==
  /\ pc' = [pc EXCEPT ![p] = l]
  /\ cpu' = IF l \in Asleep THEN Nobody ELSE p
  /\ UNCHANGED load
Frame(p, f) == fr' = [fr EXCEPT ![p] = f]

(* The call returns to user mode.                                          *)
Return(p) == Frame(p, NoFrame) /\ Goto(p, "user")

Slot(p) == fr[p].slot
Dir(p) == DirOf[fr[p].name]
Block(i) == (i - 1) \div INOPB + 1
FirstOf(b) == (b - 1) * INOPB + 1

Locked(s) == x[s].lock # Nobody
Grabbed(p, r) == [r EXCEPT !.lock = p, !.count = @ + 1]
Unlocked(r) == [r EXCEPT !.lock = Nobody, !.want = FALSE]
(* Mutant: nobody is woken.                                                *)
WokenNot(s) == slp
Woken(s) ==
  IF x[s].want
    THEN [p \in Procs |-> IF slp[p] = s THEN NoSlot ELSE slp[p]]
    ELSE slp

(* ILOCK, iget and igrab when the inode is locked: IWANT, and sleep.       *)
LockWait(p, s) ==
  /\ Locked(s)
  /\ x' = [x EXCEPT ![s].want = TRUE]
  /\ slp' = [slp EXCEPT ![p] = s] /\ cpu' = Nobody
  /\ UNCHANGED <<load, free, nc, lru, disk, dir, dlock, fs, file, pc, fr>>

(* IUNLOCK with r put into the slot.                                       *)
Release(s, r) ==
  /\ x' = [x EXCEPT ![s] = Unlocked(r)]
  /\ slp' = Woken(s)
(* iput, with r put into the slot: unlock it, and go on to irele.          *)
Iput(p, s, r) == Release(s, r) /\ Goto(p, "irele")

Update(s, r) == x' = [x EXCEPT ![s] = r] /\ UNCHANGED slp

(* The directory is unlocked; it has other references, so that irele only  *)
(* counts them down.                                                       *)
DirUnlock(p) == dlock' = [dlock EXCEPT ![Dir(p)] = Nobody]

(* A process that has to wait for a directory or for fs_ilock sleeps; it   *)
(* is woken when that is free.                                             *)
GiveUpCpu(p) ==
  /\ cpu = p /\ cpu' = Nobody
  /\ UNCHANGED <<load, x, free, nc, lru, disk, dir, dlock, fs, file, pc, fr, slp>>

-----------------------------------------------------------------------------
(* iget(fr.ino), which goes on at fr.back with fr.slot, NoSlot if it fails. *)

InCore(i) == {s \in Slots : x[s].ino = i}

(* A slot that has no references leaves the free list when it gets one.    *)
(* Mutant: it stays on the free list.                                      *)
OffFreeNot(s) == free
OffFree(s) == IF x[s].count = 0 THEN Unlink(free, s) ELSE free

IgetWait(p) ==
  Runs(p, "iget") /\ \E s \in InCore(fr[p].ino) : LockWait(p, s)

IgetHit(p) ==
  \E s \in InCore(fr[p].ino) :
    /\ Runs(p, "iget") /\ ~ Locked(s)
    /\ Update(s, Grabbed(p, x[s])) /\ free' = OffFree(s)
    /\ Frame(p, [fr[p] EXCEPT !.slot = s]) /\ Goto(p, fr[p].back)
    /\ UNCHANGED <<nc, lru, disk, dir, dlock, fs, file>>

IgetFull(p) ==
  /\ Runs(p, "iget") /\ InCore(fr[p].ino) = {} /\ free = <<>>
  /\ Goto(p, fr[p].back)
  /\ UNCHANGED <<x, free, nc, lru, disk, dir, dlock, fs, file, fr, slp>>

(* cacheinval: the slot gets a new i_id.                                   *)
Cacheinval(s) ==
  [e \in Entries |-> IF nc[e].slot = s THEN [nc[e] EXCEPT !.ok = FALSE] ELSE nc[e]]

(* The oldest free slot is renamed; i_mode and i_nlink are still those of  *)
(* its last inode until the block has been read.                           *)
IgetNew(p) ==
  LET s == Head(free)
  IN /\ Runs(p, "iget") /\ InCore(fr[p].ino) = {} /\ free # <<>>
     /\ Update(s, [Grabbed(p, x[s]) EXCEPT !.ino = fr[p].ino, !.want = FALSE, !.dirty = FALSE])
     /\ free' = Tail(free) /\ nc' = Cacheinval(s)
     /\ Frame(p, [fr[p] EXCEPT !.slot = s]) /\ Goto(p, "iget_read")
     /\ UNCHANGED <<lru, disk, dir, dlock, fs, file>>

IgetRead(p) ==
  LET s == Slot(p)
  IN /\ Runs(p, "iget_read")
     /\ Update(s, [x[s] EXCEPT !.mode = disk[x[s].ino].mode, !.nlink = disk[x[s].ino].nlink])
     /\ Goto(p, fr[p].back)
     /\ UNCHANGED <<free, nc, lru, disk, dir, dlock, fs, file, fr>>

IgetError(p) ==
  /\ Runs(p, "iget_read") /\ "iget" \in load.faults
  /\ Iput(p, Slot(p), [x[Slot(p)] EXCEPT !.ino = 0])
  /\ Frame(p, [fr[p] EXCEPT !.then = fr[p].back])
  /\ UNCHANGED <<free, nc, lru, disk, dir, dlock, fs, file>>

-----------------------------------------------------------------------------
(* irele of fr.slot, which goes on at fr.then.                             *)

(* The reference is gone: the slot goes to the end of the free list if it  *)
(* was the last one.                                                       *)
Dropped(p) == Frame(p, [fr[p] EXCEPT !.slot = NoSlot]) /\ Goto(p, fr[p].then)
LastGone(p) ==
  /\ Release(Slot(p), [x[Slot(p)] EXCEPT !.dirty = FALSE, !.count = @ - 1])
  /\ free' = PushTail(free, Slot(p)) /\ Dropped(p)

(* Mutant: off by one.                                                     *)
UnlinkedBelow(r) == r.nlink < 0
Unlinked(r) == r.nlink <= 0

IreleShared(p) ==
  /\ Runs(p, "irele") /\ x[Slot(p)].count > 1
  /\ Update(Slot(p), [x[Slot(p)] EXCEPT !.count = @ - 1]) /\ Dropped(p)
  /\ UNCHANGED <<free, nc, lru, disk, dir, dlock, fs, file>>

IreleLast(p) ==
  LET r == x[Slot(p)]
  IN /\ Runs(p, "irele") /\ r.count = 1
     /\ IF Unlinked(r) \/ r.dirty
          THEN /\ Update(Slot(p), [r EXCEPT !.lock = p])
               /\ Goto(p, IF Unlinked(r) THEN "itrunc" ELSE "irele_iupdat")
               /\ UNCHANGED <<free, fr>>
          ELSE LastGone(p)
     /\ UNCHANGED <<nc, lru, disk, dir, dlock, fs, file>>

(* ifree: the inode goes into the super-block's list if there is room and  *)
(* nobody is filling it.  Bounds: fs_nbehind is only compared with         *)
(* NBEHIND, and fs_tinode is wrong once it is above NINO or below 0.       *)
MinTinode == -1
MaxTinode == NINO + 1
Ifree(i) ==
  LET s == [fs EXCEPT !.tinode = Min({@ + 1, MaxTinode})]
  IN IF s.ilock > 0 THEN s
     ELSE IF Len(s.list) < NICINOD THEN [s EXCEPT !.list = Append(@, i)]
     ELSE IF s.lasti > i /\ s.nbehind < NBEHIND THEN [s EXCEPT !.nbehind = @ + 1]
     ELSE s

(* iupdat has read the block of the inode, and copies the inode into it.   *)
(* An inode that has lost its number is written where no inode is.  If the *)
(* block cannot be read iupdat returns, and the inode keeps its flags.     *)
Written(s) ==
  [i \in Inodes |-> IF i = x[s].ino THEN [mode |-> x[s].mode, nlink |-> x[s].nlink] ELSE disk[i]]
Iupdat(s) ==
  {[disk |-> Written(s), dirty |-> FALSE]} \cup
  {[disk |-> disk, dirty |-> TRUE] : f \in load.faults \cap {"iupdat"}}

(* itrunc has freed the blocks, and writes the inode, still with its mode. *)
Itrunc(p) ==
  /\ Runs(p, "itrunc")
  /\ \E u \in Iupdat(Slot(p)) :
       disk' = u.disk /\ Update(Slot(p), [x[Slot(p)] EXCEPT !.dirty = u.dirty])
  /\ Goto(p, "ifree")
  /\ UNCHANGED <<free, nc, lru, dir, dlock, fs, file, fr>>

IreleIfree(p) ==
  /\ Runs(p, "ifree")
  /\ Update(Slot(p), [x[Slot(p)] EXCEPT !.mode = FALSE, !.dirty = TRUE])
  /\ fs' = Ifree(x[Slot(p)].ino)
  /\ Goto(p, "irele_iupdat")
  /\ UNCHANGED <<free, nc, lru, disk, dir, dlock, file, fr>>

IreleIupdat(p) ==
  /\ Runs(p, "irele_iupdat")
  /\ \E u \in Iupdat(Slot(p)) : disk' = u.disk
  /\ LastGone(p)
  /\ UNCHANGED <<nc, lru, dir, dlock, fs, file>>

-----------------------------------------------------------------------------
(* namei of fr.name, for open, creat and unlink.                           *)

ByName(n) == {e \in Entries : nc[e].name = n}
Age(e) == Position(lru, e)
Latest(es) == CHOOSE e \in es : \A d \in es : Age(d) <= Age(e)
ToTail(e) == PushTail(Unlink(lru, e), e)
ToHead(e) == PushHead(Unlink(lru, e), e)

DirLock(p) == dlock[Dir(p)] = Nobody /\ dlock' = [dlock EXCEPT ![Dir(p)] = p]

(* unlink wants no entry to exist: its makeentry is 0.                     *)
Usable(p, e) == nc[e].ok /\ fr[p].call # "unlink"

LookupHit(p) ==
  LET e == Latest(ByName(fr[p].name))
  IN /\ Runs(p, "namei") /\ DirLock(p) /\ ByName(fr[p].name) # {} /\ Usable(p, e)
     /\ lru' = ToTail(e)
     /\ Frame(p, [fr[p] EXCEPT !.ncp = e, !.seen = nc[e].slot]) /\ Goto(p, "igrab")
     /\ UNCHANGED <<x, free, nc, disk, dir, fs, file, slp>>

(* The entry is taken off its chain and is the first to be used again.     *)
Forget(e) == nc' = [nc EXCEPT ![e].name = NoName] /\ lru' = ToHead(e)

LookupBad(p) ==
  LET e == Latest(ByName(fr[p].name))
  IN /\ Runs(p, "namei") /\ DirLock(p) /\ ByName(fr[p].name) # {} /\ ~ Usable(p, e)
     /\ Forget(e) /\ Goto(p, "search")
     /\ UNCHANGED <<x, free, disk, dir, fs, file, fr, slp>>

LookupMiss(p) ==
  /\ Runs(p, "namei") /\ DirLock(p) /\ ByName(fr[p].name) = {}
  /\ Goto(p, "search")
  /\ UNCHANGED <<x, free, nc, lru, disk, dir, fs, file, fr, slp>>

(* igrab with the directory locked; then the entry is looked at again.     *)
IgrabWait(p) == Runs(p, "igrab") /\ LockWait(p, fr[p].seen)

(* Mutant: the entry is not looked at again.                               *)
StillValidOnce(e) == TRUE
StillValid(e) == nc[e].ok

Igrab(p) ==
  LET s == fr[p].seen
      f == [fr[p] EXCEPT !.slot = s, !.seen = NoSlot]
  IN /\ Runs(p, "igrab") /\ ~ Locked(s)
     /\ free' = OffFree(s) /\ DirUnlock(p)
     /\ IF StillValid(fr[p].ncp)
          THEN Update(s, Grabbed(p, x[s])) /\ Frame(p, f) /\ Goto(p, "haveino")
          ELSE Iput(p, s, Grabbed(p, x[s])) /\ Frame(p, [f EXCEPT !.then = "relock"])
     /\ UNCHANGED <<nc, lru, disk, dir, fs, file>>

RelockWait(p) == Runs(p, "relock") /\ dlock[Dir(p)] # Nobody /\ GiveUpCpu(p)
Relock(p) ==
  /\ Runs(p, "relock") /\ DirLock(p)
  /\ Forget(fr[p].ncp) /\ Goto(p, "search")
  /\ Frame(p, [fr[p] EXCEPT !.ncp = NoEntry])
  /\ UNCHANGED <<x, free, disk, dir, fs, file, slp>>

(* The blocks of the directory have been read.                             *)
SearchFound(p) ==
  /\ Runs(p, "search") /\ dir[fr[p].name] # 0
  /\ Frame(p, [fr[p] EXCEPT !.ino = dir[fr[p].name], !.back = "child"]) /\ Goto(p, "iget")
  /\ UNCHANGED <<x, free, nc, lru, disk, dir, dlock, fs, file, slp>>
SearchCreate(p) ==
  /\ Runs(p, "search") /\ dir[fr[p].name] = 0 /\ fr[p].call = "creat"
  /\ Goto(p, "ialloc")
  /\ UNCHANGED <<x, free, nc, lru, disk, dir, dlock, fs, file, fr, slp>>
SearchFails(p) ==
  /\ Runs(p, "search")
  /\ (dir[fr[p].name] = 0 /\ fr[p].call # "creat") \/ "bread" \in load.faults
  /\ DirUnlock(p) /\ Return(p)
  /\ UNCHANGED <<x, free, nc, lru, disk, dir, fs, file, slp>>

(* iget has returned the inode of the name.                                *)
ChildNone(p) ==
  /\ Runs(p, "child") /\ Slot(p) = NoSlot
  /\ DirUnlock(p) /\ Return(p)
  /\ UNCHANGED <<x, free, nc, lru, disk, dir, fs, file, slp>>
ChildOpen(p) ==
  LET e == Head(lru)
  IN /\ Runs(p, "child") /\ Slot(p) # NoSlot /\ fr[p].call # "unlink"
     /\ DirUnlock(p)
     /\ nc' = [nc EXCEPT ![e] = [name |-> fr[p].name, slot |-> Slot(p), ok |-> TRUE]]
     /\ lru' = ToTail(e)
     /\ Goto(p, "haveino")
     /\ UNCHANGED <<x, free, disk, dir, fs, file, fr, slp>>
ChildUnlink(p) ==
  /\ Runs(p, "child") /\ Slot(p) # NoSlot /\ fr[p].call = "unlink"
  /\ Goto(p, "dirremove")
  /\ UNCHANGED <<x, free, nc, lru, disk, dir, dlock, fs, file, fr, slp>>
(* namei's EPERM: the directory is sticky, and the file another user's.    *)
LookupRefused(p) ==
  /\ Runs(p, "child") /\ Slot(p) # NoSlot /\ fr[p].call = "unlink" /\ "access" \in load.faults
  /\ DirUnlock(p)
  /\ Iput(p, Slot(p), x[Slot(p)]) /\ Frame(p, [fr[p] EXCEPT !.then = "user"])
  /\ UNCHANGED <<free, nc, lru, disk, dir, fs, file>>
(* unlink's EPERM and EBUSY: the inode is put before the directory.        *)
UnlinkRefused(p) ==
  /\ Runs(p, "child") /\ Slot(p) # NoSlot /\ fr[p].call = "unlink" /\ "access" \in load.faults
  /\ Iput(p, Slot(p), x[Slot(p)]) /\ Frame(p, [fr[p] EXCEPT !.then = "unlinked"])
  /\ UNCHANGED <<free, nc, lru, disk, dir, dlock, fs, file>>

(* open has its inode, locked, and returns it unlocked, or may not open it. *)
Haveino(p) ==
  /\ Runs(p, "haveino")
  /\ Release(Slot(p), x[Slot(p)])
  /\ file' = [file EXCEPT ![p] = Slot(p)] /\ Return(p)
  /\ UNCHANGED <<free, nc, lru, disk, dir, dlock, fs>>
OpenRefused(p) ==
  /\ Runs(p, "haveino") /\ "access" \in load.faults
  /\ Iput(p, Slot(p), x[Slot(p)]) /\ Frame(p, [fr[p] EXCEPT !.then = "user"])
  /\ UNCHANGED <<free, nc, lru, disk, dir, dlock, fs, file>>

-----------------------------------------------------------------------------
(* unlink: dirremove, and iput of the inode with the directory locked.     *)

(* Bound: i_nlink is only compared with 0.                                 *)
MinNlink == -1
Unnamed(r) == [r EXCEPT !.nlink = Max({@ - 1, MinNlink}), !.dirty = TRUE]

(* A write of the directory that fails takes the buffer off its block, and *)
(* the directory is as before; neither dirremove nor direnter looks.       *)
DirWritten(n, i) ==
  {[dir EXCEPT ![n] = i]} \cup {dir : f \in load.faults \cap {"dirwrite"}}

Dirremove(p) ==
  /\ Runs(p, "dirremove")
  /\ \/ /\ dir' \in DirWritten(fr[p].name, 0)
        /\ Iput(p, Slot(p), Unnamed(x[Slot(p)]))
     \/ /\ "dirremove" \in load.faults
        /\ Iput(p, Slot(p), x[Slot(p)]) /\ UNCHANGED dir
  /\ Frame(p, [fr[p] EXCEPT !.then = "unlinked"])
  /\ UNCHANGED <<free, nc, lru, disk, dlock, fs, file>>

UnlinkDone(p) ==
  /\ Runs(p, "unlinked")
  /\ DirUnlock(p) /\ Return(p)
  /\ UNCHANGED <<x, free, nc, lru, disk, dir, fs, file, slp>>

-----------------------------------------------------------------------------
(* maknode and ialloc.                                                     *)

IallocWait(p) == Runs(p, "ialloc") /\ fs.ilock > 0 /\ GiveUpCpu(p)
AtLoop(p) == Runs(p, "ialloc_loop") \/ (Runs(p, "ialloc") /\ fs.ilock = 0)

(* The last inode of the list; a number that is no file's is skipped.      *)
IallocPop(p) ==
  /\ AtLoop(p) /\ fs.list # <<>>
  /\ fs' = [fs EXCEPT !.list = Front(@)]
  /\ IF Last(fs.list) \in Inodes
       THEN /\ Frame(p, [fr[p] EXCEPT !.ino = Last(fs.list), !.back = "ialloc_got"])
            /\ Goto(p, "iget")
       ELSE Goto(p, "ialloc_loop") /\ UNCHANGED fr
  /\ UNCHANGED <<x, free, nc, lru, disk, dir, dlock, file, slp>>

(* The list is empty: lock it and scan the inodes, from fs_lasti or from   *)
(* the first.                                                              *)
FromTop(s) == [s EXCEPT !.nbehind = 0]
IallocScan(p) ==
  LET first == fs.nbehind < NBEHIND
      locked == [fs EXCEPT !.ilock = @ + 1]
  IN /\ AtLoop(p) /\ fs.list = <<>>
     /\ fs' = IF first THEN locked ELSE FromTop(locked)
     /\ Frame(p, [fr[p] EXCEPT !.first = first, !.blk = IF first THEN Block(fs.lasti) ELSE 1])
     /\ Goto(p, "ialloc_bread")
     /\ UNCHANGED <<x, free, nc, lru, disk, dir, dlock, file, slp>>

(* The inodes of block b that are free on the disk and not in core.        *)
Spare(i) == ~ disk[i].mode /\ InCore(i) = {}
Spares(b) == SetToSortSeq({i \in Inodes : Block(i) = b /\ Spare(i)}, <)

(* They are added until the list is full, which is looked at after adding. *)
Added(b) ==
  LET room == Max({1, NICINOD - Len(fs.list)})
  IN fs.list \o SubSeq(Spares(b), 1, Min({room, Len(Spares(b))}))

NextBlock(p) ==
  IF fr[p].blk < Block(NINO)
    THEN Frame(p, [fr[p] EXCEPT !.blk = @ + 1]) /\ Goto(p, "ialloc_bread")
    ELSE Goto(p, "ialloc_scanned") /\ UNCHANGED fr

IallocBread(p) ==
  /\ Runs(p, "ialloc_bread")
  /\ fs' = [fs EXCEPT !.list = Added(fr[p].blk)]
  /\ IF Len(Added(fr[p].blk)) >= NICINOD
       THEN Goto(p, "ialloc_scanned") /\ UNCHANGED fr
       ELSE NextBlock(p)
  /\ UNCHANGED <<x, free, nc, lru, disk, dir, dlock, file, slp>>
IallocBreadError(p) ==
  /\ Runs(p, "ialloc_bread") /\ "bread" \in load.faults
  /\ NextBlock(p)
  /\ UNCHANGED <<x, free, nc, lru, disk, dir, dlock, fs, file, slp>>

Short(p) == Len(fs.list) < NICINOD /\ fr[p].first

(* Not enough after fs_lasti: forget what was found and scan everything.   *)
IallocAgain(p) ==
  /\ Runs(p, "ialloc_scanned") /\ Short(p)
  /\ fs' = FromTop([fs EXCEPT !.list = <<>>])
  /\ Frame(p, [fr[p] EXCEPT !.first = FALSE, !.blk = 1]) /\ Goto(p, "ialloc_bread")
  /\ UNCHANGED <<x, free, nc, lru, disk, dir, dlock, file, slp>>
IallocScanned(p) ==
  /\ Runs(p, "ialloc_scanned") /\ ~ Short(p)
  /\ fs' = [fs EXCEPT !.lasti = FirstOf(fr[p].blk), !.ilock = 0]
  /\ IF fs.list # <<>>
       THEN /\ Frame(p, [fr[p] EXCEPT !.first = FALSE, !.blk = 0]) /\ Goto(p, "ialloc_loop")
            /\ UNCHANGED dlock
       ELSE DirUnlock(p) /\ Return(p)
  /\ UNCHANGED <<x, free, nc, lru, disk, dir, file, slp>>

IallocNone(p) ==
  /\ Runs(p, "ialloc_got") /\ Slot(p) = NoSlot
  /\ DirUnlock(p) /\ Return(p)
  /\ UNCHANGED <<x, free, nc, lru, disk, dir, fs, file, slp>>

(* Mutant: the list is believed.                                           *)
AllocatedNever(p) == FALSE
AllocatedAfterAll(p) == x[Slot(p)].mode

IallocTaken(p) ==
  /\ Runs(p, "ialloc_got") /\ Slot(p) # NoSlot /\ AllocatedAfterAll(p)
  /\ Iput(p, Slot(p), x[Slot(p)])
  /\ Frame(p, [fr[p] EXCEPT !.then = "ialloc_loop"])
  /\ UNCHANGED <<free, nc, lru, disk, dir, dlock, fs, file>>

(* maknode makes it a file, and writes it before its name.                 *)
Maknode(p) ==
  /\ Runs(p, "ialloc_got") /\ Slot(p) # NoSlot /\ ~ AllocatedAfterAll(p)
  /\ Update(Slot(p), [x[Slot(p)] EXCEPT !.mode = TRUE, !.nlink = 1, !.dirty = TRUE])
  /\ fs' = [fs EXCEPT !.tinode = Max({@ - 1, MinTinode})]
  /\ Goto(p, "maknode_iupdat")
  /\ UNCHANGED <<free, nc, lru, disk, dir, dlock, file, fr>>
MaknodeIupdat(p) ==
  /\ Runs(p, "maknode_iupdat")
  /\ \E u \in Iupdat(Slot(p)) :
       disk' = u.disk /\ Update(Slot(p), [x[Slot(p)] EXCEPT !.dirty = u.dirty])
  /\ Goto(p, "direnter")
  /\ UNCHANGED <<free, nc, lru, dir, dlock, fs, file, fr>>
Direnter(p) ==
  /\ Runs(p, "direnter")
  /\ DirUnlock(p)
  /\ \/ /\ dir' \in DirWritten(fr[p].name, x[Slot(p)].ino)
        /\ Goto(p, "haveino") /\ UNCHANGED <<x, fr, slp>>
     \/ /\ "direnter" \in load.faults
        /\ Iput(p, Slot(p), Unnamed(x[Slot(p)]))
        /\ Frame(p, [fr[p] EXCEPT !.then = "user"])
        /\ UNCHANGED dir
  /\ UNCHANGED <<free, nc, lru, disk, fs, file>>

-----------------------------------------------------------------------------
(* The system calls.  A process has at most one file open.                 *)

Call(p) ==
  \E c \in load.calls[p] \cap {"open", "creat", "unlink"}, n \in Names :
    /\ Runs(p, "user") /\ cpu = Nobody
    /\ c # "unlink" => file[p] = NoSlot
    /\ Frame(p, [NoFrame EXCEPT !.call = c, !.name = n]) /\ Goto(p, "namei")
    /\ UNCHANGED <<x, free, nc, lru, disk, dir, dlock, fs, file, slp>>

(* vn_closefile: irele, and then closei, which looks at what is left.      *)
Close(p) ==
  /\ Runs(p, "user") /\ cpu = Nobody /\ file[p] # NoSlot
  /\ Frame(p, [NoFrame EXCEPT !.call = "close", !.slot = file[p], !.seen = file[p],
                               !.then = "closei"])
  /\ file' = [file EXCEPT ![p] = NoSlot] /\ Goto(p, "irele")
  /\ UNCHANGED <<x, free, nc, lru, disk, dir, dlock, fs, slp>>
Closei(p) ==
  /\ Runs(p, "closei")
  /\ Return(p)
  /\ UNCHANGED <<x, free, nc, lru, disk, dir, dlock, fs, file, slp>>

(* ino_rw: the inode is locked during the transfer, which changes it.      *)
Write(p) ==
  /\ "write" \in load.calls[p] /\ Runs(p, "user") /\ cpu = Nobody /\ file[p] # NoSlot
  /\ Goto(p, "ino_rw")
  /\ UNCHANGED <<x, free, nc, lru, disk, dir, dlock, fs, file, fr, slp>>
InoRwWait(p) == Runs(p, "ino_rw") /\ LockWait(p, file[p])
InoRw(p) ==
  /\ Runs(p, "ino_rw") /\ ~ Locked(file[p])
  /\ Update(file[p], [x[file[p]] EXCEPT !.lock = p])
  /\ Goto(p, "rwip")
  /\ UNCHANGED <<free, nc, lru, disk, dir, dlock, fs, file, fr>>
Rwip(p) ==
  /\ Runs(p, "rwip")
  /\ Release(file[p], [x[file[p]] EXCEPT !.dirty = TRUE])
  /\ Goto(p, "user")
  /\ UNCHANGED <<free, nc, lru, disk, dir, dlock, fs, file, fr>>

(* syncinodes, at one of the inodes it does not skip.                      *)
Sync(p) ==
  \E s \in Slots :
    /\ "sync" \in load.calls[p] /\ Runs(p, "user") /\ cpu = Nobody
    /\ ~ Locked(s) /\ x[s].count > 0 /\ x[s].dirty
    /\ Update(s, Grabbed(p, x[s]))
    /\ Frame(p, [NoFrame EXCEPT !.call = "sync", !.slot = s]) /\ Goto(p, "sync_iupdat")
    /\ UNCHANGED <<free, nc, lru, disk, dir, dlock, fs, file>>
SyncIupdat(p) ==
  /\ Runs(p, "sync_iupdat")
  /\ \E u \in Iupdat(Slot(p)) :
       disk' = u.disk /\ Iput(p, Slot(p), [x[Slot(p)] EXCEPT !.dirty = u.dirty])
  /\ UNCHANGED <<free, nc, lru, dir, dlock, fs, file, fr>>

Init ==
  /\ load \in Loads
  /\ x = [s \in Slots |-> NoInode] /\ free \in SetToSeqs(load.slots)
  /\ nc = [e \in Entries |-> NoCache] /\ lru \in SetToSeqs(Entries)
  /\ disk = [i \in Inodes |-> [mode |-> FALSE, nlink |-> 0]]
  /\ dir = [n \in Names |-> 0]
  /\ dlock = [d \in Dirs |-> Nobody]
  /\ fs = [list |-> <<>>, ilock |-> 0, lasti |-> 1, nbehind |-> 0, tinode |-> NINO]
  /\ file = [p \in Procs |-> NoSlot]
  /\ cpu = Nobody /\ pc = [p \in Procs |-> "user"]
  /\ fr = [p \in Procs |-> NoFrame] /\ slp = [p \in Procs |-> NoSlot]

(* The steps of a call that has been made.                                 *)
Proceed(p) ==
  \/ IgetWait(p) \/ IgetHit(p) \/ IgetFull(p) \/ IgetNew(p) \/ IgetRead(p) \/ IgetError(p)
  \/ IreleShared(p) \/ IreleLast(p) \/ Itrunc(p) \/ IreleIfree(p) \/ IreleIupdat(p)
  \/ LookupHit(p) \/ LookupBad(p) \/ LookupMiss(p)
  \/ IgrabWait(p) \/ Igrab(p) \/ RelockWait(p) \/ Relock(p)
  \/ SearchFound(p) \/ SearchCreate(p) \/ SearchFails(p)
  \/ ChildNone(p) \/ ChildOpen(p) \/ ChildUnlink(p)
  \/ LookupRefused(p) \/ UnlinkRefused(p) \/ Haveino(p) \/ OpenRefused(p)
  \/ Dirremove(p) \/ UnlinkDone(p)
  \/ IallocWait(p) \/ IallocPop(p) \/ IallocScan(p) \/ IallocBread(p)
  \/ IallocBreadError(p) \/ IallocAgain(p) \/ IallocScanned(p)
  \/ IallocNone(p) \/ IallocTaken(p) \/ Maknode(p) \/ MaknodeIupdat(p) \/ Direnter(p)
  \/ Closei(p) \/ InoRwWait(p) \/ InoRw(p) \/ Rwip(p) \/ SyncIupdat(p)

Next == \E p \in Procs : Call(p) \/ Close(p) \/ Write(p) \/ Sync(p) \/ Proceed(p)
Spec == Init /\ [][Next]_vars

-----------------------------------------------------------------------------
(* Properties.                                                             *)

TypeOK ==
  /\ x \in [Slots -> [ino: 0 .. NINO, count: 0 .. 2 * Cardinality(Procs), mode: BOOLEAN,
                      nlink: MinNlink .. 1, dirty: BOOLEAN, lock: Procs \cup {Nobody},
                      want: BOOLEAN]]
  /\ nc \in [Entries -> [name: Names \cup {NoName}, slot: Slots \cup {NoSlot}, ok: BOOLEAN]]
  /\ disk \in [Inodes -> [mode: BOOLEAN, nlink: MinNlink .. 1]]
  /\ dir \in [Names -> 0 .. NINO] /\ dlock \in [Dirs -> Procs \cup {Nobody}]
  /\ file \in [Procs -> Slots \cup {NoSlot}] /\ slp \in [Procs -> Slots \cup {NoSlot}]
  /\ cpu \in Procs \cup {Nobody}

(* The table is exact: an inode is in one slot at most, the free list has  *)
(* each slot without references once, a reference count is the number of   *)
(* open files and calls that have the slot, a lock belongs to a call that  *)
(* has it, and the name cache is in one order.                             *)
TableExact ==
  /\ TypeOK
  /\ \A s, t \in Slots : x[s].ino = x[t].ino /\ x[s].ino # 0 => s = t
  /\ Distinct(free) /\ Elems(free) = {s \in load.slots : x[s].count = 0}
  /\ \A s \in Slots :
       /\ x[s].count = Cardinality({p \in Procs : file[p] = s})
                       + Cardinality({p \in Procs : fr[p].slot = s})
       /\ Locked(s) => s \in {fr[x[s].lock].slot, file[x[s].lock]}
  /\ Distinct(lru) /\ Elems(lru) = Entries

(* The slot of an inode that has been read, and what the inode is.         *)
Loaded(i) == {s \in InCore(i) : \A p \in Procs : ~ (pc[p] = "iget_read" /\ fr[p].slot = s)}
Now(i) ==
  IF Loaded(i) = {} THEN disk[i]
  ELSE LET s == CHOOSE s \in Loaded(i) : TRUE IN [mode |-> x[s].mode, nlink |-> x[s].nlink]

(* The name cache has a name once.                                         *)
CachedOnce == \A n \in Names : Cardinality(ByName(n)) <= 1

(* No file is lost or shared: a name leads to an allocated inode with one  *)
(* link, no two names to one inode, and an inode that is allocated has a   *)
(* name or somebody who still uses it.                                     *)
NamesLead ==
  /\ \A n \in Names : dir[n] # 0 =>
       /\ Now(dir[n]).mode
       /\ \A m \in Names : dir[m] = dir[n] => m = n
       /\ Now(dir[n]).nlink = 1
  /\ \A i \in Inodes : Now(i).mode =>
       \/ \E n \in Names : dir[n] = i
       \/ \E s \in InCore(i) : x[s].count > 0

(* Names lead to files as long as no write of a directory or of an inode   *)
(* is lost in silence.                                                     *)
DiskSound == load.faults \cap {"dirwrite", "iupdat"} = {}
FilesKept == DiskSound => NamesLead

(* namei returns the inode that its name leads to, also when the name      *)
(* cache gave it and its lock was waited for (haveino is reached without   *)
(* a sleep after the directory is unlocked).                               *)
LookupRight ==
  DiskSound => \A p \in Procs : pc[p] = "haveino" => dir[fr[p].name] = x[Slot(p)].ino

(* fs_tinode is the number of free inodes.                                 *)
FreeCounted == fs.tinode = Cardinality({i \in Inodes : ~ Now(i).mode})

(* The list of free inodes stays within fs_inode.                          *)
ListFits == Len(fs.list) <= NICINOD

(* As long as calls are under way one of them can go on: no lock is left   *)
(* behind, no wakeup is lost and the locks are taken in an order.          *)
SomeoneRuns ==
  (\E p \in Procs : pc[p] # "user") =>
    \E p \in Procs :
      /\ pc[p] # "user" /\ slp[p] = NoSlot
      /\ pc[p] \in {"namei", "relock"} => dlock[Dir(p)] = Nobody
      /\ pc[p] = "ialloc" => fs.ilock = 0

(* ialloc reports that there is no inode left only when none is free.      *)
NoSpaceTrue ==
  [][\A p \in Procs :
       pc[p] = "ialloc_scanned" /\ pc'[p] = "user" => \A i \in Inodes : Now(i).mode]_vars

(* The last close of a file finds it as it was open: closei has to see the *)
(* device whose close routine it calls.                                    *)
CloseiSees == \A p \in Procs : pc[p] = "closei" => x[fr[p].seen].mode
=============================================================================
