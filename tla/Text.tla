-------------------------------- MODULE Text --------------------------------
(***************************************************************************)
(* The table of shared texts: xalloc, xfree, xexpand, xccdec, xumount,     *)
(* xuntext and xuncore of sys/sys/vm_text.c, as exec, exit, fork, brk,     *)
(* unlink, unmount and the swapper (swapin, swapout) call them.            *)
(*                                                                         *)
(* The kernel is not preempted: an actor that is inside it keeps the cpu   *)
(* until it sleeps, on a locked text or in a transfer.  Core may or may    *)
(* not run short when it is asked for; malloc then calls xuncore before it *)
(* gives up.                                                               *)
(***************************************************************************)
EXTENDS Integers, Sequences, FiniteSets, SequencesExt

CONSTANTS
  Procs,
  Sched,         \* the swapper
  Nobody,
  Texts, NoText,
  Inodes, NoInode,
  Loads          \* what the system may be asked to do; see Init

Actors == Procs \cup {Sched}

ASSUME TextAssumption ==
  /\ Sched \notin Procs /\ Nobody \notin Actors
  /\ IsFiniteSet(Texts) /\ NoText \notin Texts /\ NoInode \notin Inodes
  /\ Loads \subseteq [table: SUBSET Texts, exec: SUBSET Procs, grow: SUBSET Procs,
                       unlink: SUBSET Procs, umount: SUBSET Procs,
                       short: SUBSET Actors, irele: BOOLEAN]

VARIABLES
  load,    \* the load, which never changes
  x,       \* the text table
  free,    \* the free list, from xhead
  itext,   \* i_text of each inode
  linked,  \* the inodes with i_nlink # 0
  pr,      \* the processes: p_textp, the file they run, SLOAD
  cpu,     \* who runs in the kernel
  pc,      \* where an actor is
  fr,      \* its arguments and local variables
  slp,     \* the text an actor sleeps on, waiting for its lock
  panic    \* space has been freed twice, or a null inode used

vars == <<load, x, free, itext, linked, pr, cpu, pc, fr, slp, panic>>

(* An entry: x_iptr, x_count, x_ccount; core: x_caddr # 0; swap: it has    *)
(* swap space; writ, load, want: XWRIT, XLOAD, XWANT; lock: who set XLOCK. *)
(* mem, image and copy are history: the entry owns core, and the file      *)
(* whose text is in core and in swap.                                      *)
Unused ==
  [ iptr |-> NoInode, count |-> 0, ccount |-> 0, core |-> FALSE, swap |-> FALSE,
    writ |-> FALSE, load |-> FALSE, lock |-> Nobody, want |-> FALSE,
    mem |-> FALSE, image |-> NoInode, copy |-> NoInode ]

(* text: the entry at hand; ino: the inode exec or unlink has locked; seg: *)
(* the entry xuncore looks at; who: the process that is being swapped;     *)
(* need: swapin has to find core for its text; tried: how much xuncore has *)
(* freed for malloc; back, then, more: where the caller of xuntext or      *)
(* xexpand, of xfree and of xuncore goes on.                               *)
NoFrame ==
  [ text |-> NoText, ino |-> NoInode, seg |-> NoText, who |-> Nobody, need |-> FALSE,
    tried |-> "no", back |-> "user", then |-> "user", more |-> "user" ]
NoProc == [text |-> NoText, file |-> NoInode, in |-> TRUE]

-----------------------------------------------------------------------------
(* Where an actor does not hold the cpu: in user mode, or asleep.          *)
Asleep ==
  { "user", "dead", "idle", "irele", "uncore_write", "xexpand_read",
    "xexpand_swap", "rdwri", "started", "xccdec_write", "swapout_data",
    "swapin_read", "swapin_data" }

Runs(a, l) ==
  /\ pc[a] = l /\ slp[a] = NoText /\ cpu \in {a, Nobody}
  /\ a \in Procs => pr[a].in
Goto(a, l) ==
  /\ pc' = [pc EXCEPT ![a] = l]
  /\ cpu' = IF l \in Asleep THEN Nobody ELSE a
At(a) == fr[a].text

Locked(t) == x[t].lock # Nobody

Unlocked(r) == [r EXCEPT !.lock = Nobody, !.want = FALSE]
Woken(t) ==
  IF x[t].want
    THEN [a \in Actors |-> IF slp[a] = t THEN NoText ELSE slp[a]]
    ELSE slp

(* X_LOCK when somebody holds the lock: want it and sleep; the loop tries  *)
(* again.                                                                  *)
LockWait(a, t) ==
  /\ Locked(t)
  /\ x' = [x EXCEPT ![t].want = TRUE]
  /\ slp' = [slp EXCEPT ![a] = t] /\ cpu' = Nobody
  /\ UNCHANGED <<free, itext, linked, load, pr, pc, fr, panic>>

(* XUNLOCK with entry r put into the table.                                *)
Release(t, r) ==
  /\ x' = [x EXCEPT ![t] = Unlocked(r)]
  /\ slp' = Woken(t)

Update(t, r) == x' = [x EXCEPT ![t] = r] /\ UNCHANGED slp

-----------------------------------------------------------------------------
(* xuntext(text), which goes on at fr.back.                                *)

Removable(r) == r.count = 0

(* The entry without its inode and space; x_caddr keeps its value.         *)
Removed(r) ==
  [r EXCEPT !.iptr = NoInode, !.swap = FALSE, !.mem = FALSE,
            !.copy = NoInode, !.image = NoInode]
FreedTwice(r) == r.iptr = NoInode \/ ~ r.swap \/ (r.core /\ ~ r.mem)

(* irele sleeps unless the caller has a reference to the inode, too.       *)
IreleSleeps(a, i) == load.irele /\ i # fr[a].ino

XuntextWait(a) == Runs(a, "xuntext") /\ LockWait(a, At(a))
Xuntext(a) ==
  LET t == At(a)
  IN /\ Runs(a, "xuntext") /\ ~ Locked(t)
     /\ IF Removable(x[t])
          THEN /\ itext' = [i \in Inodes |-> IF i = x[t].iptr THEN NoText ELSE itext[i]]
               /\ panic' = (panic \/ FreedTwice(x[t]))
               /\ IF IreleSleeps(a, x[t].iptr)
                    THEN Update(t, [Removed(x[t]) EXCEPT !.lock = a]) /\ Goto(a, "irele")
                    ELSE Release(t, Removed(x[t])) /\ Goto(a, fr[a].back)
          ELSE /\ Release(t, x[t]) /\ Goto(a, fr[a].back)
               /\ UNCHANGED <<itext, panic>>
     /\ UNCHANGED <<free, linked, load, pr, fr>>

(* irele has written the inode.                                            *)
Irele(a) ==
  /\ Runs(a, "irele")
  /\ Release(At(a), x[At(a)]) /\ Goto(a, fr[a].back)
  /\ UNCHANGED <<free, itext, linked, load, pr, fr, panic>>

-----------------------------------------------------------------------------
(* xfree, which goes on at fr.then.                                        *)

Detached(p) == [pr EXCEPT ![p].text = NoText, ![p].file = NoInode]

Dropped(r) == [r EXCEPT !.count = @ - 1, !.ccount = @ - 1]

XfreeNone(p) ==
  /\ Runs(p, "xfree") /\ pr[p].text = NoText
  /\ Goto(p, fr[p].then)
  /\ UNCHANGED <<x, free, itext, linked, load, pr, fr, slp, panic>>

LastUser(r) == r.count = 1

XfreeWait(p) ==
  /\ Runs(p, "xfree") /\ pr[p].text # NoText /\ LockWait(p, pr[p].text)
Xfree(p) ==
  LET t == pr[p].text
  IN /\ Runs(p, "xfree") /\ t # NoText /\ ~ Locked(t)
     /\ IF LastUser(x[t]) /\ x[t].iptr \notin linked
          THEN /\ Update(t, [x[t] EXCEPT !.count = @ - 1])
               /\ fr' = [fr EXCEPT ![p].text = t, ![p].back = "xfree_head"]
               /\ Goto(p, "xuntext") /\ UNCHANGED <<free, pr>>
          ELSE /\ Release(t, Dropped(x[t]))
               /\ free' = IF LastUser(x[t]) THEN Append(free, t) ELSE free
               /\ pr' = Detached(p) /\ Goto(p, fr[p].then) /\ UNCHANGED fr
     /\ UNCHANGED <<itext, linked, load, panic>>

(* The text of a file without a name is gone, and its entry is the next to *)
(* be used.                                                                *)
XfreeHead(p) ==
  LET t == At(p)
  IN /\ Runs(p, "xfree_head")
     /\ Release(t, x[t]) /\ free' = <<t>> \o free
     /\ pr' = Detached(p) /\ Goto(p, fr[p].then)
     /\ UNCHANGED <<itext, linked, load, fr, panic>>

-----------------------------------------------------------------------------
(* malloc of core, for those whom core may run short: xuncore takes their  *)
(* core from the texts of the free list, written to swap first, and malloc *)
(* tries again at fr.more.  It fails when "all" there was is not enough.   *)

Uncored(r) == [r EXCEPT !.core = FALSE, !.mem = FALSE, !.image = NoInode]
WrittenOut(r) == [r EXCEPT !.writ = FALSE, !.copy = IF r.writ THEN r.image ELSE @]

(* What the walk has before it: it ends if the entry it looked at has left *)
(* the free list in the meantime.                                          *)
Rest(t) ==
  LET i == IF t = NoText THEN 0 ELSE SelectInSeq(free, LAMBDA u : u = t)
      s == IF t # NoText /\ i = 0 THEN << >> ELSE SubSeq(free, i + 1, Len(free))
  IN SelectSeq(s, LAMBDA u : x[u].iptr # NoInode)

Short(a, l, more) ==
  /\ Runs(a, l) /\ a \in load.short /\ fr[a].tried = "no"
  /\ fr' = [fr EXCEPT ![a].seg = NoText, ![a].more = more] /\ Goto(a, "xuncore")
  /\ UNCHANGED <<x, free, itext, linked, load, pr, slp, panic>>
Left(a, how) ==
  /\ fr' = [fr EXCEPT ![a].seg = NoText, ![a].more = "user", ![a].tried = how]
  /\ Goto(a, fr[a].more)
(* A piece of core has been freed, and may be enough.                      *)
Freed(a) == Left(a, "some") \/ (Goto(a, "xuncore") /\ UNCHANGED fr)
Fails(a) == fr[a].tried = "all"

UncoreNext(a) ==
  /\ Runs(a, "xuncore") /\ Rest(fr[a].seg) # << >>
  /\ fr' = [fr EXCEPT ![a].seg = Head(Rest(fr[a].seg))] /\ Goto(a, "uncore_lock")
  /\ UNCHANGED <<x, free, itext, linked, load, pr, slp, panic>>
UncoreEnd(a) ==
  /\ Runs(a, "xuncore") /\ Rest(fr[a].seg) = << >> /\ Left(a, "all")
  /\ UNCHANGED <<x, free, itext, linked, load, pr, slp, panic>>

(* X_LOCK, then the core goes, unless somebody has it loaded.              *)
Idle(r) == r.ccount = 0 /\ r.core
UncoreIdle(a, t) ==
  /\ IF x[t].writ
       THEN /\ Update(t, [x[t] EXCEPT !.lock = a])
            /\ Goto(a, "uncore_write") /\ UNCHANGED <<fr, panic>>
       ELSE /\ Release(t, Uncored(x[t])) /\ Freed(a)
            /\ panic' = (panic \/ ~ x[t].mem)
  /\ UNCHANGED <<free, itext, linked, load, pr>>
UncoreSkip(a, t) ==
  /\ Release(t, x[t]) /\ Goto(a, "xuncore")
  /\ UNCHANGED <<free, itext, linked, load, pr, fr, panic>>
Xuncore(a) ==
  LET t == fr[a].seg
  IN /\ Runs(a, "uncore_lock")
     /\ CASE Locked(t) -> LockWait(a, t)
          [] ~ Locked(t) /\ Idle(x[t]) -> UncoreIdle(a, t)
          [] OTHER -> UncoreSkip(a, t)
UncoreWritten(a) ==
  LET t == fr[a].seg
  IN /\ Runs(a, "uncore_write")
     /\ Release(t, Uncored(WrittenOut(x[t]))) /\ Freed(a)
     /\ panic' = (panic \/ ~ x[t].mem)
     /\ UNCHANGED <<free, itext, linked, load, pr>>

-----------------------------------------------------------------------------
(* xexpand(text), with the lock held, goes on at fr.back.                  *)
Untried(a) == [fr EXCEPT ![a].tried = "no"]

XexpandShort(p) == Short(p, "xexpand", "xexpand")
XexpandFound(p) ==
  LET t == At(p)
      r == [x[t] EXCEPT !.core = TRUE, !.mem = TRUE]
  IN /\ Runs(p, "xexpand") /\ fr' = Untried(p)
     /\ IF r.load
          THEN Release(t, [r EXCEPT !.ccount = @ + 1]) /\ Goto(p, fr[p].back)
          ELSE Update(t, r) /\ Goto(p, "xexpand_read")
     /\ UNCHANGED <<free, itext, linked, load, pr, panic>>

(* The swap copy has been read.                                            *)
XexpandRead(p) ==
  LET t == At(p)
  IN /\ Runs(p, "xexpand_read")
     /\ Release(t, [x[t] EXCEPT !.image = x[t].copy, !.ccount = @ + 1])
     /\ Goto(p, fr[p].back)
     /\ UNCHANGED <<free, itext, linked, load, pr, fr, panic>>

(* There is no core: p swaps itself out with the text locked, and swapin   *)
(* will find core for the text too.                                        *)
XexpandSwapout(p) ==
  /\ Runs(p, "xexpand") /\ Fails(p) /\ fr' = Untried(p)
  /\ Update(At(p), [x[At(p)] EXCEPT !.core = FALSE]) /\ Goto(p, "xexpand_swap")
  /\ UNCHANGED <<free, itext, linked, load, pr, panic>>
XexpandSwapped(p) ==
  /\ Runs(p, "xexpand_swap")
  /\ Release(At(p), x[At(p)])
  /\ pr' = [pr EXCEPT ![p].in = FALSE]
  /\ pc' = [pc EXCEPT ![p] = fr[p].back] /\ cpu' = Nobody
  /\ UNCHANGED <<free, itext, linked, load, fr, panic>>

-----------------------------------------------------------------------------
(* xalloc of fr.ino.                                                       *)

(* Mutant: an entry that is reclaimed stays on the free list.              *)
TakenNot(t) == free
Taken(t) == SelectSeq(free, LAMBDA u : u # t)

(* The inode has a text: one user more.                                    *)
XallocWait(p) ==
  /\ Runs(p, "xalloc") /\ itext[fr[p].ino] # NoText
  /\ LockWait(p, itext[fr[p].ino])
XallocFound(p) ==
  LET t == itext[fr[p].ino]
      r == [x[t] EXCEPT !.count = @ + 1]
  IN /\ Runs(p, "xalloc") /\ t # NoText /\ ~ Locked(t)
     /\ free' = Taken(t)
     /\ pr' = [pr EXCEPT ![p].text = t]
     /\ IF ~ r.core /\ r.ccount = 0
          THEN /\ Update(t, [r EXCEPT !.lock = p])
               /\ fr' = [fr EXCEPT ![p].text = t, ![p].back = "xalloc_end"]
               /\ Goto(p, "xexpand")
          ELSE /\ Release(t, [r EXCEPT !.ccount = @ + 1])
               /\ Goto(p, "started") /\ UNCHANGED fr
     /\ UNCHANGED <<itext, linked, load, panic>>

(* "XUNLOCK(xp); return", after xexpand has unlocked it already.           *)
XallocEnd(p) ==
  /\ Runs(p, "xalloc_end")
  /\ Release(At(p), x[At(p)]) /\ Goto(p, "started")
  /\ UNCHANGED <<free, itext, linked, load, pr, fr, panic>>

(* It has none.  The table is full, and the process is killed.             *)
XallocFull(p) ==
  /\ Runs(p, "xalloc") /\ itext[fr[p].ino] = NoText /\ free = << >>
  /\ Goto(p, "dead") /\ fr' = [fr EXCEPT ![p] = NoFrame]
  /\ UNCHANGED <<x, free, itext, linked, load, pr, slp, panic>>

(* The first entry of the free list is taken, and emptied if need be.      *)
XallocTake(p) ==
  LET t == Head(free)
  IN /\ Runs(p, "xalloc") /\ itext[fr[p].ino] = NoText /\ free # << >>
     /\ free' = Tail(free)
     /\ fr' = [fr EXCEPT ![p].text = t, ![p].back = "xalloc_new"]
     /\ Goto(p, IF x[t].iptr # NoInode THEN "xuntext" ELSE "xalloc_new")
     /\ UNCHANGED <<x, itext, linked, load, pr, slp, panic>>

XallocNew(p) ==
  LET t == At(p)
  IN /\ Runs(p, "xalloc_new")
     /\ Update(t, [Unused EXCEPT !.iptr = fr[p].ino, !.count = 1, !.swap = TRUE,
                                 !.load = TRUE, !.lock = p])
     /\ itext' = [itext EXCEPT ![fr[p].ino] = t]
     /\ pr' = [pr EXCEPT ![p].text = t]
     /\ fr' = [fr EXCEPT ![p].back = "xalloc_read"] /\ Goto(p, "xexpand")
     /\ UNCHANGED <<free, linked, load, panic>>

(* SLOCK is set, and the text is read from the file.                       *)
XallocRead(p) ==
  /\ Runs(p, "xalloc_read") /\ Goto(p, "rdwri")
  /\ UNCHANGED <<x, free, itext, linked, load, pr, fr, slp, panic>>

(* Mutant: the text is not marked as one that is not in swap yet.          *)
ReadInClean(r, i) == [r EXCEPT !.image = i, !.load = FALSE]
ReadIn(r, i) == [r EXCEPT !.image = i, !.writ = TRUE, !.load = FALSE]

Rdwri(p) ==
  LET t == At(p)
  IN /\ Runs(p, "rdwri")
     /\ Update(t, ReadIn(x[t], fr[p].ino))
     /\ Goto(p, "started")
     /\ UNCHANGED <<free, itext, linked, load, pr, fr, panic>>

-----------------------------------------------------------------------------
(* swapout of fr.who.  A process swaps itself out when it grows; SLOCK     *)
(* keeps the swapper from doing it meanwhile.                              *)
Slocked(p) ==
  pc[p] \in { "rdwri", "xexpand_swap", "xccdec", "xccdec_lock", "xccdec_write",
             "swapout_data" }

(* Mutant: a process is swapped out while its text is locked.              *)
SwappableAny(p) ==
  /\ pc[p] # "dead" /\ pr[p].in /\ ~ Slocked(p) /\ cpu # p
Swappable(p) ==
  /\ pc[p] # "dead" /\ pr[p].in /\ ~ Slocked(p) /\ cpu # p
  /\ pr[p].text # NoText => ~ Locked(pr[p].text)

(* The swapper has no core for a process, of those here or another.        *)
PickShort == Short(Sched, "idle", "pick")
PickNobody ==
  /\ Runs(Sched, "pick") /\ Goto(Sched, "idle") /\ fr' = Untried(Sched)
  /\ UNCHANGED <<x, free, itext, linked, load, pr, slp, panic>>
SwapOut(p) ==
  /\ Runs(Sched, "pick") /\ Fails(Sched) /\ Swappable(p)
  /\ pr' = [pr EXCEPT ![p].in = FALSE]
  /\ fr' = [Untried(Sched) EXCEPT ![Sched].who = p] /\ Goto(Sched, "xccdec")
  /\ UNCHANGED <<x, free, itext, linked, load, slp, panic>>

Image(a) == pr[fr[a].who].text

XccdecNone(a) ==
  /\ Runs(a, "xccdec")
  /\ Image(a) # NoText => x[Image(a)].ccount = 0
  /\ Goto(a, "swapout_data")
  /\ UNCHANGED <<x, free, itext, linked, load, pr, fr, slp, panic>>
XccdecSome(a) ==
  /\ Runs(a, "xccdec") /\ Image(a) # NoText /\ x[Image(a)].ccount # 0
  /\ Goto(a, "xccdec_lock")
  /\ UNCHANGED <<x, free, itext, linked, load, pr, fr, slp, panic>>
(* X_LOCK may sleep, and x_ccount is not tested again.  One loaded process *)
(* less; the last one frees the core.                                      *)
Unload(a, t) ==
  LET r == [x[t] EXCEPT !.ccount = @ - 1]
  IN /\ CASE r.ccount # 0 -> Release(t, r) /\ Goto(a, "swapout_data")
          [] r.ccount = 0 /\ r.writ ->
               Update(t, [r EXCEPT !.lock = a]) /\ Goto(a, "xccdec_write")
          [] OTHER -> Release(t, Uncored(r)) /\ Goto(a, "swapout_data")
     /\ UNCHANGED <<free, itext, linked, load, pr, fr, panic>>
Xccdec(a) ==
  LET t == Image(a)
  IN /\ Runs(a, "xccdec_lock")
     /\ IF Locked(t) THEN LockWait(a, t) ELSE Unload(a, t)
XccdecWritten(a) ==
  /\ Runs(a, "xccdec_write")
  /\ Release(Image(a), Uncored(WrittenOut(x[Image(a)]))) /\ Goto(a, "swapout_data")
  /\ UNCHANGED <<free, itext, linked, load, pr, fr, panic>>

(* Data, stack and u. are in swap.  The swapper looks on; a process waits  *)
(* to be swapped in.                                                       *)
Swapped(a) ==
  /\ Runs(a, "swapout_data")
  /\ pr' = [pr EXCEPT ![fr[a].who].in = FALSE]
  /\ fr' = [fr EXCEPT ![a].who = Nobody]
  /\ pc' = [pc EXCEPT ![a] = IF a = Sched THEN "idle" ELSE fr[a].then] /\ cpu' = Nobody
  /\ UNCHANGED <<x, free, itext, linked, load, slp, panic>>

-----------------------------------------------------------------------------
(* swapin of fr.who, a process that is ready to run.                       *)
SwapIn(p) ==
  /\ Runs(Sched, "idle") /\ ~ pr[p].in /\ slp[p] = NoText
  /\ fr' = [fr EXCEPT ![Sched].who = p] /\ Goto(Sched, "swapin")
  /\ UNCHANGED <<x, free, itext, linked, load, pr, slp, panic>>

NeedsCore(r) == ~ r.core /\ r.ccount = 0

SwapinWait ==
  LET t == Image(Sched)
  IN Runs(Sched, "swapin") /\ t # NoText /\ LockWait(Sched, t)
SwapinLock ==
  LET t == Image(Sched)
  IN /\ Runs(Sched, "swapin")
     /\ IF t = NoText THEN UNCHANGED <<x, fr>>
        ELSE /\ ~ Locked(t)
             /\ x' = [x EXCEPT ![t].lock = Sched]
             /\ fr' = [fr EXCEPT ![Sched].need = NeedsCore(x[t])]
     /\ Goto(Sched, "swapin_core")
     /\ UNCHANGED <<free, itext, linked, load, pr, slp, panic>>

SwapinShort == Short(Sched, "swapin_core", "swapin_core")
SwapinFound ==
  LET t == Image(Sched)
      r == IF fr[Sched].need THEN [x[t] EXCEPT !.core = TRUE, !.mem = TRUE] ELSE x[t]
  IN /\ Runs(Sched, "swapin_core") /\ fr' = Untried(Sched)
     /\ CASE t = NoText -> Goto(Sched, "swapin_data") /\ UNCHANGED <<x, slp>>
          [] t # NoText /\ fr[Sched].need /\ ~ x[t].load ->
               Update(t, r) /\ Goto(Sched, "swapin_read")
          [] OTHER ->
               Release(t, [r EXCEPT !.ccount = @ + 1]) /\ Goto(Sched, "swapin_data")
     /\ UNCHANGED <<free, itext, linked, load, pr, panic>>
SwapinRead ==
  LET t == Image(Sched)
  IN /\ Runs(Sched, "swapin_read")
     /\ Release(t, [x[t] EXCEPT !.image = x[t].copy, !.ccount = @ + 1])
     /\ Goto(Sched, "swapin_data")
     /\ UNCHANGED <<free, itext, linked, load, pr, fr, panic>>
SwapinDone ==
  /\ Runs(Sched, "swapin_data")
  /\ pr' = [pr EXCEPT ![fr[Sched].who].in = TRUE]
  /\ fr' = [fr EXCEPT ![Sched] = NoFrame] /\ Goto(Sched, "idle")
  /\ UNCHANGED <<x, free, itext, linked, load, slp, panic>>

(* There is no core: look for somebody to swap out.                        *)
SwapinFails ==
  LET t == Image(Sched)
  IN /\ Runs(Sched, "swapin_core") /\ Fails(Sched)
     /\ IF t = NoText THEN UNCHANGED <<x, slp>> ELSE Release(t, x[t])
     /\ fr' = [fr EXCEPT ![Sched] = [NoFrame EXCEPT !.tried = "all"]] /\ Goto(Sched, "pick")
     /\ UNCHANGED <<free, itext, linked, load, pr, panic>>

-----------------------------------------------------------------------------
(* System calls.                                                           *)

(* The inode lock, which exec and unlink hold.                             *)
InodeFree(i) == \A p \in Procs : fr[p].ino # i

Exec(p, i) ==
  /\ p \in load.exec /\ Runs(p, "user") /\ i \in linked /\ InodeFree(i)
  /\ fr' = [fr EXCEPT ![p] = [NoFrame EXCEPT !.ino = i, !.then = "expand"]]
  /\ Goto(p, "xfree")
  /\ UNCHANGED <<x, free, itext, linked, load, pr, slp, panic>>
(* The data have been read, too.                                           *)
Started(p) ==
  /\ Runs(p, "started")
  /\ pr' = [pr EXCEPT ![p].file = fr[p].ino]
  /\ fr' = [fr EXCEPT ![p] = NoFrame] /\ Goto(p, "user")
  /\ UNCHANGED <<x, free, itext, linked, load, slp, panic>>

Exit(p) ==
  /\ Runs(p, "user")
  /\ fr' = [fr EXCEPT ![p] = [NoFrame EXCEPT !.then = "dead"]] /\ Goto(p, "xfree")
  /\ UNCHANGED <<x, free, itext, linked, load, pr, slp, panic>>

(* newproc, when there is core for the child; the parent may be a process  *)
(* without a text, outside of the model.                                   *)
Fork(p, q) ==
  LET t == pr[p].text
  IN /\ Runs(p, "user") /\ pc[q] = "dead" /\ t # NoText
     /\ pr' = [pr EXCEPT ![q] = pr[p]]
     /\ fr' = [fr EXCEPT ![q] = NoFrame]
     /\ pc' = [pc EXCEPT ![q] = "user"]
     /\ x' = [x EXCEPT ![t].count = @ + 1, ![t].ccount = @ + 1]
     /\ UNCHANGED <<free, itext, linked, load, cpu, slp, panic>>
ForkNoText(q) ==
  /\ cpu = Nobody /\ pc[q] = "dead"
  /\ pr' = [pr EXCEPT ![q] = NoProc]
  /\ fr' = [fr EXCEPT ![q] = NoFrame]
  /\ pc' = [pc EXCEPT ![q] = "user"]
  /\ UNCHANGED <<x, free, itext, linked, load, cpu, slp, panic>>

(* unlink: "try once to free text", then drop the name.                    *)
Unlink(p, i) ==
  /\ p \in load.unlink /\ Runs(p, "user") /\ i \in linked /\ InodeFree(i)
  /\ fr' = [fr EXCEPT ![p] = [NoFrame EXCEPT !.ino = i, !.text = itext[i],
                                             !.back = "unlinked"]]
  /\ Goto(p, IF itext[i] # NoText THEN "xuntext" ELSE "unlinked")
  /\ UNCHANGED <<x, free, itext, linked, load, pr, slp, panic>>
Unlinked(p) ==
  /\ Runs(p, "unlinked")
  /\ linked' = linked \ {fr[p].ino}
  /\ fr' = [fr EXCEPT ![p] = NoFrame] /\ Goto(p, "user")
  /\ UNCHANGED <<x, free, itext, load, pr, slp, panic>>

(* xumount, at one of the entries.                                         *)
Umount(p, t) ==
  /\ p \in load.umount /\ Runs(p, "user") /\ x[t].iptr # NoInode
  /\ fr' = [fr EXCEPT ![p] = [NoFrame EXCEPT !.text = t]] /\ Goto(p, "xuntext")
  /\ UNCHANGED <<x, free, itext, linked, load, pr, slp, panic>>

(* expand, of exec or of a process that grows: there is core, or there is  *)
(* with the help of xuncore, or the process swaps itself out.              *)
Grown(p) == IF fr[p].ino # NoInode THEN "xalloc" ELSE "user"

Grow(p) ==
  /\ p \in load.grow /\ Runs(p, "user") /\ Goto(p, "expand")
  /\ fr' = [fr EXCEPT ![p] = NoFrame]
  /\ UNCHANGED <<x, free, itext, linked, load, pr, slp, panic>>
ExpandShort(p) == Short(p, "expand", "expand")
ExpandFound(p) ==
  /\ Runs(p, "expand") /\ Goto(p, Grown(p)) /\ fr' = Untried(p)
  /\ UNCHANGED <<x, free, itext, linked, load, pr, slp, panic>>
ExpandSwapout(p) ==
  /\ Runs(p, "expand") /\ Fails(p) /\ Goto(p, "xccdec")
  /\ fr' = [Untried(p) EXCEPT ![p].who = p, ![p].then = Grown(p)]
  /\ UNCHANGED <<x, free, itext, linked, load, pr, slp, panic>>

-----------------------------------------------------------------------------
(* xinit has put the table onto the free list, and nobody has a text.      *)
Init ==
  /\ load \in Loads
  /\ x = [t \in Texts |-> Unused]
  /\ free \in SetToSeqs(load.table)
  /\ itext = [i \in Inodes |-> NoText]
  /\ linked = Inodes
  /\ pr = [p \in Procs |-> NoProc]
  /\ cpu = Nobody
  /\ pc = [a \in Actors |-> IF a = Sched THEN "idle" ELSE "user"]
  /\ fr = [a \in Actors |-> NoFrame]
  /\ slp = [a \in Actors |-> NoText]
  /\ panic = FALSE

XuncoreSteps(a) ==
  UncoreNext(a) \/ UncoreEnd(a) \/ Xuncore(a) \/ UncoreWritten(a)
SwapoutSteps(a) ==
  \/ XccdecNone(a) \/ XccdecSome(a) \/ Xccdec(a) \/ XccdecWritten(a) \/ Swapped(a)
SwapinSteps ==
  \/ SwapinWait \/ SwapinLock \/ SwapinShort \/ SwapinFound \/ SwapinRead
  \/ SwapinDone \/ SwapinFails \/ PickShort \/ PickNobody
XallocSteps(p) ==
  \/ XallocWait(p) \/ XallocFound(p) \/ XallocEnd(p) \/ XallocFull(p)
  \/ XallocTake(p) \/ XallocNew(p) \/ XallocRead(p) \/ Rdwri(p)
  \/ XexpandShort(p) \/ XexpandFound(p) \/ XexpandRead(p)
  \/ XexpandSwapout(p) \/ XexpandSwapped(p)
XfreeSteps(p) == XfreeNone(p) \/ XfreeWait(p) \/ Xfree(p) \/ XfreeHead(p)
XuntextSteps(p) == XuntextWait(p) \/ Xuntext(p) \/ Irele(p)
Syscalls(p) ==
  \/ Started(p) \/ Exit(p) \/ ForkNoText(p) \/ Unlinked(p)
  \/ Grow(p) \/ ExpandShort(p) \/ ExpandFound(p) \/ ExpandSwapout(p)
  \/ \E i \in Inodes : Exec(p, i) \/ Unlink(p, i)
  \/ \E t \in Texts : Umount(p, t)
  \/ \E q \in Procs : Fork(p, q)

Next ==
  \/ \E a \in Actors : XuncoreSteps(a) \/ SwapoutSteps(a)
  \/ \E p \in Procs :
       \/ XallocSteps(p) \/ XfreeSteps(p) \/ XuntextSteps(p) \/ Syscalls(p)
       \/ SwapOut(p) \/ SwapIn(p)
  \/ SwapinSteps

Spec == Init /\ [][Next]_vars

-----------------------------------------------------------------------------
Labels ==
  Asleep \cup { "xuntext", "xfree", "xfree_head", "xuncore", "uncore_lock",
    "xexpand", "xalloc", "xalloc_end", "xalloc_new", "xalloc_read",
    "xccdec", "xccdec_lock", "swapin", "swapin_core", "pick", "unlinked",
    "expand" }

(* The types of the table and of the processes, with the counts within the *)
(* number of processes, and the cpu with one who is inside the kernel.     *)
TypeOK ==
  /\ load \in Loads
  /\ \A t \in Texts :
       /\ x[t].iptr \in Inodes \cup {NoInode}
       /\ x[t].count \in 0 .. Cardinality(Procs)
       /\ x[t].ccount \in 0 .. Cardinality(Procs)
       /\ x[t].lock \in Actors \cup {Nobody}
       /\ {x[t].image, x[t].copy} \subseteq Inodes \cup {NoInode}
  /\ free \in Seq(Texts)
  /\ itext \in [Inodes -> Texts \cup {NoText}]
  /\ linked \subseteq Inodes
  /\ pr \in [Procs -> [text: Texts \cup {NoText}, file: Inodes \cup {NoInode}, in: BOOLEAN]]
  /\ pc \in [Actors -> Labels]
  /\ slp \in [Actors -> Texts \cup {NoText}]
  /\ cpu \in Actors => pc[cpu] \notin Asleep
  /\ panic \in BOOLEAN

(* The processes of a text, but for one that is removing it.               *)
Removing(p) == pc[p] = "irele" /\ fr[p].back = "xfree_head"
Users(t) == {p \in Procs : pr[p].text = t /\ ~ Removing(p)}

(* Who is in the middle of swapping p.                                     *)
Swapping(p) == \E a \in Actors : fr[a].who = p

(* Whenever the kernel is idle, x_count counts the processes of a text and *)
(* x_ccount those of them that are in core: xfree, xalloc, fork and the    *)
(* swapper keep them together across every sleep.                          *)
CountsExact ==
  cpu = Nobody =>
    \A t \in load.table : Users(t) # {} =>
      /\ x[t].count = Cardinality(Users(t))
      /\ ~ Locked(t) /\ (\A p \in Users(t) : ~ Swapping(p)) =>
           x[t].ccount = Cardinality({p \in Users(t) : pr[p].in})

(* A process in user mode runs the text of its own file, in core: no       *)
(* order of swapping, reclaiming and reuse gives it another one.           *)
TextIsMine ==
  \A p \in Procs : pc[p] = "user" /\ pr[p].in /\ cpu # p /\ pr[p].text # NoText =>
    LET r == x[pr[p].text]
    IN r.iptr = pr[p].file /\ r.core /\ r.image = pr[p].file

(* Whoever has taken an entry off the free list, or is about to put it     *)
(* back.                                                                   *)
Claimed(t) ==
  \E p \in Procs : /\ At(p) = t
                   /\ pc[p] \in {"xuntext", "irele"}
                   /\ fr[p].back \in {"xalloc_new", "xfree_head"}

(* The free list has exactly the texts nobody uses or claims, once each:   *)
(* ALLOC and FREE_AT_TAIL never unlink or link an entry twice.             *)
FreeListExact ==
  cpu = Nobody =>
    /\ IsInjective(free)
    /\ \A t \in load.table : t \in ToSet(free) <=> x[t].count = 0 /\ ~ Claimed(t)

(* No space is freed twice, and no null inode pointer is followed.         *)
NoDoubleFree == ~ panic

(* An inode and its text point at each other.                              *)
InodeText ==
  \A i \in Inodes, t \in Texts : itext[i] = t <=> x[t].iptr = i

(* The table is consistent whenever the kernel sleeps: the counts, the     *)
(* free list and the inodes agree, and nothing was freed twice.            *)
TableSound == TypeOK /\ CountsExact /\ FreeListExact /\ NoDoubleFree /\ InodeText

(* Who sleeps on a text will be woken: it is locked, and XWANT is set.     *)
NoLostLockWakeup ==
  \A a \in Actors : slp[a] # NoText => Locked(slp[a]) /\ x[slp[a]].want

(* The text an actor works on, with XLOCK, while it sleeps.                *)
Holds(a) ==
  CASE pc[a] \in {"irele", "xexpand", "xexpand_read", "xexpand_swap"} -> At(a)
    [] pc[a] = "uncore_write" -> fr[a].seg
    [] pc[a] \in {"xccdec_write", "swapin_read"} -> Image(a)
    [] OTHER -> NoText

(* The lock of a text excludes: whoever sleeps in a transfer of a text or  *)
(* in dropping it still has its lock.                                      *)
LockRespected ==
  \A a \in Actors : Holds(a) # NoText => x[Holds(a)].lock = a

(* The swapper never waits for a process that only it can let go on.       *)
SwapperLives ==
  slp[Sched] # NoText =>
    LET a == x[slp[Sched]].lock
    IN a \in Procs => pr[a].in

(* XLOCK does what it is for: it excludes, no waiter is forgotten, and the *)
(* swapper is not part of a deadlock.                                      *)
LocksSound == NoLostLockWakeup /\ LockRespected /\ SwapperLives
=============================================================================
