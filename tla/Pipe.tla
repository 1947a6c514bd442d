-------------------------------- MODULE Pipe --------------------------------
(***************************************************************************)
(* A pipe between processes: readp, writep, pipe_select and pipe_close of  *)
(* sys/sys/sys_pipe.c, called through rwuio, select1 and closef, with the  *)
(* lock of its inode (ILOCK and IUNLOCK of sys/h/inode.h) and selwakeup.   *)
(*                                                                         *)
(* A process runs until it sleeps, so the code between two calls of sleep  *)
(* is one step, or several where nothing another process does between them *)
(* could be seen.  rwip sleeps with the inode locked.                      *)
(***************************************************************************)
EXTENDS Integers, Sequences, FiniteSets

CONSTANTS
  Readers, Writers,  \* the processes that share the read end, the write end
  NoProc,
  MAXPIPSIZ,
  ReadSizes, WriteSizes,
  Elsewhere,         \* the processes that select on other descriptors as well
  RwipErrors         \* whether rwip may fail: no disk space, a bad block

Procs == Readers \cup Writers

ASSUME PipeAssumption ==
  /\ Readers \cap Writers = {}
  /\ NoProc \notin Procs
  /\ MAXPIPSIZ \in Nat \ {0}
  /\ ReadSizes \subseteq Nat \ {0} /\ WriteSizes \subseteq Nat \ {0}
  /\ Elsewhere \subseteq Procs
  /\ RwipErrors \in BOOLEAN

VARIABLES
  s,      \* the inode, and the processes' sleeps and select flags, see below
  pc,     \* where a process is
  io,     \* the arguments and local variables of its call
  next,   \* history: the number of each writer's next byte, counted from
          \* when the pipe was last empty
  got,    \* history: the number of the next byte of each that is to be read
  ret     \* history: what a write has just returned

vars == <<s, pc, io, next, got, ret>>

(* The fields of s.  data is the file, i_size its length, off the reading  *)
(* file's f_offset; count is i_count.  locked and want are ILOCKED and     *)
(* IWANT; iread and iwrite the flags IREAD and IWRITE in i_mode; sel["r"], *)
(* sel["w"] are i_rsel and i_wsel; coll holds "r" if IRCOLL and "w" if     *)
(* IWCOLL.  open: the processes whose descriptor is open.                  *)
(* slp is what a process sleeps on: its inode (ip, ip+4, ip+2) or selwait. *)
(* pselect: those with P_SELECT; stale: those for whom nselcoll has        *)
(* changed since they read it.                                             *)
Ends == {"r", "w"}
Chans == {"none", "ip", "ip+2", "ip+4", "selwait"}
End(p) == IF p \in Readers THEN "r" ELSE "w"
Size(t) == Len(t.data)

NoCall == [count |-> 0, resid |-> 0, c |-> 0, put |-> 0, error |-> 0]
NoReturn == <<NoProc, "none", 0>>

-----------------------------------------------------------------------------
(* sleep, wakeup and the lock, as functions of s.                          *)

Sleep(t, p, ch) == [t EXCEPT !.slp[p] = ch]
Wakeup(t, ch) ==
  [t EXCEPT !.slp = [p \in Procs |-> IF t.slp[p] = ch THEN "none" ELSE t.slp[p]]]

(* Mutant: ILOCKED is not set.                                             *)
LockNot(t) == t
Lock(t) == [t EXCEPT !.locked = TRUE]
Unlock(t) ==
  LET u == [t EXCEPT !.locked = FALSE, !.want = FALSE]
  IN IF t.want THEN Wakeup(u, "ip") ELSE u
WaitForLock(t, p) == Sleep([t EXCEPT !.want = TRUE], p, "ip")

(* Mutant: P_SELECT of a process that still looks at other descriptors is  *)
(* left alone.                                                             *)
SelwakeupSleepers(t, e) ==
  LET p == t.sel[e]
      u == IF e \in t.coll
             THEN [Wakeup(t, "selwait") EXCEPT !.stale = @ \cup t.pselect]
             ELSE t
      v == IF p # NoProc /\ u.slp[p] = "selwait" THEN Sleep(u, p, "none") ELSE u
  IN [v EXCEPT !.sel[e] = NoProc, !.coll = @ \ {e}]

(* "if (ip->i_rsel) { selwakeup(...); ip->i_rsel = 0; clear IRCOLL }", and *)
(* the same for the write end.                                             *)
Selwakeup(t, e) ==
  LET p == t.sel[e]
      u == IF e \in t.coll
             THEN [Wakeup(t, "selwait") EXCEPT !.stale = @ \cup t.pselect]
             ELSE t
      v == IF u.slp[p] = "selwait"
             THEN Sleep(u, p, "none")
             ELSE [u EXCEPT !.pselect = @ \ {p}]
  IN IF p = NoProc THEN t
                   ELSE [v EXCEPT !.sel[e] = NoProc, !.coll = @ \ {e}]

-----------------------------------------------------------------------------
At(p, l) == pc[p] = l /\ s.slp[p] = "none"
Goto(p, l) == pc' = [pc EXCEPT ![p] = l]
NoBytes == UNCHANGED <<next, got>>
Keep == UNCHANGED io /\ NoBytes /\ ret' = NoReturn

(* The call of p returns: v is what happened and n the byte count.         *)
Return(p, v, n) ==
  /\ Goto(p, "user") /\ io' = [io EXCEPT ![p] = NoCall]
  /\ ret' = (IF p \in Writers THEN <<p, v, n>> ELSE NoReturn) /\ NoBytes

(* ILOCK, before a step that needs the lock: wait until it is free.        *)
LockBusy(p, l) ==
  /\ At(p, l) /\ s.locked
  /\ s' = WaitForLock(s, p)
  /\ UNCHANGED pc /\ Keep

Call(p, l, n) ==
  /\ At(p, "user") /\ p \in s.open
  /\ Goto(p, l)
  /\ io' = [io EXCEPT ![p] = [NoCall EXCEPT !.count = n, !.resid = n, !.c = n]]
  /\ UNCHANGED s /\ NoBytes /\ ret' = NoReturn

-----------------------------------------------------------------------------
(* readp.                                                                  *)

Read(p, n) == p \in Readers /\ Call(p, "readp", n)

(* Nothing in the pipe.  FNONBLOCK may be set or not.                      *)
ReadEmpty(p) ==
  /\ At(p, "readp") /\ ~ s.locked /\ Size(s) = 0
  /\ \/ /\ s.count # 2
        /\ Return(p, "read", 0) /\ UNCHANGED s
     \/ /\ s.count = 2
        /\ Return(p, "EWOULDBLOCK", 0) /\ UNCHANGED s
     \/ /\ s.count = 2
        /\ s' = Sleep([s EXCEPT !.iread = TRUE], p, "ip+4")
        /\ UNCHANGED pc /\ Keep

ReadLock(p) ==
  /\ At(p, "readp") /\ ~ s.locked /\ Size(s) > 0
  /\ s' = Lock(s) /\ Goto(p, "rwip_read") /\ Keep

NoneYet == [w \in Writers |-> 0]
Deliver(bytes, emptied) ==
  /\ got' = IF emptied
              THEN NoneYet
              ELSE [w \in Writers |->
                      got[w] + Cardinality({ i \in DOMAIN bytes : bytes[i][1] = w })]
  /\ next' = IF emptied THEN NoneYet ELSE next

(* rwip at the reader's offset.  It stops at the first error, with which   *)
(* the read returns; the bytes before it are read.                         *)
RwipRead(p) ==
  /\ At(p, "rwip_read")
  /\ LET have == Size(s) - s.off
         want == IF io[p].resid < have THEN io[p].resid ELSE have
     IN \E n \in 0 .. want :
          /\ n < want => RwipErrors
          /\ s' = [s EXCEPT !.off = @ + n]
          /\ io' = [io EXCEPT ![p].resid = @ - n]
          /\ Deliver(SubSeq(s.data, s.off + 1, s.off + n), n = have)
  /\ Goto(p, "read_end") /\ ret' = NoReturn

(* Mutant: the file is emptied although something is left to read.         *)
CaughtUpAlways(t) ==
  Selwakeup(Wakeup([t EXCEPT !.data = << >>, !.off = 0, !.iwrite = FALSE], "ip+2"), "w")
(* If the reader has caught up, offset and size become 0 and the writers   *)
(* are told.                                                               *)
CaughtUp(t) ==
  LET u == [t EXCEPT !.data = << >>, !.off = 0, !.iwrite = FALSE]
  IN IF t.off # Size(t)
       THEN t
       ELSE Selwakeup(IF t.iwrite THEN Wakeup(u, "ip+2") ELSE u, "w")

ReadEnd(p) ==
  /\ At(p, "read_end")
  /\ s' = Unlock(CaughtUp(s))
  /\ Return(p, "read", io[p].count - io[p].resid)

-----------------------------------------------------------------------------
(* writep.                                                                 *)

Write(p, n) == p \in Writers /\ Call(p, "writep", n)

WriteLock(p) ==
  /\ At(p, "writep") /\ ~ s.locked
  /\ \/ /\ Size(s) + io[p].c >= MAXPIPSIZ
        /\ Return(p, "EWOULDBLOCK", 0) /\ UNCHANGED s
     \/ s' = Lock(s) /\ Goto(p, "loop") /\ Keep

WriteRelock(p) ==
  /\ At(p, "relock") /\ ~ s.locked
  /\ s' = Lock(s) /\ Goto(p, "loop") /\ Keep

(* All done; the other end is closed; the pipe is full.                    *)
WriteDone(p) ==
  /\ At(p, "loop") /\ io[p].c = 0
  /\ s' = Unlock(s)
  /\ Return(p, IF io[p].error = 0 THEN "written" ELSE "ENOSPC", io[p].count)

WriteBroken(p) ==
  /\ At(p, "loop") /\ io[p].c # 0 /\ s.count # 2
  /\ s' = Unlock(s)
  /\ Return(p, "EPIPE", 0)

Full(t, p) == Sleep(Unlock([t EXCEPT !.iwrite = TRUE]), p, "ip+2")

WriteFull(p) ==
  /\ At(p, "loop") /\ io[p].c # 0 /\ s.count = 2 /\ Size(s) >= MAXPIPSIZ
  /\ s' = Full(s, p)
  /\ Goto(p, "relock") /\ Keep

(* The next chunk: uio_resid becomes its size.                             *)
WriteChunk(p) ==
  /\ At(p, "loop") /\ io[p].c # 0 /\ s.count = 2 /\ Size(s) < MAXPIPSIZ
  /\ LET n == IF io[p].c < MAXPIPSIZ THEN io[p].c ELSE MAXPIPSIZ
     IN io' = [io EXCEPT ![p].resid = n, ![p].c = @ - n]
  /\ Goto(p, "rwip_write")
  /\ UNCHANGED s /\ NoBytes /\ ret' = NoReturn

NewBytes(p, n) == [i \in 1 .. n |-> <<p, next[p] + i - 1>>]

(* Mutant: uio_resid is not counted down.                                  *)
MovedUncounted(r, n) ==
  [r EXCEPT !.resid = r.count, !.put = @ + n, !.error = 0]
Moved(r, n) ==
  [r EXCEPT !.resid = @ - n, !.put = @ + n,
            !.error = IF n < r.resid THEN 1 ELSE 0]

(* rwip at the end of the file.  It stops at the first error.              *)
RwipWrite(p) ==
  /\ At(p, "rwip_write")
  /\ \E n \in 0 .. io[p].resid :
       /\ n < io[p].resid => RwipErrors
       /\ s' = [s EXCEPT !.data = @ \o NewBytes(p, n)]
       /\ next' = [next EXCEPT ![p] = @ + n]
       /\ io' = [io EXCEPT ![p] = Moved(@, n)]
  /\ Goto(p, "write_end") /\ UNCHANGED got /\ ret' = NoReturn

(* Readers are told of the chunk.                                          *)
TellReaders(t) ==
  Selwakeup(IF t.iread THEN Wakeup([t EXCEPT !.iread = FALSE], "ip+4") ELSE t, "r")

WriteEnd(p) ==
  /\ At(p, "write_end")
  /\ s' = TellReaders(s)
  /\ Goto(p, "loop") /\ Keep

-----------------------------------------------------------------------------
(* select1, of this end of the pipe and perhaps of other descriptors.      *)

SelectFrom(p, l) ==
  /\ At(p, l) /\ p \in s.open
  /\ s' = [s EXCEPT !.pselect = @ \cup {p}, !.stale = @ \ {p}]
  /\ Goto(p, "selscan") /\ Keep

Select(p) == SelectFrom(p, "user")
SelectRetry(p) == SelectFrom(p, "retry")

Ready(t, e) ==
  \/ t.count # 2
  \/ e = "r" /\ Size(t) > 0
  \/ e = "w" /\ Size(t) < MAXPIPSIZ

(* pipe_select remembers p, or that there are several.                     *)
Remember(t, p, e) ==
  IF t.sel[e] # NoProc /\ t.slp[t.sel[e]] = "selwait"
    THEN [t EXCEPT !.coll = @ \cup {e}]
    ELSE [t EXCEPT !.sel[e] = p]

(* The end of selscan: p goes to sleep, unless something has happened.     *)
Rest(t, p) ==
  LET u == [t EXCEPT !.pselect = @ \ {p}]
  IN IF p \notin t.pselect \/ p \in t.stale THEN u ELSE Sleep(u, p, "selwait")

Selscan(p) ==
  /\ At(p, "selscan") /\ ~ s.locked
  /\ IF Ready(s, End(p))
       THEN s' = [s EXCEPT !.pselect = @ \ {p}] /\ Return(p, "selected", 0)
       ELSE IF p \in Elsewhere
         THEN s' = Remember(s, p, End(p)) /\ Goto(p, "elsewhere") /\ Keep
         ELSE s' = Rest(Remember(s, p, End(p)), p) /\ Goto(p, "retry") /\ Keep

(* pipe_select of the other descriptors slept, and none was ready.         *)
SelectElsewhere(p) ==
  /\ At(p, "elsewhere")
  /\ s' = Rest(s, p) /\ Goto(p, "retry") /\ Keep

-----------------------------------------------------------------------------
(* closef and pipe_close.                                                  *)

Close(p) ==
  /\ At(p, "user") /\ p \in s.open
  /\ IF \E q \in s.open \ {p} : End(q) = End(p)
       THEN s' = [s EXCEPT !.open = @ \ {p}] /\ Goto(p, "closed")
       ELSE Goto(p, "pipe_close") /\ UNCHANGED s
  /\ Keep

(* Mutant: the sleepers of the other end are not woken.                    *)
HangUpSelectors(t) ==
  [Unlock(Selwakeup(Selwakeup(Lock(t), "r"), "w")) EXCEPT
     !.count = @ - 1, !.iread = FALSE, !.iwrite = FALSE]
(* pipe_close, and the reference iput drops.                               *)
HangUp(t) ==
  LET u == Selwakeup(Selwakeup(Lock(t), "r"), "w")
      v == [u EXCEPT !.iread = FALSE, !.iwrite = FALSE]
  IN [Unlock(Wakeup(Wakeup(v, "ip+2"), "ip+4")) EXCEPT !.count = @ - 1]

PipeClose(p) ==
  /\ At(p, "pipe_close") /\ ~ s.locked
  /\ s' = [HangUp(s) EXCEPT !.open = @ \ {p}]
  /\ Goto(p, "closed") /\ Keep

-----------------------------------------------------------------------------
(* A signal ends a sleep at PPIPE or in select; select may also time out.  *)
(* sleep jumps to rwuio, which restarts the call if resid is still count.  *)
Interrupt(p) ==
  /\ s.slp[p] \in {"ip+2", "ip+4", "selwait"}
  /\ s' = Sleep(s, p, "none")
  /\ IF s.slp[p] = "selwait"
       THEN Return(p, "EINTR", 0)
       ELSE IF io[p].resid = io[p].count
         THEN Return(p, "ERESTART", 0)
         ELSE Return(p, "interrupted", io[p].count - io[p].resid)

-----------------------------------------------------------------------------
Init ==
  /\ s = [ data |-> << >>, off |-> 0, count |-> 2,
           locked |-> FALSE, want |-> FALSE, iread |-> FALSE, iwrite |-> FALSE,
           sel |-> [e \in Ends |-> NoProc], coll |-> {}, open |-> Procs,
           slp |-> [p \in Procs |-> "none"], pselect |-> {}, stale |-> {} ]
  /\ pc = [p \in Procs |-> "user"]
  /\ io = [p \in Procs |-> NoCall]
  /\ next = NoneYet /\ got = NoneYet
  /\ ret = NoReturn

Locks == {"readp", "writep", "relock", "selscan", "pipe_close"}

Proceed(p) ==
  \/ \E l \in Locks : LockBusy(p, l)
  \/ ReadEmpty(p) \/ ReadLock(p) \/ RwipRead(p) \/ ReadEnd(p)
  \/ WriteLock(p) \/ WriteRelock(p) \/ WriteDone(p) \/ WriteBroken(p)
  \/ WriteFull(p) \/ WriteChunk(p) \/ RwipWrite(p) \/ WriteEnd(p)
  \/ SelectRetry(p) \/ Selscan(p) \/ SelectElsewhere(p)
  \/ PipeClose(p)

Next ==
  \E p \in Procs :
    \/ \E n \in ReadSizes : Read(p, n)
    \/ \E n \in WriteSizes : Write(p, n)
    \/ Select(p)
    \/ Close(p) \/ Interrupt(p) \/ Proceed(p)

Spec == Init /\ [][Next]_vars

(* ILOCK ends.                                                             *)
Locked(p) ==
  \/ ReadEmpty(p) \/ ReadLock(p) \/ WriteLock(p) \/ WriteRelock(p)
  \/ Selscan(p) \/ PipeClose(p)

(* A process that can run is run.  One that was woken for the lock runs    *)
(* before a process that released it makes another call: it sleeps at      *)
(* PINOD, so wakeup sets runrun, and a return to user mode gives way.      *)
FairSpec == Spec /\ \A p \in Procs : WF_vars(Proceed(p)) /\ SF_vars(Locked(p))

-----------------------------------------------------------------------------
(* Properties.                                                             *)

PCs == Locks \cup { "user", "rwip_read", "read_end", "loop", "rwip_write",
                    "write_end", "retry", "elsewhere", "closed" }

(* The state is of the expected shape, and no more than one process is     *)
(* between ILOCK and IUNLOCK.                                              *)
LockHolders ==
  { p \in Procs : pc[p] \in {"rwip_read", "read_end", "loop", "rwip_write", "write_end"} }
TypeOK ==
  /\ s.off \in 0 .. Size(s) /\ Size(s) < 2 * MAXPIPSIZ
  /\ s.count \in 0 .. 2 /\ s.open \subseteq Procs
  /\ s.slp \in [Procs -> Chans] /\ s.pselect \subseteq Procs
  /\ s.sel \in [Ends -> Procs \cup {NoProc}] /\ s.coll \subseteq Ends
  /\ pc \in [Procs -> PCs]
  /\ Cardinality(LockHolders) = IF s.locked THEN 1 ELSE 0

(* The bytes a reader has not reached yet.                                 *)
Unread == SubSeq(s.data, s.off + 1, Size(s))
S == INSTANCE Stream WITH queue <- Unread, Chunk <- MAXPIPSIZ

(* The file, its size and the readers' shared offset, which is set back to *)
(* 0 when the reader has caught up, implement a stream: no byte is lost,   *)
(* delivered twice or out of order, and a chunk is not torn apart.         *)
StreamSpec == S!Spec

(* Nobody sleeps for what has happened: a reader only while the pipe is    *)
(* empty, a writer only while it is full, both only while the other end is *)
(* open, anybody on the lock only while it is held; each with the flag set *)
(* that makes the other side wake it.  While a process is in rwip the news *)
(* is still to come.                                                       *)
SleepersWoken ==
  \A p \in Procs :
    /\ s.slp[p] = "ip" => s.locked /\ s.want
    /\ s.slp[p] = "ip+4" => s.iread /\ s.count = 2 /\ (s.locked \/ Size(s) = 0)
    /\ s.slp[p] = "ip+2" =>
         s.iwrite /\ s.count = 2 /\ (s.locked \/ Size(s) >= MAXPIPSIZ)

(* A process asleep in select has nothing to select, or what it waits for  *)
(* is under way in a process that will call selwakeup for it.              *)
SelectorsWoken ==
  \A p \in Procs :
    s.slp[p] = "selwait" => ~ Ready(s, End(p)) \/ s.locked

(* No wakeup is lost, of the pipe's own sleepers or of select's: what      *)
(* readp, writep, pipe_select and pipe_close leave behind is seen by       *)
(* whoever waits for it.                                                   *)
NoLostWakeup == SleepersWoken /\ SelectorsWoken

(* A write call that is restarted after a signal has put nothing in, so    *)
(* its bytes do not go in twice.                                           *)
RestartSafe ==
  [][ \A p \in Writers : ret' = <<p, "ERESTART", 0>> => io[p].put = 0 ]_vars

(* "If bytes have been transferred then we need to calculate the number of *)
(* bytes transferred": what a write reports is what went in.               *)
WriteReports ==
  [][ \A p \in Writers :
        ret'[1] = p /\ ret'[2] \in {"written", "interrupted"} => io[p].put = ret'[3] ]_vars

(* A read or a write that is under way when the other end is closed        *)
(* returns.                                                                *)
HangupSeen ==
  \A p \in Procs :
    (s.count # 2 /\ pc[p] \in {"readp", "writep", "relock"}) ~> pc[p] \in {"user", "closed"}
=============================================================================
