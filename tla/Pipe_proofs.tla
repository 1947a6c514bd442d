------------------------------ MODULE Pipe_proofs ------------------------------
(***************************************************************************)
(* A pipe is a stream and loses no wakeup, for any number of readers and   *)
(* writers, any size of the pipe and of the reads and writes.              *)
(***************************************************************************)
EXTENDS Pipe, FiniteSetTheorems, SequenceTheorems, TLAPS

(* Where the readers' calls, the writers' calls, and the owner of the      *)
(* inode's lock are.                                                       *)
ReadPCs == {"readp", "rwip_read", "read_end"}
WritePCs == {"writep", "relock", "loop", "rwip_write", "write_end"}
LockedPCs == {"rwip_read", "read_end", "loop", "rwip_write", "write_end"}

Bytes == Writers \X Nat
States ==
  [ data: Seq(Bytes), off: Nat, count: 0 .. 2,
    locked: BOOLEAN, want: BOOLEAN, iread: BOOLEAN, iwrite: BOOLEAN,
    sel: [Ends -> Procs \cup {NoProc}], coll: SUBSET Ends, open: SUBSET Procs,
    slp: [Procs -> Chans], pselect: SUBSET Procs, stale: SUBSET Procs ]
Calls == [ count: Nat, resid: Nat, c: Nat, put: Nat, error: 0 .. 1 ]

Types ==
  /\ s \in States
  /\ pc \in [Procs -> PCs]
  /\ io \in [Procs -> Calls]
  /\ next \in [Writers -> Nat] /\ got \in [Writers -> Nat]

(* Each call is made by a process of its end; the places in which a        *)
(* process sleeps for the lock, for data, for room and in select.          *)
Places ==
  \A p \in Procs :
    /\ pc[p] \in ReadPCs => p \in Readers
    /\ pc[p] \in WritePCs => p \in Writers
    /\ pc[p] = "elsewhere" => p \in Elsewhere
    /\ s.slp[p] = "ip" => pc[p] \in Locks
    /\ s.slp[p] = "ip+4" => pc[p] = "readp"
    /\ s.slp[p] = "ip+2" => pc[p] = "relock"
    /\ s.slp[p] = "selwait" => pc[p] = "retry"

(* ILOCKED is set exactly while one process is between ILOCK and IUNLOCK.  *)
LockOwned ==
  /\ s.locked => \E p \in Procs : pc[p] \in LockedPCs
  /\ \A p \in Procs : pc[p] \in LockedPCs => s.locked
  /\ \A p, q \in Procs : pc[p] \in LockedPCs /\ pc[q] \in LockedPCs => p = q

(* i_count has a reference for each end that somebody has open, and who is *)
(* in pipe_close is the last of its end.                                   *)
LastCloses ==
  /\ \A p \in Procs :
       /\ pc[p] = "pipe_close" => \A q \in s.open : End(q) = End(p) => q = p
       /\ p \in s.open <=> pc[p] # "closed"
  /\ (\E p \in s.open : End(p) = "r") => s.count > 0
  /\ (\E p \in s.open : End(p) = "w") => s.count > 0
  /\ (\E p, q \in s.open : End(p) = "r" /\ End(q) = "w") => s.count = 2

(* The pipe is full or has room for a chunk; the readers are at the end of *)
(* the file only when it is empty or about to be emptied.                  *)
Bounded ==
  /\ s.off <= Size(s) /\ Size(s) < 2 * MAXPIPSIZ
  /\ s.off = Size(s) => Size(s) = 0 \/ \E p \in Procs : pc[p] = "read_end"
  /\ \A p \in Procs :
       /\ pc[p] = "rwip_read" => s.off < Size(s) /\ io[p].resid > 0
       /\ pc[p] = "readp" => io[p].resid > 0
       /\ pc[p] = "rwip_write" => Size(s) < MAXPIPSIZ /\ io[p].resid <= MAXPIPSIZ

(* A writer has put nothing in yet, or uio_resid is that of a chunk and    *)
(* less than the count while something is left.                            *)
ChunksCounted ==
  \A p \in Procs :
    /\ pc[p] = "writep" => io[p].put = 0 /\ io[p].c = io[p].count /\ io[p].resid = io[p].c
    /\ pc[p] \in {"relock", "loop"} =>
         \/ io[p].put = 0 /\ io[p].c = io[p].count
         \/ io[p].resid <= MAXPIPSIZ
            /\ (io[p].c > 0 => io[p].c + MAXPIPSIZ <= io[p].count)
    /\ pc[p] = "relock" => io[p].c > 0
    /\ pc[p] \in {"rwip_write", "write_end"} =>
         /\ io[p].resid <= MAXPIPSIZ
         /\ io[p].c > 0 => io[p].c + MAXPIPSIZ <= io[p].count

(* A process waits in select when it sleeps there, or will: nothing has    *)
(* come in the way since its scan.  Whoever waits will be found by the     *)
(* next selwakeup of its end, and what it waits for has not happened, or   *)
(* its writer has yet to call selwakeup.                                   *)
Waits(t, l, p) ==
  t.slp[p] = "selwait" \/ (l = "elsewhere" /\ p \in t.pselect /\ p \notin t.stale)
Found(t, p) ==
  t.sel[End(p)] = p \/ (t.sel[End(p)] # NoProc /\ End(p) \in t.coll)
Telling == \E q \in Procs : pc[q] = "write_end"

SelectorsFound ==
  \A p \in Procs : Waits(s, pc[p], p) =>
    /\ Found(s, p)
    /\ s.count = 2
    /\ End(p) = "r" => Size(s) = 0 \/ Telling
    /\ End(p) = "w" => Size(s) >= MAXPIPSIZ

(* The same for those who sleep in readp and writep and for the lock.      *)
SleepersFound ==
  \A p \in Procs :
    /\ s.slp[p] = "ip" => s.locked /\ s.want
    /\ s.slp[p] = "ip+4" => s.iread /\ s.count = 2 /\ (Size(s) = 0 \/ Telling)
    /\ s.slp[p] = "ip+2" => s.iwrite /\ s.count = 2 /\ Size(s) >= MAXPIPSIZ

(* The unread bytes of each writer are numbered from got on.               *)
Count(q, w, n) == Cardinality({ i \in 1 .. n : q[i][1] = w })
Numbering(q, g, x) ==
  \A w \in Writers :
    /\ \A i \in 1 .. Len(q) : q[i][1] = w => q[i][2] = g[w] + Count(q, w, i) - 1
    /\ x[w] = g[w] + Count(q, w, Len(q))
Numbered == Numbering(Unread, got, next)

IInv ==
  /\ Types /\ Places /\ LockOwned /\ LastCloses /\ Bounded /\ ChunksCounted
  /\ SleepersFound /\ Numbered

(* Nobody else of its end runs beside one who selects elsewhere as well.   *)
ElsewhereAlone ==
  \A p \in Elsewhere : \A q \in Procs : End(q) = End(p) => q = p

(* What each step does: it keeps the invariants, and is one of the stream  *)
(* or none.                                                                *)
SelectorsKept == ElsewhereAlone /\ SelectorsFound => SelectorsFound'
Streams == S!StreamNext \/ UNCHANGED <<Unread, next, got>>
Correct == IInv' /\ SelectorsKept /\ Streams

-----------------------------------------------------------------------------
(* What the operators on the inode change.                                 *)

SameFile(t, u) == u.data = t.data /\ u.off = t.off /\ u.count = t.count /\ u.open = t.open
SameFlags(t, u) ==
  u.locked = t.locked /\ u.want = t.want /\ u.iread = t.iread /\ u.iwrite = t.iwrite
SameSelect(t, u) ==
  u.sel = t.sel /\ u.coll = t.coll /\ u.pselect = t.pselect /\ u.stale = t.stale

LEMMA SleepShape ==
  ASSUME NEW t \in States, NEW p \in Procs, NEW ch \in Chans
  PROVE  LET u == Sleep(t, p, ch)
         IN  /\ u \in States /\ SameFile(t, u) /\ SameFlags(t, u) /\ SameSelect(t, u)
             /\ \A q \in Procs : u.slp[q] = IF q = p THEN ch ELSE t.slp[q]
BY DEF Sleep, States, SameFile, SameFlags, SameSelect

LEMMA WakeupShape ==
  ASSUME NEW t \in States, NEW ch
  PROVE  LET u == Wakeup(t, ch)
         IN  /\ u \in States /\ SameFile(t, u) /\ SameFlags(t, u) /\ SameSelect(t, u)
             /\ \A q \in Procs : u.slp[q] = IF t.slp[q] = ch THEN "none" ELSE t.slp[q]
BY DEF Wakeup, States, Chans, SameFile, SameFlags, SameSelect

LEMMA LockShape ==
  ASSUME NEW t \in States
  PROVE  LET u == Lock(t)
         IN  /\ u \in States /\ SameFile(t, u) /\ SameSelect(t, u) /\ u.slp = t.slp
             /\ u.locked /\ u.want = t.want /\ u.iread = t.iread /\ u.iwrite = t.iwrite
BY DEF Lock, States, SameFile, SameSelect

LEMMA UnlockShape ==
  ASSUME NEW t \in States
  PROVE  LET u == Unlock(t)
         IN  /\ u \in States /\ SameFile(t, u) /\ SameSelect(t, u)
             /\ ~ u.locked /\ ~ u.want /\ u.iread = t.iread /\ u.iwrite = t.iwrite
             /\ \A q \in Procs :
                  u.slp[q] = IF t.want /\ t.slp[q] = "ip" THEN "none" ELSE t.slp[q]
<1> DEFINE v == [t EXCEPT !.locked = FALSE, !.want = FALSE]
<1>1. /\ v \in States /\ SameFile(t, v) /\ SameSelect(t, v) /\ v.slp = t.slp
      /\ ~ v.locked /\ ~ v.want /\ v.iread = t.iread /\ v.iwrite = t.iwrite
  BY DEF States, SameFile, SameSelect
<1>2. Unlock(t) = IF t.want THEN Wakeup(v, "ip") ELSE v
  BY DEF Unlock
<1> HIDE DEF v
<1>3. CASE t.want
  BY <1>1, <1>2, <1>3, WakeupShape DEF SameFile, SameFlags, SameSelect
<1> QED
  BY <1>1, <1>2, <1>3

(* selwakeup wakes who is remembered, and with the collision flag all.     *)
LEMMA SelwakeupShape ==
  ASSUME PipeAssumption, NEW t \in States, NEW e \in Ends
  PROVE  LET u == Selwakeup(t, e)
         IN  /\ u \in States /\ SameFile(t, u) /\ SameFlags(t, u)
             /\ \A q \in Procs : u.slp[q] = t.slp[q]
                                  \/ (t.slp[q] = "selwait" /\ u.slp[q] = "none")
             /\ u.pselect \subseteq t.pselect /\ t.stale \subseteq u.stale
             /\ \A d \in Ends : d # e => u.sel[d] = t.sel[d] /\ (d \in u.coll <=> d \in t.coll)
             /\ t.sel[e] \in Procs =>
                  u.slp[t.sel[e]] # "selwait"
                  /\ (t.slp[t.sel[e]] # "selwait" => t.sel[e] \notin u.pselect \/ t.sel[e] \in u.stale)
             /\ t.sel[e] # NoProc /\ e \in t.coll =>
                  \A q \in Procs : u.slp[q] # "selwait" /\ (q \in u.pselect => q \in u.stale)
<1> DEFINE p == t.sel[e]
           w == Wakeup(t, "selwait")
           a == IF e \in t.coll THEN [w EXCEPT !.stale = @ \cup t.pselect] ELSE t
           v == IF a.slp[p] = "selwait" THEN Sleep(a, p, "none")
                ELSE [a EXCEPT !.pselect = @ \ {p}]
           u == [v EXCEPT !.sel[e] = NoProc, !.coll = @ \ {e}]
<1>1. Selwakeup(t, e) = IF p = NoProc THEN t ELSE u
  BY DEF Selwakeup
<1>2. CASE p = NoProc
  BY <1>1, <1>2 DEF SameFile, SameFlags, PipeAssumption
<1>3. CASE p # NoProc
  <2>1. p \in Procs
    BY <1>3 DEF States
  <2>2. /\ w \in States /\ SameFile(t, w) /\ SameFlags(t, w) /\ SameSelect(t, w)
        /\ \A q \in Procs : w.slp[q] = IF t.slp[q] = "selwait" THEN "none" ELSE t.slp[q]
    BY WakeupShape
  <2> HIDE DEF w
  <2>3. /\ a \in States /\ SameFile(t, a) /\ SameFlags(t, a)
        /\ a.sel = t.sel /\ a.coll = t.coll /\ a.pselect = t.pselect
        /\ a.stale = IF e \in t.coll THEN t.stale \cup t.pselect ELSE t.stale
        /\ \A q \in Procs : a.slp[q] = IF e \in t.coll /\ t.slp[q] = "selwait"
                                        THEN "none" ELSE t.slp[q]
    <3>1. CASE e \in t.coll
      BY <2>2, <3>1 DEF States, SameFile, SameFlags, SameSelect
    <3> QED
      BY <3>1 DEF SameFile, SameFlags
  <2> HIDE DEF a
  <2>4. /\ v \in States /\ SameFile(t, v) /\ SameFlags(t, v)
        /\ v.sel = t.sel /\ v.coll = t.coll /\ v.stale = a.stale
        /\ v.pselect = IF a.slp[p] = "selwait" THEN t.pselect ELSE t.pselect \ {p}
        /\ \A q \in Procs : v.slp[q] = IF q = p /\ a.slp[p] = "selwait"
                                        THEN "none" ELSE a.slp[q]
    <3>1. CASE a.slp[p] = "selwait"
      <4>1. v = Sleep(a, p, "none")
        BY <3>1
      <4> HIDE DEF v, p
      <4>2. /\ v \in States /\ SameFile(a, v) /\ SameFlags(a, v) /\ SameSelect(a, v)
            /\ \A q \in Procs : v.slp[q] = IF q = p THEN "none" ELSE a.slp[q]
        <5>1. "none" \in Chans /\ a \in States
          BY <2>3 DEF Chans
        <5> QED
          BY <2>1, <4>1, <5>1, SleepShape
      <4> QED
        BY <2>3, <3>1, <4>2 DEF SameFile, SameFlags, SameSelect
    <3>2. CASE a.slp[p] # "selwait"
      BY <2>1, <2>3, <3>2 DEF States, SameFile, SameFlags
    <3> QED
      BY <3>1, <3>2
  <2> HIDE DEF v
  <2>5. /\ u \in States /\ SameFile(t, u) /\ SameFlags(t, u)
        /\ u.slp = v.slp /\ u.pselect = v.pselect /\ u.stale = v.stale
        /\ \A d \in Ends : d # e => u.sel[d] = t.sel[d] /\ (d \in u.coll <=> d \in t.coll)
    BY <2>4 DEF States, SameFile, SameFlags
  <2> HIDE DEF u, p
  <2> QED
    BY <1>1, <1>3, <2>1, <2>3, <2>4, <2>5 DEF p
<1> QED
  BY <1>2, <1>3

(* Of those who wait in select, the ones of this end no longer do, and the *)
(* others are still found.                                                 *)
LEMMA SelwakeupCalms ==
  ASSUME PipeAssumption, NEW t \in States, NEW e \in Ends, NEW p \in Procs, NEW l,
         l = "elsewhere" => t.slp[p] # "selwait"
  PROVE  LET u == Selwakeup(t, e)
         IN  /\ Waits(u, l, p) => Waits(t, l, p)
             /\ Found(t, p) => IF End(p) = e THEN ~ Waits(u, l, p) ELSE Found(u, p)
<1> DEFINE u == Selwakeup(t, e)
<1>0. End(p) \in Ends /\ p # NoProc
  BY DEF End, Ends, PipeAssumption
<1>1. Waits(u, l, p) => Waits(t, l, p)
  BY SelwakeupShape DEF Waits
<1>2. Found(t, p) /\ End(p) = e => ~ Waits(u, l, p)
  BY <1>0, SelwakeupShape DEF Waits, Found
<1>3. Found(t, p) /\ End(p) # e => Found(u, p)
  BY <1>0, SelwakeupShape DEF Found
<1> QED
  BY <1>1, <1>2, <1>3

(* Writers asleep for room and in select are told that there is room.      *)
LEMMA CaughtUpShape ==
  ASSUME PipeAssumption, NEW t \in States, t.off = Size(t)
  PROVE  LET u == CaughtUp(t)
         IN  /\ u \in States /\ u.data = << >> /\ u.off = 0
             /\ u.count = t.count /\ u.open = t.open
             /\ u.locked = t.locked /\ u.want = t.want /\ u.iread = t.iread
             /\ \A q \in Procs : u.slp[q] \in {t.slp[q], "none"}
             /\ t.iwrite => \A q \in Procs : u.slp[q] # "ip+2"
             /\ \A p \in Procs : \A l :
                  (l = "elsewhere" => t.slp[p] # "selwait") =>
                  /\ Waits(u, l, p) => Waits(t, l, p)
                  /\ Found(t, p) => IF End(p) = "w" THEN ~ Waits(u, l, p) ELSE Found(u, p)
<1> DEFINE a == [t EXCEPT !.data = << >>, !.off = 0, !.iwrite = FALSE]
           b == IF t.iwrite THEN Wakeup(a, "ip+2") ELSE a
           u == CaughtUp(t)
<1>1. u = Selwakeup(b, "w")
  BY DEF CaughtUp
<1>2. /\ a \in States /\ a.data = << >> /\ a.off = 0
      /\ a.count = t.count /\ a.open = t.open /\ a.slp = t.slp
      /\ a.locked = t.locked /\ a.want = t.want /\ a.iread = t.iread
      /\ SameSelect(t, a)
  <2>1. << >> \in Seq(Bytes) /\ 0 \in Nat
    OBVIOUS
  <2> QED
    BY <2>1 DEF States, SameSelect
<1> HIDE DEF a
<1>3. /\ b \in States /\ b.data = << >> /\ b.off = 0
      /\ b.count = t.count /\ b.open = t.open
      /\ b.locked = t.locked /\ b.want = t.want /\ b.iread = t.iread
      /\ SameSelect(t, b)
      /\ \A q \in Procs : b.slp[q] = IF t.iwrite /\ t.slp[q] = "ip+2" THEN "none" ELSE t.slp[q]
  <2>1. CASE t.iwrite
    BY <1>2, <2>1, WakeupShape DEF SameFile, SameFlags, SameSelect
  <2> QED
    BY <1>2, <2>1
<1> HIDE DEF b
<1>4. "w" \in Ends
  BY DEF Ends
<1>5. ASSUME NEW p \in Procs, NEW l, l = "elsewhere" => t.slp[p] # "selwait"
      PROVE  /\ Waits(b, l, p) <=> Waits(t, l, p)
             /\ Found(b, p) <=> Found(t, p)
             /\ l = "elsewhere" => b.slp[p] # "selwait"
  BY <1>3, <1>5 DEF Waits, Found, SameSelect
<1>6. ASSUME NEW p \in Procs, NEW l, l = "elsewhere" => t.slp[p] # "selwait"
      PROVE  /\ Waits(u, l, p) => Waits(t, l, p)
             /\ Found(t, p) => IF End(p) = "w" THEN ~ Waits(u, l, p) ELSE Found(u, p)
  BY <1>1, <1>3, <1>4, <1>5, <1>6, SelwakeupCalms
<1>7. /\ u \in States /\ SameFile(b, u) /\ SameFlags(b, u)
      /\ \A q \in Procs : u.slp[q] = b.slp[q] \/ (b.slp[q] = "selwait" /\ u.slp[q] = "none")
  BY <1>1, <1>3, <1>4, SelwakeupShape
<1> HIDE DEF u
<1> QED
  BY <1>3, <1>6, <1>7 DEF SameFile, SameFlags, u

(* Readers asleep for data and in select are told that there is some.      *)
LEMMA TellShape ==
  ASSUME PipeAssumption, NEW t \in States
  PROVE  LET u == TellReaders(t)
         IN  /\ u \in States /\ SameFile(t, u)
             /\ u.locked = t.locked /\ u.want = t.want /\ u.iwrite = t.iwrite
             /\ \A q \in Procs : u.slp[q] \in {t.slp[q], "none"}
             /\ t.iread => \A q \in Procs : u.slp[q] # "ip+4"
             /\ \A p \in Procs : \A l :
                  (l = "elsewhere" => t.slp[p] # "selwait") =>
                  /\ Waits(u, l, p) => Waits(t, l, p)
                  /\ Found(t, p) => IF End(p) = "r" THEN ~ Waits(u, l, p) ELSE Found(u, p)
<1> DEFINE a == [t EXCEPT !.iread = FALSE]
           b == IF t.iread THEN Wakeup(a, "ip+4") ELSE t
           u == TellReaders(t)
<1>1. u = Selwakeup(b, "r")
  BY DEF TellReaders
<1>2. /\ a \in States /\ SameFile(t, a) /\ a.slp = t.slp
      /\ a.locked = t.locked /\ a.want = t.want /\ a.iwrite = t.iwrite
      /\ SameSelect(t, a)
  BY DEF States, SameSelect, SameFile
<1> HIDE DEF a
<1>3. /\ b \in States /\ SameFile(t, b)
      /\ b.locked = t.locked /\ b.want = t.want /\ b.iwrite = t.iwrite
      /\ SameSelect(t, b)
      /\ \A q \in Procs : b.slp[q] = IF t.iread /\ t.slp[q] = "ip+4" THEN "none" ELSE t.slp[q]
  <2>1. CASE t.iread
    BY <1>2, <2>1, WakeupShape DEF SameFile, SameFlags, SameSelect
  <2> QED
    BY <1>2, <2>1 DEF SameFile, SameSelect
<1> HIDE DEF b
<1>4. "r" \in Ends
  BY DEF Ends
<1>5. ASSUME NEW p \in Procs, NEW l, l = "elsewhere" => t.slp[p] # "selwait"
      PROVE  /\ Waits(b, l, p) <=> Waits(t, l, p)
             /\ Found(b, p) <=> Found(t, p)
             /\ l = "elsewhere" => b.slp[p] # "selwait"
  BY <1>3, <1>5 DEF Waits, Found, SameSelect
<1>6. ASSUME NEW p \in Procs, NEW l, l = "elsewhere" => t.slp[p] # "selwait"
      PROVE  /\ Waits(u, l, p) => Waits(t, l, p)
             /\ Found(t, p) => IF End(p) = "r" THEN ~ Waits(u, l, p) ELSE Found(u, p)
  BY <1>1, <1>3, <1>4, <1>5, <1>6, SelwakeupCalms
<1>7. /\ u \in States /\ SameFile(b, u) /\ SameFlags(b, u)
      /\ \A q \in Procs : u.slp[q] = b.slp[q] \/ (b.slp[q] = "selwait" /\ u.slp[q] = "none")
  BY <1>1, <1>3, <1>4, SelwakeupShape
<1> HIDE DEF u
<1> QED
  BY <1>3, <1>6, <1>7 DEF SameFile, SameFlags, u

(* pipe_close wakes everybody.                                             *)
LEMMA HangUpShape ==
  ASSUME PipeAssumption, NEW t \in States, t.count > 0
  PROVE  LET u == HangUp(t)
         IN  /\ u \in States /\ u.data = t.data /\ u.off = t.off /\ u.open = t.open
             /\ u.count = t.count - 1 /\ ~ u.locked
             /\ \A q \in Procs :
                  u.slp[q] \in {t.slp[q], "none"} /\ u.slp[q] \notin {"ip+2", "ip+4"}
             /\ \A p \in Procs : \A l :
                  (l = "elsewhere" => t.slp[p] # "selwait")
                  /\ (Waits(t, l, p) => Found(t, p)) => ~ Waits(u, l, p)
<1> DEFINE a == Lock(t)
           b == Selwakeup(a, "r")
           c == Selwakeup(b, "w")
           d == [c EXCEPT !.iread = FALSE, !.iwrite = FALSE]
           e == Wakeup(d, "ip+2")
           f == Wakeup(e, "ip+4")
           g == Unlock(f)
           u == [g EXCEPT !.count = @ - 1]
<1>0. HangUp(t) = u
  BY DEF HangUp
<1>1. a \in States /\ SameFile(t, a) /\ SameSelect(t, a) /\ a.slp = t.slp
  BY LockShape
<1> HIDE DEF a
<1>2. /\ b \in States /\ SameFile(a, b)
      /\ \A q \in Procs : b.slp[q] = a.slp[q] \/ (a.slp[q] = "selwait" /\ b.slp[q] = "none")
  BY <1>1, SelwakeupShape DEF Ends
<1>3. ASSUME NEW p \in Procs, NEW l, l = "elsewhere" => t.slp[p] # "selwait",
             Waits(t, l, p) => Found(t, p)
      PROVE  /\ Waits(b, l, p) => End(p) # "r" /\ Found(b, p)
             /\ l = "elsewhere" => b.slp[p] # "selwait"
  <2>1. /\ Waits(b, l, p) => Waits(a, l, p)
        /\ Found(a, p) => IF End(p) = "r" THEN ~ Waits(b, l, p) ELSE Found(b, p)
    BY <1>1, <1>3, SelwakeupCalms DEF Ends
  <2>2. (Waits(a, l, p) <=> Waits(t, l, p)) /\ (Found(a, p) <=> Found(t, p))
    BY <1>1 DEF Waits, Found, SameSelect
  <2> QED
    BY <1>1, <1>2, <1>3, <2>1, <2>2
<1> HIDE DEF b
<1>4. /\ c \in States /\ SameFile(b, c)
      /\ \A q \in Procs : c.slp[q] = b.slp[q] \/ (b.slp[q] = "selwait" /\ c.slp[q] = "none")
  BY <1>2, SelwakeupShape DEF Ends
<1>5. ASSUME NEW p \in Procs, NEW l, l = "elsewhere" => t.slp[p] # "selwait",
             Waits(t, l, p) => Found(t, p)
      PROVE  ~ Waits(c, l, p)
  <2>1. /\ Waits(c, l, p) => Waits(b, l, p)
        /\ Found(b, p) => IF End(p) = "w" THEN ~ Waits(c, l, p) ELSE Found(c, p)
    BY <1>2, <1>3, <1>5, SelwakeupCalms DEF Ends
  <2> QED
    BY <1>3, <1>5, <2>1 DEF End
<1> HIDE DEF c
<1>6. d \in States /\ SameFile(c, d) /\ SameSelect(c, d) /\ d.slp = c.slp
  BY <1>4 DEF States, SameFile, SameSelect
<1> HIDE DEF d
<1>7. /\ e \in States /\ SameFile(d, e) /\ SameSelect(d, e)
      /\ \A q \in Procs : e.slp[q] = IF d.slp[q] = "ip+2" THEN "none" ELSE d.slp[q]
  BY <1>6, WakeupShape
<1> HIDE DEF e
<1>8. /\ f \in States /\ SameFile(e, f) /\ SameSelect(e, f)
      /\ \A q \in Procs : f.slp[q] = IF e.slp[q] = "ip+4" THEN "none" ELSE e.slp[q]
  BY <1>7, WakeupShape
<1> HIDE DEF f
<1>9. /\ g \in States /\ SameFile(f, g) /\ SameSelect(f, g) /\ ~ g.locked
      /\ \A q \in Procs : g.slp[q] = IF f.want /\ f.slp[q] = "ip" THEN "none" ELSE f.slp[q]
  BY <1>8, UnlockShape
<1> HIDE DEF g
<1>10. /\ SameFile(t, g) /\ SameSelect(c, g)
       /\ \A q \in Procs : g.slp[q] = c.slp[q] \/ (g.slp[q] = "none" /\ c.slp[q] # "selwait")
       /\ \A q \in Procs : g.slp[q] \in {t.slp[q], "none"} /\ g.slp[q] \notin {"ip+2", "ip+4"}
  BY <1>1, <1>2, <1>4, <1>6, <1>7, <1>8, <1>9 DEF SameFile, SameSelect
<1>11. /\ u \in States /\ u.data = g.data /\ u.off = g.off /\ u.open = g.open
       /\ u.count = g.count - 1 /\ ~ u.locked /\ u.slp = g.slp /\ SameSelect(g, u)
  <2>1. g.count - 1 \in 0 .. 2
    BY <1>9, <1>10 DEF SameFile, States
  <2> QED
    BY <1>9, <2>1 DEF SameSelect, States
<1> HIDE DEF u
<1>12. ASSUME NEW p \in Procs, NEW l, l = "elsewhere" => t.slp[p] # "selwait",
              Waits(t, l, p) => Found(t, p)
       PROVE  ~ Waits(u, l, p)
  BY <1>5, <1>10, <1>11, <1>12 DEF Waits, SameSelect
<1> QED
  BY <1>0, <1>10, <1>11, <1>12 DEF SameFile

(* pipe_select will find p, and everybody it found before who sleeps.      *)
LEMMA RememberShape ==
  ASSUME PipeAssumption, NEW t \in States, NEW p \in Procs
  PROVE  LET u == Remember(t, p, End(p))
         IN  /\ u \in States /\ SameFile(t, u) /\ SameFlags(t, u) /\ u.slp = t.slp
             /\ u.pselect = t.pselect /\ u.stale = t.stale
             /\ Found(u, p)
             /\ \A q \in Procs :
                  Found(t, q) /\ (End(q) = End(p) => t.slp[q] = "selwait") => Found(u, q)
<1> DEFINE e == End(p)
           u == Remember(t, p, e)
<1>0. \A q \in Procs : End(q) \in Ends /\ q # NoProc
  BY DEF End, Ends, PipeAssumption
<1>1. CASE t.sel[e] # NoProc /\ t.slp[t.sel[e]] = "selwait"
  <2>1. u = [t EXCEPT !.coll = @ \cup {e}]
    BY <1>1 DEF Remember
  <2> HIDE DEF u, e
  <2> QED
    BY <1>0, <1>1, <2>1, SMTT(30) DEF States, SameFile, SameFlags, Found, e, u
<1>2. CASE ~ (t.sel[e] # NoProc /\ t.slp[t.sel[e]] = "selwait")
  <2>1. u = [t EXCEPT !.sel[e] = p]
    BY <1>2 DEF Remember
  <2>2. /\ u \in States /\ SameFile(t, u) /\ SameFlags(t, u) /\ u.slp = t.slp
        /\ u.pselect = t.pselect /\ u.stale = t.stale /\ u.coll = t.coll
        /\ \A d \in Ends : u.sel[d] = IF d = e THEN p ELSE t.sel[d]
    <3>1. e \in Ends
      BY <1>0
    <3> HIDE DEF u, e
    <3> QED
      BY <2>1, <3>1 DEF States, SameFile, SameFlags
  <2> HIDE DEF u
  <2> QED
    BY <1>0, <1>2, <2>2 DEF Found, u
<1> QED
  BY <1>1, <1>2

LEMMA RestShape ==
  ASSUME NEW t \in States, NEW p \in Procs
  PROVE  LET u == Rest(t, p)
         IN  /\ u \in States /\ SameFile(t, u) /\ SameFlags(t, u)
             /\ u.sel = t.sel /\ u.coll = t.coll /\ u.stale = t.stale
             /\ u.pselect = t.pselect \ {p}
             /\ \A q \in Procs :
                  u.slp[q] = IF q = p /\ p \in t.pselect /\ p \notin t.stale
                               THEN "selwait" ELSE t.slp[q]
<1> DEFINE a == [t EXCEPT !.pselect = @ \ {p}]
<1>1. /\ a \in States /\ SameFile(t, a) /\ SameFlags(t, a) /\ a.slp = t.slp
      /\ a.sel = t.sel /\ a.coll = t.coll /\ a.stale = t.stale /\ a.pselect = t.pselect \ {p}
  BY DEF States, SameFile, SameFlags
<1>2. Rest(t, p) = IF p \notin t.pselect \/ p \in t.stale THEN a ELSE Sleep(a, p, "selwait")
  BY DEF Rest
<1> HIDE DEF a
<1>3. CASE p \notin t.pselect \/ p \in t.stale
  BY <1>1, <1>2, <1>3
<1>4. CASE ~ (p \notin t.pselect \/ p \in t.stale)
  <2>1. "selwait" \in Chans
    BY DEF Chans
  <2> QED
    BY <1>1, <1>2, <1>4, <2>1, SleepShape DEF SameFile, SameFlags, SameSelect
<1> QED
  BY <1>3, <1>4

-----------------------------------------------------------------------------
(* Counting the bytes of a writer.                                         *)

LEMMA StreamCardinality ==
  ASSUME NEW A
  PROVE  S!Cardinality(A) = Cardinality(A)
BY DEF S!Cardinality, Cardinality

LEMMA CountNat ==
  ASSUME NEW q, NEW w, NEW n \in Nat
  PROVE  /\ IsFiniteSet({ i \in 1 .. n : q[i][1] = w })
         /\ Count(q, w, n) \in Nat /\ Count(q, w, 0) = 0
<1>1. IsFiniteSet(1 .. n)
  BY FS_Interval
<1>2. IsFiniteSet({ i \in 1 .. n : q[i][1] = w })
  BY <1>1, FS_Subset
<1>3. Count(q, w, n) \in Nat
  BY <1>2, FS_CardinalityType DEF Count
<1>4. { i \in 1 .. 0 : q[i][1] = w } = {}
  OBVIOUS
<1> QED
  BY <1>2, <1>3, <1>4, FS_EmptySet DEF Count

LEMMA CountPrefix ==
  ASSUME NEW q, NEW r, NEW w, NEW n \in Nat, \A i \in 1 .. n : q[i] = r[i]
  PROVE  Count(q, w, n) = Count(r, w, n)
<1>1. { i \in 1 .. n : q[i][1] = w } = { i \in 1 .. n : r[i][1] = w }
  OBVIOUS
<1> QED
  BY <1>1 DEF Count

LEMMA Beyond ==
  ASSUME NEW n \in Nat, NEW m \in Nat
  PROVE  /\ \A i : i \in 1 .. (n + m) <=> i \in 1 .. n \/ i \in (n + 1) .. (n + m)
         /\ \A i : ~ (i \in 1 .. n /\ i \in (n + 1) .. (n + m))
         /\ \A i \in (n + 1) .. (n + m) : i - n \in 1 .. m /\ n + (i - n) = i
         /\ \A j \in 1 .. m : n + j \in (n + 1) .. (n + m)
         /\ IsFiniteSet((n + 1) .. (n + m)) /\ Cardinality((n + 1) .. (n + m)) = m
<1>1. /\ \A i : i \in 1 .. (n + m) <=> i \in 1 .. n \/ i \in (n + 1) .. (n + m)
      /\ \A i : ~ (i \in 1 .. n /\ i \in (n + 1) .. (n + m))
      /\ \A i \in (n + 1) .. (n + m) : i - n \in 1 .. m /\ n + (i - n) = i
      /\ \A j \in 1 .. m : n + j \in (n + 1) .. (n + m)
  OBVIOUS
<1>2. n + 1 \in Int /\ n + m \in Int
  OBVIOUS
<1>3. /\ IsFiniteSet((n + 1) .. (n + m))
      /\ Cardinality((n + 1) .. (n + m))
           = IF n + 1 > n + m THEN 0 ELSE (n + m) - (n + 1) + 1
  BY <1>2, FS_Interval
<1>4. (IF n + 1 > n + m THEN 0 ELSE (n + m) - (n + 1) + 1) = m
  OBVIOUS
<1> QED
  BY <1>1, <1>3, <1>4

LEMMA CardDisjoint ==
  ASSUME NEW A, NEW D, IsFiniteSet(A), IsFiniteSet(D), \A i : ~ (i \in A /\ i \in D)
  PROVE  Cardinality(A \cup D) = Cardinality(A) + Cardinality(D)
<1>1. A \cap D = {}
  OBVIOUS
<1>2. Cardinality(A) \in Nat /\ Cardinality(D) \in Nat /\ Cardinality(A \cap D) = 0
  BY <1>1, FS_CardinalityType, FS_EmptySet
<1>3. Cardinality(A \cup D) = Cardinality(A) + Cardinality(D) - Cardinality(A \cap D)
  BY FS_Union
<1> QED
  BY <1>2, <1>3

(* A run of bytes of one writer.                                           *)
LEMMA CountRun ==
  ASSUME NEW q, NEW w, NEW n \in Nat, NEW m \in Nat, NEW k, k = n + m
  PROVE  /\ (\A i \in (n + 1) .. k : q[i][1] = w) => Count(q, w, k) = Count(q, w, n) + m
         /\ (\A i \in (n + 1) .. k : q[i][1] # w) => Count(q, w, k) = Count(q, w, n)
<1> DEFINE N == 1 .. n
           M == 1 .. (n + m)
           D == (n + 1) .. (n + m)
           A == { i \in N : q[i][1] = w }
           B == { i \in M : q[i][1] = w }
<1>0. Count(q, w, k) = Cardinality(B) /\ Count(q, w, n) = Cardinality(A)
  BY DEF Count
<1>1. /\ \A i : i \in M <=> i \in N \/ i \in D
      /\ \A i : ~ (i \in N /\ i \in D)
      /\ IsFiniteSet(D) /\ Cardinality(D) = m
  BY Beyond
<1>4. IsFiniteSet(A) /\ Cardinality(A) \in Nat
  BY <1>0, CountNat
<1> HIDE DEF N, M, D
<1>2. ASSUME \A i \in D : q[i][1] # w
      PROVE  Count(q, w, k) = Count(q, w, n)
  <2>1. A = B
    BY <1>1, <1>2
  <2> HIDE DEF A, B
  <2> QED
    BY <1>0, <2>1
<1>3. ASSUME \A i \in D : q[i][1] = w
      PROVE  Count(q, w, k) = Count(q, w, n) + m
  <2>1. B = A \cup D
    BY <1>1, <1>3
  <2> HIDE DEF A, B
  <2>2. \A i : ~ (i \in A /\ i \in D)
    BY <1>1 DEF A
  <2> QED
    BY <1>0, <1>1, <1>4, <2>1, <2>2, CardDisjoint
<1> QED
  BY <1>2, <1>3 DEF D

(* Counting from behind the first n bytes.                                 *)
LEMMA CountShift ==
  ASSUME NEW q, NEW r, NEW w, NEW n \in Nat, NEW m \in Nat, NEW k, k = n + m,
         \A j \in 1 .. m : r[j] = q[n + j]
  PROVE  Count(q, w, k) = Count(q, w, n) + Count(r, w, m)
<1> DEFINE N == 1 .. n
           M == 1 .. (n + m)
           R == (n + 1) .. (n + m)
           A == { i \in N : q[i][1] = w }
           B == { i \in M : q[i][1] = w }
           C == { j \in 1 .. m : r[j][1] = w }
           D == { i \in R : q[i][1] = w }
           f == [ j \in C |-> n + j ]
<1>0. /\ Count(q, w, k) = Cardinality(B) /\ Count(q, w, n) = Cardinality(A)
      /\ Count(r, w, m) = Cardinality(C)
  BY DEF Count
<1>6. IsFiniteSet(A) /\ IsFiniteSet(C)
  BY CountNat, ZenonT(60)
<1>1. /\ \A i : i \in M <=> i \in N \/ i \in R
      /\ \A i : ~ (i \in N /\ i \in R)
      /\ \A i \in R : i - n \in 1 .. m /\ n + (i - n) = i
      /\ \A j \in 1 .. m : n + j \in R
  BY Beyond
<1> HIDE DEF N, M, R
<1>2. f \in Bijection(C, D)
  <2>1. \A j \in C : f[j] = n + j /\ n + j \in D
    BY <1>1
  <2>2. f \in [C -> D]
    BY <2>1
  <2>3. \A a, b \in C : f[a] = f[b] => a = b
    <3>1. \A a, b \in 1 .. m : n + a = n + b => a = b
      OBVIOUS
    <3> QED
      BY <2>1, <3>1
  <2>4. ASSUME NEW i \in D
        PROVE  \E j \in C : f[j] = i
    <3>1. i \in R /\ q[i][1] = w
      OBVIOUS
    <3>2. i - n \in 1 .. m /\ n + (i - n) = i
      BY <1>1, <3>1
    <3>3. r[i - n] = q[i]
      BY <3>2
    <3>4. i - n \in C
      BY <3>1, <3>2, <3>3
    <3> QED
      BY <2>1, <3>2, <3>4
  <2> HIDE DEF f, C, D
  <2> QED
    BY <2>2, <2>3, <2>4 DEF Bijection, Injection, Surjection, IsInjective
<1>3. IsFiniteSet(D) /\ Cardinality(D) = Cardinality(C)
  <2>1. ExistsBijection(C, D)
    BY <1>2 DEF ExistsBijection
  <2> HIDE DEF f, C, D
  <2> QED
    BY <1>6, <2>1, FS_Bijection
<1>4. \A i : ~ (i \in A /\ i \in D)
  BY <1>1
<1>5. B = A \cup D
  BY <1>1
<1> HIDE DEF A, B, C, D
<1> QED
  BY <1>0, <1>3, <1>4, <1>5, <1>6, CardDisjoint

(* A process that finds the lock taken.                                    *)
LEMMA LockBusyStep ==
  ASSUME PipeAssumption, IInv, NEW p \in Procs, NEW l \in Locks, LockBusy(p, l)
  PROVE  Correct
<1>1. /\ pc[p] = l /\ s.slp[p] = "none" /\ s.locked
      /\ UNCHANGED <<pc, io, next, got>>
      /\ s' \in States /\ SameFile(s, s') /\ SameSelect(s, s')
      /\ s'.locked /\ s'.want /\ s'.iread = s.iread /\ s'.iwrite = s.iwrite
      /\ \A q \in Procs : s'.slp[q] = IF q = p THEN "ip" ELSE s.slp[q]
  <2> DEFINE v == [s EXCEPT !.want = TRUE]
  <2>1. /\ v \in States /\ SameFile(s, v) /\ SameSelect(s, v) /\ v.slp = s.slp
        /\ v.locked = s.locked /\ v.want /\ v.iread = s.iread /\ v.iwrite = s.iwrite
    BY DEF IInv, Types, States, SameFile, SameSelect
  <2>2. s' = Sleep(v, p, "ip") /\ "ip" \in Chans
    BY DEF LockBusy, WaitForLock, Chans
  <2> HIDE DEF v
  <2>3. /\ s' \in States /\ SameFile(v, s') /\ SameFlags(v, s') /\ SameSelect(v, s')
        /\ \A q \in Procs : s'.slp[q] = IF q = p THEN "ip" ELSE v.slp[q]
    BY <2>1, <2>2, SleepShape
  <2>4. /\ pc[p] = l /\ s.slp[p] = "none" /\ s.locked
        /\ UNCHANGED <<pc, io, next, got>>
    BY DEF LockBusy, At, Keep, NoBytes
  <2> QED
    BY <2>1, <2>3, <2>4 DEF SameFile, SameFlags, SameSelect
<1>2. SameFile(s, s') /\ Unread' = Unread
  BY <1>1 DEF SameFile, Unread, Size
<1>10. Types'
  BY <1>1 DEF IInv, Types, Calls, PCs, Locks, NoCall
<1>11. Places'
  BY <1>1 DEF IInv, Places, ReadPCs, WritePCs, Locks
<1>12. LockOwned'
  BY <1>1 DEF IInv, LockOwned, LockedPCs
<1>13. LastCloses'
  BY <1>1 DEF IInv, LastCloses, SameFile
<1>14. Bounded'
  BY <1>1 DEF IInv, Bounded, SameFile, Size
<1>15. ChunksCounted'
  BY <1>1 DEF IInv, ChunksCounted
<1>16. SleepersFound'
  BY <1>1 DEF IInv, SleepersFound, Places, LockOwned, LockedPCs, Telling, Size, SameFile
<1>17. Numbered'
  BY <1>1, <1>2 DEF IInv, Numbered
<1>18. SelectorsKept
  BY <1>1 DEF IInv, Places, SelectorsKept, SelectorsFound, Waits, Found, Telling,
     SameFile, SameSelect, Size
<1>19. Streams
  BY <1>1, <1>2 DEF Streams
<1> QED
  BY <1>10, <1>11, <1>12, <1>13, <1>14, <1>15, <1>16, <1>17, <1>18, <1>19 DEF IInv, Correct

(* A call of read or write begins.                                         *)
LEMMA CallStep ==
  ASSUME PipeAssumption, IInv, NEW p \in Procs, NEW n \in Nat, n > 0,
         Read(p, n) \/ Write(p, n)
  PROVE  Correct
<1> DEFINE l == IF p \in Readers THEN "readp" ELSE "writep"
           r == [NoCall EXCEPT !.count = n, !.resid = n, !.c = n]
<1>3. r \in Calls /\ r.put = 0 /\ r.c = n /\ r.count = n /\ r.resid = n
  <2>1. NoCall \in Calls /\ NoCall.put = 0
    BY DEF NoCall, Calls
  <2> QED
    BY <2>1 DEF Calls
<1>4. /\ Call(p, l, n) /\ l \in {"readp", "writep"}
      /\ (l = "readp" => p \in Readers) /\ (l = "writep" => p \in Writers)
  <2>1. CASE p \in Readers
    <3>1. Read(p, n)
      BY <2>1 DEF Write, PipeAssumption
    <3> QED
      BY <2>1, <3>1 DEF Read
  <2>2. CASE p \notin Readers
    <3>1. Write(p, n) /\ p \in Writers
      BY <2>2 DEF Read, Procs
    <3> QED
      BY <2>2, <3>1 DEF Write
  <2> QED
    BY <2>1, <2>2
<1> HIDE DEF l
<1>5. /\ pc[p] = "user" /\ s.slp[p] = "none" /\ s' = s /\ p \in s.open
      /\ UNCHANGED <<next, got>>
      /\ pc' = [pc EXCEPT ![p] = l] /\ io' = [io EXCEPT ![p] = r]
  BY <1>4 DEF Call, NoBytes, Goto, At
<1> HIDE DEF r
<1>6. pc \in [Procs -> PCs] /\ io \in [Procs -> Calls]
  BY DEF IInv, Types
<1>1. /\ pc[p] = "user" /\ s.slp[p] = "none" /\ s' = s /\ p \in s.open
      /\ \A q \in Procs : pc'[q] = IF q = p THEN l ELSE pc[q]
      /\ \A q \in Procs : q # p => io'[q] = io[q]
      /\ io'[p].put = 0 /\ io'[p].c = n /\ io'[p].count = n /\ io'[p].resid = n
      /\ l \in {"readp", "writep"}
      /\ (l = "readp" => p \in Readers) /\ (l = "writep" => p \in Writers)
  BY <1>3, <1>4, <1>5, <1>6
<1>2. Unread' = Unread /\ SameFile(s, s') /\ UNCHANGED <<next, got>>
  BY <1>5 DEF Unread, Size, SameFile
<1>10. Types'
  BY <1>3, <1>4, <1>5 DEF IInv, Types, PCs, Locks
<1>11. Places'
  BY <1>1 DEF IInv, Places, ReadPCs, WritePCs, Locks
<1>12. LockOwned'
  BY <1>1 DEF IInv, LockOwned, LockedPCs
<1>13. LastCloses'
  BY <1>1 DEF IInv, LastCloses, SameFile
<1>14. Bounded'
  BY <1>1 DEF IInv, Bounded, SameFile, Size
<1>15. ChunksCounted'
  BY <1>1 DEF IInv, ChunksCounted
<1>16. SleepersFound'
  BY <1>1 DEF IInv, SleepersFound, Places, LockOwned, LockedPCs, Telling, Size, SameFile
<1>17. Numbered'
  BY <1>1, <1>2 DEF IInv, Numbered
<1>18. SelectorsKept
  BY <1>1 DEF IInv, Places, SelectorsKept, SelectorsFound, Waits, Found, Telling,
     SameFile, SameSelect, Size
<1>19. Streams
  BY <1>1, <1>2 DEF Streams
<1> QED
  BY <1>10, <1>11, <1>12, <1>13, <1>14, <1>15, <1>16, <1>17, <1>18, <1>19 DEF IInv, Correct

(* read returns from an empty pipe, or would block.                        *)
LEMMA ReadEmptyReturnStep ==
  ASSUME PipeAssumption, IInv, NEW p \in Procs, ReadEmpty(p), s' = s, pc'[p] # "readp"
  PROVE  Correct
<1>1. /\ pc[p] = "readp" /\ s.slp[p] = "none" /\ UNCHANGED <<next, got>>
      /\ pc' = [pc EXCEPT ![p] = "user"] /\ \A q \in Procs : pc'[q] = IF q = p THEN "user" ELSE pc[q]
      /\ io' = [io EXCEPT ![p] = NoCall] /\ \A q \in Procs : q # p => io'[q] = io[q]
      /\ s' = s
  <2>1. pc \in [Procs -> PCs] /\ io \in [Procs -> Calls] /\ pc[p] = "readp"
    BY DEF IInv, Types, ReadEmpty, At
  <2>2. \E v : Return(p, v, 0)
    BY <2>1, Zenon DEF ReadEmpty
  <2> QED
    BY <2>1, <2>2 DEF ReadEmpty, Return, At, Goto, NoBytes
<1>2. SameFile(s, s') /\ UNCHANGED <<next, got>> /\ Unread' = Unread
  BY <1>1 DEF SameFile, Unread, Size
<1>10. Types'
  BY <1>1 DEF IInv, Types, Calls, PCs, Locks, NoCall
<1>11. Places'
  BY <1>1 DEF IInv, Places, ReadPCs, WritePCs, Locks
<1>12. LockOwned'
  BY <1>1 DEF IInv, LockOwned, LockedPCs
<1>13. LastCloses'
  BY <1>1 DEF IInv, LastCloses, SameFile
<1>14. Bounded'
  BY <1>1 DEF IInv, Bounded, SameFile, Size
<1>15. ChunksCounted'
  BY <1>1 DEF IInv, ChunksCounted
<1>16. SleepersFound'
  BY <1>1 DEF IInv, SleepersFound, Places, LockOwned, LockedPCs, Telling, Size, SameFile
<1>17. Numbered'
  BY <1>1, <1>2 DEF IInv, Numbered
<1>18. SelectorsKept
  BY <1>1 DEF IInv, Places, SelectorsKept, SelectorsFound, Waits, Found, Telling,
     SameFile, SameSelect, Size
<1>19. Streams
  BY <1>1, <1>2 DEF Streams
<1> QED
  BY <1>10, <1>11, <1>12, <1>13, <1>14, <1>15, <1>16, <1>17, <1>18, <1>19 DEF IInv, Correct

(* read sleeps until there is something.                                   *)
LEMMA ReadEmptySleepStep ==
  ASSUME PipeAssumption, IInv, NEW p \in Procs, ReadEmpty(p), pc' = pc
  PROVE  Correct
<1>1. /\ pc[p] = "readp" /\ s.slp[p] = "none" /\ UNCHANGED <<next, got>>
      /\ pc' = [pc EXCEPT ![p] = "readp"] /\ \A q \in Procs : pc'[q] = IF q = p THEN "readp" ELSE pc[q]
      /\ io' = io
      /\ s' \in States /\ SameFile(s, s') /\ SameSelect(s, s') /\ ~ s.locked
      /\ s'.iread /\ Size(s) = 0 /\ s.count = 2
      /\ s'.locked = s.locked /\ s'.want = s.want /\ s'.iwrite = s.iwrite
      /\ \A q \in Procs : s'.slp[q] = IF q = p THEN "ip+4" ELSE s.slp[q]
  <2>1. pc \in [Procs -> PCs] /\ io \in [Procs -> Calls] /\ s \in States
    BY DEF IInv, Types
  <2> DEFINE v == [s EXCEPT !.iread = TRUE]
  <2>2. /\ v \in States /\ SameFile(s, v) /\ SameSelect(s, v) /\ v.slp = s.slp
        /\ v.iread /\ v.locked = s.locked /\ v.want = s.want /\ v.iwrite = s.iwrite
    BY <2>1 DEF States, SameFile, SameSelect
  <2>3. ~ (\E x : Return(p, x, 0))
    <3>1. pc'[p] = "readp"
      BY DEF ReadEmpty, At
    <3> QED
      BY <2>1, <3>1 DEF Return, Goto
  <2>4. /\ s' = Sleep(v, p, "ip+4") /\ "ip+4" \in Chans /\ Size(s) = 0 /\ s.count = 2
        /\ ~ s.locked /\ UNCHANGED <<io, next, got>> /\ pc[p] = "readp" /\ s.slp[p] = "none"
    BY <2>3 DEF ReadEmpty, At, Keep, NoBytes, Chans
  <2> HIDE DEF v
  <2>5. /\ s' \in States /\ SameFile(v, s') /\ SameFlags(v, s') /\ SameSelect(v, s')
        /\ \A q \in Procs : s'.slp[q] = IF q = p THEN "ip+4" ELSE v.slp[q]
    BY <2>2, <2>4, SleepShape
  <2>6. pc' = [pc EXCEPT ![p] = "readp"]
        /\ \A q \in Procs : pc'[q] = IF q = p THEN "readp" ELSE pc[q]
    BY <2>1, <2>4
  <2>7. /\ s' \in States /\ SameFile(s, s') /\ SameSelect(s, s') /\ s'.iread
        /\ s'.locked = s.locked /\ s'.want = s.want /\ s'.iwrite = s.iwrite
    BY <2>2, <2>5 DEF SameFile, SameFlags, SameSelect
  <2>8. \A q \in Procs : s'.slp[q] = IF q = p THEN "ip+4" ELSE s.slp[q]
    BY <2>2, <2>5
  <2> QED
    BY <2>4, <2>6, <2>7, <2>8
<1>2. SameFile(s, s') /\ UNCHANGED <<next, got>> /\ Unread' = Unread
  BY <1>1 DEF SameFile, Unread, Size
<1>10. Types'
  BY <1>1 DEF IInv, Types, Calls, PCs, Locks, NoCall
<1>11. Places'
  BY <1>1 DEF IInv, Places, ReadPCs, WritePCs, Locks
<1>12. LockOwned'
  BY <1>1 DEF IInv, LockOwned, LockedPCs
<1>13. LastCloses'
  BY <1>1 DEF IInv, LastCloses, SameFile
<1>14. Bounded'
  BY <1>1 DEF IInv, Bounded, SameFile, Size
<1>15. ChunksCounted'
  BY <1>1 DEF IInv, ChunksCounted
<1>16. SleepersFound'
  BY <1>1 DEF IInv, SleepersFound, Places, LockOwned, LockedPCs, Telling, Size, SameFile
<1>17. Numbered'
  BY <1>1, <1>2 DEF IInv, Numbered
<1>18. SelectorsKept
  BY <1>1 DEF IInv, Places, SelectorsKept, SelectorsFound, Waits, Found, Telling,
     SameFile, SameSelect, Size
<1>19. Streams
  BY <1>1, <1>2 DEF Streams
<1> QED
  BY <1>10, <1>11, <1>12, <1>13, <1>14, <1>15, <1>16, <1>17, <1>18, <1>19 DEF IInv, Correct

(* read takes the lock to read something.                                  *)
LEMMA ReadLockStep ==
  ASSUME PipeAssumption, IInv, NEW p \in Procs, ReadLock(p)
  PROVE  Correct
<1>1. /\ pc[p] = "readp" /\ s.slp[p] = "none" /\ UNCHANGED <<next, got>>
      /\ pc' = [pc EXCEPT ![p] = "rwip_read"] /\ \A q \in Procs : pc'[q] = IF q = p THEN "rwip_read" ELSE pc[q]
      /\ io' = io
      /\ s' \in States /\ SameFile(s, s') /\ SameSelect(s, s') /\ ~ s.locked
      /\ s'.locked /\ s'.want = s.want /\ s'.iread = s.iread /\ s'.iwrite = s.iwrite
      /\ s'.slp = s.slp /\ Size(s) > 0
  <2>1. pc \in [Procs -> PCs] /\ io \in [Procs -> Calls] /\ s \in States
    BY DEF IInv, Types
  <2>2. /\ s' = Lock(s) /\ ~ s.locked /\ UNCHANGED <<io, next, got>>
        /\ pc' = [pc EXCEPT ![p] = "rwip_read"] /\ pc[p] = "readp" /\ s.slp[p] = "none" /\ Size(s) > 0
    BY DEF ReadLock, At, Goto, Keep, NoBytes
  <2>3. /\ s' \in States /\ SameFile(s, s') /\ SameSelect(s, s') /\ s'.slp = s.slp
        /\ s'.locked /\ s'.want = s.want /\ s'.iread = s.iread /\ s'.iwrite = s.iwrite
    BY <2>1, <2>2, LockShape
  <2> QED
    BY <2>1, <2>2, <2>3
<1>2. SameFile(s, s') /\ UNCHANGED <<next, got>> /\ Unread' = Unread
  BY <1>1 DEF SameFile, Unread, Size
<1>10. Types'
  BY <1>1 DEF IInv, Types, Calls, PCs, Locks, NoCall
<1>11. Places'
  BY <1>1 DEF IInv, Places, ReadPCs, WritePCs, Locks
<1>12. LockOwned'
  BY <1>1 DEF IInv, LockOwned, LockedPCs
<1>13. LastCloses'
  BY <1>1 DEF IInv, LastCloses, SameFile
<1>14. Bounded'
  <2>1. s.off \in Nat /\ Size(s) \in Nat /\ Size(s') = Size(s) /\ s'.off = s.off
    BY <1>1 DEF IInv, Types, States, SameFile, Size
  <2> QED
    BY <1>1, <2>1 DEF IInv, Bounded, LockOwned, LockedPCs
<1>15. ChunksCounted'
  BY <1>1 DEF IInv, ChunksCounted
<1>16. SleepersFound'
  BY <1>1 DEF IInv, SleepersFound, Places, LockOwned, LockedPCs, Telling, Size, SameFile
<1>17. Numbered'
  BY <1>1, <1>2 DEF IInv, Numbered
<1>18. SelectorsKept
  BY <1>1 DEF IInv, Places, SelectorsKept, SelectorsFound, Waits, Found, Telling,
     SameFile, SameSelect, Size
<1>19. Streams
  BY <1>1, <1>2 DEF Streams
<1> QED
  BY <1>10, <1>11, <1>12, <1>13, <1>14, <1>15, <1>16, <1>17, <1>18, <1>19 DEF IInv, Correct

(* write takes the lock again after it has slept.                          *)
LEMMA WriteRelockStep ==
  ASSUME PipeAssumption, IInv, NEW p \in Procs, WriteRelock(p)
  PROVE  Correct
<1>1. /\ pc[p] = "relock" /\ s.slp[p] = "none" /\ UNCHANGED <<next, got>>
      /\ pc' = [pc EXCEPT ![p] = "loop"] /\ \A q \in Procs : pc'[q] = IF q = p THEN "loop" ELSE pc[q]
      /\ io' = io
      /\ s' \in States /\ SameFile(s, s') /\ SameSelect(s, s') /\ ~ s.locked
      /\ s'.locked /\ s'.want = s.want /\ s'.iread = s.iread /\ s'.iwrite = s.iwrite
      /\ s'.slp = s.slp
  <2>1. pc \in [Procs -> PCs] /\ io \in [Procs -> Calls] /\ s \in States
    BY DEF IInv, Types
  <2>2. /\ s' = Lock(s) /\ ~ s.locked /\ UNCHANGED <<io, next, got>>
        /\ pc' = [pc EXCEPT ![p] = "loop"] /\ pc[p] = "relock" /\ s.slp[p] = "none"
    BY DEF WriteRelock, At, Goto, Keep, NoBytes
  <2>3. /\ s' \in States /\ SameFile(s, s') /\ SameSelect(s, s') /\ s'.slp = s.slp
        /\ s'.locked /\ s'.want = s.want /\ s'.iread = s.iread /\ s'.iwrite = s.iwrite
    BY <2>1, <2>2, LockShape
  <2> QED
    BY <2>1, <2>2, <2>3
<1>2. SameFile(s, s') /\ UNCHANGED <<next, got>> /\ Unread' = Unread
  BY <1>1 DEF SameFile, Unread, Size
<1>10. Types'
  BY <1>1 DEF IInv, Types, Calls, PCs, Locks, NoCall
<1>11. Places'
  BY <1>1 DEF IInv, Places, ReadPCs, WritePCs, Locks
<1>12. LockOwned'
  BY <1>1 DEF IInv, LockOwned, LockedPCs
<1>13. LastCloses'
  BY <1>1 DEF IInv, LastCloses, SameFile
<1>14. Bounded'
  <2>1. s.off \in Nat /\ Size(s) \in Nat /\ Size(s') = Size(s) /\ s'.off = s.off
    BY <1>1 DEF IInv, Types, States, SameFile, Size
  <2> QED
    BY <1>1, <2>1 DEF IInv, Bounded, LockOwned, LockedPCs
<1>15. ChunksCounted'
  BY <1>1 DEF IInv, ChunksCounted
<1>16. SleepersFound'
  BY <1>1 DEF IInv, SleepersFound, Places, LockOwned, LockedPCs, Telling, Size, SameFile
<1>17. Numbered'
  BY <1>1, <1>2 DEF IInv, Numbered
<1>18. SelectorsKept
  BY <1>1 DEF IInv, Places, SelectorsKept, SelectorsFound, Waits, Found, Telling,
     SameFile, SameSelect, Size
<1>19. Streams
  BY <1>1, <1>2 DEF Streams
<1> QED
  BY <1>10, <1>11, <1>12, <1>13, <1>14, <1>15, <1>16, <1>17, <1>18, <1>19 DEF IInv, Correct

(* write takes the lock.                                                   *)
LEMMA WriteLockStep ==
  ASSUME PipeAssumption, IInv, NEW p \in Procs, WriteLock(p), pc'[p] = "loop"
  PROVE  Correct
<1>1. /\ pc[p] = "writep" /\ s.slp[p] = "none" /\ UNCHANGED <<next, got>>
      /\ pc' = [pc EXCEPT ![p] = "loop"] /\ \A q \in Procs : pc'[q] = IF q = p THEN "loop" ELSE pc[q]
      /\ io' = io
      /\ s' \in States /\ SameFile(s, s') /\ SameSelect(s, s') /\ ~ s.locked
      /\ s'.locked /\ s'.want = s.want /\ s'.iread = s.iread /\ s'.iwrite = s.iwrite
      /\ s'.slp = s.slp
  <2>1. pc \in [Procs -> PCs] /\ io \in [Procs -> Calls] /\ s \in States
    BY DEF IInv, Types
  <2>2. /\ s' = Lock(s) /\ ~ s.locked /\ UNCHANGED <<io, next, got>>
        /\ pc' = [pc EXCEPT ![p] = "loop"] /\ pc[p] = "writep" /\ s.slp[p] = "none"
    BY <2>1 DEF WriteLock, At, Goto, Return, Keep, NoBytes
  <2>3. /\ s' \in States /\ SameFile(s, s') /\ SameSelect(s, s') /\ s'.slp = s.slp
        /\ s'.locked /\ s'.want = s.want /\ s'.iread = s.iread /\ s'.iwrite = s.iwrite
    BY <2>1, <2>2, LockShape
  <2> QED
    BY <2>1, <2>2, <2>3
<1>2. SameFile(s, s') /\ UNCHANGED <<next, got>> /\ Unread' = Unread
  BY <1>1 DEF SameFile, Unread, Size
<1>10. Types'
  BY <1>1 DEF IInv, Types, Calls, PCs, Locks, NoCall
<1>11. Places'
  BY <1>1 DEF IInv, Places, ReadPCs, WritePCs, Locks
<1>12. LockOwned'
  BY <1>1 DEF IInv, LockOwned, LockedPCs
<1>13. LastCloses'
  BY <1>1 DEF IInv, LastCloses, SameFile
<1>14. Bounded'
  <2>1. s.off \in Nat /\ Size(s) \in Nat /\ Size(s') = Size(s) /\ s'.off = s.off
    BY <1>1 DEF IInv, Types, States, SameFile, Size
  <2> QED
    BY <1>1, <2>1 DEF IInv, Bounded, LockOwned, LockedPCs
<1>15. ChunksCounted'
  BY <1>1 DEF IInv, ChunksCounted
<1>16. SleepersFound'
  BY <1>1 DEF IInv, SleepersFound, Places, LockOwned, LockedPCs, Telling, Size, SameFile
<1>17. Numbered'
  BY <1>1, <1>2 DEF IInv, Numbered
<1>18. SelectorsKept
  BY <1>1 DEF IInv, Places, SelectorsKept, SelectorsFound, Waits, Found, Telling,
     SameFile, SameSelect, Size
<1>19. Streams
  BY <1>1, <1>2 DEF Streams
<1> QED
  BY <1>10, <1>11, <1>12, <1>13, <1>14, <1>15, <1>16, <1>17, <1>18, <1>19 DEF IInv, Correct

(* write would block.                                                      *)
LEMMA WriteLockReturnStep ==
  ASSUME PipeAssumption, IInv, NEW p \in Procs, WriteLock(p), pc'[p] # "loop"
  PROVE  Correct
<1>1. /\ pc[p] = "writep" /\ s.slp[p] = "none" /\ UNCHANGED <<next, got>>
      /\ pc' = [pc EXCEPT ![p] = "user"] /\ \A q \in Procs : pc'[q] = IF q = p THEN "user" ELSE pc[q]
      /\ io' = [io EXCEPT ![p] = NoCall] /\ \A q \in Procs : q # p => io'[q] = io[q]
      /\ s' = s
  <2>1. pc \in [Procs -> PCs] /\ io \in [Procs -> Calls] /\ s \in States
    BY DEF IInv, Types
  <2>2. \E v : Return(p, v, 0) /\ s' = s
    BY <2>1 DEF WriteLock, Goto
  <2> QED
    BY <2>1, <2>2 DEF WriteLock, Return, At, Goto, NoBytes
<1>2. SameFile(s, s') /\ UNCHANGED <<next, got>> /\ Unread' = Unread
  BY <1>1 DEF SameFile, Unread, Size
<1>10. Types'
  BY <1>1 DEF IInv, Types, Calls, PCs, Locks, NoCall
<1>11. Places'
  BY <1>1 DEF IInv, Places, ReadPCs, WritePCs, Locks
<1>12. LockOwned'
  BY <1>1 DEF IInv, LockOwned, LockedPCs
<1>13. LastCloses'
  BY <1>1 DEF IInv, LastCloses, SameFile
<1>14. Bounded'
  BY <1>1 DEF IInv, Bounded, SameFile, Size
<1>15. ChunksCounted'
  BY <1>1 DEF IInv, ChunksCounted
<1>16. SleepersFound'
  BY <1>1 DEF IInv, SleepersFound, Places, LockOwned, LockedPCs, Telling, Size, SameFile
<1>17. Numbered'
  BY <1>1, <1>2 DEF IInv, Numbered
<1>18. SelectorsKept
  BY <1>1 DEF IInv, Places, SelectorsKept, SelectorsFound, Waits, Found, Telling,
     SameFile, SameSelect, Size
<1>19. Streams
  BY <1>1, <1>2 DEF Streams
<1> QED
  BY <1>10, <1>11, <1>12, <1>13, <1>14, <1>15, <1>16, <1>17, <1>18, <1>19 DEF IInv, Correct

(* write is done.                                                          *)
LEMMA WriteDoneStep ==
  ASSUME PipeAssumption, IInv, NEW p \in Procs, WriteDone(p)
  PROVE  Correct
<1>1. /\ pc[p] = "loop" /\ s.slp[p] = "none" /\ UNCHANGED <<next, got>>
      /\ pc' = [pc EXCEPT ![p] = "user"] /\ \A q \in Procs : pc'[q] = IF q = p THEN "user" ELSE pc[q]
      /\ io' = [io EXCEPT ![p] = NoCall] /\ \A q \in Procs : q # p => io'[q] = io[q]
      /\ s' \in States /\ SameFile(s, s') /\ SameSelect(s, s')
      /\ ~ s'.locked /\ ~ s'.want /\ s'.iread = s.iread /\ s'.iwrite = s.iwrite
      /\ \A q \in Procs :
           s'.slp[q] = IF s.want /\ s.slp[q] = "ip" THEN "none" ELSE s.slp[q]
  <2>1. pc \in [Procs -> PCs] /\ io \in [Procs -> Calls] /\ s \in States
    BY DEF IInv, Types
  <2>2. /\ s' = Unlock(s) /\ UNCHANGED <<next, got>>
        /\ pc' = [pc EXCEPT ![p] = "user"] /\ io' = [io EXCEPT ![p] = NoCall]
        /\ pc[p] = "loop" /\ s.slp[p] = "none"
    BY DEF WriteDone, At, Goto, Return, NoBytes
  <2>3. /\ s' \in States /\ SameFile(s, s') /\ SameSelect(s, s')
        /\ ~ s'.locked /\ ~ s'.want /\ s'.iread = s.iread /\ s'.iwrite = s.iwrite
        /\ \A q \in Procs :
             s'.slp[q] = IF s.want /\ s.slp[q] = "ip" THEN "none" ELSE s.slp[q]
    BY <2>1, <2>2, UnlockShape
  <2> QED
    BY <2>1, <2>2, <2>3
<1>2. SameFile(s, s') /\ UNCHANGED <<next, got>> /\ Unread' = Unread
  BY <1>1 DEF SameFile, Unread, Size
<1>10. Types'
  BY <1>1 DEF IInv, Types, Calls, PCs, Locks, NoCall
<1>11. Places'
  BY <1>1 DEF IInv, Places, ReadPCs, WritePCs, Locks
<1>12. LockOwned'
  BY <1>1 DEF IInv, LockOwned, LockedPCs
<1>13. LastCloses'
  BY <1>1 DEF IInv, LastCloses, SameFile
<1>14. Bounded'
  BY <1>1 DEF IInv, Bounded, SameFile, Size
<1>15. ChunksCounted'
  BY <1>1 DEF IInv, ChunksCounted
<1>16. SleepersFound'
  BY <1>1 DEF IInv, SleepersFound, Places, LockOwned, LockedPCs, Telling, Size, SameFile
<1>17. Numbered'
  BY <1>1, <1>2 DEF IInv, Numbered
<1>18. SelectorsKept
  BY <1>1 DEF IInv, Places, SelectorsKept, SelectorsFound, Waits, Found, Telling,
     SameFile, SameSelect, Size
<1>19. Streams
  BY <1>1, <1>2 DEF Streams
<1> QED
  BY <1>10, <1>11, <1>12, <1>13, <1>14, <1>15, <1>16, <1>17, <1>18, <1>19 DEF IInv, Correct

(* write finds the other end closed.                                       *)
LEMMA WriteBrokenStep ==
  ASSUME PipeAssumption, IInv, NEW p \in Procs, WriteBroken(p)
  PROVE  Correct
<1>1. /\ pc[p] = "loop" /\ s.slp[p] = "none" /\ UNCHANGED <<next, got>>
      /\ pc' = [pc EXCEPT ![p] = "user"] /\ \A q \in Procs : pc'[q] = IF q = p THEN "user" ELSE pc[q]
      /\ io' = [io EXCEPT ![p] = NoCall] /\ \A q \in Procs : q # p => io'[q] = io[q]
      /\ s' \in States /\ SameFile(s, s') /\ SameSelect(s, s')
      /\ ~ s'.locked /\ ~ s'.want /\ s'.iread = s.iread /\ s'.iwrite = s.iwrite
      /\ \A q \in Procs :
           s'.slp[q] = IF s.want /\ s.slp[q] = "ip" THEN "none" ELSE s.slp[q]
  <2>1. pc \in [Procs -> PCs] /\ io \in [Procs -> Calls] /\ s \in States
    BY DEF IInv, Types
  <2>2. /\ s' = Unlock(s) /\ UNCHANGED <<next, got>>
        /\ pc' = [pc EXCEPT ![p] = "user"] /\ io' = [io EXCEPT ![p] = NoCall]
        /\ pc[p] = "loop" /\ s.slp[p] = "none"
    BY DEF WriteBroken, At, Goto, Return, NoBytes
  <2>3. /\ s' \in States /\ SameFile(s, s') /\ SameSelect(s, s')
        /\ ~ s'.locked /\ ~ s'.want /\ s'.iread = s.iread /\ s'.iwrite = s.iwrite
        /\ \A q \in Procs :
             s'.slp[q] = IF s.want /\ s.slp[q] = "ip" THEN "none" ELSE s.slp[q]
    BY <2>1, <2>2, UnlockShape
  <2> QED
    BY <2>1, <2>2, <2>3
<1>2. SameFile(s, s') /\ UNCHANGED <<next, got>> /\ Unread' = Unread
  BY <1>1 DEF SameFile, Unread, Size
<1>10. Types'
  BY <1>1 DEF IInv, Types, Calls, PCs, Locks, NoCall
<1>11. Places'
  BY <1>1 DEF IInv, Places, ReadPCs, WritePCs, Locks
<1>12. LockOwned'
  BY <1>1 DEF IInv, LockOwned, LockedPCs
<1>13. LastCloses'
  BY <1>1 DEF IInv, LastCloses, SameFile
<1>14. Bounded'
  BY <1>1 DEF IInv, Bounded, SameFile, Size
<1>15. ChunksCounted'
  BY <1>1 DEF IInv, ChunksCounted
<1>16. SleepersFound'
  BY <1>1 DEF IInv, SleepersFound, Places, LockOwned, LockedPCs, Telling, Size, SameFile
<1>17. Numbered'
  BY <1>1, <1>2 DEF IInv, Numbered
<1>18. SelectorsKept
  BY <1>1 DEF IInv, Places, SelectorsKept, SelectorsFound, Waits, Found, Telling,
     SameFile, SameSelect, Size
<1>19. Streams
  BY <1>1, <1>2 DEF Streams
<1> QED
  BY <1>10, <1>11, <1>12, <1>13, <1>14, <1>15, <1>16, <1>17, <1>18, <1>19 DEF IInv, Correct

(* write finds the pipe full: it unlocks the inode and sleeps.             *)
LEMMA WriteFullStep ==
  ASSUME PipeAssumption, IInv, NEW p \in Procs, WriteFull(p)
  PROVE  Correct
<1>1. /\ pc[p] = "loop" /\ s.slp[p] = "none" /\ UNCHANGED <<next, got>>
      /\ pc' = [pc EXCEPT ![p] = "relock"] /\ \A q \in Procs : pc'[q] = IF q = p THEN "relock" ELSE pc[q]
      /\ io' = io
      /\ s' \in States /\ SameFile(s, s') /\ SameSelect(s, s')
      /\ ~ s'.locked /\ ~ s'.want /\ s'.iread = s.iread /\ s'.iwrite
      /\ s.count = 2 /\ Size(s) >= MAXPIPSIZ /\ io[p].c # 0
      /\ \A q \in Procs :
           s'.slp[q] = IF q = p THEN "ip+2"
                       ELSE IF s.want /\ s.slp[q] = "ip" THEN "none" ELSE s.slp[q]
  <2>1. pc \in [Procs -> PCs] /\ io \in [Procs -> Calls] /\ s \in States
    BY DEF IInv, Types
  <2> DEFINE v == [s EXCEPT !.iwrite = TRUE]
             w == Unlock(v)
  <2>2. /\ v \in States /\ SameFile(s, v) /\ SameSelect(s, v) /\ v.slp = s.slp
        /\ v.iwrite /\ v.locked = s.locked /\ v.want = s.want /\ v.iread = s.iread
    BY <2>1 DEF States, SameFile, SameSelect
  <2>4. /\ s' = Sleep(w, p, "ip+2") /\ "ip+2" \in Chans /\ Size(s) >= MAXPIPSIZ /\ s.count = 2
        /\ UNCHANGED <<io, next, got>> /\ pc[p] = "loop" /\ s.slp[p] = "none" /\ io[p].c # 0
        /\ pc' = [pc EXCEPT ![p] = "relock"]
    BY DEF WriteFull, Full, At, Goto, Keep, NoBytes, Chans
  <2> HIDE DEF v
  <2>5. /\ w \in States /\ SameFile(v, w) /\ SameSelect(v, w)
        /\ ~ w.locked /\ ~ w.want /\ w.iread = v.iread /\ w.iwrite = v.iwrite
        /\ \A q \in Procs :
             w.slp[q] = IF v.want /\ v.slp[q] = "ip" THEN "none" ELSE v.slp[q]
    BY <2>2, UnlockShape
  <2> HIDE DEF w
  <2>6. /\ s' \in States /\ SameFile(w, s') /\ SameFlags(w, s') /\ SameSelect(w, s')
        /\ \A q \in Procs : s'.slp[q] = IF q = p THEN "ip+2" ELSE w.slp[q]
    BY <2>4, <2>5, SleepShape
  <2>7. \A q \in Procs : pc'[q] = IF q = p THEN "relock" ELSE pc[q]
    BY <2>1, <2>4
  <2>8. /\ s' \in States /\ SameFile(s, s') /\ SameSelect(s, s')
        /\ ~ s'.locked /\ ~ s'.want /\ s'.iread = s.iread /\ s'.iwrite
    BY <2>2, <2>5, <2>6 DEF SameFile, SameFlags, SameSelect
  <2>9. \A q \in Procs :
          s'.slp[q] = IF q = p THEN "ip+2"
                      ELSE IF s.want /\ s.slp[q] = "ip" THEN "none" ELSE s.slp[q]
    BY <2>2, <2>5, <2>6
  <2> QED
    BY <2>4, <2>7, <2>8, <2>9
<1>2. SameFile(s, s') /\ UNCHANGED <<next, got>> /\ Unread' = Unread
  BY <1>1 DEF SameFile, Unread, Size
<1>10. Types'
  BY <1>1 DEF IInv, Types, Calls, PCs, Locks, NoCall
<1>11. Places'
  BY <1>1 DEF IInv, Places, ReadPCs, WritePCs, Locks
<1>12. LockOwned'
  BY <1>1 DEF IInv, LockOwned, LockedPCs
<1>13. LastCloses'
  BY <1>1 DEF IInv, LastCloses, SameFile
<1>14. Bounded'
  BY <1>1 DEF IInv, Bounded, SameFile, Size
<1>15. ChunksCounted'
  BY <1>1 DEF IInv, ChunksCounted, Types, Calls
<1>16. SleepersFound'
  BY <1>1 DEF IInv, SleepersFound, Places, LockOwned, LockedPCs, Telling, Size, SameFile
<1>17. Numbered'
  BY <1>1, <1>2 DEF IInv, Numbered
<1>18. SelectorsKept
  BY <1>1 DEF IInv, Places, SelectorsKept, SelectorsFound, Waits, Found, Telling,
     SameFile, SameSelect, Size
<1>19. Streams
  BY <1>1, <1>2 DEF Streams
<1> QED
  BY <1>10, <1>11, <1>12, <1>13, <1>14, <1>15, <1>16, <1>17, <1>18, <1>19 DEF IInv, Correct

(* What nobody has read, index by index.                                   *)
LEMMA UnreadShape ==
  ASSUME Types, Bounded
  PROVE  /\ Unread \in Seq(Bytes) /\ Len(Unread) = Size(s) - s.off
         /\ s.off \in Nat /\ Size(s) \in Nat /\ s.off <= Size(s)
         /\ \A i \in 1 .. Len(Unread) : Unread[i] = s.data[s.off + i] /\ Unread[i] \in Bytes
<1>1. /\ s.data \in Seq(Bytes) /\ s.off \in Nat /\ Size(s) = Len(s.data) /\ Size(s) \in Nat
      /\ s.off <= Size(s)
  BY DEF Types, States, Bounded, Size
<1>2. \A d \in Seq(Bytes) : \A o \in Nat : o <= Len(d) =>
        /\ SubSeq(d, o + 1, Len(d)) \in Seq(Bytes)
        /\ Len(SubSeq(d, o + 1, Len(d))) = Len(d) - o
        /\ \A i \in 1 .. (Len(d) - o) : SubSeq(d, o + 1, Len(d))[i] = d[o + i]
  OBVIOUS
<1>3. /\ Unread \in Seq(Bytes) /\ Len(Unread) = Size(s) - s.off
      /\ \A i \in 1 .. (Size(s) - s.off) : Unread[i] = s.data[s.off + i]
  BY <1>1, <1>2, SMTT(30) DEF Unread
<1>4. \A i \in 1 .. Len(Unread) : Unread[i] \in Bytes
  BY <1>3
<1> QED
  BY <1>1, <1>3, <1>4

LEMMA IsSeq ==
  ASSUME NEW T, NEW n \in Nat, NEW f \in [1 .. n -> T]
  PROVE  f \in Seq(T) /\ Len(f) = n
OBVIOUS

(* The end of a sequence to which another is appended.                     *)
LEMMA TailConcat ==
  ASSUME NEW T, NEW d \in Seq(T), NEW b \in Seq(T), NEW o \in Nat, o <= Len(d)
  PROVE  SubSeq(d \o b, o + 1, Len(d) + Len(b)) = SubSeq(d, o + 1, Len(d)) \o b
<1> DEFINE e == d \o b
           k == Len(d) - o
           x == SubSeq(e, o + 1, Len(d) + Len(b))
           y == SubSeq(d, o + 1, Len(d))
<1>1. Len(d) \in Nat /\ Len(b) \in Nat /\ k \in Nat
  OBVIOUS
<1>2. /\ e \in Seq(T) /\ Len(e) = Len(d) + Len(b)
      /\ \A i \in 1 .. Len(d) + Len(b) : e[i] = IF i <= Len(d) THEN d[i] ELSE b[i - Len(d)]
  BY ConcatProperties
<1>3. y \in Seq(T) /\ Len(y) = k /\ \A i \in 1 .. k : y[i] = d[o + i]
  BY <1>1
<1> HIDE DEF e, y
<1>4. x \in Seq(T) /\ Len(x) = k + Len(b) /\ \A i \in 1 .. k + Len(b) : x[i] = e[o + i]
  BY <1>1, <1>2
<1>5. /\ y \o b \in Seq(T) /\ Len(y \o b) = k + Len(b)
      /\ \A i \in 1 .. k + Len(b) : (y \o b)[i] = IF i <= k THEN y[i] ELSE b[i - k]
  <2>1. /\ y \o b \in Seq(T) /\ Len(y \o b) = Len(y) + Len(b)
        /\ \A i \in 1 .. Len(y) + Len(b) :
             (y \o b)[i] = IF i <= Len(y) THEN y[i] ELSE b[i - Len(y)]
    BY <1>3, ConcatProperties
  <2> HIDE DEF k
  <2> QED
    BY <1>3, <2>1
<1> HIDE DEF x
<1>6. ASSUME NEW i \in 1 .. k + Len(b)
      PROVE  x[i] = (y \o b)[i]
  <2>1. /\ o + i \in 1 .. Len(d) + Len(b) /\ (o + i <= Len(d) <=> i <= k)
        /\ (o + i) - Len(d) = i - k
        /\ (i <= k => i \in 1 .. k)
    BY <1>1
  <2> HIDE DEF k
  <2> QED
    BY <1>2, <1>3, <1>4, <1>5, <2>1, ZenonT(60)
<1> HIDE DEF k
<1>7. x = y \o b
  BY <1>4, <1>5, <1>6, SeqEqual
<1> QED
  BY <1>7 DEF x, y, e

(* rwip puts n bytes behind those that are there.                          *)
LEMMA RwipWriteShape ==
  ASSUME PipeAssumption, IInv, NEW p \in Writers, NEW n \in Nat,
         s' = [s EXCEPT !.data = @ \o NewBytes(p, n)]
  PROVE  /\ s' \in States /\ s'.off = s.off /\ s'.count = s.count /\ s'.open = s.open
         /\ SameFlags(s, s') /\ SameSelect(s, s') /\ s'.slp = s.slp
         /\ Size(s') = Size(s) + n
         /\ Unread' = Unread \o NewBytes(p, n)
         /\ NewBytes(p, n) \in Seq(Bytes) /\ Len(NewBytes(p, n)) = n
         /\ \A j \in 1 .. n : NewBytes(p, n)[j] = <<p, next[p] + j - 1>>
<1> DEFINE b == NewBytes(p, n)
<1>1. Types /\ next[p] \in Nat
  BY DEF IInv, Types
<1>2. b = [i \in 1 .. n |-> <<p, next[p] + i - 1>>]
  BY DEF NewBytes
<1>3. \A i \in 1 .. n : <<p, next[p] + i - 1>> \in Bytes
  BY <1>1 DEF Bytes
<1>4. b \in Seq(Bytes) /\ Len(b) = n /\ \A j \in 1 .. n : b[j] = <<p, next[p] + j - 1>>
  <2>1. b \in [1 .. n -> Bytes]
    BY <1>2, <1>3
  <2> QED
    BY <1>2, <2>1, IsSeq
<1> HIDE DEF b
<1>5. s \in States /\ s.data \in Seq(Bytes) /\ s.off \in Nat /\ s.off <= Len(s.data)
  <2>1. s \in States /\ s.off <= Size(s)
    BY DEF IInv, Types, Bounded
  <2> QED
    BY <2>1 DEF States, Size
<1>6. s.data \o b \in Seq(Bytes) /\ Len(s.data \o b) = Len(s.data) + n
  BY <1>4, <1>5, ConcatProperties, ZenonT(60)
<1>7. /\ s' \in States /\ s'.off = s.off /\ s'.count = s.count /\ s'.open = s.open
      /\ SameFlags(s, s') /\ SameSelect(s, s') /\ s'.slp = s.slp /\ s'.data = s.data \o b
  BY <1>5, <1>6 DEF States, SameFlags, SameSelect, b
<1>9. Unread' = Unread \o b
  <2>1. /\ Unread = SubSeq(s.data, s.off + 1, Len(s.data))
        /\ Unread' = SubSeq(s.data \o b, s.off + 1, Len(s.data) + Len(b))
    BY <1>4, <1>6, <1>7 DEF Unread, Size
  <2> QED
    BY <1>4, <1>5, <2>1, TailConcat, ZenonT(60)
<1> QED
  BY <1>4, <1>6, <1>7, <1>9 DEF Size, b

(* rwip takes the first n of the unread bytes, or fails on the first.      *)
Takes(p, n) ==
  /\ s' \in States /\ s'.data = s.data /\ s'.off = s.off + n
  /\ s'.count = s.count /\ s'.open = s.open
  /\ SameFlags(s, s') /\ SameSelect(s, s') /\ s'.slp = s.slp
  /\ io' = [io EXCEPT ![p].resid = @ - n] /\ n <= io[p].resid
  /\ Unread' = SubSeq(Unread, n + 1, Len(Unread))
  /\ got' = IF n = Len(Unread) THEN NoneYet
            ELSE [w \in Writers |-> got[w] + Count(Unread, w, n)]
  /\ next' = IF n = Len(Unread) THEN NoneYet ELSE next

LEMMA RwipReadShape ==
  ASSUME PipeAssumption, IInv, NEW p \in Procs, RwipRead(p)
  PROVE  \/ \E n \in 1 .. Len(Unread) : Takes(p, n)
         \/ UNCHANGED <<s, io, next, got>>
<1> DEFINE have == Size(s) - s.off
           want == IF io[p].resid < have THEN io[p].resid ELSE have
<1>1. /\ Types /\ Bounded /\ pc[p] = "rwip_read" /\ s.off < Size(s) /\ io[p].resid > 0
      /\ io[p].resid \in Nat
  BY DEF IInv, Bounded, RwipRead, At, Types, Calls
<1>2. /\ Unread \in Seq(Bytes) /\ Len(Unread) = Size(s) - s.off
      /\ s.off \in Nat /\ Size(s) \in Nat /\ s.off <= Size(s)
      /\ \A i \in 1 .. Len(Unread) : Unread[i] = s.data[s.off + i] /\ Unread[i] \in Bytes
  BY <1>1, UnreadShape
<1>3. PICK n \in 0 .. want :
        /\ s' = [s EXCEPT !.off = @ + n] /\ io' = [io EXCEPT ![p].resid = @ - n]
        /\ Deliver(SubSeq(s.data, s.off + 1, s.off + n), n = have)
  BY DEF RwipRead
<1> DEFINE b == SubSeq(s.data, s.off + 1, s.off + n)
<1>4. n \in 0 .. Len(Unread) /\ n <= io[p].resid /\ have = Len(Unread) /\ have > 0
  BY <1>1, <1>2, <1>3
<1> HIDE DEF have
<1>5. /\ s' \in States /\ s'.data = s.data /\ s'.off = s.off + n
      /\ s'.count = s.count /\ s'.open = s.open
      /\ SameFlags(s, s') /\ SameSelect(s, s') /\ s'.slp = s.slp
  <2>1. s \in States /\ s.off + n \in Nat
    BY <1>1, <1>2, <1>4 DEF Types
  <2> QED
    BY <1>3, <2>1 DEF States, SameFlags, SameSelect
<1>6. Unread' = SubSeq(Unread, n + 1, Len(Unread))
  <2>1. \A d \in Seq(Bytes) : \A o, k \in Nat : o + k <= Len(d) =>
          SubSeq(d, o + k + 1, Len(d)) = SubSeq(SubSeq(d, o + 1, Len(d)), k + 1, Len(d) - o)
    OBVIOUS
  <2>2. s.data \in Seq(Bytes) /\ n \in Nat /\ s.off + n <= Len(s.data)
    BY <1>1, <1>2, <1>4 DEF Types, States, Size
  <2>3. /\ Unread = SubSeq(s.data, s.off + 1, Len(s.data))
        /\ Unread' = SubSeq(s.data, s.off + n + 1, Len(s.data))
        /\ Len(Unread) = Len(s.data) - s.off
    BY <1>2, <1>5 DEF Unread, Size
  <2>4. SubSeq(s.data, s.off + n + 1, Len(s.data))
          = SubSeq(SubSeq(s.data, s.off + 1, Len(s.data)), n + 1, Len(s.data) - s.off)
    BY <1>2, <2>1, <2>2
  <2> QED
    BY <2>3, <2>4
<1>7. DOMAIN b = 1 .. n /\ \A i \in 1 .. n : b[i] = Unread[i]
  <2>1. s.data \in Seq(Bytes) /\ s.off + n <= Len(s.data) /\ n \in Nat
    BY <1>1, <1>2, <1>4 DEF Types, States, Size
  <2>2. \A d \in Seq(Bytes) : \A o, k \in Nat : o + k <= Len(d) =>
          /\ DOMAIN SubSeq(d, o + 1, o + k) = 1 .. k
          /\ \A i \in 1 .. k : SubSeq(d, o + 1, o + k)[i] = d[o + i]
    OBVIOUS
  <2>3. DOMAIN b = 1 .. n /\ \A i \in 1 .. n : b[i] = s.data[s.off + i]
    <3>1. s.off \in Nat
      BY <1>2
    <3> QED
      BY <2>1, <2>2, <3>1, ZenonT(30) DEF b
  <2>4. \A i \in 1 .. n : i \in 1 .. Len(Unread)
    BY <1>4
  <2> QED
    BY <1>2, <2>3, <2>4
<1> HIDE DEF b
<1>8. \A w \in Writers :
        Cardinality({ i \in DOMAIN b : b[i][1] = w }) = Count(Unread, w, n)
  <2>1. ASSUME NEW w \in Writers
        PROVE  { i \in DOMAIN b : b[i][1] = w } = { i \in 1 .. n : Unread[i][1] = w }
    BY <1>7
  <2> QED
    BY <2>1 DEF Count
<1>9. [w \in Writers |-> got[w] + Cardinality({ i \in DOMAIN b : b[i][1] = w })]
        = [w \in Writers |-> got[w] + Count(Unread, w, n)]
  BY <1>8
<1>10. /\ got' = IF n = Len(Unread) THEN NoneYet
                 ELSE [w \in Writers |-> got[w] + Count(Unread, w, n)]
       /\ next' = IF n = Len(Unread) THEN NoneYet ELSE next
  <2>1. Deliver(b, n = have)
    BY <1>3 DEF b
  <2> QED
    BY <1>4, <1>9, <2>1 DEF Deliver
<1>11. CASE n = 0
  <2>1. got' = [w \in Writers |-> got[w]] /\ next' = next
    <3>1. \A w \in Writers : Count(Unread, w, 0) = 0
      BY CountNat
    <3>2. \A w \in Writers : got[w] + 0 = got[w]
      BY <1>1 DEF Types
    <3> QED
      BY <1>4, <1>10, <1>11, <3>1, <3>2
  <2>2. s' = s /\ io' = io
    <3>1. s.off + 0 = s.off /\ io[p].resid - 0 = io[p].resid
      BY <1>1, <1>2
    <3> QED
      BY <1>1, <1>3, <1>11, <3>1 DEF Types, States, Calls
  <2> QED
    BY <1>1, <2>1, <2>2 DEF Types
<1>12. CASE n # 0
  <2>1. n \in 1 .. Len(Unread)
    BY <1>4, <1>12
  <2>2. Takes(p, n)
    BY <1>3, <1>4, <1>5, <1>6, <1>10 DEF Takes
  <2> QED
    BY <2>1, <2>2
<1> QED
  BY <1>11, <1>12

(* Counting past the end of q, where n bytes of p were put, and from       *)
(* behind the first n of q.                                                *)
Appends(q, r, k, n, p) ==
  (\A i \in 1 .. k : r[i] = q[i]) /\ (\A i \in 1 .. n : r[k + i][1] = p)
Drops(q, r, k, n) == \A i \in 1 .. (k - n) : r[i] = q[n + i]

LEMMA CountPut ==
  ASSUME NEW q, NEW r, NEW k \in Nat, NEW n \in Nat, NEW p
  PROVE  Appends(q, r, k, n, p) =>
           \A w : \A j \in Nat : j <= n =>
             /\ w = p => Count(r, w, k + j) = Count(q, w, k) + j
             /\ w # p => Count(r, w, k + j) = Count(q, w, k)
<1>1. ASSUME \A i \in 1 .. k : r[i] = q[i], \A i \in 1 .. n : r[k + i][1] = p,
             NEW w, NEW j \in Nat, j <= n
      PROVE  /\ w = p => Count(r, w, k + j) = Count(q, w, k) + j
             /\ w # p => Count(r, w, k + j) = Count(q, w, k)
  <2>1. \A i \in (k + 1) .. (k + j) : i - k \in 1 .. n /\ k + (i - k) = i
    BY <1>1
  <2>2. \A i \in (k + 1) .. (k + j) : r[i][1] = p
    BY <1>1, <2>1
  <2> DEFINE h == k + j
  <2>3. h = k + j /\ \A i \in (k + 1) .. h : r[i][1] = p
    BY <2>2
  <2> HIDE DEF h
  <2>4. CASE w = p
    <3>1. Count(r, w, h) = Count(r, w, k) + j
      BY <2>3, <2>4, CountRun
    <3>2. Count(r, w, k) = Count(q, w, k)
      BY <1>1, CountPrefix
    <3> QED
      BY <2>4, <3>1, <3>2 DEF h
  <2>5. CASE w # p
    <3>1. \A i \in (k + 1) .. h : r[i][1] # w
      BY <2>3, <2>5
    <3>2. Count(r, w, h) = Count(r, w, k)
      BY <2>3, <3>1, CountRun
    <3>3. Count(r, w, k) = Count(q, w, k)
      BY <1>1, CountPrefix
    <3> QED
      BY <2>5, <3>2, <3>3 DEF h
  <2> QED
    BY <2>4, <2>5
<1> QED
  BY <1>1 DEF Appends

LEMMA CountGet ==
  ASSUME NEW q, NEW r, NEW k \in Nat, NEW n \in Nat
  PROVE  Drops(q, r, k, n) => \A w : \A m \in Nat : m <= k - n =>
              /\ Count(q, w, n + m) = Count(q, w, n) + Count(r, w, m)
              /\ Count(q, w, n) \in Nat /\ Count(r, w, m) \in Nat
<1>1. ASSUME \A i \in 1 .. (k - n) : r[i] = q[n + i],
             NEW w, NEW m \in Nat, m <= k - n
      PROVE  /\ Count(q, w, n + m) = Count(q, w, n) + Count(r, w, m)
             /\ Count(q, w, n) \in Nat /\ Count(r, w, m) \in Nat
  <2>1. \A j \in 1 .. m : r[j] = q[n + j]
    BY <1>1
  <2> DEFINE h == n + m
  <2>2. h = n + m
    OBVIOUS
  <2> HIDE DEF h
  <2>3. Count(q, w, h) = Count(q, w, n) + Count(r, w, m)
    BY <2>1, <2>2, CountShift, SMTT(30)
  <2>4. Count(q, w, n) \in Nat /\ Count(r, w, m) \in Nat
    BY CountNat
  <2> QED
    BY <2>3, <2>4 DEF h
<1> QED
  BY <1>1 DEF Drops

(* Numbering goes on with what is put in ...                               *)
PutIn(q, r, g, x, y, k, n, p) ==
  /\ Numbering(q, g, x) /\ Len(q) = k /\ Len(r) = k + n
  /\ \A w \in Writers : g[w] \in Nat /\ x[w] \in Nat
  /\ \A i \in 1 .. k : r[i] = q[i]
  /\ \A i \in 1 .. n : r[k + i] = <<p, x[p] + i - 1>>
  /\ \A w \in Writers : y[w] = IF w = p THEN x[w] + n ELSE x[w]
LEMMA NumberingPut ==
  ASSUME NEW q, NEW r, NEW g, NEW x, NEW y, NEW p \in Writers, NEW n \in Nat, NEW k \in Nat
  PROVE  PutIn(q, r, g, x, y, k, n, p) => Numbering(r, g, y)
<1>0. ASSUME PutIn(q, r, g, x, y, k, n, p)
      PROVE  Numbering(r, g, y)
  <2>1. Len(r) = k + n /\ \A w \in Writers : g[w] \in Nat /\ x[w] \in Nat
    BY <1>0 DEF PutIn
  <2>2. \A i \in 1 .. k : r[i] = q[i]
    BY <1>0 DEF PutIn
  <2>3. \A i \in 1 .. n : r[k + i] = <<p, x[p] + i - 1>>
    BY <1>0 DEF PutIn
  <2>4. \A w \in Writers : y[w] = IF w = p THEN x[w] + n ELSE x[w]
    BY <1>0 DEF PutIn
  <2>5. \A w \in Writers : x[w] = g[w] + Count(q, w, k)
    BY <1>0 DEF PutIn, Numbering
  <2>6. \A w \in Writers : \A i \in 1 .. k : q[i][1] = w => q[i][2] = g[w] + Count(q, w, i) - 1
    BY <1>0 DEF PutIn, Numbering
  <2>7. \A w : \A j \in Nat : j <= n =>
          /\ w = p => Count(r, w, k + j) = Count(q, w, k) + j
          /\ w # p => Count(r, w, k + j) = Count(q, w, k)
    <3>1. Appends(q, r, k, n, p)
      BY <2>2, <2>3 DEF Appends
    <3> QED
      BY <3>1, CountPut, SMTT(30)
  <2>8. \A w \in Writers : Count(q, w, k) \in Nat
    BY CountNat
  <2>9. ASSUME NEW w \in Writers, NEW i \in 1 .. (k + n), r[i][1] = w
        PROVE  r[i][2] = g[w] + Count(r, w, i) - 1
    <3>1. CASE i \in 1 .. k
      <4>1. r[i][2] = g[w] + Count(q, w, i) - 1
        BY <2>2, <2>6, <2>9, <3>1
      <4>2. i \in Nat /\ \A m \in 1 .. i : r[m] = q[m]
        BY <2>2, <3>1
      <4>3. Count(r, w, i) = Count(q, w, i)
        BY <4>2, CountPrefix
      <4> QED
        BY <4>1, <4>3
    <3>2. CASE i \notin 1 .. k
      <4> DEFINE j == i - k
      <4>1. j \in 1 .. n /\ k + j = i /\ j \in Nat /\ j <= n
        BY <3>2
      <4> HIDE DEF j
      <4>2. r[i] = <<p, x[p] + j - 1>>
        BY <2>3, <4>1
      <4>3. w = p
        BY <2>9, <4>2
      <4>4. Count(r, w, i) = Count(q, w, k) + j
        BY <2>7, <4>1, <4>3
      <4>5. x[w] = g[w] + Count(q, w, k) /\ g[w] \in Nat /\ Count(q, w, k) \in Nat
        BY <2>1, <2>5, <2>8
      <4> QED
        BY <4>1, <4>2, <4>3, <4>4, <4>5
    <3> QED
      BY <3>1, <3>2
  <2>10. ASSUME NEW w \in Writers
         PROVE  y[w] = g[w] + Count(r, w, k + n)
    <3>1. /\ w = p => Count(r, w, k + n) = Count(q, w, k) + n
          /\ w # p => Count(r, w, k + n) = Count(q, w, k)
      BY <2>7
    <3>2. x[w] = g[w] + Count(q, w, k) /\ g[w] \in Nat /\ Count(q, w, k) \in Nat
      BY <2>1, <2>5, <2>8
    <3> QED
      BY <2>4, <3>1, <3>2
  <2> QED
    BY <2>1, <2>9, <2>10 DEF Numbering
<1> QED
  BY <1>0

(* ... and from behind what is taken out.                                  *)
TakenOut(q, r, g, x, h, k, n) ==
  /\ Numbering(q, g, x) /\ Len(q) = k /\ Len(r) = k - n /\ n <= k
  /\ \A w \in Writers : g[w] \in Nat
  /\ \A i \in 1 .. (k - n) : r[i] = q[n + i]
  /\ \A w \in Writers : h[w] = g[w] + Count(q, w, n)
LEMMA NumberingGet ==
  ASSUME NEW q, NEW r, NEW g, NEW x, NEW h, NEW n \in Nat, NEW k \in Nat
  PROVE  TakenOut(q, r, g, x, h, k, n) => Numbering(r, h, x)
<1>0. ASSUME TakenOut(q, r, g, x, h, k, n)
      PROVE  Numbering(r, h, x)
  <2>1. Len(r) = k - n /\ n <= k /\ \A w \in Writers : g[w] \in Nat
    BY <1>0 DEF TakenOut
  <2>2. \A i \in 1 .. (k - n) : r[i] = q[n + i]
    BY <1>0 DEF TakenOut
  <2>4. \A w \in Writers : h[w] = g[w] + Count(q, w, n)
    BY <1>0 DEF TakenOut
  <2>5. \A w \in Writers : x[w] = g[w] + Count(q, w, k)
    BY <1>0 DEF TakenOut, Numbering
  <2>6. \A w \in Writers : \A i \in 1 .. k : q[i][1] = w => q[i][2] = g[w] + Count(q, w, i) - 1
    BY <1>0 DEF TakenOut, Numbering
  <2>7. \A w : \A m \in Nat : m <= k - n =>
          /\ Count(q, w, n + m) = Count(q, w, n) + Count(r, w, m)
          /\ Count(q, w, n) \in Nat /\ Count(r, w, m) \in Nat
    <3>1. Drops(q, r, k, n)
      BY <2>2 DEF Drops
    <3> QED
      BY <3>1, CountGet
  <2>9. ASSUME NEW w \in Writers, NEW i \in 1 .. (k - n), r[i][1] = w
        PROVE  r[i][2] = h[w] + Count(r, w, i) - 1
    <3> DEFINE j == n + i
    <3>1. j \in 1 .. k /\ i \in Nat /\ i <= k - n /\ j = n + i
      BY <2>1
    <3>2. r[i] = q[j]
      BY <2>2
    <3>3. /\ Count(q, w, j) = Count(q, w, n) + Count(r, w, i)
          /\ Count(q, w, n) \in Nat /\ Count(r, w, i) \in Nat
      BY <2>7, <3>1
    <3> HIDE DEF j
    <3>4. q[j][2] = g[w] + Count(q, w, j) - 1
      BY <2>6, <2>9, <3>1, <3>2
    <3>5. h[w] = g[w] + Count(q, w, n) /\ g[w] \in Nat
      BY <2>1, <2>4
    <3> QED
      BY <3>2, <3>3, <3>4, <3>5
  <2>10. ASSUME NEW w \in Writers
         PROVE  x[w] = h[w] + Count(r, w, k - n)
    <3> DEFINE m == k - n
    <3>1. m \in Nat /\ m <= k - n /\ n + m = k
      BY <2>1
    <3> HIDE DEF m
    <3>2. /\ Count(q, w, k) = Count(q, w, n) + Count(r, w, m)
          /\ Count(q, w, n) \in Nat /\ Count(r, w, m) \in Nat
      BY <2>7, <3>1
    <3>3. x[w] = g[w] + Count(q, w, k) /\ h[w] = g[w] + Count(q, w, n) /\ g[w] \in Nat
      BY <2>1, <2>4, <2>5
    <3>4. x[w] = h[w] + Count(r, w, m)
      BY <3>2, <3>3
    <3> QED
      BY <3>4 DEF m
  <2> QED
    BY <2>1, <2>9, <2>10 DEF Numbering
<1> QED
  BY <1>0

LEMMA NumberedPut ==
  ASSUME Types, Bounded, Numbered, NEW p \in Writers, NEW n \in Nat,
         Unread' = Unread \o NewBytes(p, n),
         NewBytes(p, n) \in Seq(Bytes), Len(NewBytes(p, n)) = n,
         \A j \in 1 .. n : NewBytes(p, n)[j] = <<p, next[p] + j - 1>>,
         got' = got, next' = [next EXCEPT ![p] = @ + n]
  PROVE  Numbered'
<1> DEFINE b == NewBytes(p, n)
           k == Len(Unread)
           r == Unread'
<1>1. Unread \in Seq(Bytes) /\ k \in Nat
  BY UnreadShape
<1>2. /\ Len(r) = k + n
      /\ \A i \in 1 .. k : r[i] = Unread[i]
      /\ \A j \in 1 .. n : r[k + j] = <<p, next[p] + j - 1>>
  <2>1. /\ Len(r) = k + n
        /\ \A i \in 1 .. k + n : r[i] = IF i <= k THEN Unread[i] ELSE b[i - k]
    BY <1>1, ConcatProperties, ZenonT(60)
  <2> HIDE DEF k, r, b
  <2>2. \A i \in 1 .. k : i \in 1 .. k + n /\ i <= k
    BY <1>1 DEF k
  <2>3. \A j \in 1 .. n : k + j \in 1 .. k + n /\ ~ (k + j <= k) /\ (k + j) - k = j
    BY <1>1 DEF k
  <2>4. \A j \in 1 .. n : r[k + j] = b[j]
    BY <2>1, <2>3
  <2> QED
    BY <2>1, <2>2, <2>4 DEF b
<1>3. \A w \in Writers : got[w] \in Nat /\ next[w] \in Nat
  BY DEF Types
<1>4. \A w \in Writers : next'[w] = IF w = p THEN next[w] + n ELSE next[w]
  BY DEF Types
<1>5. Numbering(Unread, got, next) /\ Len(Unread) = k
  BY DEF Numbered
<1> HIDE DEF k, r, b
<1>6. Numbering(r, got, next')
  <2>1. PutIn(Unread, r, got, next, next', k, n, p)
    BY <1>2, <1>3, <1>4, <1>5 DEF PutIn
  <2> QED
    BY <1>1, <2>1, NumberingPut
<1> QED
  BY <1>6 DEF Numbered, r

LEMMA NumberedGet ==
  ASSUME Types, Bounded, Numbered, NEW n \in 1 .. Len(Unread),
         Unread' = SubSeq(Unread, n + 1, Len(Unread)),
         got' = IF n = Len(Unread) THEN NoneYet
                ELSE [w \in Writers |-> got[w] + Count(Unread, w, n)],
         next' = IF n = Len(Unread) THEN NoneYet ELSE next
  PROVE  Numbered'
<1> DEFINE k == Len(Unread)
           r == Unread'
<1>1. Unread \in Seq(Bytes) /\ k \in Nat /\ n \in Nat /\ n <= k
  BY UnreadShape
<1>2. Len(r) = k - n /\ k - n \in Nat /\ \A i \in 1 .. (k - n) : r[i] = Unread[n + i]
  BY <1>1
<1>3. \A w \in Writers : got[w] \in Nat
  BY DEF Types
<1>6. Numbering(Unread, got, next) /\ Len(Unread) = k
  BY DEF Numbered
<1> HIDE DEF k, r
<1>4. CASE n = k
  <2>1. \A w \in Writers : got'[w] = 0 /\ next'[w] = 0
    BY <1>4 DEF NoneYet, k
  <2>2. Len(r) = 0
    BY <1>1, <1>2, <1>4
  <2>3. \A w \in Writers : Count(r, w, 0) = 0
    BY CountNat
  <2> QED
    BY <2>1, <2>2, <2>3 DEF Numbered, Numbering, r
<1>5. CASE n # k
  <2>1. next' = next /\ \A w \in Writers : got'[w] = got[w] + Count(Unread, w, n)
    BY <1>5 DEF k
  <2>2. Numbering(r, got', next)
    <3>1. TakenOut(Unread, r, got, next, got', k, n)
      BY <1>1, <1>2, <1>3, <1>6, <2>1 DEF TakenOut
    <3> QED
      BY <1>1, <3>1, NumberingGet
  <2> QED
    BY <2>1, <2>2 DEF Numbered, r
<1> QED
  BY <1>4, <1>5

(* write takes the next chunk.                                             *)
LEMMA WriteChunkStep ==
  ASSUME PipeAssumption, IInv, NEW p \in Procs, WriteChunk(p)
  PROVE  Correct
<1> DEFINE n == IF io[p].c < MAXPIPSIZ THEN io[p].c ELSE MAXPIPSIZ
<1>3. /\ pc \in [Procs -> PCs] /\ io \in [Procs -> Calls] /\ io[p] \in Calls
      /\ io[p].c \in Nat /\ io[p].count \in Nat /\ MAXPIPSIZ \in Nat
  BY DEF IInv, Types, Calls, PipeAssumption
<1>4. n \in Nat /\ n <= MAXPIPSIZ /\ n <= io[p].c /\ (n < io[p].c => n = MAXPIPSIZ)
      /\ io[p].c - n \in Nat
  BY <1>3
<1>5. /\ pc[p] = "loop" /\ s.slp[p] = "none" /\ UNCHANGED <<next, got>> /\ s' = s
      /\ io' = [io EXCEPT ![p].resid = n, ![p].c = @ - n] /\ Size(s) < MAXPIPSIZ
      /\ pc' = [pc EXCEPT ![p] = "rwip_write"] /\ io[p].c # 0
  BY DEF WriteChunk, At, Goto, NoBytes
<1> HIDE DEF n
<1>6. /\ io' \in [Procs -> Calls] /\ io'[p].resid = n /\ io'[p].c = io[p].c - n
      /\ io'[p].count = io[p].count /\ \A q \in Procs : q # p => io'[q] = io[q]
  BY <1>3, <1>4, <1>5 DEF Calls
<1>1. /\ pc[p] = "loop" /\ s.slp[p] = "none" /\ s' = s /\ Size(s) < MAXPIPSIZ
      /\ \A q \in Procs : pc'[q] = IF q = p THEN "rwip_write" ELSE pc[q]
      /\ io'[p].resid = n /\ n <= MAXPIPSIZ
      /\ \A q \in Procs : q # p => io'[q] = io[q]
  BY <1>3, <1>4, <1>5, <1>6
<1>2. SameFile(s, s') /\ UNCHANGED <<next, got>> /\ Unread' = Unread
  BY <1>5 DEF SameFile, Unread, Size
<1>10. Types'
  BY <1>5, <1>6 DEF IInv, Types, PCs
<1>11. Places'
  BY <1>1 DEF IInv, Places, ReadPCs, WritePCs, Locks
<1>12. LockOwned'
  BY <1>1 DEF IInv, LockOwned, LockedPCs
<1>13. LastCloses'
  BY <1>1 DEF IInv, LastCloses, SameFile
<1>14. Bounded'
  BY <1>1 DEF IInv, Bounded, SameFile, Size
<1>15. ChunksCounted'
  <2>1. io'[p].c > 0 => io'[p].c + MAXPIPSIZ <= io'[p].count
    <3>1. io[p].c <= io[p].count
      BY <1>3, <1>5 DEF IInv, ChunksCounted, Types, Calls
    <3> QED
      BY <1>3, <1>4, <1>6, <3>1
  <2> QED
    BY <1>1, <2>1 DEF IInv, ChunksCounted
<1>16. SleepersFound'
  BY <1>1 DEF IInv, SleepersFound, Places, LockOwned, LockedPCs, Telling, Size, SameFile
<1>17. Numbered'
  BY <1>1, <1>2 DEF IInv, Numbered
<1>18. SelectorsKept
  BY <1>1 DEF IInv, Places, SelectorsKept, SelectorsFound, Waits, Found, Telling,
     SameFile, SameSelect, Size
<1>19. Streams
  BY <1>1, <1>2 DEF Streams
<1> QED
  BY <1>10, <1>11, <1>12, <1>13, <1>14, <1>15, <1>16, <1>17, <1>18, <1>19 DEF IInv, Correct

(* write tells the readers of its chunk.                                   *)
LEMMA WriteEndStep ==
  ASSUME PipeAssumption, IInv, NEW p \in Procs, WriteEnd(p)
  PROVE  Correct
<1>1. /\ pc[p] = "write_end" /\ s.slp[p] = "none" /\ UNCHANGED <<next, got>>
      /\ pc' = [pc EXCEPT ![p] = "loop"] /\ \A q \in Procs : pc'[q] = IF q = p THEN "loop" ELSE pc[q]
      /\ io' = io
      /\ s' \in States /\ SameFile(s, s')
      /\ s'.locked = s.locked /\ s'.want = s.want /\ s'.iwrite = s.iwrite
      /\ \A q \in Procs : s'.slp[q] \in {s.slp[q], "none"}
      /\ s.iread => \A q \in Procs : s'.slp[q] # "ip+4"
  <2>1. pc \in [Procs -> PCs] /\ io \in [Procs -> Calls] /\ s \in States
    BY DEF IInv, Types
  <2>2. /\ s' = TellReaders(s) /\ UNCHANGED <<io, next, got>>
        /\ pc' = [pc EXCEPT ![p] = "loop"] /\ pc[p] = "write_end" /\ s.slp[p] = "none"
    BY DEF WriteEnd, At, Goto, Keep, NoBytes
  <2>3. /\ s' \in States /\ SameFile(s, s')
        /\ s'.locked = s.locked /\ s'.want = s.want /\ s'.iwrite = s.iwrite
        /\ \A q \in Procs : s'.slp[q] \in {s.slp[q], "none"}
        /\ s.iread => \A q \in Procs : s'.slp[q] # "ip+4"
    BY <2>1, <2>2, TellShape
  <2> QED
    BY <2>1, <2>2, <2>3
<1>2. SameFile(s, s') /\ UNCHANGED <<next, got>> /\ Unread' = Unread
  BY <1>1 DEF SameFile, Unread, Size
<1>10. Types'
  BY <1>1 DEF IInv, Types, Calls, PCs, Locks, NoCall
<1>11. Places'
  BY <1>1 DEF IInv, Places, ReadPCs, WritePCs, Locks
<1>12. LockOwned'
  BY <1>1 DEF IInv, LockOwned, LockedPCs
<1>13. LastCloses'
  BY <1>1 DEF IInv, LastCloses, SameFile
<1>14. Bounded'
  BY <1>1 DEF IInv, Bounded, SameFile, Size
<1>15. ChunksCounted'
  BY <1>1 DEF IInv, ChunksCounted
<1>16. SleepersFound'
  BY <1>1 DEF IInv, SleepersFound, Places, LockOwned, LockedPCs, Telling, Size, SameFile
<1>17. Numbered'
  BY <1>1, <1>2 DEF IInv, Numbered
<1>18. SelectorsKept
  <2>1. s \in States /\ s' = TellReaders(s)
    BY DEF IInv, Types, WriteEnd
  <2>2. \A q \in Procs : \A l :
          (l = "elsewhere" => s.slp[q] # "selwait") =>
          /\ Waits(s', l, q) => Waits(s, l, q)
          /\ Found(s, q) => IF End(q) = "r" THEN ~ Waits(s', l, q) ELSE Found(s', q)
    BY <2>1, TellShape
  <2>3. ASSUME SelectorsFound, NEW q \in Procs, Waits(s', pc'[q], q)
        PROVE  /\ Found(s', q) /\ s'.count = 2
               /\ End(q) = "r" => Size(s') = 0 \/ Telling'
               /\ End(q) = "w" => Size(s') >= MAXPIPSIZ
    <3>1. pc[q] = "elsewhere" => s.slp[q] # "selwait"
      BY DEF IInv, Places
    <3>2. Waits(s', pc[q], q)
      BY <1>1, <2>3 DEF Waits
    <3>3. Waits(s, pc[q], q) /\ Found(s, q)
      BY <2>2, <2>3, <3>1, <3>2 DEF SelectorsFound
    <3>4. End(q) # "r" /\ Found(s', q)
      BY <2>2, <3>1, <3>2, <3>3
    <3> QED
      BY <1>1, <2>3, <3>3, <3>4 DEF SelectorsFound, SameFile, Size
  <2> QED
    BY <2>3 DEF SelectorsKept, SelectorsFound
<1>19. Streams
  BY <1>1, <1>2 DEF Streams
<1> QED
  BY <1>10, <1>11, <1>12, <1>13, <1>14, <1>15, <1>16, <1>17, <1>18, <1>19 DEF IInv, Correct

(* select begins, or scans again.                                          *)
LEMMA SelectFromStep ==
  ASSUME PipeAssumption, IInv, NEW p \in Procs, NEW l \in {"user", "retry"}, SelectFrom(p, l)
  PROVE  Correct
<1>3. pc \in [Procs -> PCs] /\ s \in States
  BY DEF IInv, Types
<1>4. /\ s' = [s EXCEPT !.pselect = @ \cup {p}, !.stale = @ \ {p}] /\ UNCHANGED <<io, next, got>>
      /\ pc' = [pc EXCEPT ![p] = "selscan"] /\ pc[p] \in {"user", "retry"} /\ s.slp[p] = "none"
      /\ p \in s.open
  BY DEF SelectFrom, At, Goto, Keep, NoBytes
<1>1. /\ pc[p] \in {"user", "retry"} /\ s.slp[p] = "none" /\ UNCHANGED <<next, got>> /\ io' = io
      /\ pc' = [pc EXCEPT ![p] = "selscan"]
      /\ \A q \in Procs : pc'[q] = IF q = p THEN "selscan" ELSE pc[q]
      /\ s' \in States /\ SameFile(s, s') /\ SameFlags(s, s') /\ s'.slp = s.slp
  <2>1. s' \in States /\ SameFile(s, s') /\ SameFlags(s, s') /\ s'.slp = s.slp
    BY <1>3, <1>4 DEF States, SameFile, SameFlags
  <2> QED
    BY <1>3, <1>4, <2>1
<1>2. SameFile(s, s') /\ UNCHANGED <<next, got>> /\ Unread' = Unread
  BY <1>1 DEF SameFile, Unread, Size
<1>10. Types'
  BY <1>1 DEF IInv, Types, Calls, PCs, Locks, NoCall
<1>11. Places'
  BY <1>1 DEF IInv, Places, ReadPCs, WritePCs, Locks
<1>12. LockOwned'
  BY <1>1 DEF IInv, LockOwned, LockedPCs, SameFlags
<1>13. LastCloses'
  BY <1>1 DEF IInv, LastCloses, SameFile
<1>14. Bounded'
  BY <1>1 DEF IInv, Bounded, SameFile, Size
<1>15. ChunksCounted'
  BY <1>1 DEF IInv, ChunksCounted
<1>16. SleepersFound'
  BY <1>1 DEF IInv, SleepersFound, Telling, Size, SameFile, SameFlags
<1>17. Numbered'
  BY <1>1, <1>2 DEF IInv, Numbered
<1>18. SelectorsKept
  <2>1. /\ s'.sel = s.sel /\ s'.coll = s.coll
        /\ \A q \in Procs : q # p => /\ q \in s'.pselect <=> q \in s.pselect
                                     /\ q \in s'.stale <=> q \in s.stale
    BY <1>3, <1>4 DEF States
  <2>2. \A q \in Procs : Waits(s', pc'[q], q) => Waits(s, pc[q], q) /\ (Found(s, q) => Found(s', q))
    BY <1>1, <2>1 DEF Waits, Found
  <2> QED
    BY <1>1, <2>2 DEF SelectorsKept, SelectorsFound, Telling, SameFile, Size
<1>19. Streams
  BY <1>1, <1>2 DEF Streams
<1> QED
  BY <1>10, <1>11, <1>12, <1>13, <1>14, <1>15, <1>16, <1>17, <1>18, <1>19 DEF IInv, Correct

(* select finds the pipe ready.                                            *)
LEMMA SelscanReadyStep ==
  ASSUME PipeAssumption, IInv, NEW p \in Procs, Selscan(p), Ready(s, End(p))
  PROVE  Correct
<1>1. /\ pc[p] = "selscan" /\ s.slp[p] = "none" /\ UNCHANGED <<next, got>>
      /\ pc' = [pc EXCEPT ![p] = "user"] /\ \A q \in Procs : pc'[q] = IF q = p THEN "user" ELSE pc[q]
      /\ io' = [io EXCEPT ![p] = NoCall] /\ \A q \in Procs : q # p => io'[q] = io[q]
      /\ s' \in States /\ SameFile(s, s') /\ SameFlags(s, s') /\ s'.slp = s.slp
  <2>1. pc \in [Procs -> PCs] /\ io \in [Procs -> Calls] /\ s \in States
    BY DEF IInv, Types
  <2>2. /\ s' = [s EXCEPT !.pselect = @ \ {p}] /\ UNCHANGED <<next, got>>
        /\ pc' = [pc EXCEPT ![p] = "user"] /\ io' = [io EXCEPT ![p] = NoCall]
        /\ pc[p] = "selscan" /\ s.slp[p] = "none"
    BY DEF Selscan, Return, At, Goto, NoBytes
  <2>3. s' \in States /\ SameFile(s, s') /\ SameFlags(s, s') /\ s'.slp = s.slp
    BY <2>1, <2>2 DEF States, SameFile, SameFlags
  <2> QED
    BY <2>1, <2>2, <2>3
<1>2. SameFile(s, s') /\ UNCHANGED <<next, got>> /\ Unread' = Unread
  BY <1>1 DEF SameFile, Unread, Size
<1>10. Types'
  BY <1>1 DEF IInv, Types, Calls, PCs, Locks, NoCall
<1>11. Places'
  BY <1>1 DEF IInv, Places, ReadPCs, WritePCs, Locks
<1>12. LockOwned'
  BY <1>1 DEF IInv, LockOwned, LockedPCs, SameFlags
<1>13. LastCloses'
  BY <1>1 DEF IInv, LastCloses, SameFile
<1>14. Bounded'
  BY <1>1 DEF IInv, Bounded, SameFile, Size
<1>15. ChunksCounted'
  BY <1>1 DEF IInv, ChunksCounted
<1>16. SleepersFound'
  BY <1>1 DEF IInv, SleepersFound, Telling, Size, SameFile, SameFlags
<1>17. Numbered'
  BY <1>1, <1>2 DEF IInv, Numbered
<1>18. SelectorsKept
  <2>1. /\ s'.sel = s.sel /\ s'.coll = s.coll /\ s'.stale = s.stale
        /\ \A q \in Procs : q # p => (q \in s'.pselect <=> q \in s.pselect)
    <3>1. s \in States /\ s' = [s EXCEPT !.pselect = @ \ {p}]
      BY DEF IInv, Types, Selscan
    <3> QED
      BY <3>1 DEF States
  <2>2. \A q \in Procs : Waits(s', pc'[q], q) => Waits(s, pc[q], q) /\ (Found(s, q) => Found(s', q))
    BY <1>1, <2>1 DEF Waits, Found
  <2> QED
    BY <1>1, <2>2 DEF SelectorsKept, SelectorsFound, Telling, SameFile, Size
<1>19. Streams
  BY <1>1, <1>2 DEF Streams
<1> QED
  BY <1>10, <1>11, <1>12, <1>13, <1>14, <1>15, <1>16, <1>17, <1>18, <1>19 DEF IInv, Correct

(* select goes on to other descriptors.                                    *)
LEMMA SelscanElsewhereStep ==
  ASSUME PipeAssumption, IInv, NEW p \in Procs, Selscan(p), ~ Ready(s, End(p)), p \in Elsewhere
  PROVE  Correct
<1>1. /\ pc[p] = "selscan" /\ s.slp[p] = "none" /\ UNCHANGED <<next, got>>
      /\ pc' = [pc EXCEPT ![p] = "elsewhere"] /\ \A q \in Procs : pc'[q] = IF q = p THEN "elsewhere" ELSE pc[q]
      /\ io' = io
      /\ s' \in States /\ SameFile(s, s') /\ SameFlags(s, s') /\ s'.slp = s.slp
  <2>1. pc \in [Procs -> PCs] /\ io \in [Procs -> Calls] /\ s \in States
    BY DEF IInv, Types
  <2>2. /\ s' = Remember(s, p, End(p)) /\ UNCHANGED <<io, next, got>>
        /\ pc' = [pc EXCEPT ![p] = "elsewhere"] /\ pc[p] = "selscan" /\ s.slp[p] = "none"
    BY DEF Selscan, At, Goto, Keep, NoBytes
  <2>3. s' \in States /\ SameFile(s, s') /\ SameFlags(s, s') /\ s'.slp = s.slp
    BY <2>1, <2>2, RememberShape
  <2> QED
    BY <2>1, <2>2, <2>3
<1>2. SameFile(s, s') /\ UNCHANGED <<next, got>> /\ Unread' = Unread
  BY <1>1 DEF SameFile, Unread, Size
<1>10. Types'
  BY <1>1 DEF IInv, Types, Calls, PCs, Locks, NoCall
<1>11. Places'
  BY <1>1 DEF IInv, Places, ReadPCs, WritePCs, Locks
<1>12. LockOwned'
  BY <1>1 DEF IInv, LockOwned, LockedPCs, SameFlags
<1>13. LastCloses'
  BY <1>1 DEF IInv, LastCloses, SameFile
<1>14. Bounded'
  BY <1>1 DEF IInv, Bounded, SameFile, Size
<1>15. ChunksCounted'
  BY <1>1 DEF IInv, ChunksCounted
<1>16. SleepersFound'
  BY <1>1 DEF IInv, SleepersFound, Telling, Size, SameFile, SameFlags
<1>17. Numbered'
  BY <1>1, <1>2 DEF IInv, Numbered
<1>18. SelectorsKept
  <2>1. /\ s'.slp = s.slp /\ s'.pselect = s.pselect /\ s'.stale = s.stale /\ Found(s', p)
        /\ \A q \in Procs :
             Found(s, q) /\ (End(q) = End(p) => s.slp[q] = "selwait") => Found(s', q)
    <3>1. s \in States /\ s' = Remember(s, p, End(p))
      BY DEF IInv, Types, Selscan
    <3> QED
      BY <3>1, RememberShape
  <2>2. ASSUME ElsewhereAlone, NEW q \in Procs, q # p, Waits(s', pc'[q], q)
        PROVE  Waits(s, pc[q], q) /\ (Found(s, q) => Found(s', q))
    BY <1>1, <2>1, <2>2 DEF Waits, ElsewhereAlone
  <2>3. s.count = 2 /\ (End(p) = "r" => Size(s) = 0) /\ (End(p) = "w" => Size(s) >= MAXPIPSIZ)
    <3>1. Size(s) \in Nat
      BY DEF IInv, Types, States, Size
    <3> QED
      BY <3>1 DEF Ready, PipeAssumption
  <2>4. ASSUME ElsewhereAlone, SelectorsFound, NEW q \in Procs, Waits(s', pc'[q], q)
        PROVE  /\ Found(s', q) /\ s'.count = 2
               /\ End(q) = "r" => Size(s') = 0 \/ Telling'
               /\ End(q) = "w" => Size(s') >= MAXPIPSIZ
    <3>1. CASE q = p
      BY <1>1, <2>1, <2>3, <3>1 DEF SameFile, Size
    <3>2. CASE q # p
      BY <1>1, <2>2, <2>4, <3>2 DEF SelectorsFound, Telling, SameFile, Size
    <3> QED
      BY <3>1, <3>2
  <2> QED
    BY <2>4 DEF SelectorsKept, SelectorsFound
<1>19. Streams
  BY <1>1, <1>2 DEF Streams
<1> QED
  BY <1>10, <1>11, <1>12, <1>13, <1>14, <1>15, <1>16, <1>17, <1>18, <1>19 DEF IInv, Correct

(* select finds nothing and sleeps.                                        *)
LEMMA SelscanRestStep ==
  ASSUME PipeAssumption, IInv, NEW p \in Procs, Selscan(p), ~ Ready(s, End(p)), p \notin Elsewhere
  PROVE  Correct
<1>1. /\ pc[p] = "selscan" /\ s.slp[p] = "none" /\ UNCHANGED <<next, got>>
      /\ pc' = [pc EXCEPT ![p] = "retry"] /\ \A q \in Procs : pc'[q] = IF q = p THEN "retry" ELSE pc[q]
      /\ io' = io
      /\ s' \in States /\ SameFile(s, s') /\ SameFlags(s, s')
      /\ \A q \in Procs : q # p => s'.slp[q] = s.slp[q]
      /\ s'.slp[p] \in {"none", "selwait"}
  <2>1. pc \in [Procs -> PCs] /\ io \in [Procs -> Calls] /\ s \in States
    BY DEF IInv, Types
  <2>2. /\ s' = Rest(Remember(s, p, End(p)), p) /\ UNCHANGED <<io, next, got>>
        /\ pc' = [pc EXCEPT ![p] = "retry"] /\ pc[p] = "selscan" /\ s.slp[p] = "none"
    BY DEF Selscan, At, Goto, Keep, NoBytes
  <2> DEFINE v == Remember(s, p, End(p))
  <2>3. v \in States /\ SameFile(s, v) /\ SameFlags(s, v) /\ v.slp = s.slp
    BY <2>1, RememberShape
  <2> HIDE DEF v
  <2>4. /\ s' \in States /\ SameFile(v, s') /\ SameFlags(v, s')
        /\ \A q \in Procs : s'.slp[q] = IF q = p /\ p \in v.pselect /\ p \notin v.stale
                                          THEN "selwait" ELSE v.slp[q]
    BY <2>2, <2>3, RestShape DEF v
  <2>5. /\ s' \in States /\ SameFile(s, s') /\ SameFlags(s, s')
        /\ \A q \in Procs : q # p => s'.slp[q] = s.slp[q]
        /\ s'.slp[p] \in {"none", "selwait"}
    BY <2>2, <2>3, <2>4 DEF SameFile, SameFlags
  <2> QED
    BY <2>1, <2>2, <2>5
<1>2. SameFile(s, s') /\ UNCHANGED <<next, got>> /\ Unread' = Unread
  BY <1>1 DEF SameFile, Unread, Size
<1>10. Types'
  BY <1>1 DEF IInv, Types, Calls, PCs, Locks, NoCall
<1>11. Places'
  BY <1>1 DEF IInv, Places, ReadPCs, WritePCs, Locks
<1>12. LockOwned'
  BY <1>1 DEF IInv, LockOwned, LockedPCs, SameFlags
<1>13. LastCloses'
  BY <1>1 DEF IInv, LastCloses, SameFile
<1>14. Bounded'
  BY <1>1 DEF IInv, Bounded, SameFile, Size
<1>15. ChunksCounted'
  BY <1>1 DEF IInv, ChunksCounted
<1>16. SleepersFound'
  BY <1>1 DEF IInv, SleepersFound, Telling, Size, SameFile, SameFlags
<1>17. Numbered'
  BY <1>1, <1>2 DEF IInv, Numbered
<1>18. SelectorsKept
  <2> DEFINE v == Remember(s, p, End(p))
  <2>0. s \in States /\ s' = Rest(v, p)
    BY DEF IInv, Types, Selscan
  <2>1. /\ v \in States /\ SameFile(s, v) /\ v.slp = s.slp
        /\ v.pselect = s.pselect /\ v.stale = s.stale /\ Found(v, p)
        /\ \A q \in Procs :
             Found(s, q) /\ (End(q) = End(p) => s.slp[q] = "selwait") => Found(v, q)
    BY <2>0, RememberShape
  <2> HIDE DEF v
  <2>5. /\ s'.sel = v.sel /\ s'.coll = v.coll /\ s'.stale = v.stale
        /\ s'.pselect = v.pselect \ {p}
    BY <2>0, <2>1, RestShape
  <2>6. \A q \in Procs : Found(v, q) => Found(s', q)
    BY <2>5 DEF Found
  <2>2. ASSUME ElsewhereAlone, NEW q \in Procs, q # p, Waits(s', pc'[q], q)
        PROVE  Waits(s, pc[q], q) /\ (Found(s, q) => Found(s', q))
    <3>1. Waits(s, pc[q], q)
      BY <1>1, <2>1, <2>2, <2>5 DEF Waits
    <3>2. End(q) = End(p) => s.slp[q] = "selwait"
      BY <2>2, <3>1 DEF Waits, ElsewhereAlone, IInv, Places
    <3> QED
      BY <2>1, <2>6, <3>1, <3>2
  <2>3. s.count = 2 /\ (End(p) = "r" => Size(s) = 0) /\ (End(p) = "w" => Size(s) >= MAXPIPSIZ)
    <3>1. Size(s) \in Nat
      BY DEF IInv, Types, States, Size
    <3> QED
      BY <3>1 DEF Ready, PipeAssumption
  <2>4. ASSUME ElsewhereAlone, SelectorsFound, NEW q \in Procs, Waits(s', pc'[q], q)
        PROVE  /\ Found(s', q) /\ s'.count = 2
               /\ End(q) = "r" => Size(s') = 0 \/ Telling'
               /\ End(q) = "w" => Size(s') >= MAXPIPSIZ
    <3>1. CASE q = p
      BY <1>1, <2>1, <2>3, <2>6, <3>1 DEF SameFile, Size
    <3>2. CASE q # p
      BY <1>1, <2>2, <2>4, <3>2 DEF SelectorsFound, Telling, SameFile, Size
    <3> QED
      BY <3>1, <3>2
  <2> QED
    BY <2>4 DEF SelectorsKept, SelectorsFound
<1>19. Streams
  BY <1>1, <1>2 DEF Streams
<1> QED
  BY <1>10, <1>11, <1>12, <1>13, <1>14, <1>15, <1>16, <1>17, <1>18, <1>19 DEF IInv, Correct

(* select has found nothing elsewhere either.                              *)
LEMMA SelectElsewhereStep ==
  ASSUME PipeAssumption, IInv, NEW p \in Procs, SelectElsewhere(p)
  PROVE  Correct
<1>1. /\ pc[p] = "elsewhere" /\ s.slp[p] = "none" /\ UNCHANGED <<next, got>>
      /\ pc' = [pc EXCEPT ![p] = "retry"] /\ \A q \in Procs : pc'[q] = IF q = p THEN "retry" ELSE pc[q]
      /\ io' = io
      /\ s' \in States /\ SameFile(s, s') /\ SameFlags(s, s')
      /\ \A q \in Procs : q # p => s'.slp[q] = s.slp[q]
      /\ s'.slp[p] \in {"none", "selwait"}
  <2>1. pc \in [Procs -> PCs] /\ io \in [Procs -> Calls] /\ s \in States
    BY DEF IInv, Types
  <2>2. /\ s' = Rest(s, p) /\ UNCHANGED <<io, next, got>>
        /\ pc' = [pc EXCEPT ![p] = "retry"] /\ pc[p] = "elsewhere" /\ s.slp[p] = "none"
    BY DEF SelectElsewhere, At, Goto, Keep, NoBytes
  <2>4. /\ s' \in States /\ SameFile(s, s') /\ SameFlags(s, s')
        /\ \A q \in Procs : s'.slp[q] = IF q = p /\ p \in s.pselect /\ p \notin s.stale
                                          THEN "selwait" ELSE s.slp[q]
    BY <2>1, <2>2, RestShape
  <2>5. /\ s' \in States /\ SameFile(s, s') /\ SameFlags(s, s')
        /\ \A q \in Procs : q # p => s'.slp[q] = s.slp[q]
        /\ s'.slp[p] \in {"none", "selwait"}
    BY <2>2, <2>4
  <2> QED
    BY <2>1, <2>2, <2>5
<1>2. SameFile(s, s') /\ UNCHANGED <<next, got>> /\ Unread' = Unread
  BY <1>1 DEF SameFile, Unread, Size
<1>10. Types'
  BY <1>1 DEF IInv, Types, Calls, PCs, Locks, NoCall
<1>11. Places'
  BY <1>1 DEF IInv, Places, ReadPCs, WritePCs, Locks
<1>12. LockOwned'
  BY <1>1 DEF IInv, LockOwned, LockedPCs, SameFlags
<1>13. LastCloses'
  BY <1>1 DEF IInv, LastCloses, SameFile
<1>14. Bounded'
  BY <1>1 DEF IInv, Bounded, SameFile, Size
<1>15. ChunksCounted'
  BY <1>1 DEF IInv, ChunksCounted
<1>16. SleepersFound'
  BY <1>1 DEF IInv, SleepersFound, Telling, Size, SameFile, SameFlags
<1>17. Numbered'
  BY <1>1, <1>2 DEF IInv, Numbered
<1>18. SelectorsKept
  <2>1. s \in States /\ s' = Rest(s, p)
    BY DEF IInv, Types, SelectElsewhere
  <2>2. /\ s'.sel = s.sel /\ s'.coll = s.coll /\ s'.stale = s.stale
        /\ s'.pselect = s.pselect \ {p}
        /\ \A q \in Procs : s'.slp[q] = IF q = p /\ p \in s.pselect /\ p \notin s.stale
                                          THEN "selwait" ELSE s.slp[q]
    BY <2>1, RestShape
  <2>3. \A q \in Procs : Waits(s', pc'[q], q) => Waits(s, pc[q], q) /\ (Found(s, q) => Found(s', q))
    BY <1>1, <2>2 DEF Waits, Found
  <2> QED
    BY <1>1, <2>3 DEF SelectorsKept, SelectorsFound, Telling, SameFile, Size
<1>19. Streams
  BY <1>1, <1>2 DEF Streams
<1> QED
  BY <1>10, <1>11, <1>12, <1>13, <1>14, <1>15, <1>16, <1>17, <1>18, <1>19 DEF IInv, Correct

(* The last of its end closes the pipe.                                    *)
LEMMA PipeCloseStep ==
  ASSUME PipeAssumption, IInv, NEW p \in Procs, PipeClose(p)
  PROVE  Correct
<1>1. /\ pc[p] = "pipe_close" /\ s.slp[p] = "none" /\ UNCHANGED <<next, got>>
      /\ pc' = [pc EXCEPT ![p] = "closed"] /\ \A q \in Procs : pc'[q] = IF q = p THEN "closed" ELSE pc[q]
      /\ io' = io
      /\ s' \in States /\ s'.data = s.data /\ s'.off = s.off /\ s'.open = s.open \ {p}
      /\ s'.count = s.count - 1 /\ ~ s.locked /\ ~ s'.locked /\ s.count \in 1 .. 2
      /\ \A q \in Procs :
           s'.slp[q] \in {s.slp[q], "none"} /\ s'.slp[q] \notin {"ip+2", "ip+4"}
  <2>1. pc \in [Procs -> PCs] /\ io \in [Procs -> Calls] /\ s \in States
    BY DEF IInv, Types
  <2>2. /\ s' = [HangUp(s) EXCEPT !.open = @ \ {p}] /\ UNCHANGED <<io, next, got>> /\ ~ s.locked
        /\ pc' = [pc EXCEPT ![p] = "closed"] /\ pc[p] = "pipe_close" /\ s.slp[p] = "none"
    BY DEF PipeClose, At, Goto, Keep, NoBytes
  <2>3. s.count > 0 /\ s.count \in 0 .. 2
    <3>1. p \in s.open /\ End(p) \in {"r", "w"}
      BY <2>2 DEF IInv, LastCloses, End
    <3> QED
      BY <2>1, <3>1 DEF IInv, LastCloses, States
  <2> DEFINE v == HangUp(s)
  <2>4. /\ v \in States /\ v.data = s.data /\ v.off = s.off /\ v.open = s.open
        /\ v.count = s.count - 1 /\ ~ v.locked
        /\ \A q \in Procs :
             v.slp[q] \in {s.slp[q], "none"} /\ v.slp[q] \notin {"ip+2", "ip+4"}
    BY <2>1, <2>3, HangUpShape
  <2> HIDE DEF v
  <2>5. /\ s' \in States /\ s'.data = v.data /\ s'.off = v.off /\ s'.open = v.open \ {p}
        /\ s'.count = v.count /\ s'.locked = v.locked /\ s'.slp = v.slp
    BY <2>2, <2>4 DEF States, v
  <2> QED
    BY <2>1, <2>2, <2>3, <2>4, <2>5
<1>2. UNCHANGED <<next, got>> /\ Unread' = Unread
  BY <1>1 DEF Unread, Size
<1>10. Types'
  BY <1>1 DEF IInv, Types, Calls, PCs, Locks, NoCall
<1>11. Places'
  BY <1>1 DEF IInv, Places, ReadPCs, WritePCs, Locks
<1>12. LockOwned'
  BY <1>1 DEF IInv, LockOwned, LockedPCs
<1>13. LastCloses'
  <2>1. p \in s.open /\ p \in Procs /\ s.open \subseteq Procs /\ s.count \in 1 .. 2
    BY <1>1 DEF IInv, LastCloses, Types, States
  <2>2. \A q \in s'.open : q \in s.open /\ End(q) # End(p)
    BY <1>1 DEF IInv, LastCloses
  <2>3. (\E q \in s'.open : TRUE) => s.count = 2
    BY <2>1, <2>2 DEF IInv, LastCloses, End
  <2>4. (\E q \in s'.open : TRUE) => s'.count > 0
    BY <1>1, <2>3
  <2>5. ~ \E q, r \in s'.open : End(q) = "r" /\ End(r) = "w"
    BY <2>2 DEF End
  <2>6. \A q \in Procs : pc'[q] = "pipe_close" => \A r \in s'.open : End(r) = End(q) => r = q
    BY <1>1 DEF IInv, LastCloses
  <2>7. \A q \in Procs : q \in s'.open <=> pc'[q] # "closed"
    BY <1>1 DEF IInv, LastCloses
  <2> QED
    BY <2>4, <2>5, <2>6, <2>7 DEF LastCloses
<1>14. Bounded'
  BY <1>1 DEF IInv, Bounded, Size
<1>15. ChunksCounted'
  BY <1>1 DEF IInv, ChunksCounted
<1>16. SleepersFound'
  BY <1>1 DEF IInv, SleepersFound, Types, States, Chans
<1>17. Numbered'
  BY <1>1, <1>2 DEF IInv, Numbered
<1>18. SelectorsKept
  <2> DEFINE v == HangUp(s)
  <2>1. s \in States /\ s.count > 0 /\ s' = [v EXCEPT !.open = @ \ {p}]
    BY <1>1 DEF IInv, Types, PipeClose
  <2>2. /\ v \in States
        /\ \A q \in Procs : \A l :
             (l = "elsewhere" => s.slp[q] # "selwait")
             /\ (Waits(s, l, q) => Found(s, q)) => ~ Waits(v, l, q)
    BY <2>1, HangUpShape
  <2> HIDE DEF v
  <2>3. s'.slp = v.slp /\ s'.pselect = v.pselect /\ s'.stale = v.stale
    BY <2>1, <2>2 DEF States
  <2>4. ASSUME SelectorsFound, NEW q \in Procs
        PROVE  ~ Waits(s', pc'[q], q)
    <3>1. pc[q] = "elsewhere" => s.slp[q] # "selwait"
      BY DEF IInv, Places
    <3>2. ~ Waits(v, pc[q], q)
      BY <2>2, <2>4, <3>1 DEF SelectorsFound
    <3> QED
      BY <1>1, <2>3, <3>2 DEF Waits
  <2> QED
    BY <2>4 DEF SelectorsKept, SelectorsFound
<1>19. Streams
  BY <1>1, <1>2 DEF Streams
<1> QED
  BY <1>10, <1>11, <1>12, <1>13, <1>14, <1>15, <1>16, <1>17, <1>18, <1>19 DEF IInv, Correct

(* Somebody else has the end open as well.                                 *)
LEMMA CloseStep ==
  ASSUME PipeAssumption, IInv, NEW p \in Procs, Close(p),
         \E q \in s.open \ {p} : End(q) = End(p)
  PROVE  Correct
<1>1. /\ pc[p] = "user" /\ s.slp[p] = "none" /\ UNCHANGED <<next, got>>
      /\ pc' = [pc EXCEPT ![p] = "closed"] /\ \A q \in Procs : pc'[q] = IF q = p THEN "closed" ELSE pc[q]
      /\ io' = io
      /\ s' \in States /\ s'.data = s.data /\ s'.off = s.off /\ s'.open = s.open \ {p}
      /\ s'.count = s.count /\ SameFlags(s, s') /\ s'.slp = s.slp
  <2>1. pc \in [Procs -> PCs] /\ io \in [Procs -> Calls] /\ s \in States
    BY DEF IInv, Types
  <2>2. /\ s' = [s EXCEPT !.open = @ \ {p}] /\ UNCHANGED <<io, next, got>>
        /\ pc' = [pc EXCEPT ![p] = "closed"] /\ pc[p] = "user" /\ s.slp[p] = "none"
    BY DEF Close, At, Goto, Keep, NoBytes
  <2>3. /\ s' \in States /\ s'.data = s.data /\ s'.off = s.off /\ s'.open = s.open \ {p}
        /\ s'.count = s.count /\ SameFlags(s, s') /\ s'.slp = s.slp
    BY <2>1, <2>2 DEF States, SameFlags
  <2> QED
    BY <2>1, <2>2, <2>3
<1>2. UNCHANGED <<next, got>> /\ Unread' = Unread
  BY <1>1 DEF Unread, Size
<1>10. Types'
  BY <1>1 DEF IInv, Types, Calls, PCs, Locks, NoCall
<1>11. Places'
  BY <1>1 DEF IInv, Places, ReadPCs, WritePCs, Locks
<1>12. LockOwned'
  BY <1>1 DEF IInv, LockOwned, LockedPCs, SameFlags
<1>13. LastCloses'
  BY <1>1 DEF IInv, LastCloses
<1>14. Bounded'
  BY <1>1 DEF IInv, Bounded, Size
<1>15. ChunksCounted'
  BY <1>1 DEF IInv, ChunksCounted
<1>16. SleepersFound'
  BY <1>1 DEF IInv, SleepersFound, Telling, Size, SameFlags
<1>17. Numbered'
  BY <1>1, <1>2 DEF IInv, Numbered
<1>18. SelectorsKept
  <2>1. SameSelect(s, s')
    <3>1. s \in States /\ s' = [s EXCEPT !.open = @ \ {p}]
      BY DEF IInv, Types, Close
    <3> QED
      BY <3>1 DEF States, SameSelect
  <2> QED
    BY <1>1, <2>1 DEF SelectorsKept, SelectorsFound, Waits, Found, Telling, SameSelect, Size
<1>19. Streams
  BY <1>1, <1>2 DEF Streams
<1> QED
  BY <1>10, <1>11, <1>12, <1>13, <1>14, <1>15, <1>16, <1>17, <1>18, <1>19 DEF IInv, Correct

(* Nobody else has, so pipe_close is called.                               *)
LEMMA CloseLastStep ==
  ASSUME PipeAssumption, IInv, NEW p \in Procs, Close(p),
         ~ \E q \in s.open \ {p} : End(q) = End(p)
  PROVE  Correct
<1>1. /\ pc[p] = "user" /\ s.slp[p] = "none" /\ UNCHANGED <<next, got>>
      /\ pc' = [pc EXCEPT ![p] = "pipe_close"] /\ \A q \in Procs : pc'[q] = IF q = p THEN "pipe_close" ELSE pc[q]
      /\ io' = io
      /\ s' = s
  <2>1. pc \in [Procs -> PCs] /\ io \in [Procs -> Calls] /\ s \in States
    BY DEF IInv, Types
  <2>2. /\ s' = s /\ UNCHANGED <<io, next, got>>
        /\ pc' = [pc EXCEPT ![p] = "pipe_close"] /\ pc[p] = "user" /\ s.slp[p] = "none"
    BY DEF Close, At, Goto, Keep, NoBytes
  <2> QED
    BY <2>1, <2>2
<1>2. SameFile(s, s') /\ UNCHANGED <<next, got>> /\ Unread' = Unread
  BY <1>1 DEF SameFile, Unread, Size
<1>10. Types'
  BY <1>1 DEF IInv, Types, Calls, PCs, Locks, NoCall
<1>11. Places'
  BY <1>1 DEF IInv, Places, ReadPCs, WritePCs, Locks
<1>12. LockOwned'
  BY <1>1 DEF IInv, LockOwned, LockedPCs
<1>13. LastCloses'
  BY <1>1 DEF IInv, LastCloses, SameFile
<1>14. Bounded'
  BY <1>1 DEF IInv, Bounded, SameFile, Size
<1>15. ChunksCounted'
  BY <1>1 DEF IInv, ChunksCounted
<1>16. SleepersFound'
  BY <1>1 DEF IInv, SleepersFound, Places, LockOwned, LockedPCs, Telling, Size, SameFile
<1>17. Numbered'
  BY <1>1, <1>2 DEF IInv, Numbered
<1>18. SelectorsKept
  BY <1>1 DEF IInv, Places, SelectorsKept, SelectorsFound, Waits, Found, Telling,
     SameFile, SameSelect, Size
<1>19. Streams
  BY <1>1, <1>2 DEF Streams
<1> QED
  BY <1>10, <1>11, <1>12, <1>13, <1>14, <1>15, <1>16, <1>17, <1>18, <1>19 DEF IInv, Correct

(* A signal or a timeout ends a sleep.                                     *)
LEMMA InterruptStep ==
  ASSUME PipeAssumption, IInv, NEW p \in Procs, Interrupt(p)
  PROVE  Correct
<1>3. pc \in [Procs -> PCs] /\ io \in [Procs -> Calls] /\ s \in States /\ "none" \in Chans
  BY DEF IInv, Types, Chans
<1>4. /\ s' = Sleep(s, p, "none") /\ UNCHANGED <<next, got>>
      /\ pc' = [pc EXCEPT ![p] = "user"] /\ io' = [io EXCEPT ![p] = NoCall]
      /\ s.slp[p] \in {"ip+2", "ip+4", "selwait"}
  BY DEF Interrupt, Return, Goto, NoBytes
<1>5. /\ s' \in States /\ SameFile(s, s') /\ SameFlags(s, s') /\ SameSelect(s, s')
      /\ \A q \in Procs : s'.slp[q] = IF q = p THEN "none" ELSE s.slp[q]
  BY <1>3, <1>4, SleepShape
<1>6. pc[p] \in {"readp", "relock", "retry"}
  BY <1>4 DEF IInv, Places
<1>1. /\ pc[p] \in {"readp", "relock", "retry"} /\ UNCHANGED <<next, got>>
      /\ pc' = [pc EXCEPT ![p] = "user"] /\ \A q \in Procs : pc'[q] = IF q = p THEN "user" ELSE pc[q]
      /\ io' = [io EXCEPT ![p] = NoCall] /\ \A q \in Procs : q # p => io'[q] = io[q]
      /\ s' \in States /\ SameFile(s, s') /\ SameFlags(s, s')
      /\ \A q \in Procs : s'.slp[q] = IF q = p THEN "none" ELSE s.slp[q]
  BY <1>3, <1>4, <1>5, <1>6
<1>2. SameFile(s, s') /\ UNCHANGED <<next, got>> /\ Unread' = Unread
  BY <1>1 DEF SameFile, Unread, Size
<1>10. Types'
  BY <1>1 DEF IInv, Types, Calls, PCs, Locks, NoCall
<1>11. Places'
  BY <1>1 DEF IInv, Places, ReadPCs, WritePCs, Locks
<1>12. LockOwned'
  BY <1>1 DEF IInv, LockOwned, LockedPCs, SameFlags
<1>13. LastCloses'
  BY <1>1 DEF IInv, LastCloses, SameFile
<1>14. Bounded'
  BY <1>1 DEF IInv, Bounded, SameFile, Size
<1>15. ChunksCounted'
  BY <1>1 DEF IInv, ChunksCounted
<1>16. SleepersFound'
  BY <1>1 DEF IInv, SleepersFound, Telling, Size, SameFile, SameFlags
<1>17. Numbered'
  BY <1>1, <1>2 DEF IInv, Numbered
<1>18. SelectorsKept
  BY <1>1, <1>5 DEF SelectorsKept, SelectorsFound, Waits, Found, Telling,
     SameFile, SameSelect, Size
<1>19. Streams
  BY <1>1, <1>2 DEF Streams
<1> QED
  BY <1>10, <1>11, <1>12, <1>13, <1>14, <1>15, <1>16, <1>17, <1>18, <1>19 DEF IInv, Correct

LEMMA MovedShape ==
  ASSUME NEW r \in Calls, NEW n \in Nat, n <= r.resid
  PROVE  /\ Moved(r, n) \in Calls /\ Moved(r, n).resid <= r.resid
         /\ Moved(r, n).c = r.c /\ Moved(r, n).count = r.count
<1>1. r.resid \in Nat /\ r.put \in Nat
  BY DEF Calls
<1> DEFINE e == IF n < r.resid THEN 1 ELSE 0
<1>2. r.resid - n \in Nat /\ r.resid - n <= r.resid /\ r.put + n \in Nat /\ e \in 0 .. 1
  BY <1>1
<1> HIDE DEF e
<1>3. Moved(r, n) = [r EXCEPT !.resid = @ - n, !.put = @ + n, !.error = e]
  BY DEF Moved, e
<1> QED
  BY <1>2, <1>3 DEF Calls

(* rwip puts bytes at the end of the file.                                 *)
LEMMA RwipWriteStep ==
  ASSUME PipeAssumption, IInv, NEW p \in Procs, RwipWrite(p)
  PROVE  Correct
<1>3. /\ pc \in [Procs -> PCs] /\ io \in [Procs -> Calls] /\ io[p] \in Calls /\ s \in States
      /\ next \in [Writers -> Nat] /\ MAXPIPSIZ \in Nat
  BY DEF IInv, Types, PipeAssumption
<1>4. /\ pc[p] = "rwip_write" /\ s.slp[p] = "none" /\ pc' = [pc EXCEPT ![p] = "write_end"]
      /\ got' = got
  BY DEF RwipWrite, At, Goto
<1>5. PICK n \in 0 .. io[p].resid :
        /\ s' = [s EXCEPT !.data = @ \o NewBytes(p, n)]
        /\ next' = [next EXCEPT ![p] = @ + n]
        /\ io' = [io EXCEPT ![p] = Moved(@, n)]
  BY DEF RwipWrite
<1>6. n \in Nat /\ n <= io[p].resid /\ p \in Writers
  BY <1>3, <1>4 DEF IInv, Places, WritePCs, Calls
<1>7. /\ Moved(io[p], n) \in Calls /\ Moved(io[p], n).resid <= io[p].resid
      /\ Moved(io[p], n).c = io[p].c /\ Moved(io[p], n).count = io[p].count
  BY <1>3, <1>6, MovedShape
<1>8. /\ io' \in [Procs -> Calls] /\ io'[p].resid <= io[p].resid /\ io'[p].c = io[p].c
      /\ io'[p].count = io[p].count /\ \A q \in Procs : q # p => io'[q] = io[q]
  BY <1>3, <1>5, <1>7
<1>9. /\ s' \in States /\ s'.off = s.off /\ s'.count = s.count /\ s'.open = s.open
      /\ SameFlags(s, s') /\ SameSelect(s, s') /\ s'.slp = s.slp
      /\ Size(s') = Size(s) + n
      /\ Unread' = Unread \o NewBytes(p, n)
      /\ NewBytes(p, n) \in Seq(Bytes) /\ Len(NewBytes(p, n)) = n
      /\ \A j \in 1 .. n : NewBytes(p, n)[j] = <<p, next[p] + j - 1>>
  BY <1>5, <1>6, RwipWriteShape
<1>1. /\ pc[p] = "rwip_write" /\ s.slp[p] = "none"
      /\ \A q \in Procs : pc'[q] = IF q = p THEN "write_end" ELSE pc[q]
      /\ io'[p].resid <= io[p].resid /\ io'[p].c = io[p].c
      /\ io'[p].count = io[p].count /\ \A q \in Procs : q # p => io'[q] = io[q]
      /\ s'.off = s.off /\ s'.count = s.count /\ s'.open = s.open
      /\ SameFlags(s, s') /\ s'.slp = s.slp /\ Size(s') = Size(s) + n
  BY <1>3, <1>4, <1>8, <1>9
<1>2. /\ io[p].resid <= MAXPIPSIZ /\ Size(s) < MAXPIPSIZ /\ Size(s) \in Nat /\ s.off \in Nat
      /\ s.off <= Size(s) /\ io[p].resid \in Nat /\ io'[p].resid \in Nat
  BY <1>1, <1>3, <1>8, SMTT(30) DEF IInv, Bounded, Size, States, Calls
<1>10. Types'
  <2>1. next' \in [Writers -> Nat] /\ pc' \in [Procs -> PCs]
    BY <1>3, <1>4, <1>5, <1>6 DEF PCs
  <2> QED
    BY <1>4, <1>8, <1>9, <2>1 DEF IInv, Types
<1>11. Places'
  BY <1>1 DEF IInv, Places, ReadPCs, WritePCs, Locks
<1>12. LockOwned'
  BY <1>1 DEF IInv, LockOwned, LockedPCs, SameFlags
<1>13. LastCloses'
  BY <1>1 DEF IInv, LastCloses
<1>14. Bounded'
  <2>1. s'.off <= Size(s') /\ Size(s') < 2 * MAXPIPSIZ
    BY <1>1, <1>2, <1>3, <1>6
  <2>2. s'.off = Size(s') => Size(s') = 0
    <3>1. s.off = Size(s) => Size(s) = 0
      BY <1>1 DEF IInv, Bounded, LockOwned, LockedPCs
    <3> QED
      BY <1>1, <1>2, <1>6, <3>1
  <2>3. \A q \in Procs : pc'[q] \notin {"rwip_read", "rwip_write"}
    BY <1>1 DEF IInv, LockOwned, LockedPCs
  <2>4. \A q \in Procs : pc'[q] = "readp" => io'[q].resid > 0
    BY <1>1 DEF IInv, Bounded
  <2> QED
    BY <2>1, <2>2, <2>3, <2>4 DEF Bounded
<1>15. ChunksCounted'
  <2>1. io'[p].resid <= MAXPIPSIZ
    BY <1>1, <1>2, <1>3
  <2> QED
    BY <1>1, <2>1 DEF IInv, ChunksCounted
<1>16. SleepersFound'
  <2>1. Telling'
    BY <1>1 DEF Telling
  <2>2. \A q \in Procs : s.slp[q] # "ip+2"
    BY <1>2, <1>3 DEF IInv, SleepersFound
  <2> QED
    BY <1>1, <2>1, <2>2 DEF IInv, SleepersFound, SameFlags
<1>17. Numbered'
  BY <1>4, <1>5, <1>6, <1>9, NumberedPut DEF IInv
<1>18. SelectorsKept
  <2>1. Telling'
    BY <1>1 DEF Telling
  <2>2. \A q \in Procs : Waits(s', pc'[q], q) => Waits(s, pc[q], q) /\ (Found(s, q) => Found(s', q))
    BY <1>1, <1>9 DEF Waits, Found, SameSelect
  <2>3. ~ (Size(s) >= MAXPIPSIZ)
    BY <1>2, <1>3
  <2> QED
    BY <1>1, <2>1, <2>2, <2>3 DEF SelectorsKept, SelectorsFound
<1>19. Streams
  <2>1. CASE n = 0
    <3>1. Unread \in Seq(Bytes)
      BY UnreadShape DEF IInv
    <3>2. NewBytes(p, n) = << >>
      BY <1>9, <2>1
    <3>3. Unread' = Unread
      BY <1>9, <3>1, <3>2
    <3>4. next' = next
      BY <1>3, <1>5, <1>6, <2>1
    <3> QED
      BY <1>4, <3>3, <3>4 DEF Streams
  <2>2. CASE n # 0
    <3>1. n \in 1 .. MAXPIPSIZ
      BY <1>2, <1>3, <1>6, <2>2
    <3>2. S!Put(p, n)
      BY <1>4, <1>5, <1>9 DEF S!Put, NewBytes
    <3> QED
      BY <1>6, <3>1, <3>2 DEF Streams, S!StreamNext
  <2> QED
    BY <2>1, <2>2
<1> QED
  BY <1>10, <1>11, <1>12, <1>13, <1>14, <1>15, <1>16, <1>17, <1>18, <1>19 DEF IInv, Correct

(* rwip takes bytes at the readers' offset.                                *)
LEMMA RwipReadSome ==
  ASSUME PipeAssumption, IInv, NEW p \in Procs, RwipRead(p),
         \E n \in 1 .. Len(Unread) : Takes(p, n)
  PROVE  Correct
<1>3. /\ pc \in [Procs -> PCs] /\ io \in [Procs -> Calls] /\ io[p] \in Calls /\ s \in States
  BY DEF IInv, Types
<1>4. /\ pc[p] = "rwip_read" /\ s.slp[p] = "none" /\ pc' = [pc EXCEPT ![p] = "read_end"]
  BY DEF RwipRead, At, Goto
<1>5. PICK n \in 1 .. Len(Unread) :
           /\ s' \in States /\ s'.data = s.data /\ s'.off = s.off + n
           /\ s'.count = s.count /\ s'.open = s.open
           /\ SameFlags(s, s') /\ SameSelect(s, s') /\ s'.slp = s.slp
           /\ io' = [io EXCEPT ![p].resid = @ - n] /\ n <= io[p].resid
           /\ Unread' = SubSeq(Unread, n + 1, Len(Unread))
           /\ got' = IF n = Len(Unread) THEN NoneYet
                     ELSE [w \in Writers |-> got[w] + Count(Unread, w, n)]
           /\ next' = IF n = Len(Unread) THEN NoneYet ELSE next
  BY DEF Takes
<1>6. /\ Len(Unread) = Size(s) - s.off /\ s.off \in Nat /\ Size(s) \in Nat
      /\ n \in Nat /\ n <= Size(s) - s.off
  BY <1>5, UnreadShape DEF IInv
<1>7. io[p].resid - n \in Nat
  <2>1. io[p].resid \in Nat
    BY <1>3 DEF Calls
  <2>2. n \in Nat /\ n <= io[p].resid
    BY <1>5, <1>6
  <2> QED
    BY <2>1, <2>2
<1>8. io' \in [Procs -> Calls] /\ \A q \in Procs : q # p => io'[q] = io[q]
  BY <1>3, <1>5, <1>7 DEF Calls
<1>1. /\ pc[p] = "rwip_read" /\ s.slp[p] = "none"
      /\ \A q \in Procs : pc'[q] = IF q = p THEN "read_end" ELSE pc[q]
      /\ \A q \in Procs : q # p => io'[q] = io[q]
      /\ s'.data = s.data /\ s'.off = s.off + n /\ s'.count = s.count /\ s'.open = s.open
      /\ SameFlags(s, s') /\ s'.slp = s.slp
  BY <1>3, <1>4, <1>5, <1>8
<1>10. Types'
  <2>1. pc' \in [Procs -> PCs]
    BY <1>3, <1>4 DEF PCs
  <2>2. NoneYet \in [Writers -> Nat]
    BY DEF NoneYet
  <2>3. \A w \in Writers : got[w] + Count(Unread, w, n) \in Nat
    <3>1. \A w \in Writers : Count(Unread, w, n) \in Nat
      BY <1>6, CountNat
    <3> QED
      BY <3>1 DEF IInv, Types
  <2>4. got' \in [Writers -> Nat] /\ next' \in [Writers -> Nat]
    BY <1>5, <2>2, <2>3 DEF IInv, Types
  <2> QED
    BY <1>5, <1>8, <2>1, <2>4 DEF Types
<1>11. Places'
  BY <1>1 DEF IInv, Places, ReadPCs, WritePCs, Locks
<1>12. LockOwned'
  BY <1>1 DEF IInv, LockOwned, LockedPCs, SameFlags
<1>13. LastCloses'
  BY <1>1 DEF IInv, LastCloses
<1>14. Bounded'
  <2>1. s'.off <= Size(s') /\ Size(s') = Size(s)
    BY <1>1, <1>6 DEF Size
  <2>2. \E q \in Procs : pc'[q] = "read_end"
    BY <1>1
  <2>3. \A q \in Procs : pc'[q] \notin {"rwip_read", "rwip_write"}
    BY <1>1 DEF IInv, LockOwned, LockedPCs
  <2>4. \A q \in Procs : pc'[q] = "readp" => io'[q].resid > 0
    BY <1>1 DEF IInv, Bounded
  <2> QED
    BY <2>1, <2>2, <2>3, <2>4 DEF IInv, Bounded
<1>15. ChunksCounted'
  BY <1>1 DEF IInv, ChunksCounted
<1>16. SleepersFound'
  BY <1>1 DEF IInv, SleepersFound, Telling, Size, SameFlags
<1>17. Numbered'
  BY <1>5, NumberedGet DEF IInv
<1>18. SelectorsKept
  BY <1>1, <1>5, ZenonT(60) DEF SelectorsKept, SelectorsFound, Waits, Found, Telling, SameSelect, Size
<1>19. Streams
  <2>1. Unread \in Seq(Bytes) /\ Len(Unread) \in Nat
    BY UnreadShape DEF IInv
  <2>2. Unread' = << >> <=> n = Len(Unread)
    <3>1. Unread' \in Seq(Bytes) /\ Len(Unread') = Len(Unread) - n
      BY <1>5, <2>1
    <3> QED
      BY <1>6, <2>1, <3>1
  <2>3. \A w : \A m : S!Cardinality(S!From(w, m)) = Count(Unread, w, m)
    BY StreamCardinality DEF S!From, Count
  <2>4. \A i \in 1 .. n : i \in 1 .. Len(Unread)
    BY <1>5
  <2>5. \A w \in Writers : \A i \in S!From(w, n) :
          Unread[i][2] = got[w] + S!Cardinality(S!From(w, i)) - 1
    <3>1. ASSUME NEW w \in Writers, NEW i \in S!From(w, n)
          PROVE  Unread[i][2] = got[w] + S!Cardinality(S!From(w, i)) - 1
      <4>1. i \in 1 .. Len(Unread) /\ Unread[i][1] = w
        BY <2>4, <3>1 DEF S!From
      <4>2. Unread[i][2] = got[w] + Count(Unread, w, i) - 1
        BY <4>1 DEF IInv, Numbered, Numbering
      <4> QED
        BY <2>3, <4>2
    <3> QED
      BY <3>1
  <2>6. S!Zero = NoneYet
    BY DEF S!Zero, NoneYet
  <2>7. [w \in Writers |-> got[w] + S!Cardinality(S!From(w, n))]
          = [w \in Writers |-> got[w] + Count(Unread, w, n)]
    BY <2>3
  <2>8. /\ got' = IF Unread' = << >> THEN S!Zero
                  ELSE [w \in Writers |-> got[w] + S!Cardinality(S!From(w, n))]
        /\ next' = IF Unread' = << >> THEN S!Zero ELSE next
    BY <1>5, <2>2, <2>6, <2>7
  <2>9. S!Get(n)
    <3>1. Unread' = SubSeq(Unread, n + 1, Len(Unread))
      BY <1>5
    <3> QED
      BY <2>5, <2>8, <3>1 DEF S!Get
  <2> QED
    BY <2>9 DEF Streams, S!StreamNext
<1> QED
  BY <1>10, <1>11, <1>12, <1>13, <1>14, <1>15, <1>16, <1>17, <1>18, <1>19 DEF IInv, Correct

(* rwip fails on the first byte: nothing is read.                          *)
LEMMA RwipReadNone ==
  ASSUME PipeAssumption, IInv, NEW p \in Procs, RwipRead(p), UNCHANGED <<s, io, next, got>>
  PROVE  Correct
<1>1. /\ pc[p] = "rwip_read" /\ pc \in [Procs -> PCs] /\ pc' = [pc EXCEPT ![p] = "read_end"]
  BY DEF IInv, Types, RwipRead, At, Goto
<1>2. \A q \in Procs : pc'[q] = IF q = p THEN "read_end" ELSE pc[q]
  BY <1>1
<1>3. Unread' = Unread
  BY DEF Unread, Size
<1>4. Types'
  BY <1>1 DEF IInv, Types, PCs
<1>5. Places'
  BY <1>1, <1>2 DEF IInv, Places, ReadPCs, WritePCs, Locks
<1>6. LockOwned'
  BY <1>1, <1>2 DEF IInv, LockOwned, LockedPCs
<1>7. LastCloses'
  BY <1>1, <1>2 DEF IInv, LastCloses
<1>8. Bounded'
  <2>1. \A q \in Procs : pc'[q] \notin {"rwip_read", "rwip_write"}
    BY <1>1, <1>2 DEF IInv, LockOwned, LockedPCs
  <2> QED
    BY <1>1, <1>2, <2>1 DEF IInv, Bounded, Size
<1>9. ChunksCounted'
  BY <1>1, <1>2 DEF IInv, ChunksCounted
<1>10. SleepersFound'
  BY <1>1, <1>2 DEF IInv, SleepersFound, Telling, Size
<1>11. Numbered'
  BY <1>3 DEF IInv, Numbered, Numbering
<1>12. SelectorsKept
  BY <1>1, <1>2, ZenonT(60) DEF SelectorsKept, SelectorsFound, Waits, Found, Telling, Size
<1>13. Streams
  BY <1>3 DEF Streams
<1> QED
  BY <1>4, <1>5, <1>6, <1>7, <1>8, <1>9, <1>10, <1>11, <1>12, <1>13 DEF IInv, Correct

LEMMA RwipReadStep ==
  ASSUME PipeAssumption, IInv, NEW p \in Procs, RwipRead(p)
  PROVE  Correct
BY RwipReadShape, RwipReadSome, RwipReadNone

(* read is done, and has caught up or not.                                 *)
LEMMA ReadEndStep ==
  ASSUME PipeAssumption, IInv, NEW p \in Procs, ReadEnd(p)
  PROVE  Correct
<1>3. pc \in [Procs -> PCs] /\ io \in [Procs -> Calls] /\ s \in States
  BY DEF IInv, Types
<1>4. /\ s' = Unlock(CaughtUp(s)) /\ UNCHANGED <<next, got>>
      /\ pc' = [pc EXCEPT ![p] = "user"] /\ io' = [io EXCEPT ![p] = NoCall]
      /\ pc[p] = "read_end" /\ s.slp[p] = "none"
  BY DEF ReadEnd, At, Goto, Return, NoBytes
<1> DEFINE u == CaughtUp(s)
<1>5. /\ u \in States /\ u.count = s.count /\ u.open = s.open
      /\ u.locked = s.locked /\ u.want = s.want /\ u.iread = s.iread
      /\ \A q \in Procs : u.slp[q] \in {s.slp[q], "none"}
      /\ IF s.off = Size(s)
           THEN u.data = << >> /\ u.off = 0 /\ (s.iwrite => \A q \in Procs : u.slp[q] # "ip+2")
           ELSE u = s
  <2>1. CASE s.off = Size(s)
    BY <1>3, <2>1, CaughtUpShape
  <2>2. CASE s.off # Size(s)
    BY <1>3, <2>2 DEF CaughtUp
  <2> QED
    BY <2>1, <2>2
<1> HIDE DEF u
<1>6. /\ s' \in States /\ SameFile(u, s')
      /\ ~ s'.locked /\ ~ s'.want /\ s'.iread = u.iread /\ s'.iwrite = u.iwrite
      /\ \A q \in Procs :
           s'.slp[q] = IF u.want /\ u.slp[q] = "ip" THEN "none" ELSE u.slp[q]
  BY <1>4, <1>5, UnlockShape DEF u
<1>1. /\ pc[p] = "read_end" /\ s.slp[p] = "none" /\ UNCHANGED <<next, got>>
      /\ pc' = [pc EXCEPT ![p] = "user"] /\ \A q \in Procs : pc'[q] = IF q = p THEN "user" ELSE pc[q]
      /\ io' = [io EXCEPT ![p] = NoCall] /\ \A q \in Procs : q # p => io'[q] = io[q]
      /\ s' \in States /\ s'.count = s.count /\ s'.open = s.open
      /\ ~ s'.locked /\ s'.iread = s.iread
      /\ \A q \in Procs : s'.slp[q] \in {s.slp[q], "none"}
      /\ s.want => \A q \in Procs : s'.slp[q] # "ip"
  BY <1>3, <1>4, <1>5, <1>6 DEF SameFile
<1>7. /\ s.off = Size(s) =>
           /\ s'.data = << >> /\ s'.off = 0
           /\ s.iwrite => \A q \in Procs : s'.slp[q] # "ip+2"
      /\ s.off # Size(s) => s'.data = s.data /\ s'.off = s.off /\ s'.iwrite = s.iwrite
  BY <1>5, <1>6 DEF SameFile
<1>8. Len(<< >>) = 0
  OBVIOUS
<1>2. UNCHANGED <<next, got>> /\ Unread' = Unread
  <2>1. CASE s.off = Size(s)
    <3>1. \A d \in Seq(Bytes) : SubSeq(d, Len(d) + 1, Len(d)) = << >>
      OBVIOUS
    <3>2. s.data \in Seq(Bytes) /\ << >> \in Seq(Bytes)
      BY <1>3 DEF States
    <3>3. Unread = << >>
      BY <2>1, <3>1, <3>2 DEF Unread, Size
    <3>4. Unread' = SubSeq(<< >>, 0 + 1, Len(<< >>))
      BY <1>7, <2>1 DEF Unread, Size
    <3>5. Unread' = << >>
      BY <3>1, <3>2, <3>4
    <3> QED
      BY <1>1, <3>3, <3>5
  <2>2. CASE s.off # Size(s)
    BY <1>1, <1>7, <2>2 DEF Unread, Size
  <2> QED
    BY <2>1, <2>2
<1>10. Types'
  BY <1>1 DEF IInv, Types, Calls, PCs, Locks, NoCall
<1>11. Places'
  BY <1>1 DEF IInv, Places, ReadPCs, WritePCs, Locks
<1>12. LockOwned'
  BY <1>1 DEF IInv, LockOwned, LockedPCs
<1>13. LastCloses'
  BY <1>1 DEF IInv, LastCloses
<1>14. Bounded'
  <2>1. \A q \in Procs : pc'[q] \notin {"rwip_read", "rwip_write"}
    BY <1>1 DEF IInv, LockOwned, LockedPCs
  <2>2. \A q \in Procs : pc'[q] = "readp" => io'[q].resid > 0
    BY <1>1 DEF IInv, Bounded
  <2>3. s'.off <= Size(s') /\ Size(s') < 2 * MAXPIPSIZ /\ (s'.off = Size(s') => Size(s') = 0)
    <3>1. CASE s.off = Size(s)
      BY <1>7, <1>8, <3>1 DEF Size, PipeAssumption
    <3>2. CASE s.off # Size(s)
      BY <1>7, <3>2 DEF IInv, Bounded, Size
    <3> QED
      BY <3>1, <3>2
  <2> QED
    BY <2>1, <2>2, <2>3 DEF Bounded
<1>15. ChunksCounted'
  BY <1>1 DEF IInv, ChunksCounted
<1>16. SleepersFound'
  <2>1. Telling' <=> Telling
    BY <1>1 DEF Telling
  <2>2. CASE s.off = Size(s)
    <3>1. Size(s') = 0
      BY <1>7, <1>8, <2>2 DEF Size
    <3> QED
      BY <1>1, <1>7, <2>1, <2>2, <3>1 DEF IInv, SleepersFound
  <2>3. CASE s.off # Size(s)
    <3>1. Size(s') = Size(s)
      BY <1>7, <2>3 DEF Size
    <3> QED
      BY <1>1, <1>7, <2>1, <2>3, <3>1 DEF IInv, SleepersFound
  <2> QED
    BY <2>2, <2>3
<1>17. Numbered'
  BY <1>1, <1>2 DEF IInv, Numbered
<1>18. SelectorsKept
  <2>1. SameSelect(u, s')
    BY <1>4, <1>5, UnlockShape DEF u
  <2>2. \A q \in Procs : Waits(s', pc'[q], q) => Waits(u, pc[q], q)
    BY <1>1, <1>6, <2>1 DEF Waits, SameSelect
  <2>3. \A q \in Procs : Found(u, q) => Found(s', q)
    BY <2>1 DEF Found, SameSelect
  <2>4. \A q \in Procs :
          /\ Waits(u, pc[q], q) => Waits(s, pc[q], q)
          /\ Found(s, q) =>
               IF s.off = Size(s) /\ End(q) = "w" THEN ~ Waits(u, pc[q], q) ELSE Found(u, q)
    <3>1. CASE s.off = Size(s)
      <4>1. \A q \in Procs : \A l :
              (l = "elsewhere" => s.slp[q] # "selwait") =>
              /\ Waits(u, l, q) => Waits(s, l, q)
              /\ Found(s, q) => IF End(q) = "w" THEN ~ Waits(u, l, q) ELSE Found(u, q)
        BY <1>3, <3>1, CaughtUpShape DEF u
      <4>2. \A q \in Procs : pc[q] = "elsewhere" => s.slp[q] # "selwait"
        BY DEF IInv, Places
      <4> QED
        BY <3>1, <4>1, <4>2
    <3>2. CASE s.off # Size(s)
      BY <1>5, <3>2
    <3> QED
      BY <3>1, <3>2
  <2>5. Telling' <=> Telling
    BY <1>1 DEF Telling
  <2>6. IF s.off = Size(s) THEN Size(s') = 0 ELSE Size(s') = Size(s)
    BY <1>7, <1>8 DEF Size
  <2>7. ASSUME SelectorsFound, NEW q \in Procs, Waits(s', pc'[q], q)
        PROVE  /\ Found(s', q) /\ s'.count = 2
               /\ End(q) = "r" => Size(s') = 0 \/ Telling'
               /\ End(q) = "w" => Size(s') >= MAXPIPSIZ
    <3>1. Waits(u, pc[q], q) /\ Waits(s, pc[q], q)
      BY <2>2, <2>4, <2>7
    <3>2. /\ Found(s, q) /\ s.count = 2
          /\ End(q) = "r" => Size(s) = 0 \/ Telling
          /\ End(q) = "w" => Size(s) >= MAXPIPSIZ
      BY <2>7, <3>1 DEF SelectorsFound
    <3>3. Found(s', q) /\ ~ (s.off = Size(s) /\ End(q) = "w")
      BY <2>3, <2>4, <3>1, <3>2
    <3> QED
      BY <1>1, <2>5, <2>6, <3>2, <3>3
  <2> QED
    BY <2>7 DEF SelectorsKept, SelectorsFound
<1>19. Streams
  BY <1>1, <1>2 DEF Streams
<1> QED
  BY <1>10, <1>11, <1>12, <1>13, <1>14, <1>15, <1>16, <1>17, <1>18, <1>19 DEF IInv, Correct

-----------------------------------------------------------------------------
LEMMA InitCorrect ==
  ASSUME PipeAssumption, Init
  PROVE  IInv /\ SelectorsFound /\ S!StreamInit
<1> DEFINE t == [ data |-> << >>, off |-> 0, count |-> 2,
                  locked |-> FALSE, want |-> FALSE, iread |-> FALSE, iwrite |-> FALSE,
                  sel |-> [e \in Ends |-> NoProc], coll |-> {}, open |-> Procs,
                  slp |-> [p \in Procs |-> "none"], pselect |-> {}, stale |-> {} ]
<1>1. /\ s = t /\ pc = [p \in Procs |-> "user"] /\ io = [p \in Procs |-> NoCall]
      /\ next = NoneYet /\ got = NoneYet
  BY DEF Init
<1>2. << >> \in Seq(Bytes) /\ Len(<< >>) = 0 /\ "none" \in Chans
  BY DEF Chans
<1>3. s \in States
  BY <1>1, <1>2 DEF States
<1>4. /\ s.data = << >> /\ s.off = 0 /\ s.count = 2 /\ s.locked = FALSE /\ s.open = Procs
      /\ \A p \in Procs : s.slp[p] = "none" /\ pc[p] = "user"
  BY <1>1
<1> HIDE DEF t
<1>5. Unread = << >> /\ Len(Unread) = 0 /\ Size(s) = 0
  BY <1>2, <1>4 DEF Unread, Size
<1>10. Types
  <2>1. NoCall \in Calls /\ "user" \in PCs
    BY DEF NoCall, Calls, PCs
  <2> QED
    BY <1>1, <1>3, <2>1 DEF Types, NoneYet
<1>11. Places
  BY <1>4 DEF Places, ReadPCs, WritePCs
<1>12. LockOwned
  BY <1>4 DEF LockOwned, LockedPCs
<1>13. LastCloses
  BY <1>4 DEF LastCloses
<1>14. Bounded
  BY <1>4, <1>5 DEF Bounded, PipeAssumption
<1>15. ChunksCounted
  BY <1>4 DEF ChunksCounted
<1>16. SleepersFound /\ SelectorsFound
  BY <1>4 DEF SleepersFound, SelectorsFound, Waits
<1>17. Numbered
  <2>1. \A w \in Writers : Count(Unread, w, 0) = 0 /\ next[w] = 0 /\ got[w] = 0
    BY <1>1, CountNat DEF NoneYet
  <2> QED
    BY <1>5, <2>1 DEF Numbered, Numbering
<1>18. S!StreamInit
  BY <1>1, <1>5 DEF S!StreamInit, S!Zero, NoneYet
<1> QED
  BY <1>10, <1>11, <1>12, <1>13, <1>14, <1>15, <1>16, <1>17, <1>18 DEF IInv

(* Every step is correct.                                                  *)
LEMMA NextCorrect ==
  ASSUME PipeAssumption, IInv, [Next]_vars
  PROVE  Correct
<1>1. CASE UNCHANGED vars
  <2>1. IInv'
    BY <1>1 DEF vars, IInv, Types, Places, LockOwned, LastCloses, Bounded, ChunksCounted,
       SleepersFound, Telling, Numbered, Unread
  <2>2. SelectorsKept
    BY <1>1 DEF vars, SelectorsKept, SelectorsFound, Telling
  <2>3. Streams
    BY <1>1 DEF vars, Streams, Unread
  <2> QED
    BY <2>1, <2>2, <2>3 DEF Correct
<1>2. ASSUME NEW p \in Procs, NEW n \in ReadSizes, Read(p, n)
      PROVE  Correct
  BY <1>2, CallStep DEF PipeAssumption
<1>3. ASSUME NEW p \in Procs, NEW n \in WriteSizes, Write(p, n)
      PROVE  Correct
  BY <1>3, CallStep DEF PipeAssumption
<1>4. ASSUME NEW p \in Procs, Select(p) \/ SelectRetry(p)
      PROVE  Correct
  BY <1>4, SelectFromStep DEF Select, SelectRetry
<1>5. ASSUME NEW p \in Procs, Close(p)
      PROVE  Correct
  BY <1>5, CloseStep, CloseLastStep
<1>6. ASSUME NEW p \in Procs, Interrupt(p)
      PROVE  Correct
  BY <1>6, InterruptStep
<1>7. ASSUME NEW p \in Procs, NEW l \in Locks, LockBusy(p, l)
      PROVE  Correct
  BY <1>7, LockBusyStep
<1>8. ASSUME NEW p \in Procs, ReadEmpty(p)
      PROVE  Correct
  <2>1. CASE pc' = pc
    BY <1>8, <2>1, ReadEmptySleepStep
  <2>2. CASE pc' # pc
    <3>1. s' = s /\ pc' = [pc EXCEPT ![p] = "user"]
      BY <1>8, <2>2 DEF ReadEmpty, Return, Goto
    <3>2. pc'[p] # "readp"
      BY <3>1 DEF IInv, Types
    <3> QED
      BY <1>8, <3>1, <3>2, ReadEmptyReturnStep
  <2> QED
    BY <2>1, <2>2
<1>9. ASSUME NEW p \in Procs, ReadLock(p) \/ RwipRead(p) \/ ReadEnd(p)
      PROVE  Correct
  BY <1>9, ReadLockStep, RwipReadStep, ReadEndStep
<1>10. ASSUME NEW p \in Procs, WriteLock(p) \/ WriteRelock(p)
       PROVE  Correct
  BY <1>10, WriteLockStep, WriteLockReturnStep, WriteRelockStep
<1>11. ASSUME NEW p \in Procs, WriteDone(p) \/ WriteBroken(p) \/ WriteFull(p)
       PROVE  Correct
  BY <1>11, WriteDoneStep, WriteBrokenStep, WriteFullStep
<1>12. ASSUME NEW p \in Procs, WriteChunk(p) \/ RwipWrite(p) \/ WriteEnd(p)
       PROVE  Correct
  BY <1>12, WriteChunkStep, RwipWriteStep, WriteEndStep
<1>13. ASSUME NEW p \in Procs, Selscan(p)
       PROVE  Correct
  BY <1>13, SelscanReadyStep, SelscanElsewhereStep, SelscanRestStep
<1>14. ASSUME NEW p \in Procs, SelectElsewhere(p) \/ PipeClose(p)
       PROVE  Correct
  BY <1>14, SelectElsewhereStep, PipeCloseStep
<1>15. ASSUME NEW p \in Procs, Proceed(p)
       PROVE  Correct
  BY <1>4, <1>7, <1>8, <1>9, <1>10, <1>11, <1>12, <1>13, <1>14, <1>15 DEF Proceed
<1> QED
  BY <1>1, <1>2, <1>3, <1>4, <1>5, <1>6, <1>15 DEF Next

-----------------------------------------------------------------------------
(* The invariant implies what the runs check.                              *)
LEMMA TypeFollows ==
  ASSUME PipeAssumption, IInv
  PROVE  TypeOK
<1>1. s \in States /\ pc \in [Procs -> PCs]
  BY DEF IInv, Types
<1>2. Size(s) \in Nat /\ s.off \in Nat /\ s.off <= Size(s) /\ Size(s) < 2 * MAXPIPSIZ
  BY <1>1 DEF IInv, Bounded, States, Size
<1>3. Cardinality(LockHolders) = IF s.locked THEN 1 ELSE 0
  <2>1. LockHolders = { p \in Procs : pc[p] \in LockedPCs }
    BY DEF LockHolders, LockedPCs
  <2>2. CASE s.locked
    <3>1. PICK p \in Procs : pc[p] \in LockedPCs
      BY <2>2 DEF IInv, LockOwned
    <3>2. LockHolders = {p}
      BY <2>1, <3>1 DEF IInv, LockOwned
    <3> QED
      BY <2>2, <3>2, FS_Singleton
  <2>3. CASE ~ s.locked
    <3>1. LockHolders = {}
      BY <2>1, <2>3 DEF IInv, LockOwned
    <3> QED
      BY <2>3, <3>1, FS_EmptySet
  <2> QED
    BY <2>2, <2>3
<1>4. /\ s.count \in 0 .. 2 /\ s.open \subseteq Procs
      /\ s.slp \in [Procs -> Chans] /\ s.pselect \subseteq Procs
      /\ s.sel \in [Ends -> Procs \cup {NoProc}] /\ s.coll \subseteq Ends
  BY <1>1 DEF States
<1> QED
  BY <1>1, <1>2, <1>3, <1>4 DEF TypeOK

LEMMA WakeupFollows ==
  ASSUME PipeAssumption, IInv, SelectorsFound
  PROVE  NoLostWakeup
<1>1. Telling => s.locked
  BY DEF IInv, LockOwned, LockedPCs, Telling
<1>2. SleepersWoken
  BY <1>1 DEF IInv, SleepersFound, SleepersWoken
<1>3. SelectorsWoken
  <2>1. Size(s) \in Nat /\ MAXPIPSIZ \in Nat
    BY DEF IInv, Types, States, Size, PipeAssumption
  <2> QED
    BY <1>1, <2>1 DEF SelectorsFound, SelectorsWoken, Waits, Ready
<1> QED
  BY <1>2, <1>3 DEF NoLostWakeup

(* Only a signal restarts a call, and only one that has put nothing in.    *)
Restarts == \A w \in Writers : ret' = <<w, "ERESTART", 0>> => io[w].put = 0

LEMMA RestartFollows ==
  ASSUME PipeAssumption, IInv, Next
  PROVE  Restarts
<1>1. ASSUME NEW p, NEW v, NEW n, Return(p, v, n), v # "ERESTART"
      PROVE  Restarts
  BY <1>1 DEF Return, NoReturn, Restarts
<1>2. ASSUME ret' = NoReturn
      PROVE  Restarts
  BY <1>2 DEF NoReturn, Restarts
<1>3. ASSUME NEW p \in Procs, Interrupt(p)
      PROVE  Restarts
  <2>1. CASE s.slp[p] = "ip+2" /\ io[p].resid = io[p].count
    <3>1. pc[p] = "relock"
      BY <2>1 DEF IInv, Places
    <3>2. /\ io[p].c > 0 /\ io[p].resid \in Nat /\ io[p].c \in Nat /\ io[p].count \in Nat
          /\ MAXPIPSIZ \in Nat
      BY <3>1 DEF IInv, ChunksCounted, Types, Calls, PipeAssumption
    <3>3. \/ io[p].put = 0 /\ io[p].c = io[p].count
          \/ io[p].resid <= MAXPIPSIZ /\ io[p].c + MAXPIPSIZ <= io[p].count
      BY <3>1, <3>2 DEF IInv, ChunksCounted
    <3>4. io[p].put = 0
      BY <2>1, <3>2, <3>3
    <3>5. ret' = <<p, "ERESTART", 0>> \/ ret' = NoReturn
      BY <1>3, <2>1 DEF Interrupt, Return
    <3> QED
      BY <1>2, <3>4, <3>5 DEF Restarts
  <2>2. CASE s.slp[p] = "ip+4"
    <3>1. p \notin Writers
      BY <2>2 DEF IInv, Places, ReadPCs, PipeAssumption
    <3> QED
      BY <1>2, <1>3, <3>1 DEF Interrupt, Return
  <2>3. CASE s.slp[p] = "selwait"
    BY <1>1, <1>3, <2>3 DEF Interrupt
  <2>4. CASE s.slp[p] = "ip+2" /\ io[p].resid # io[p].count
    BY <1>1, <1>3, <2>4 DEF Interrupt
  <2> QED
    BY <1>3, <2>1, <2>2, <2>3, <2>4 DEF Interrupt
<1>4. ASSUME NEW p \in Procs, NEW n, Read(p, n) \/ Write(p, n)
      PROVE  Restarts
  BY <1>2, <1>4 DEF Read, Write, Call
<1>5. ASSUME NEW p \in Procs, Select(p) \/ SelectRetry(p) \/ Close(p)
      PROVE  Restarts
  BY <1>2, <1>5 DEF Select, SelectRetry, SelectFrom, Close, Keep
<1>6. ASSUME NEW p \in Procs, NEW l, LockBusy(p, l)
      PROVE  Restarts
  BY <1>2, <1>6 DEF LockBusy, Keep
<1>7. ASSUME NEW p \in Procs, ReadEmpty(p) \/ ReadLock(p) \/ RwipRead(p) \/ ReadEnd(p)
      PROVE  Restarts
  BY <1>1, <1>2, <1>7 DEF ReadEmpty, ReadLock, RwipRead, ReadEnd, Keep
<1>8. ASSUME NEW p \in Procs, WriteLock(p) \/ WriteRelock(p) \/ WriteBroken(p) \/ WriteFull(p)
      PROVE  Restarts
  BY <1>1, <1>2, <1>8 DEF WriteLock, WriteRelock, WriteBroken, WriteFull, Keep
<1>9. ASSUME NEW p \in Procs, WriteDone(p) \/ WriteChunk(p) \/ RwipWrite(p) \/ WriteEnd(p)
      PROVE  Restarts
  BY <1>1, <1>2, <1>9 DEF WriteDone, WriteChunk, RwipWrite, WriteEnd, Keep
<1>10. ASSUME NEW p \in Procs, Selscan(p) \/ SelectElsewhere(p) \/ PipeClose(p)
       PROVE  Restarts
  BY <1>1, <1>2, <1>10 DEF Selscan, SelectElsewhere, PipeClose, Keep
<1>11. ASSUME NEW p \in Procs, Proceed(p)
       PROVE  Restarts
  BY <1>5, <1>6, <1>7, <1>8, <1>9, <1>10, <1>11 DEF Proceed
<1> QED
  BY <1>3, <1>4, <1>5, <1>11 DEF Next

-----------------------------------------------------------------------------
(* The inductive invariant holds in every state.                           *)
THEOREM PipeInvariant == Spec => []IInv
<1>1. Init => IInv
  BY PipeAssumption, InitCorrect
<1>2. IInv /\ [Next]_vars => IInv'
  BY PipeAssumption, NextCorrect DEF Correct
<1> QED
  BY <1>1, <1>2, PTL DEF Spec

(* The inode and the processes' places stay of the expected shape, the     *)
(* file is shorter than two pipes, and no more than one process is between *)
(* ILOCK and IUNLOCK.                                                      *)
THEOREM PipeTypeOK == Spec => []TypeOK
<1>1. IInv => TypeOK
  BY PipeAssumption, TypeFollows
<1> QED
  BY <1>1, PipeInvariant, PTL

(* Whoever sleeps for data, for room, for the lock or in select will be    *)
(* woken by what it sleeps for, provided that a process whose select also  *)
(* looks at other descriptors does not share its end of the pipe.          *)
THEOREM PipeNoLostWakeup ==
  ASSUME ElsewhereAlone
  PROVE  Spec => []NoLostWakeup
<1>1. Init => IInv /\ SelectorsFound
  BY PipeAssumption, InitCorrect
<1>2. IInv /\ SelectorsFound /\ [Next]_vars => (IInv /\ SelectorsFound)'
  BY PipeAssumption, NextCorrect DEF Correct, SelectorsKept
<1>3. IInv /\ SelectorsFound => NoLostWakeup
  BY PipeAssumption, WakeupFollows
<1> QED
  BY <1>1, <1>2, <1>3, PTL DEF Spec

(* Without that proviso it is still so of everybody but the selectors.     *)
THEOREM PipeSleepersWoken == Spec => []SleepersWoken
<1>1. IInv => SleepersWoken
  <2>1. ASSUME IInv
        PROVE  Telling => s.locked
    BY <2>1 DEF IInv, LockOwned, LockedPCs, Telling
  <2> QED
    BY <2>1 DEF IInv, SleepersFound, SleepersWoken
<1> QED
  BY <1>1, PipeInvariant, PTL

(* A write call that is restarted after a signal has put nothing in.       *)
THEOREM PipeRestartSafe == Spec => RestartSafe
<1>1. IInv /\ [Next]_vars =>
        [\A p \in Writers : ret' = <<p, "ERESTART", 0>> => io[p].put = 0]_vars
  BY PipeAssumption, RestartFollows DEF Restarts
<1> QED
  BY <1>1, PipeInvariant, PTL DEF Spec, RestartSafe

(* The file, its size and the readers' offset implement a stream: no byte  *)
(* is lost, delivered twice or out of order.                               *)
THEOREM PipeIsStream == Spec => StreamSpec
<1>1. Init => S!StreamInit
  BY PipeAssumption, InitCorrect
<1>2. IInv /\ [Next]_vars => [S!StreamNext]_<<Unread, next, got>>
  BY PipeAssumption, NextCorrect DEF Correct, Streams
<1> QED
  BY <1>1, <1>2, PipeInvariant, PTL DEF Spec, StreamSpec, S!Spec
=============================================================================
