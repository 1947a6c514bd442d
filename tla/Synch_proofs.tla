---------------------------- MODULE Synch_proofs ----------------------------
(***************************************************************************)
(* Theorems about sleep, wakeup, signals and the swapper, for any number   *)
(* of processes, any tree of parents, any dispositions of signals and any  *)
(* hashing of the channels.                                                *)
(*                                                                         *)
(* The routines call each other, so the proofs go routine by routine: what *)
(* each makes of a state of k in which c has the CPU and m, if it is a     *)
(* process, is in the masked part of tsleep, linked on its queue though it *)
(* still runs.                                                             *)
(***************************************************************************)
EXTENDS Synch, TLAPS

(* No channel shares the sleep queue of runout.                            *)
HashApart == \A c \in Chans : Hash[c] = Hash[RUNOUT] => c = RUNOUT

(* Where a process is linked.                                              *)
Place(s, p, m) ==
  /\ p \in s.slpq <=> s.wchan[p] # NoChan
  /\ s.stat[p] = "SSLEEP" => s.wchan[p] # NoChan
  /\ s.wchan[p] # NoChan /\ p # m => s.stat[p] \in {"SSLEEP", "SSTOP"}
  /\ s.wchan[p] = RUNOUT => p = Proc0

(* Who has the CPU is in core and runnable.                                *)
Runs(s, c) == c # NoProc => c \in s.load /\ s.stat[c] = "SRUN"

(* The queues.                                                             *)
Core(s, c, m) ==
  /\ s \in KType
  /\ s.runq = { p \in s.load : s.stat[p] = "SRUN" } \ {c}
  /\ \A p \in AllProcs : Place(s, p, m)
  /\ Proc0 \in s.load /\ s.stat[Proc0] \in {"SRUN", "SSLEEP"}
  /\ Runs(s, c)
  /\ HashApart => ~ s.panic

(* While sched sleeps on runout the flag is set, and nobody needs it.      *)
Announced(s) == s.wchan[Proc0] = RUNOUT => s.runout
Served(s) ==
  s.wchan[Proc0] = RUNOUT => \A p \in Procs : s.stat[p] = "SRUN" => p \in s.load

Sound(s, c, m) == Core(s, c, m) /\ Announced(s) /\ Served(s)

(* What every routine that wakes or signals leaves alone: who is in core,  *)
(* the time limits, and whoever runs.                                      *)
Calm(s, t) ==
  /\ t.load = s.load /\ t.timer = s.timer /\ t.tmo = s.tmo
  /\ \A p \in AllProcs : s.stat[p] = "SRUN" => t.stat[p] = "SRUN" /\ t.wchan[p] = s.wchan[p]

(* The places of the processes.  Only the process that has the CPU is in   *)
(* the masked part of tsleep.                                              *)
MaskedProc == IF Masked THEN cur ELSE NoProc
Places ==
  /\ pc[Proc0] \in SchedPCs
  /\ \A p \in Procs : /\ pc[p] \in UserPCs
                      /\ pc[p] = "cursig" => cur = p /\ k.wchan[p] # NoChan

(* Whom sched moves: its victim is in core while sched runs on, and who is *)
(* being moved is not.                                                     *)
Swapping ==
  /\ pc[Proc0] = "victim" => sw \in Procs \cap k.load /\ cur = Proc0
  /\ pc[Proc0] \in {"swapin", "swapout"} => sw \in Procs \ k.load

(* A time limit is running or has passed, within its tsleep.               *)
Limits == k.timer \cap k.tmo = {} /\ NoStaleTimer

(* The inductive invariant.                                                *)
SInv == TypeOK /\ Sound(k, cur, MaskedProc) /\ Places /\ Swapping /\ Limits

-----------------------------------------------------------------------------
(* Channels.                                                               *)

LEMMA ChanFacts ==
  /\ NoChan \notin Chans /\ RUNOUT \in Chans /\ RUNIN \in Chans
  /\ \A e \in Events : Ev(e) \in Chans /\ Ev(e) # RUNOUT /\ Ev(e) # NoChan
  /\ \A p \in Procs : Addr(p) \in Chans /\ Addr(p) # RUNOUT /\ Addr(p) # NoChan
  /\ \A p \in AllProcs : IO(p) \in Chans /\ IO(p) # RUNOUT /\ IO(p) # NoChan
  /\ RUNIN # RUNOUT /\ RUNIN # NoChan /\ RUNOUT # NoChan
BY DEF Chans, Ev, Addr, IO, RUNOUT, RUNIN, NoChan

LEMMA ProcFacts ==
  /\ Proc0 \in AllProcs /\ Proc0 \notin Procs /\ NoProc \notin AllProcs
  /\ \A p \in Procs : p \in AllProcs /\ p # Proc0 /\ p # NoProc
  /\ Proc0 # NoProc
BY SynchAssumption DEF AllProcs

-----------------------------------------------------------------------------
(* The fields of what the queue operations leave.                          *)

(* The fields no lemma below changes by itself.                            *)
LEMMA Fields ==
  ASSUME NEW s \in KType
  PROVE  /\ s.stat \in [AllProcs -> Stats] /\ s.wchan \in [AllProcs -> Chans \cup {NoChan}]
         /\ s.sig \in [AllProcs -> SUBSET Sigs]
         /\ s.slpq \subseteq AllProcs /\ s.runq \subseteq AllProcs
         /\ s.load \subseteq AllProcs /\ s.lock \subseteq AllProcs
         /\ s.sintr \subseteq AllProcs /\ s.tmo \subseteq AllProcs
         /\ s.timer \subseteq AllProcs /\ s.waited \subseteq AllProcs
         /\ s.fresh \subseteq AllProcs /\ s.woken \subseteq AllProcs
         /\ s.runout \in BOOLEAN /\ s.panic \in BOOLEAN
BY DEF KType

(* The fields that neither a wakeup nor a signal changes.                  *)
Kept(s, t) ==
  /\ t.load = s.load /\ t.lock = s.lock /\ t.timer = s.timer /\ t.tmo = s.tmo
  /\ t.sintr = s.sintr /\ t.fresh = s.fresh

LEMMA UnsleepIs ==
  ASSUME NEW s \in KType, NEW p \in AllProcs
  PROVE  LET t == Unsleep(s, p)
         IN /\ t \in KType /\ Kept(s, t)
            /\ t.sig = s.sig /\ t.waited = s.waited /\ t.woken = s.woken
            /\ t.stat = s.stat /\ t.runq = s.runq /\ t.runout = s.runout
            /\ t.wchan = [s.wchan EXCEPT ![p] = NoChan]
            /\ t.slpq = IF s.wchan[p] = NoChan THEN s.slpq ELSE s.slpq \ {p}
            /\ t.panic <=> s.panic \/ (s.wchan[p] # NoChan /\ p \notin s.slpq)
BY Fields, ZenonT(60) DEF Unsleep, KType, Kept

LEMMA WakeupOneIs ==
  ASSUME NEW s \in KType, NEW c \in Chans
  PROVE  LET t == WakeupOne(s, c)
             W == Sleepers(s, c)
             R == { p \in W : s.stat[p] = "SSLEEP" }
         IN /\ t \in KType /\ Kept(s, t)
            /\ t.sig = s.sig /\ t.waited = s.waited /\ t.runout = s.runout
            /\ t.stat = [p \in AllProcs |-> IF p \in R THEN "SRUN" ELSE s.stat[p]]
            /\ t.wchan = [p \in AllProcs |-> IF p \in W THEN NoChan ELSE s.wchan[p]]
            /\ t.slpq = s.slpq \ W
            /\ t.runq = s.runq \cup (R \cap s.load)
            /\ t.panic <=> \/ s.panic
                           \/ \E p \in Chain(s, c) : s.stat[p] \notin {"SSLEEP", "SSTOP"}
                           \/ R \cap s.runq # {}
<1> DEFINE t == WakeupOne(s, c)
           W == Sleepers(s, c)
           R == { p \in W : s.stat[p] = "SSLEEP" }
           v == { p \in W : c[1] \in {"event", "proc"} }
           bad == (\E p \in Chain(s, c) : s.stat[p] \notin {"SSLEEP", "SSTOP"})
                    \/ R \cap s.runq # {}
           f == [p \in AllProcs |-> IF p \in R THEN "SRUN" ELSE s.stat[p]]
           w == [p \in AllProcs |-> IF p \in W THEN NoChan ELSE s.wchan[p]]
<1>1. W \subseteq AllProcs /\ R \subseteq AllProcs /\ v \subseteq AllProcs
  BY Fields DEF Sleepers
<1>2. bad \in BOOLEAN
  OBVIOUS
<1>3. f \in [AllProcs -> Stats]
  BY Fields DEF Stats
<1>4. w \in [AllProcs -> Chans \cup {NoChan}]
  BY Fields
<1>5. t = [s EXCEPT !.wchan = w, !.slpq = @ \ W, !.stat = f,
                    !.runq = @ \cup (R \cap s.load), !.woken = @ \cup v, !.panic = @ \/ bad]
  BY Zenon DEF WakeupOne
<1> HIDE DEF W, R, v, bad, f, w, t
<1>6. /\ t \in KType /\ Kept(s, t)
      /\ t.sig = s.sig /\ t.waited = s.waited /\ t.runout = s.runout
      /\ t.stat = f /\ t.wchan = w /\ t.slpq = s.slpq \ W
      /\ t.runq = s.runq \cup (R \cap s.load)
      /\ t.panic = (s.panic \/ bad)
  BY <1>1, <1>2, <1>3, <1>4, <1>5, Fields, ZenonT(60) DEF KType, Kept
<1> QED
  BY <1>6, Zenon DEF t, W, R, bad, f, w

LEMMA SetrqIs ==
  ASSUME NEW s \in KType, NEW p \in AllProcs
  PROVE  LET t == Setrq(s, p)
         IN /\ t \in KType /\ Kept(s, t)
            /\ t.sig = s.sig /\ t.waited = s.waited
            /\ t.stat = s.stat /\ t.runq = s.runq \cup {p} /\ t.runout = s.runout
            /\ t.wchan = s.wchan /\ t.slpq = s.slpq
            /\ t.panic <=> s.panic \/ p \in s.runq \cup s.slpq
<1> DEFINE t == Setrq(s, p)
           bad == p \in s.runq \cup s.slpq
<1>1. t = [s EXCEPT !.runq = @ \cup {p}, !.panic = @ \/ bad]
  BY Zenon DEF Setrq
<1>2. bad \in BOOLEAN
  OBVIOUS
<1> HIDE DEF t, bad
<1>3. /\ t \in KType /\ Kept(s, t)
      /\ t.sig = s.sig /\ t.waited = s.waited
      /\ t.stat = s.stat /\ t.runq = s.runq \cup {p} /\ t.runout = s.runout
      /\ t.wchan = s.wchan /\ t.slpq = s.slpq
      /\ t.panic = (s.panic \/ bad)
  BY <1>1, <1>2, Fields DEF KType, Kept
<1> QED
  BY <1>3, Zenon DEF t, bad

-----------------------------------------------------------------------------
(* wakeup and setrun.                                                      *)

LEMMA CalmSame ==
  ASSUME NEW s
  PROVE  Calm(s, s)
BY DEF Calm

LEMMA CalmTrans ==
  ASSUME NEW s, NEW t, NEW u, Calm(s, t), Calm(t, u)
  PROVE  Calm(s, u)
BY DEF Calm

(* wakeup keeps the queues, and panics only if the process in the masked   *)
(* part of tsleep shares the chain.                                        *)
LEMMA WakeupOneCore ==
  ASSUME NEW s, NEW c, NEW m, Core(s, c, m), NEW ch \in Chans,
         m = NoProc \/ (m \in Procs /\ ch = RUNOUT)
  PROVE  LET t == WakeupOne(s, ch)
         IN /\ Core(t, c, m) /\ Calm(s, t) /\ Kept(s, t) /\ t.sig = s.sig
            /\ t.waited = s.waited /\ t.runout = s.runout
            /\ \A p \in AllProcs :
                 /\ s.wchan[p] = ch => t.wchan[p] = NoChan
                 /\ s.wchan[p] # ch => t.wchan[p] = s.wchan[p] /\ t.stat[p] = s.stat[p]
                 /\ t.stat[p] = s.stat[p] \/ (s.stat[p] = "SSLEEP" /\ t.stat[p] = "SRUN")
<1> DEFINE t == WakeupOne(s, ch)
           W == Sleepers(s, ch)
           R == { p \in W : s.stat[p] = "SSLEEP" }
           bad == (\E p \in Chain(s, ch) : s.stat[p] \notin {"SSLEEP", "SSTOP"})
                    \/ R \cap s.runq # {}
<1>1. s \in KType /\ \A p \in AllProcs : Place(s, p, m)
  BY DEF Core
<1>2. /\ t \in KType /\ Kept(s, t)
      /\ t.sig = s.sig /\ t.waited = s.waited /\ t.runout = s.runout
      /\ t.stat = [p \in AllProcs |-> IF p \in R THEN "SRUN" ELSE s.stat[p]]
      /\ t.wchan = [p \in AllProcs |-> IF p \in W THEN NoChan ELSE s.wchan[p]]
      /\ t.slpq = s.slpq \ W
      /\ t.runq = s.runq \cup (R \cap s.load)
      /\ t.panic <=> s.panic \/ bad
  BY <1>1, WakeupOneIs
<1>3. ch # NoChan
  BY ChanFacts
<1>4. \A p \in AllProcs : p \in W <=> s.wchan[p] = ch
  BY <1>1, <1>3 DEF Sleepers, Place
<1>5. \A p \in AllProcs : p \in R <=> s.wchan[p] = ch /\ s.stat[p] = "SSLEEP"
  BY <1>4
<1>6. W \subseteq AllProcs /\ R \subseteq AllProcs /\ s.load \subseteq AllProcs
  BY <1>1, Fields DEF Sleepers
<1>7. HashApart => ~ bad
  <2> SUFFICES ASSUME HashApart
               PROVE  ~ bad
    OBVIOUS
  <2>1. R \cap s.runq = {}
    BY DEF Core
  <2>2. ASSUME NEW p \in Chain(s, ch)
        PROVE  s.stat[p] \in {"SSLEEP", "SSTOP"}
    <3>1. p \in s.slpq /\ Hash[s.wchan[p]] = Hash[ch] /\ p \in AllProcs
      BY <1>1, Fields DEF Chain
    <3>2. s.wchan[p] # NoChan /\ s.wchan[p] \in Chans
      BY <1>1, <3>1, Fields DEF Place
    <3>3. CASE m = NoProc
      BY <1>1, <3>1, <3>2, <3>3, ProcFacts DEF Place
    <3>4. CASE m \in Procs /\ ch = RUNOUT
      <4>1. s.wchan[p] = RUNOUT
        BY <3>1, <3>2, <3>4 DEF HashApart
      <4>2. p # m
        BY <1>1, <3>1, <3>4, <4>1, ProcFacts DEF Place
      <4> QED
        BY <1>1, <3>1, <3>2, <4>2 DEF Place
    <3> QED
      BY <3>3, <3>4
  <2> QED
    BY <2>1, <2>2
<1> HIDE DEF W, R, bad, t
<1>8. ASSUME NEW p \in AllProcs
      PROVE  /\ s.wchan[p] = ch => t.wchan[p] = NoChan
             /\ s.wchan[p] # ch => t.wchan[p] = s.wchan[p] /\ t.stat[p] = s.stat[p]
             /\ s.stat[p] # "SSLEEP" => t.stat[p] = s.stat[p]
             /\ s.wchan[p] = ch /\ s.stat[p] = "SSLEEP" => t.stat[p] = "SRUN"
             /\ t.stat[p] = s.stat[p] \/ (s.stat[p] = "SSLEEP" /\ t.stat[p] = "SRUN")
             /\ p \in t.slpq <=> p \in s.slpq /\ s.wchan[p] # ch
  BY <1>2, <1>4, <1>5
<1>9. ASSUME NEW p \in AllProcs
      PROVE  Place(t, p, m)
  <2>1. Place(s, p, m)
    BY <1>1
  <2>2. CASE s.wchan[p] = ch
    BY <1>3, <1>8, <2>1, <2>2, ChanFacts DEF Place
  <2>3. CASE s.wchan[p] # ch
    BY <1>8, <2>1, <2>3 DEF Place
  <2> QED
    BY <2>2, <2>3
<1>10. t.runq = { p \in t.load : t.stat[p] = "SRUN" } \ {c}
  <2>1. t.load = s.load
    BY <1>2 DEF Kept
  <2>2. s.runq = { p \in s.load : s.stat[p] = "SRUN" } \ {c} /\ Runs(s, c)
    BY DEF Core
  <2>3. c \notin R
    BY <1>5, <1>6, <2>2, ProcFacts DEF Runs
  <2>4. \A p \in s.load : t.stat[p] = "SRUN" <=> s.stat[p] = "SRUN" \/ p \in R
    BY <1>2, <1>6
  <2> QED
    BY <1>2, <2>1, <2>2, <2>3, <2>4
<1>11. /\ Proc0 \in t.load /\ t.stat[Proc0] \in {"SRUN", "SSLEEP"}
       /\ Runs(t, c)
  BY <1>2, <1>6, <1>8, ProcFacts DEF Core, Kept, Runs
<1>12. Core(t, c, m)
  BY <1>2, <1>7, <1>9, <1>10, <1>11 DEF Core
<1>13. Calm(s, t)
  <2>1. ASSUME NEW p \in AllProcs, s.stat[p] = "SRUN"
        PROVE  t.wchan[p] = s.wchan[p]
    <3>1. CASE s.wchan[p] = NoChan
      BY <1>3, <1>8, <3>1
    <3>2. CASE s.wchan[p] # NoChan
      <4>1. p = m
        BY <1>1, <2>1, <3>2 DEF Place
      <4>2. m \in Procs /\ ch = RUNOUT
        BY <4>1, ProcFacts
      <4>3. s.wchan[p] # RUNOUT
        BY <1>1, <4>1, <4>2, ProcFacts DEF Place
      <4> QED
        BY <1>8, <4>2, <4>3
    <3> QED
      BY <3>1, <3>2
  <2> QED
    BY <1>2, <1>8, <2>1 DEF Calm, Kept
<1> QED
  BY <1>2, <1>8, <1>12, <1>13, Zenon DEF t

(* The queues depend only on these fields.                                 *)
SameQueues(s, t) ==
  /\ t.stat = s.stat /\ t.wchan = s.wchan /\ t.slpq = s.slpq /\ t.runq = s.runq
  /\ t.load = s.load /\ t.panic = s.panic

LEMMA CoreSame ==
  ASSUME NEW s, NEW t \in KType, SameQueues(s, t), NEW c, NEW m, Core(s, c, m)
  PROVE  Core(t, c, m)
BY DEF SameQueues, Core, Place, Runs

LEMMA SoundSame ==
  ASSUME NEW s, NEW t \in KType, SameQueues(s, t), t.runout = s.runout,
         NEW c, NEW m, Sound(s, c, m)
  PROVE  Sound(t, c, m)
BY CoreSame DEF Sound, SameQueues, Announced, Served

(* The processes other than sched keep their states and channels.          *)
Undisturbed(s, t) == \A p \in Procs : t.stat[p] = s.stat[p] /\ t.wchan[p] = s.wchan[p]

(* Telling sched of a process that is not in core: afterwards it does not  *)
(* sleep on runout.                                                        *)
LEMMA KickSchedSound ==
  ASSUME NEW s, NEW c, NEW m, Core(s, c, m), Announced(s), m \in Procs \cup {NoProc}
  PROVE  LET t == KickSched(s)
         IN /\ Sound(t, c, m) /\ Calm(s, t) /\ Kept(s, t) /\ Undisturbed(s, t)
            /\ t.sig = s.sig /\ t.waited = s.waited
<1> DEFINE t == KickSched(s)
           u == [s EXCEPT !.runout = FALSE]
<1>1. s \in KType
  BY DEF Core
<1>2. CASE ~ s.runout
  <2>1. t = s
    BY <1>2, Zenon DEF KickSched
  <2>2. s.wchan[Proc0] # RUNOUT
    BY <1>2 DEF Announced
  <2> HIDE DEF t
  <2>3. Sound(t, c, m) /\ Calm(s, t)
    BY <2>1, <2>2, CalmSame DEF Sound, Announced, Served
  <2> QED
    BY <2>1, <2>3, Zenon DEF t, Kept, Undisturbed
<1>3. CASE s.runout
  <2>1. t = WakeupOne(u, RUNOUT)
    BY <1>3, Zenon DEF KickSched
  <2>2. /\ u \in KType /\ SameQueues(s, u) /\ Kept(s, u) /\ Calm(s, u)
        /\ u.sig = s.sig /\ u.waited = s.waited
    BY <1>1, Fields DEF KType, SameQueues, Kept, Calm
  <2> HIDE DEF u, t
  <2>3. Core(u, c, m)
    BY <2>2, CoreSame
  <2>4. /\ Core(t, c, m) /\ Calm(u, t) /\ Kept(u, t) /\ t.sig = u.sig /\ t.waited = u.waited
        /\ \A p \in AllProcs :
             /\ u.wchan[p] = RUNOUT => t.wchan[p] = NoChan
             /\ u.wchan[p] # RUNOUT => t.wchan[p] = u.wchan[p] /\ t.stat[p] = u.stat[p]
    BY <2>1, <2>3, WakeupOneCore, ChanFacts
  <2>5. t.wchan[Proc0] # RUNOUT
    BY <2>4, ProcFacts, ChanFacts
  <2>6. Undisturbed(s, t)
    <3>1. ASSUME NEW p \in Procs
          PROVE  u.wchan[p] # RUNOUT
      BY <2>3, ProcFacts DEF Core, Place
    <3> QED
      BY <2>2, <2>4, <3>1, ProcFacts DEF Undisturbed, SameQueues
  <2>7. Sound(t, c, m)
    BY <2>4, <2>5 DEF Sound, Announced, Served
  <2>8. Calm(s, t)
    BY <2>2, <2>4, CalmTrans
  <2>9. Kept(s, t) /\ t.sig = s.sig /\ t.waited = s.waited
    BY <2>2, <2>4 DEF Kept
  <2> QED
    BY <2>6, <2>7, <2>8, <2>9, Zenon DEF t
<1> QED
  BY <1>2, <1>3

(* wakeup, outside the masked part of tsleep.                              *)
LEMMA WakeupSound ==
  ASSUME NEW s, NEW c, Sound(s, c, NoProc), NEW ch \in Chans
  PROVE  LET t == Wakeup(s, ch)
         IN /\ Sound(t, c, NoProc) /\ Calm(s, t) /\ Kept(s, t)
            /\ t.sig = s.sig /\ t.waited = s.waited
            /\ \A p \in Procs :
                 /\ s.wchan[p] = ch => t.wchan[p] = NoChan
                 /\ s.wchan[p] # ch => t.wchan[p] = s.wchan[p] /\ t.stat[p] = s.stat[p]
                 /\ t.stat[p] = s.stat[p] \/ (s.stat[p] = "SSLEEP" /\ t.stat[p] = "SRUN")
<1> DEFINE t == Wakeup(s, ch)
           u == WakeupOne(s, ch)
           out == \E p \in Sleepers(s, ch) : s.stat[p] = "SSLEEP" /\ p \notin s.load
<1>1. Core(s, c, NoProc) /\ Announced(s) /\ Served(s) /\ s \in KType
  BY DEF Sound, Core
<1>2. /\ Core(u, c, NoProc) /\ Calm(s, u) /\ Kept(s, u) /\ u.sig = s.sig
      /\ u.waited = s.waited /\ u.runout = s.runout
      /\ \A p \in AllProcs :
           /\ s.wchan[p] = ch => u.wchan[p] = NoChan
           /\ s.wchan[p] # ch => u.wchan[p] = s.wchan[p] /\ u.stat[p] = s.stat[p]
           /\ u.stat[p] = s.stat[p] \/ (s.stat[p] = "SSLEEP" /\ u.stat[p] = "SRUN")
  BY <1>1, WakeupOneCore
<1>3. t = IF out THEN KickSched(u) ELSE u
  BY Zenon DEF Wakeup
<1>4. \A p \in AllProcs : p \in Sleepers(s, ch) <=> s.wchan[p] = ch
  BY <1>1, ChanFacts DEF Sleepers, Core, Place
<1> HIDE DEF u, t, out
<1>5. u.wchan[Proc0] = RUNOUT => s.wchan[Proc0] = RUNOUT
  BY <1>2, ProcFacts, ChanFacts
<1>6. Announced(u)
  BY <1>1, <1>2, <1>5 DEF Announced
<1>7. CASE out
  <2>1. /\ Sound(t, c, NoProc) /\ Calm(u, t) /\ Kept(u, t) /\ Undisturbed(u, t)
        /\ t.sig = u.sig /\ t.waited = u.waited
    BY <1>2, <1>3, <1>6, <1>7, KickSchedSound
  <2>2. Calm(s, t)
    BY <1>2, <2>1, CalmTrans
  <2>3. Kept(s, t) /\ t.sig = s.sig /\ t.waited = s.waited
    BY <1>2, <2>1 DEF Kept
  <2>4. \A p \in Procs :
          /\ s.wchan[p] = ch => t.wchan[p] = NoChan
          /\ s.wchan[p] # ch => t.wchan[p] = s.wchan[p] /\ t.stat[p] = s.stat[p]
          /\ t.stat[p] = s.stat[p] \/ (s.stat[p] = "SSLEEP" /\ t.stat[p] = "SRUN")
    BY <1>2, <2>1, ProcFacts DEF Undisturbed
  <2> QED
    BY <2>1, <2>2, <2>3, <2>4, Zenon DEF t
<1>8. CASE ~ out
  <2>1. t = u
    BY <1>3, <1>8
  <2>2. Served(u)
    <3> SUFFICES ASSUME u.wchan[Proc0] = RUNOUT, NEW p \in Procs, u.stat[p] = "SRUN"
                 PROVE  p \in u.load
      BY DEF Served
    <3>1. u.load = s.load
      BY <1>2 DEF Kept
    <3>2. CASE s.stat[p] = "SRUN"
      BY <1>1, <1>5, <3>1, <3>2 DEF Served
    <3>3. CASE s.stat[p] # "SRUN"
      <4>1. s.stat[p] = "SSLEEP" /\ s.wchan[p] = ch
        BY <1>2, <3>3, ProcFacts
      <4> QED
        BY <1>4, <1>8, <3>1, <4>1, ProcFacts DEF out
    <3> QED
      BY <3>2, <3>3
  <2>3. Sound(t, c, NoProc)
    BY <1>2, <1>6, <2>1, <2>2 DEF Sound
  <2>4. \A p \in Procs :
          /\ s.wchan[p] = ch => t.wchan[p] = NoChan
          /\ s.wchan[p] # ch => t.wchan[p] = s.wchan[p] /\ t.stat[p] = s.stat[p]
          /\ t.stat[p] = s.stat[p] \/ (s.stat[p] = "SSLEEP" /\ t.stat[p] = "SRUN")
    BY <1>2, <2>1, ProcFacts
  <2> QED
    BY <1>2, <2>1, <2>3, <2>4, Zenon DEF t
<1> QED
  BY <1>7, <1>8

(* setrun, of a process that sleeps or is stopped: it is off its sleep     *)
(* queue, and sched is told if it is not in core.                          *)
LEMMA SetrunSound ==
  ASSUME NEW s, NEW c, NEW m, Sound(s, c, m), m \in Procs \cup {NoProc},
         NEW p \in Procs, s.stat[p] \in {"SSLEEP", "SSTOP"}, p # m
  PROVE  LET t == Setrun(s, p)
         IN /\ Sound(t, c, m) /\ Calm(s, t) /\ Kept(s, t)
            /\ t.sig = s.sig /\ t.waited = s.waited
            /\ t.stat[p] = "SRUN" /\ t.wchan[p] = NoChan
            /\ \A q \in Procs : q # p => t.stat[q] = s.stat[q] /\ t.wchan[q] = s.wchan[q]
<1> DEFINE t == Setrun(s, p)
           u == Unsleep(s, p)
           v == [u EXCEPT !.stat[p] = "SRUN",
                          !.panic = @ \/ s.stat[p] \notin {"SSLEEP", "SSTOP"}]
           w == Setrq(v, p)
<1>1. Core(s, c, m) /\ Announced(s) /\ Served(s) /\ s \in KType /\ p \in AllProcs
  BY ProcFacts DEF Sound, Core
<1>2. t = IF p \in s.load THEN w ELSE KickSched(v)
  BY Zenon DEF Setrun
<1>3. /\ u \in KType /\ Kept(s, u)
      /\ u.sig = s.sig /\ u.waited = s.waited
      /\ u.stat = s.stat /\ u.runq = s.runq /\ u.runout = s.runout
      /\ u.wchan = [s.wchan EXCEPT ![p] = NoChan]
      /\ u.slpq = (IF s.wchan[p] = NoChan THEN s.slpq ELSE s.slpq \ {p})
      /\ u.panic <=> s.panic \/ (s.wchan[p] # NoChan /\ p \notin s.slpq)
  BY <1>1, UnsleepIs, Zenon
<1> HIDE DEF u
<1>4. /\ v \in KType /\ Kept(u, v)
      /\ v.sig = u.sig /\ v.waited = u.waited
      /\ v.stat = [u.stat EXCEPT ![p] = "SRUN"] /\ v.runq = u.runq /\ v.runout = u.runout
      /\ v.wchan = u.wchan /\ v.slpq = u.slpq
      /\ v.panic <=> u.panic \/ s.stat[p] \notin {"SSLEEP", "SSTOP"}
  BY <1>1, <1>3, Fields, ZenonT(60) DEF KType, Kept, Stats
<1> HIDE DEF v, w, t
<1>6. /\ w \in KType /\ Kept(v, w)
      /\ w.sig = v.sig /\ w.waited = v.waited
      /\ w.stat = v.stat /\ w.runq = v.runq \cup {p} /\ w.runout = v.runout
      /\ w.wchan = v.wchan /\ w.slpq = v.slpq
      /\ w.panic <=> v.panic \/ p \in v.runq \cup v.slpq
  BY <1>1, <1>4, SetrqIs, Zenon DEF w
<1>7. /\ v.stat[p] = "SRUN" /\ v.wchan[p] = NoChan
      /\ \A q \in AllProcs : q # p => v.stat[q] = s.stat[q] /\ v.wchan[q] = s.wchan[q]
      /\ \A q \in AllProcs : q # p => (q \in v.slpq <=> q \in s.slpq)
      /\ p \notin v.slpq /\ v.load = s.load /\ v.runq = s.runq /\ v.runout = s.runout
  BY <1>1, <1>3, <1>4, Fields DEF Kept, Core, Place
<1>8. /\ Proc0 \in s.load /\ s.stat[Proc0] \in {"SRUN", "SSLEEP"}
      /\ s.runq = { q \in s.load : s.stat[q] = "SRUN" } \ {c}
      /\ p # Proc0 /\ s.load \subseteq AllProcs
  BY <1>1, ProcFacts, Fields DEF Core
<1>9. p \notin s.runq /\ Runs(v, c) /\ p # c
  <2>1. Runs(s, c)
    BY <1>1 DEF Core
  <2>2. p \notin s.runq
    BY <1>8
  <2>3. p # c
    BY <2>1, ProcFacts DEF Runs
  <2>4. Runs(v, c)
    BY <1>7, <1>8, <2>1, <2>3 DEF Runs
  <2> QED
    BY <2>2, <2>3, <2>4
<1>10. HashApart => ~ v.panic
  BY <1>1, <1>3, <1>4, <1>7 DEF Core, Place
<1>11. \A q \in AllProcs : Place(v, q, m)
  <2> SUFFICES ASSUME NEW q \in AllProcs
               PROVE  Place(v, q, m)
    OBVIOUS
  <2>1. CASE q = p
    BY <1>7, <2>1, ChanFacts DEF Place
  <2>2. CASE q # p
    BY <1>1, <1>7, <2>2 DEF Place, Core
  <2> QED
    BY <2>1, <2>2
<1>12. Calm(s, v)
  BY <1>3, <1>4, <1>7 DEF Calm, Kept
<1>13. Kept(s, v) /\ v.sig = s.sig /\ v.waited = s.waited
  BY <1>3, <1>4 DEF Kept
<1>14. Announced(v)
  BY <1>1, <1>7, <1>8, ProcFacts DEF Announced
<1>15. CASE p \in s.load
  <2>1. t = w /\ w.load = s.load
    BY <1>2, <1>6, <1>7, <1>15 DEF Kept
  <2>2. w.runq = { q \in w.load : w.stat[q] = "SRUN" } \ {c}
    <3>1. \A q \in s.load : w.stat[q] = "SRUN" <=> s.stat[q] = "SRUN" \/ q = p
      BY <1>6, <1>7, <1>8
    <3> QED
      BY <1>6, <1>7, <1>8, <1>9, <1>15, <2>1, <3>1
  <2>3. Core(w, c, m)
    <3>1. \A q \in AllProcs : Place(w, q, m)
      BY <1>6, <1>11 DEF Place
    <3>2. HashApart => ~ w.panic
      BY <1>6, <1>7, <1>9, <1>10
    <3>3. w.stat[Proc0] \in {"SRUN", "SSLEEP"} /\ Runs(w, c)
      BY <1>6, <1>7, <1>8, <1>9, <2>1, ProcFacts DEF Runs
    <3> QED
      BY <1>6, <1>8, <2>1, <2>2, <3>1, <3>2, <3>3 DEF Core
  <2>4. Announced(w) /\ Served(w)
    <3>1. w.wchan[Proc0] = s.wchan[Proc0] /\ w.runout = s.runout
      BY <1>6, <1>7, <1>8, ProcFacts
    <3>2. ASSUME NEW q \in Procs, w.stat[q] = "SRUN", s.wchan[Proc0] = RUNOUT
          PROVE  q \in w.load
      BY <1>1, <1>6, <1>7, <1>15, <2>1, <3>2, ProcFacts DEF Served
    <3> QED
      BY <1>1, <3>1, <3>2 DEF Announced, Served
  <2>5. Calm(s, w) /\ Kept(s, w) /\ w.sig = s.sig /\ w.waited = s.waited
    BY <1>6, <1>12, <1>13 DEF Calm, Kept
  <2>6. /\ w.stat[p] = "SRUN" /\ w.wchan[p] = NoChan
        /\ \A q \in Procs : q # p => w.stat[q] = s.stat[q] /\ w.wchan[q] = s.wchan[q]
    BY <1>6, <1>7, ProcFacts
  <2> QED
    BY <2>1, <2>3, <2>4, <2>5, <2>6, Zenon DEF t, Sound
<1>16. CASE p \notin s.load
  <2>1. t = KickSched(v)
    BY <1>2, <1>16
  <2>2. v.runq = { q \in v.load : v.stat[q] = "SRUN" } \ {c}
    BY <1>7, <1>8, <1>16
  <2>3. Core(v, c, m)
    BY <1>4, <1>7, <1>8, <1>9, <1>10, <1>11, <2>2, ProcFacts DEF Core
  <2>4. /\ Sound(t, c, m) /\ Calm(v, t) /\ Kept(v, t) /\ Undisturbed(v, t)
        /\ t.sig = v.sig /\ t.waited = v.waited
    BY <1>14, <2>1, <2>3, KickSchedSound
  <2>5. Calm(s, t)
    BY <1>12, <2>4, CalmTrans
  <2>6. Kept(s, t) /\ t.sig = s.sig /\ t.waited = s.waited
    BY <1>13, <2>4 DEF Kept
  <2>7. /\ t.stat[p] = "SRUN" /\ t.wchan[p] = NoChan
        /\ \A q \in Procs : q # p => t.stat[q] = s.stat[q] /\ t.wchan[q] = s.wchan[q]
    BY <1>7, <2>4, ProcFacts DEF Undisturbed
  <2> QED
    BY <2>4, <2>5, <2>6, <2>7, Zenon DEF t
<1> QED
  BY <1>15, <1>16

-----------------------------------------------------------------------------
(* Signals.                                                                *)

(* The parents catch SIGCHLD and do not stop themselves.                   *)
IsParent(q) == \E c \in Procs : Parent[c] = q
ParentsHear ==
  \A q \in Procs : IsParent(q) =>
    /\ Action[q][SIGCHLD] = "CATCH"
    /\ Action[q][SIGTSTP] # "DFL" \/ Orphan(q)

(* A child has stopped and wait has not reported it; its parent has been   *)
(* told.                                                                   *)
Fresh(s, c) == s.stat[c] = "SSTOP" /\ c \notin s.waited
Told(s, c) ==
  Parent[c] # NoProc =>
    SIGCHLD \in s.sig[Parent[c]] /\ s.wchan[Parent[c]] # Addr(Parent[c])

(* The parents miss nothing from s to t.                                   *)
HearsOn(s, t, q) ==
  /\ SIGCHLD \in s.sig[q] => SIGCHLD \in t.sig[q]
  /\ SIGKILL \in t.sig[q] => SIGKILL \in s.sig[q]
  /\ t.wchan[q] = Addr(q) => s.wchan[q] = Addr(q)
  /\ t.stat[q] = "SZOMB" => s.stat[q] = "SZOMB"
Tells(s, t) ==
  /\ \A q \in Procs : IsParent(q) => HearsOn(s, t, q)
  /\ \A c \in Procs : Fresh(t, c) => Fresh(s, c) \/ Told(t, c)

(* No parent has exited.                                                   *)
Alive(s) == \A q \in Procs : IsParent(q) => s.stat[q] # "SZOMB"

(* What a routine that wakes or signals leaves behind.                     *)
Good(s, t, c, m) == Sound(t, c, m) /\ Calm(s, t) /\ (ParentsHear => Tells(s, t))

(* Only p, and perhaps sched, is moved.                                    *)
Only(s, t, p) ==
  /\ t.waited = s.waited
  /\ \A q \in Procs : q # p => t.stat[q] = s.stat[q] /\ t.wchan[q] = s.wchan[q]

LEMMA ParentFacts ==
  ASSUME NEW p \in Procs, Parent[p] # NoProc
  PROVE  /\ Parent[p] \in Procs /\ Parent[p] # p /\ IsParent(Parent[p])
         /\ Addr(Parent[p]) \in Chans /\ Addr(Parent[p]) # NoChan /\ Addr(Parent[p]) # RUNOUT
BY SynchAssumption, ChanFacts DEF IsParent

LEMMA TellsSame ==
  ASSUME NEW s
  PROVE  Tells(s, s)
BY DEF Tells, HearsOn

LEMMA TellsTrans ==
  ASSUME NEW s, NEW t, NEW u, Tells(s, t), Tells(t, u)
  PROVE  Tells(s, u)
<1>1. \A q \in Procs : IsParent(q) => HearsOn(s, u, q)
  BY DEF Tells, HearsOn
<1>2. ASSUME NEW c \in Procs, Told(t, c)
      PROVE  Told(u, c)
  <2> SUFFICES ASSUME Parent[c] # NoProc
               PROVE  SIGCHLD \in u.sig[Parent[c]] /\ u.wchan[Parent[c]] # Addr(Parent[c])
    BY DEF Told
  <2>1. HearsOn(t, u, Parent[c])
    BY ParentFacts DEF Tells
  <2> QED
    BY <1>2, <2>1, ParentFacts DEF Told, HearsOn
<1> QED
  BY <1>1, <1>2 DEF Tells

LEMMA GoodSame ==
  ASSUME NEW s, NEW c, NEW m, Sound(s, c, m)
  PROVE  Good(s, s, c, m)
BY CalmSame, TellsSame DEF Good

LEMMA GoodTrans ==
  ASSUME NEW s, NEW t, NEW u, NEW c, NEW m, Good(s, t, c, m), NEW d, NEW n, Good(t, u, d, n)
  PROVE  Good(s, u, d, n)
BY CalmTrans, TellsTrans DEF Good

(* The pending signals of p change to X, or lose those in G.               *)
SetsSigs(s, t, p, X) == t = [s EXCEPT !.sig[p] = X]
DropsSigs(s, t, p, G) == t = [s EXCEPT !.sig[p] = @ \ G]

(* What only the pending signals of p tell from s.                         *)
SigsOnly(s, t, p) ==
  /\ Only(s, t, p)
  /\ t.stat = s.stat /\ t.wchan = s.wchan /\ t.sintr = s.sintr /\ t.tmo = s.tmo

LEMMA SigEdit ==
  ASSUME NEW s, NEW c, NEW m, Sound(s, c, m), NEW p \in Procs, NEW X \in SUBSET Sigs,
         ParentsHear /\ IsParent(p) =>
           /\ SIGCHLD \in s.sig[p] => SIGCHLD \in X
           /\ SIGKILL \in X => SIGKILL \in s.sig[p],
         NEW t, SetsSigs(s, t, p, X)
  PROVE  Good(s, t, c, m) /\ SigsOnly(s, t, p) /\ t.sig = [s.sig EXCEPT ![p] = X]
<1>1. s \in KType /\ p \in AllProcs
  BY ProcFacts DEF Sound, Core
<1>2. /\ t \in KType /\ SameQueues(s, t) /\ t.runout = s.runout /\ Kept(s, t)
      /\ t.sig = [s.sig EXCEPT ![p] = X] /\ t.waited = s.waited
  BY <1>1, Fields DEF KType, SameQueues, Kept, SetsSigs
<1>3. Sound(t, c, m)
  BY <1>2, SoundSame
<1>4. Calm(s, t)
  BY <1>2 DEF Calm, SameQueues, Kept
<1>5. ASSUME ParentsHear
      PROVE  Tells(s, t)
  <2>1. ASSUME NEW q \in Procs, IsParent(q)
        PROVE  HearsOn(s, t, q)
    <3>1. t.sig[q] = IF q = p THEN X ELSE s.sig[q]
      BY <1>1, <1>2, Fields, ProcFacts
    <3> QED
      BY <1>2, <1>5, <2>1, <3>1 DEF HearsOn, SameQueues
  <2> QED
    BY <1>2, <2>1 DEF Tells, Fresh, SameQueues
<1>6. SigsOnly(s, t, p)
  BY <1>2 DEF SigsOnly, Only, SameQueues, Kept
<1> QED
  BY <1>2, <1>3, <1>4, <1>5, <1>6 DEF Good

LEMMA WakeupGood ==
  ASSUME NEW s, NEW c, Sound(s, c, NoProc), NEW ch \in Chans
  PROVE  LET t == Wakeup(s, ch)
         IN /\ Good(s, t, c, NoProc) /\ t.sig = s.sig /\ t.waited = s.waited
            /\ \A p \in Procs : t.wchan[p] # ch /\ (t.stat[p] = "SSTOP" <=> s.stat[p] = "SSTOP")
<1> DEFINE t == Wakeup(s, ch)
<1>1. /\ Sound(t, c, NoProc) /\ Calm(s, t)
      /\ t.sig = s.sig /\ t.waited = s.waited
      /\ \A p \in Procs :
           /\ s.wchan[p] = ch => t.wchan[p] = NoChan
           /\ s.wchan[p] # ch => t.wchan[p] = s.wchan[p] /\ t.stat[p] = s.stat[p]
           /\ t.stat[p] = s.stat[p] \/ (s.stat[p] = "SSLEEP" /\ t.stat[p] = "SRUN")
  BY WakeupSound
<1> HIDE DEF t
<1>2. Tells(s, t)
  <2>1. \A q \in Procs : Addr(q) # NoChan
    BY ChanFacts
  <2> QED
    BY <1>1, <2>1 DEF Tells, HearsOn, Fresh
<1>3. ch # NoChan
  BY ChanFacts
<1>4. \A p \in Procs : t.wchan[p] # ch /\ (t.stat[p] = "SSTOP" <=> s.stat[p] = "SSTOP")
  BY <1>1, <1>3
<1> QED
  BY <1>1, <1>2, <1>4, Zenon DEF Good, t

LEMMA SetrunGood ==
  ASSUME NEW s, NEW c, NEW m, Sound(s, c, m), m \in Procs \cup {NoProc},
         NEW p \in Procs, s.stat[p] \in {"SSLEEP", "SSTOP"}, p # m
  PROVE  LET t == Setrun(s, p)
         IN /\ Good(s, t, c, m) /\ Only(s, t, p) /\ t.sig = s.sig
            /\ t.stat[p] = "SRUN" /\ t.wchan[p] = NoChan
<1> DEFINE t == Setrun(s, p)
<1>1. /\ Sound(t, c, m) /\ Calm(s, t)
      /\ t.sig = s.sig /\ t.waited = s.waited
      /\ t.stat[p] = "SRUN" /\ t.wchan[p] = NoChan
      /\ \A q \in Procs : q # p => t.stat[q] = s.stat[q] /\ t.wchan[q] = s.wchan[q]
  BY SetrunSound
<1> HIDE DEF t
<1>2. Tells(s, t)
  <2>1. \A q \in Procs : Addr(q) # NoChan
    BY ChanFacts
  <2> QED
    BY <1>1, <2>1 DEF Tells, HearsOn, Fresh
<1>3. Only(s, t, p)
  BY <1>1 DEF Only
<1> QED
  BY <1>1, <1>2, <1>3, Zenon DEF Good, t

(* A stopped process leaves its sleep queue.                               *)
LEMMA UnsleepStopped ==
  ASSUME NEW s, NEW c, NEW m, Sound(s, c, m), NEW p \in Procs,
         s.stat[p] # "SSLEEP"
  PROVE  LET t == Unsleep(s, p)
         IN /\ Good(s, t, c, m) \/ s.stat[p] = "SRUN"
            /\ Sound(t, c, m) /\ Only(s, t, p) /\ Kept(s, t)
            /\ t.sig = s.sig /\ t.stat = s.stat /\ t.wchan[p] = NoChan
            /\ Tells(s, t)
<1> DEFINE t == Unsleep(s, p)
<1>1. /\ Core(s, c, m) /\ Announced(s) /\ Served(s) /\ s \in KType
      /\ p \in AllProcs /\ p # Proc0
  BY ProcFacts DEF Sound, Core
<1>2. /\ t \in KType /\ Kept(s, t)
      /\ t.sig = s.sig /\ t.waited = s.waited
      /\ t.stat = s.stat /\ t.runq = s.runq /\ t.runout = s.runout
      /\ t.wchan = [s.wchan EXCEPT ![p] = NoChan]
      /\ t.slpq = (IF s.wchan[p] = NoChan THEN s.slpq ELSE s.slpq \ {p})
      /\ t.panic <=> s.panic \/ (s.wchan[p] # NoChan /\ p \notin s.slpq)
  BY <1>1, UnsleepIs, Zenon
<1> HIDE DEF t
<1>3. /\ t.wchan[p] = NoChan /\ p \notin t.slpq
      /\ \A q \in AllProcs : q # p => t.wchan[q] = s.wchan[q] /\ (q \in t.slpq <=> q \in s.slpq)
  BY <1>1, <1>2, Fields DEF Core, Place
<1>4. ASSUME NEW q \in AllProcs
      PROVE  Place(t, q, m)
  <2>1. Place(s, q, m)
    BY <1>1 DEF Core
  <2>2. CASE q = p
    BY <1>2, <1>3, <2>2, ChanFacts DEF Place
  <2>3. CASE q # p
    BY <1>2, <1>3, <2>1, <2>3 DEF Place
  <2> QED
    BY <2>2, <2>3
<1>5. HashApart => ~ t.panic
  BY <1>1, <1>2 DEF Core, Place
<1>6. Core(t, c, m)
  BY <1>1, <1>2, <1>4, <1>5 DEF Core, Runs, Kept
<1>7. Sound(t, c, m)
  BY <1>1, <1>2, <1>3, <1>6, ProcFacts DEF Sound, Announced, Served, Kept
<1>8. Tells(s, t) /\ Only(s, t, p)
  <2>1. \A q \in Procs : Addr(q) # NoChan
    BY ChanFacts
  <2> QED
    BY <1>2, <1>3, <2>1, ProcFacts DEF Tells, HearsOn, Fresh, Only
<1>9. Good(s, t, c, m) \/ s.stat[p] = "SRUN"
  BY <1>2, <1>3, <1>7, <1>8 DEF Good, Calm, Kept
<1> QED
  BY <1>2, <1>3, <1>7, <1>8, <1>9, Zenon DEF t

(* Signals other than SIGCHLD may be dropped, and SIGCHLD by whom is no    *)
(* parent.                                                                 *)
LEMMA DropSigs ==
  ASSUME NEW s, NEW c, NEW m, Sound(s, c, m), NEW p \in Procs, NEW G,
         ParentsHear /\ IsParent(p) => SIGCHLD \notin G, NEW t, DropsSigs(s, t, p, G)
  PROVE  /\ Good(s, t, c, m) /\ SigsOnly(s, t, p)
         /\ t.sig = [s.sig EXCEPT ![p] = s.sig[p] \ G]
<1> DEFINE X == s.sig[p] \ G
<1>1. X \in SUBSET Sigs
  BY Fields, ProcFacts DEF Sound, Core
<1>2. ParentsHear /\ IsParent(p) =>
        (SIGCHLD \in s.sig[p] => SIGCHLD \in X) /\ (SIGKILL \in X => SIGKILL \in s.sig[p])
  OBVIOUS
<1>3. SetsSigs(s, t, p, X)
  BY DEF SetsSigs, DropsSigs
<1> HIDE DEF X
<1>4. Good(s, t, c, m) /\ SigsOnly(s, t, p) /\ t.sig = [s.sig EXCEPT ![p] = X]
  BY <1>1, <1>2, <1>3, SigEdit
<1> QED
  BY <1>4 DEF X

(* psignal's note of a signal.                                             *)
LEMMA PostGood ==
  ASSUME NEW s, NEW c, NEW m, Sound(s, c, m), NEW p \in Procs, NEW g \in Sigs,
         IsParent(p) => g # SIGKILL
  PROVE  LET t == Post(s, p, g)
         IN Good(s, t, c, m) /\ SigsOnly(s, t, p) /\ g \in t.sig[p]
<1> DEFINE X == (s.sig[p] \ Cancels(g)) \cup {g}
<1>1. s.sig \in [AllProcs -> SUBSET Sigs] /\ p \in AllProcs
  BY Fields, ProcFacts DEF Sound, Core
<1>2. X \in SUBSET Sigs
  BY <1>1
<1>3. SIGCHLD \notin Cancels(g)
  BY DEF Cancels, SIGCHLD, SIGTSTP, SIGCONT
<1>4. ParentsHear /\ IsParent(p) =>
        (SIGCHLD \in s.sig[p] => SIGCHLD \in X) /\ (SIGKILL \in X => SIGKILL \in s.sig[p])
  BY <1>3
<1>5. SetsSigs(s, Post(s, p, g), p, X)
  BY DEF Post, SetsSigs
<1>6. g \in X /\ [s.sig EXCEPT ![p] = X][p] = X
  BY <1>1
<1> DEFINE t == Post(s, p, g)
<1> HIDE DEF X, t
<1>7. Good(s, t, c, m) /\ SigsOnly(s, t, p) /\ t.sig = [s.sig EXCEPT ![p] = X]
  BY <1>2, <1>4, <1>5, SigEdit, ZenonT(60) DEF t
<1> QED
  BY <1>6, <1>7 DEF t

(* "p->p_stat = SSLEEP" of a stopped process that is on a sleep queue.     *)
LEMMA SleepsOn ==
  ASSUME NEW s, NEW c, NEW m, Sound(s, c, m), NEW p \in Procs,
         s.stat[p] = "SSTOP", s.wchan[p] # NoChan
  PROVE  LET t == [s EXCEPT !.stat[p] = "SSLEEP"]
         IN Good(s, t, c, m) /\ Only(s, t, p)
<1> DEFINE t == [s EXCEPT !.stat[p] = "SSLEEP"]
<1>1. /\ Core(s, c, m) /\ Announced(s) /\ Served(s) /\ s \in KType
      /\ p \in AllProcs /\ p # Proc0 /\ p # NoProc
  BY ProcFacts DEF Sound, Core
<1>2. /\ t \in KType /\ Kept(s, t)
      /\ t.sig = s.sig /\ t.waited = s.waited /\ t.wchan = s.wchan /\ t.slpq = s.slpq
      /\ t.runq = s.runq /\ t.runout = s.runout /\ t.panic = s.panic
      /\ t.stat = [s.stat EXCEPT ![p] = "SSLEEP"]
  BY <1>1, Fields DEF KType, Kept, Stats
<1> HIDE DEF t
<1>3. t.stat[p] = "SSLEEP" /\ \A q \in AllProcs : q # p => t.stat[q] = s.stat[q]
  BY <1>1, <1>2, Fields
<1>4. \A q \in AllProcs : Place(t, q, m)
  BY <1>1, <1>2, <1>3 DEF Place, Core
<1>5. t.runq = { q \in t.load : t.stat[q] = "SRUN" } \ {c} /\ Runs(t, c)
  <2>1. t.load = s.load /\ s.load \subseteq AllProcs
    BY <1>1, <1>2, Fields DEF Kept
  <2>2. s.runq = { q \in s.load : s.stat[q] = "SRUN" } \ {c} /\ Runs(s, c)
    BY <1>1 DEF Core
  <2>3. \A q \in s.load : t.stat[q] = "SRUN" <=> s.stat[q] = "SRUN"
    BY <1>3, <2>1
  <2> QED
    BY <1>2, <2>1, <2>2, <2>3 DEF Runs
<1>6. Core(t, c, m)
  BY <1>1, <1>2, <1>3, <1>4, <1>5, ProcFacts DEF Core, Kept
<1>7. Sound(t, c, m)
  BY <1>1, <1>2, <1>3, <1>6, ProcFacts DEF Sound, Announced, Served, Kept
<1>8. Calm(s, t) /\ Tells(s, t) /\ Only(s, t, p)
  BY <1>2, <1>3, ProcFacts DEF Calm, Tells, HearsOn, Fresh, Only, Kept
<1> QED
  BY <1>7, <1>8, Zenon DEF t, Good

LEMMA OnlyTrans ==
  ASSUME NEW s, NEW t, NEW u, NEW p, Only(s, t, p), Only(t, u, p)
  PROVE  Only(s, u, p)
BY DEF Only

(* The case SSTOP of psignal.                                              *)
LEMMA PsignalStoppedGood ==
  ASSUME NEW s, NEW c, NEW m, Sound(s, c, m), m \in Procs \cup {NoProc},
         NEW p \in Procs, p # m, s.stat[p] = "SSTOP", NEW g \in Sigs
  PROVE  LET t == PsignalStopped(s, p, g)
         IN Good(s, t, c, m) /\ Only(s, t, p)
<1> DEFINE t == PsignalStopped(s, p, g)
           d == [s EXCEPT !.sig[p] = @ \ {g}]
           s1 == IF Action[p][g] = "DFL" THEN d ELSE s
<1>1. /\ g = SIGKILL => t = Setrun(s, p)
      /\ g = SIGCONT => t = IF Action[p][g] = "CATCH" \/ s.wchan[p] = NoChan
                              THEN Setrun(s1, p) ELSE [s1 EXCEPT !.stat[p] = "SSLEEP"]
      /\ g = SIGTSTP => t = d
      /\ g \notin {SIGKILL, SIGCONT, SIGTSTP} =>
           t = IF p \in s.sintr THEN Unsleep(s, p) ELSE s
  BY DEF PsignalStopped, SIGKILL, SIGCONT, SIGTSTP
<1>2. Good(s, s, c, m) /\ Only(s, s, p)
  BY GoodSame DEF Only
<1>3. ASSUME g # SIGCHLD
      PROVE  Good(s, d, c, m) /\ SigsOnly(s, d, p)
  <2>1. SIGCHLD \notin {g} /\ DropsSigs(s, d, p, {g})
    BY <1>3 DEF DropsSigs
  <2> HIDE DEF d
  <2> QED
    BY <2>1, DropSigs
<1> SUFFICES Good(s, t, c, m) /\ Only(s, t, p)
  OBVIOUS
<1> HIDE DEF t, d
<1>4. CASE g = SIGKILL
  BY <1>1, <1>4, SetrunGood
<1>5. CASE g = SIGCONT
  <2>1. Good(s, s1, c, m) /\ Only(s, s1, p) /\ s1.stat = s.stat /\ s1.wchan = s.wchan
    BY <1>2, <1>3, <1>5 DEF SIGCONT, SIGCHLD, SigsOnly
  <2>2. Sound(s1, c, m)
    BY <2>1 DEF Good
  <2> HIDE DEF s1
  <2>3. Good(s1, t, c, m) /\ Only(s1, t, p)
    <3>1. CASE Action[p][g] = "CATCH" \/ s.wchan[p] = NoChan
      BY <1>1, <1>5, <2>1, <2>2, <3>1, SetrunGood
    <3>2. CASE ~ (Action[p][g] = "CATCH" \/ s.wchan[p] = NoChan)
      BY <1>1, <1>5, <2>1, <2>2, <3>2, SleepsOn
    <3> QED
      BY <3>1, <3>2
  <2> QED
    BY <2>1, <2>3, GoodTrans, OnlyTrans
<1>6. CASE g = SIGTSTP
  BY <1>1, <1>3, <1>6 DEF SIGTSTP, SIGCHLD, SigsOnly
<1>7. CASE g \notin {SIGKILL, SIGCONT, SIGTSTP}
  <2>1. CASE p \in s.sintr
    BY <1>1, <1>7, <2>1, UnsleepStopped
  <2>2. CASE p \notin s.sintr
    BY <1>1, <1>2, <1>7, <2>2
  <2> QED
    BY <2>1, <2>2
<1> QED
  BY <1>4, <1>5, <1>6, <1>7

(* The case SSLEEP of psignal, of a signal that does not stop p.           *)
LEMMA PsignalAsleepGood ==
  ASSUME NEW s, NEW c, NEW m, Sound(s, c, m), m \in Procs \cup {NoProc},
         NEW p \in Procs, p # m, s.stat[p] = "SSLEEP", NEW g \in Sigs
  PROVE  LET t == PsignalAsleep(s, p, g)
         IN Good(s, t, c, m) /\ Only(s, t, p)
<1> DEFINE t == PsignalAsleep(s, p, g)
           d == [s EXCEPT !.sig[p] = @ \ {g}]
<1>1. t = IF p \notin s.sintr THEN s
          ELSE IF g = SIGCONT /\ Action[p][g] = "DFL" THEN d ELSE Setrun(s, p)
  BY DEF PsignalAsleep
<1>2. Good(s, s, c, m) /\ Only(s, s, p)
  BY GoodSame DEF Only
<1>3. g = SIGCONT => Good(s, d, c, m) /\ Only(s, d, p)
  <2>1. g = SIGCONT => SIGCHLD \notin {g}
    BY DEF SIGCONT, SIGCHLD
  <2>2. DropsSigs(s, d, p, {g})
    BY DEF DropsSigs
  <2> HIDE DEF d
  <2> QED
    BY <2>1, <2>2, DropSigs DEF SigsOnly
<1>4. Good(s, Setrun(s, p), c, m) /\ Only(s, Setrun(s, p), p)
  BY SetrunGood
<1> HIDE DEF t, d
<1>5. Good(s, t, c, m) /\ Only(s, t, p)
  BY <1>1, <1>2, <1>3, <1>4
<1> QED
  BY <1>5 DEF t

(* psignal, given what its case SSLEEP leaves.                             *)
LEMMA DeliverGood ==
  ASSUME NEW s, NEW c, NEW m, Sound(s, c, m), m \in Procs \cup {NoProc},
         NEW p \in Procs, p # m, NEW g \in Sigs, IsParent(p) => g # SIGKILL,
         NEW a, s.stat[p] = "SSLEEP" => Good(s, a, c, m)
  PROVE  /\ Good(s, Deliver(s, p, g, a), c, m)
         /\ (s.stat[p] = "SSLEEP" => Only(s, a, p)) => Only(s, Deliver(s, p, g, a), p)
<1> DEFINE t == Deliver(s, p, g, a)
           u == Post(s, p, g)
           w == PsignalStopped(u, p, g)
<1>1. t \in {s, u} \/ (s.stat[p] = "SSLEEP" /\ t = a) \/ (s.stat[p] = "SSTOP" /\ t = w)
  BY DEF Deliver
<1>2. Good(s, s, c, m) /\ Only(s, s, p)
  BY GoodSame DEF Only
<1>3. Good(s, u, c, m) /\ Only(s, u, p) /\ u.stat = s.stat
  BY PostGood DEF SigsOnly
<1>4. Sound(u, c, m)
  BY <1>3 DEF Good
<1> HIDE DEF u
<1>5. s.stat[p] = "SSTOP" => Good(u, w, c, m) /\ Only(u, w, p)
  BY <1>3, <1>4, PsignalStoppedGood
<1> HIDE DEF t, w
<1>6. s.stat[p] = "SSTOP" => Good(s, w, c, m) /\ Only(s, w, p)
  BY <1>3, <1>5, GoodTrans, OnlyTrans
<1> QED
  BY <1>1, <1>2, <1>3, <1>6 DEF t

(* psignal(p_pptr, SIGCHLD): the parent has the signal pending.            *)
LEMMA SigchldGood ==
  ASSUME NEW s, NEW c, NEW m, Sound(s, c, m), NEW p \in Procs, m \in {p, NoProc}
  PROVE  LET t == Sigchld(s, p)
         IN /\ Good(s, t, c, m) /\ Only(s, t, Parent[p])
            /\ ParentsHear /\ Alive(s) /\ Parent[p] # NoProc => SIGCHLD \in t.sig[Parent[p]]
<1> DEFINE t == Sigchld(s, p)
           q == Parent[p]
           u == Post(s, q, SIGCHLD)
           a == PsignalAsleep(u, q, SIGCHLD)
           w == PsignalStopped(u, q, SIGCHLD)
<1> SUFFICES /\ Good(s, t, c, m) /\ Only(s, t, q)
             /\ ParentsHear /\ Alive(s) /\ q # NoProc => SIGCHLD \in t.sig[q]
  OBVIOUS
<1>1. CASE q = NoProc
  <2>1. t = s
    BY <1>1 DEF Sigchld
  <2> HIDE DEF t
  <2> QED
    BY <1>1, <2>1, GoodSame DEF Only
<1>2. CASE q # NoProc
  <2>1. t = Deliver(s, q, SIGCHLD, a)
    BY <1>2, Zenon DEF Sigchld
  <2>2. q \in Procs /\ q # p /\ IsParent(q) /\ q # NoProc
    BY <1>2, ParentFacts
  <2>3. q # m /\ m \in Procs \cup {NoProc} /\ SIGCHLD \in Sigs /\ SIGCHLD # SIGKILL
    BY <1>2, <2>2 DEF Sigs, SIGCHLD, SIGKILL
  <2>4. \/ Forgets(s, q, SIGCHLD)
        \/ Deferred(s, q, SIGCHLD)
        \/ (s.stat[q] = "SSLEEP" /\ t = a) \/ (s.stat[q] = "SSTOP" /\ t = w)
        \/ t = u
    BY <2>1 DEF Deliver
  <2> HIDE DEF q, t
  <2>5. Good(s, u, c, m) /\ SigsOnly(s, u, q) /\ SIGCHLD \in u.sig[q]
    BY <2>2, <2>3, PostGood
  <2>6. Sound(u, c, m) /\ u.stat = s.stat
    BY <2>5 DEF Good, SigsOnly
  <2> HIDE DEF u
  <2>7. s.stat[q] = "SSLEEP" => Good(u, a, c, m) /\ Only(u, a, q)
    BY <2>2, <2>3, <2>6, PsignalAsleepGood
  <2>8. s.stat[q] = "SSTOP" => Good(u, w, c, m)
    BY <2>2, <2>3, <2>6, PsignalStoppedGood
  <2> HIDE DEF a, w
  <2>9. s.stat[q] = "SSLEEP" => Good(s, a, c, m) /\ Only(s, a, q)
    BY <2>5, <2>7, GoodTrans, OnlyTrans DEF SigsOnly
  <2>10. Good(s, t, c, m) /\ Only(s, t, q)
    BY <2>1, <2>2, <2>3, <2>9, DeliverGood
  <2>11. ASSUME ParentsHear, Alive(s)
         PROVE  SIGCHLD \in t.sig[q]
    <3>1. ~ Forgets(s, q, SIGCHLD) /\ ~ Deferred(s, q, SIGCHLD)
      BY <2>2, <2>11 DEF ParentsHear, Alive, Forgets, Deferred, SIGCHLD, SIGTSTP
    <3>2. Good(u, t, c, m)
      BY <2>4, <2>6, <2>7, <2>8, <3>1, GoodSame
    <3>3. HearsOn(u, t, q)
      BY <2>2, <2>11, <3>2 DEF Good, Tells
    <3> QED
      BY <2>5, <3>3 DEF HearsOn
  <2> QED
    BY <2>10, <2>11
<1> QED
  BY <1>1, <1>2

(* As Calm, but for p.                                                     *)
CalmBut(s, t, p) ==
  /\ t.load = s.load /\ t.timer = s.timer /\ t.tmo = s.tmo
  /\ \A q \in AllProcs \ {p} :
       s.stat[q] = "SRUN" => t.stat[q] = "SRUN" /\ t.wchan[q] = s.wchan[q]

LEMMA CalmButTrans ==
  ASSUME NEW s, NEW t, NEW u, NEW p,
         \/ Calm(s, t) /\ CalmBut(t, u, p)
         \/ CalmBut(s, t, p) /\ Calm(t, u)
  PROVE  CalmBut(s, u, p)
BY DEF Calm, CalmBut

(* p, which has the CPU or sleeps, stops or dies.                          *)
Marks(s, t, p, st) ==
  /\ t \in KType /\ t.stat = [s.stat EXCEPT ![p] = st]
  /\ t.wchan = s.wchan /\ t.slpq = s.slpq /\ t.runq = s.runq
  /\ t.load = s.load /\ t.panic = s.panic /\ t.runout = s.runout
  /\ t.timer = s.timer /\ t.tmo = s.tmo
Halts(s, c, m, p) ==
  /\ m \in {p, NoProc}
  /\ p = c \/ (s.stat[p] = "SSLEEP" /\ m = NoProc)
CpuAfter(c, p) == IF p = c THEN NoProc ELSE c

LEMMA MarkSound ==
  ASSUME NEW s, NEW c, NEW m, Sound(s, c, m), NEW p \in Procs, Halts(s, c, m, p),
         NEW st \in {"SSTOP", "SZOMB"}, st = "SZOMB" => s.wchan[p] = NoChan,
         NEW t, Marks(s, t, p, st)
  PROVE  Sound(t, CpuAfter(c, p), NoProc) /\ CalmBut(s, t, p)
<1> DEFINE d == CpuAfter(c, p)
<1>1. /\ Core(s, c, m) /\ Announced(s) /\ Served(s) /\ s \in KType
      /\ p \in AllProcs /\ p # Proc0 /\ p # NoProc
  BY ProcFacts DEF Sound, Core
<1>2. /\ t \in KType /\ t.wchan = s.wchan /\ t.slpq = s.slpq /\ t.runq = s.runq
      /\ t.load = s.load /\ t.panic = s.panic /\ t.runout = s.runout
      /\ t.timer = s.timer /\ t.tmo = s.tmo
  BY DEF Marks
<1>3. t.stat[p] = st /\ \A q \in AllProcs : q # p => t.stat[q] = s.stat[q]
  BY <1>1, Fields DEF Marks
<1>4. ASSUME NEW q \in AllProcs
      PROVE  Place(t, q, NoProc)
  <2>1. Place(s, q, m)
    BY <1>1 DEF Core
  <2>2. CASE q = p
    BY <1>2, <1>3, <2>1, <2>2 DEF Place
  <2>3. CASE q # p
    <3>1. q # m
      BY <2>3, ProcFacts DEF Halts
    <3> QED
      BY <1>2, <1>3, <2>1, <2>3, <3>1 DEF Place
  <2> QED
    BY <2>2, <2>3
<1>5. t.runq = { q \in t.load : t.stat[q] = "SRUN" } \ {d} /\ Runs(t, d)
  <2>1. s.load \subseteq AllProcs
    BY <1>1, Fields
  <2>2. s.runq = { q \in s.load : s.stat[q] = "SRUN" } \ {c} /\ Runs(s, c)
    BY <1>1 DEF Core
  <2>3. \A q \in s.load : t.stat[q] = "SRUN" <=> s.stat[q] = "SRUN" /\ q # p
    BY <1>3, <2>1
  <2>4. NoProc \notin s.load
    BY <2>1, ProcFacts
  <2>5. CASE p = c
    BY <1>2, <2>2, <2>3, <2>4, <2>5 DEF CpuAfter, Runs
  <2>6. CASE p # c
    <3>1. s.stat[p] = "SSLEEP" /\ d = c
      BY <2>6 DEF Halts, CpuAfter
    <3>2. t.runq = { q \in t.load : t.stat[q] = "SRUN" } \ {d}
      BY <1>2, <2>2, <2>3, <3>1
    <3> QED
      BY <1>2, <2>2, <2>3, <2>6, <3>1, <3>2 DEF Runs
  <2> QED
    BY <2>5, <2>6
<1> HIDE DEF d
<1>6. Core(t, d, NoProc)
  BY <1>1, <1>2, <1>3, <1>4, <1>5, ProcFacts DEF Core
<1>7. Sound(t, d, NoProc)
  BY <1>1, <1>2, <1>3, <1>6, ProcFacts DEF Sound, Announced, Served
<1>8. CalmBut(s, t, p)
  BY <1>2, <1>3 DEF CalmBut
<1> QED
  BY <1>7, <1>8 DEF d

(* stop(p), once the parent has SIGCHLD pending.                           *)
LEMMA StopGood ==
  ASSUME NEW s, NEW c, NEW m, Sound(s, c, m), NEW p \in Procs, Halts(s, c, m, p),
         ParentsHear /\ Parent[p] # NoProc => SIGCHLD \in s.sig[Parent[p]]
  PROVE  LET t == Stop(s, p)
         IN /\ Sound(t, CpuAfter(c, p), NoProc) /\ CalmBut(s, t, p)
            /\ ParentsHear => Tells(s, t)
            /\ t.stat[p] = "SSTOP"
<1> DEFINE t == Stop(s, p)
           u == [s EXCEPT !.stat[p] = "SSTOP", !.waited = @ \ {p}]
           d == CpuAfter(c, p)
           ch == Addr(Parent[p])
<1> SUFFICES /\ Sound(t, d, NoProc) /\ CalmBut(s, t, p)
             /\ ParentsHear => Tells(s, t)
             /\ t.stat[p] = "SSTOP"
  OBVIOUS
<1>1. s \in KType /\ p \in AllProcs
  BY ProcFacts DEF Sound, Core
<1>2. t = IF Parent[p] = NoProc THEN u ELSE Wakeup(u, ch)
  BY Zenon DEF Stop, Orphan
<1>3. /\ Marks(s, u, p, "SSTOP") /\ u.sig = s.sig /\ u.waited = s.waited \ {p}
      /\ u.wchan = s.wchan
  BY <1>1, Fields DEF KType, Marks, Stats
<1> HIDE DEF u, t
<1>4. Sound(u, d, NoProc) /\ CalmBut(s, u, p)
  BY <1>3, MarkSound
<1>5. u.stat[p] = "SSTOP" /\ \A q \in Procs : q # p => u.stat[q] = s.stat[q]
  BY <1>1, <1>3, Fields, ProcFacts DEF Marks
<1>6. \A q \in Procs : HearsOn(s, u, q)
  BY <1>3, <1>5 DEF HearsOn
<1>7. \A q \in Procs : Fresh(u, q) => q = p \/ Fresh(s, q)
  BY <1>3, <1>5 DEF Fresh
<1> HIDE DEF d
<1>8. CASE Parent[p] = NoProc
  <2>1. t = u
    BY <1>2, <1>8
  <2>2. Told(u, p)
    BY <1>8 DEF Told
  <2> QED
    BY <1>4, <1>5, <1>6, <1>7, <2>1, <2>2 DEF Tells
<1>9. CASE Parent[p] # NoProc
  <2>1. t = Wakeup(u, ch) /\ Parent[p] \in Procs /\ ch \in Chans
    BY <1>2, <1>9, ParentFacts
  <2>2. /\ Good(u, t, d, NoProc) /\ t.sig = u.sig /\ t.waited = u.waited
        /\ \A q \in Procs : t.wchan[q] # ch /\ (t.stat[q] = "SSTOP" <=> u.stat[q] = "SSTOP")
    BY <1>4, <2>1, WakeupGood
  <2>3. Sound(t, d, NoProc) /\ CalmBut(s, t, p) /\ t.stat[p] = "SSTOP"
    BY <1>4, <1>5, <2>2, CalmButTrans DEF Good
  <2>4. ASSUME ParentsHear
        PROVE  Tells(s, t)
    <3>1. Told(t, p)
      BY <1>3, <1>9, <2>1, <2>2, <2>4 DEF Told
    <3>2. ASSUME NEW q \in Procs, IsParent(q)
          PROVE  HearsOn(s, t, q)
      <4>1. HearsOn(u, t, q)
        BY <2>2, <2>4, <3>2 DEF Good, Tells
      <4> QED
        BY <1>6, <4>1 DEF HearsOn
    <3>3. ASSUME NEW q \in Procs, Fresh(t, q)
          PROVE  Fresh(s, q) \/ Told(t, q)
      <4>1. Fresh(u, q)
        BY <2>2, <3>3 DEF Fresh
      <4> QED
        BY <1>7, <3>1, <4>1
    <3> QED
      BY <3>2, <3>3 DEF Tells
  <2> QED
    BY <2>3, <2>4
<1> QED
  BY <1>8, <1>9

(* SIGCHLD for the parent, and the stop.                                   *)
LEMMA SigchldStopGood ==
  ASSUME NEW s, NEW c, NEW m, Sound(s, c, m), NEW p \in Procs, Halts(s, c, m, p),
         ParentsHear => Alive(s)
  PROVE  LET t == Stop(Sigchld(s, p), p)
         IN /\ Sound(t, CpuAfter(c, p), NoProc) /\ CalmBut(s, t, p)
            /\ ParentsHear => Tells(s, t)
            /\ t.stat[p] = "SSTOP"
<1> DEFINE u == Sigchld(s, p)
           t == Stop(u, p)
<1>1. p \in AllProcs /\ m \in {p, NoProc} /\ p # Parent[p]
  BY SynchAssumption, ProcFacts DEF Halts
<1>2. /\ Good(s, u, c, m) /\ Only(s, u, Parent[p])
      /\ ParentsHear /\ Alive(s) /\ Parent[p] # NoProc => SIGCHLD \in u.sig[Parent[p]]
  BY <1>1, SigchldGood
<1> HIDE DEF u
<1>3. Sound(u, c, m) /\ Calm(s, u) /\ (ParentsHear => Tells(s, u))
  BY <1>2 DEF Good
<1>4. Halts(u, c, m, p)
  BY <1>1, <1>2 DEF Halts, Only
<1>5. /\ Sound(t, CpuAfter(c, p), NoProc) /\ CalmBut(u, t, p)
      /\ ParentsHear => Tells(u, t)
      /\ t.stat[p] = "SSTOP"
  BY <1>2, <1>3, <1>4, StopGood
<1> HIDE DEF t
<1>6. CalmBut(s, t, p)
  BY <1>3, <1>5, CalmButTrans
<1>7. ParentsHear => Tells(s, t)
  BY <1>3, <1>5, TellsTrans
<1> QED
  BY <1>5, <1>6, <1>7, Zenon DEF t, u

(* psignal, from an interrupt.                                             *)
LEMMA PsignalGood ==
  ASSUME NEW s, NEW c, Sound(s, c, NoProc), NEW p \in Procs, NEW g \in Sigs,
         IsParent(p) => g # SIGKILL, ParentsHear => Alive(s)
  PROVE  Good(s, Psignal(s, p, g), c, NoProc)
<1> DEFINE u == Post(s, p, g)
           v == [u EXCEPT !.sig[p] = @ \ {g}]
           w == Stop(Sigchld(v, p), p)
           b == PsignalAsleep(u, p, g)
           a == IF StopsNow(s, p, g) THEN w ELSE b
<1>1. Psignal(s, p, g) = Deliver(s, p, g, a)
  BY Zenon DEF Psignal
<1>2. p # NoProc /\ NoProc \in Procs \cup {NoProc}
  BY ProcFacts
<1>3. Good(s, u, c, NoProc) /\ SigsOnly(s, u, p)
  BY PostGood
<1>4. DropsSigs(u, v, p, {g})
  BY DEF DropsSigs
<1> HIDE DEF u, v
<1>5. Sound(u, c, NoProc) /\ u.stat = s.stat
  BY <1>3 DEF Good, SigsOnly
<1>6. s.stat[p] = "SSLEEP" => Good(s, b, c, NoProc)
  <2>1. s.stat[p] = "SSLEEP" => Good(u, b, c, NoProc)
    BY <1>2, <1>5, PsignalAsleepGood
  <2> HIDE DEF b
  <2> QED
    BY <1>3, <2>1, GoodTrans
<1>7. ASSUME s.stat[p] = "SSLEEP", StopsNow(s, p, g)
      PROVE  Good(s, w, c, NoProc)
  <2>1. SIGCHLD \notin {g}
    BY <1>7 DEF StopsNow, SIGCHLD, SIGTSTP
  <2>2. Good(u, v, c, NoProc) /\ SigsOnly(u, v, p)
    BY <1>4, <1>5, <2>1, DropSigs
  <2>3. Sound(v, c, NoProc) /\ v.stat = s.stat /\ Good(s, v, c, NoProc)
    BY <1>3, <1>5, <2>2, GoodTrans DEF Good, SigsOnly
  <2>4. Halts(v, c, NoProc, p)
    BY <1>7, <2>3 DEF Halts
  <2>5. ParentsHear => Alive(v)
    BY <2>3 DEF Alive
  <2>6. /\ Sound(w, CpuAfter(c, p), NoProc) /\ CalmBut(v, w, p)
        /\ ParentsHear => Tells(v, w)
    BY <2>3, <2>4, <2>5, SigchldStopGood
  <2> HIDE DEF w
  <2>7. p # c
    BY <1>7, ProcFacts DEF Sound, Core, Runs
  <2>8. Sound(w, c, NoProc)
    BY <2>6, <2>7 DEF CpuAfter
  <2>9. Calm(v, w)
    BY <1>7, <2>3, <2>6 DEF Calm, CalmBut
  <2>10. Good(v, w, c, NoProc)
    BY <2>6, <2>8, <2>9 DEF Good
  <2> QED
    BY <2>3, <2>10, GoodTrans
<1> HIDE DEF w, b
<1>8. s.stat[p] = "SSLEEP" => Good(s, a, c, NoProc)
  BY <1>6, <1>7
<1> HIDE DEF a
<1> QED
  BY <1>1, <1>2, <1>8, DeliverGood

-----------------------------------------------------------------------------
(* issignal.                                                               *)

LEMMA LeastIs ==
  ASSUME NEW S \in SUBSET Sigs, S # {}
  PROVE  Least(S) \in S /\ \A h \in S : Least(S) <= h
<1>1. \E g \in S : \A h \in S : g <= h
  <2>1. S \subseteq {2, 9, 18, 19, 20}
    BY DEF Sigs, SIGINT, SIGKILL, SIGTSTP, SIGCONT, SIGCHLD
  <2>2. CASE 2 \in S
    BY <2>1, <2>2
  <2>3. CASE 2 \notin S /\ 9 \in S
    BY <2>1, <2>3
  <2>4. CASE 2 \notin S /\ 9 \notin S /\ 18 \in S
    BY <2>1, <2>4
  <2>5. CASE 2 \notin S /\ 9 \notin S /\ 18 \notin S /\ 19 \in S
    BY <2>1, <2>5
  <2>6. CASE 2 \notin S /\ 9 \notin S /\ 18 \notin S /\ 19 \notin S
    <3>1. S = {20}
      BY <2>1, <2>6
    <3> QED
      BY <3>1
  <2> QED
    BY <2>2, <2>3, <2>4, <2>5, <2>6
<1> QED
  BY <1>1 DEF Least

(* What issignal may leave of a process that has the CPU: it found no      *)
(* signal, or one to act on, or it stopped.                                *)
NoSignal(s, r, p, m) ==
  /\ r.res = 0 /\ Good(s, r.k, p, m) /\ SigsOnly(s, r.k, p)
  /\ ParentsHear /\ IsParent(p) => SIGCHLD \notin s.sig[p]
ActsOn(s, r, p, m) ==
  /\ r.res \in Sigs /\ r.res \in s.sig[p] /\ Good(s, r.k, p, m) /\ SigsOnly(s, r.k, p)
StopsIn(s, r, p) ==
  /\ r.res = STOPPED /\ Sound(r.k, NoProc, NoProc) /\ CalmBut(s, r.k, p)
  /\ r.k.stat[p] = "SSTOP"
  /\ ParentsHear => Tells(s, r.k) /\ ~ IsParent(p)

LEMMA IssignalGood ==
  ASSUME NEW s, NEW p \in Procs, NEW m, Sound(s, p, m), m \in {p, NoProc},
         ParentsHear => Alive(s)
  PROVE  LET r == Issignal(s, p)
         IN NoSignal(s, r, p, m) \/ ActsOn(s, r, p, m) \/ StopsIn(s, r, p)
<1> DEFINE r == Issignal(s, p)
           E == Effective(s, p)
           g == Least(E)
           X == { h \in s.sig[p] : h \notin Seen(s, p) \/ h >= g }
           u == [s EXCEPT !.sig[p] = { h \in @ : h \notin Seen(s, p) \/ h >= g }]
           v == [s EXCEPT !.sig[p] = @ \ Seen(s, p)]
           w == Stop(Sigchld(u, p), p)
<1> SUFFICES NoSignal(s, r, p, m) \/ ActsOn(s, r, p, m) \/ StopsIn(s, r, p)
  OBVIOUS
<1>1. /\ E = {} => r = [k |-> v, res |-> 0]
      /\ E # {} /\ g = SIGTSTP /\ Action[p][g] = "DFL" => r = [k |-> w, res |-> STOPPED]
      /\ E # {} /\ ~ (g = SIGTSTP /\ Action[p][g] = "DFL") => r = [k |-> u, res |-> g]
  BY Zenon DEF Issignal
<1>2. s.sig[p] \in SUBSET Sigs /\ E \subseteq s.sig[p] /\ SIGCHLD \in Sigs
  BY Fields, ProcFacts DEF Sound, Core, Effective, Seen, Sigs
<1>3. ASSUME ParentsHear, IsParent(p), SIGCHLD \in s.sig[p]
      PROVE  SIGCHLD \in E
  BY <1>3 DEF ParentsHear, Effective, Seen, NoEffect, SIGCHLD, SIGCONT, SIGTSTP
<1>4. E # {} => g \in E /\ \A h \in E : g <= h
  BY <1>2, LeastIs
<1>5. \A h \in Sigs : h \in Int
  BY DEF Sigs, SIGINT, SIGKILL, SIGTSTP, SIGCONT, SIGCHLD
<1>6. SetsSigs(s, u, p, X) /\ DropsSigs(s, v, p, Seen(s, p)) /\ X \in SUBSET Sigs
  BY <1>2 DEF SetsSigs, DropsSigs
<1>7. ParentsHear /\ IsParent(p) /\ E # {} => (SIGCHLD \in s.sig[p] => SIGCHLD \in X)
  BY <1>2, <1>3, <1>4, <1>5
<1>8. SIGKILL \in X => SIGKILL \in s.sig[p]
  OBVIOUS
<1>9. g = SIGTSTP /\ g \in E /\ Action[p][g] = "DFL" => ~ Orphan(p)
  BY DEF Effective, NoEffect
<1> HIDE DEF r, u, v, X, E, g
<1>10. CASE E = {}
  <2>1. ParentsHear /\ IsParent(p) => SIGCHLD \notin s.sig[p]
    BY <1>3, <1>10
  <2>2. Good(s, v, p, m) /\ SigsOnly(s, v, p)
    <3>1. ParentsHear /\ IsParent(p) => SIGCHLD \notin Seen(s, p)
      BY <2>1 DEF Seen
    <3> QED
      BY <1>6, <3>1, DropSigs
  <2> QED
    BY <1>1, <1>10, <2>1, <2>2 DEF NoSignal
<1>11. CASE E # {}
  <2>1. Good(s, u, p, m) /\ SigsOnly(s, u, p)
    BY <1>6, <1>7, <1>8, <1>11, SigEdit
  <2>2. CASE g = SIGTSTP /\ Action[p][g] = "DFL"
    <3>1. Sound(u, p, m) /\ u.stat = s.stat /\ Calm(s, u) /\ (ParentsHear => Tells(s, u))
      BY <2>1 DEF Good, SigsOnly
    <3>2. Halts(u, p, m, p) /\ (ParentsHear => Alive(u))
      BY <3>1 DEF Halts, Alive
    <3>3. /\ Sound(w, CpuAfter(p, p), NoProc) /\ CalmBut(u, w, p)
          /\ ParentsHear => Tells(u, w)
          /\ w.stat[p] = "SSTOP"
      BY <3>1, <3>2, SigchldStopGood
    <3> HIDE DEF w
    <3>4. CalmBut(s, w, p) /\ (ParentsHear => Tells(s, w)) /\ Sound(w, NoProc, NoProc)
      BY <3>1, <3>3, CalmButTrans, TellsTrans DEF CpuAfter
    <3>5. ParentsHear => ~ IsParent(p)
      BY <1>4, <1>9, <1>11, <2>2 DEF ParentsHear
    <3>6. r.k = w /\ r.res = STOPPED
      BY <1>1, <1>11, <2>2
    <3> QED
      BY <3>3, <3>4, <3>5, <3>6 DEF StopsIn
  <2>3. CASE ~ (g = SIGTSTP /\ Action[p][g] = "DFL")
    <3>1. r.k = u /\ r.res = g
      BY <1>1, <1>11, <2>3
    <3>2. g \in Sigs /\ g \in s.sig[p]
      BY <1>2, <1>4, <1>11
    <3> QED
      BY <2>1, <3>1, <3>2 DEF ActsOn
  <2> QED
    BY <2>2, <2>3
<1> QED
  BY <1>10, <1>11

(* The same after a stop.                                                  *)
LEMMA IssignalAgainGood ==
  ASSUME NEW s, NEW p \in Procs, NEW m, Sound(s, p, m), m \in {p, NoProc},
         ParentsHear => Alive(s)
  PROVE  LET r == IssignalAgain(s, p)
         IN NoSignal(s, r, p, m) \/ ActsOn(s, r, p, m) \/ StopsIn(s, r, p)
<1> DEFINE r == IssignalAgain(s, p)
           v == [s EXCEPT !.sig[p] = @ \ {SIGTSTP}]
<1> SUFFICES NoSignal(s, r, p, m) \/ ActsOn(s, r, p, m) \/ StopsIn(s, r, p)
  OBVIOUS
<1>1. r = Issignal(v, p)
  BY DEF IssignalAgain
<1>2. DropsSigs(s, v, p, {SIGTSTP}) /\ SIGCHLD \notin {SIGTSTP}
  BY DEF DropsSigs, SIGTSTP, SIGCHLD
<1> HIDE DEF v, r
<1>3. Good(s, v, p, m) /\ SigsOnly(s, v, p) /\ v.sig = [s.sig EXCEPT ![p] = s.sig[p] \ {SIGTSTP}]
  BY <1>2, DropSigs
<1>4. /\ Sound(v, p, m) /\ v.stat = s.stat /\ Calm(s, v) /\ (ParentsHear => Tells(s, v))
      /\ v.sig[p] = s.sig[p] \ {SIGTSTP}
  BY <1>3, Fields, ProcFacts DEF Good, SigsOnly, Sound, Core
<1>5. NoSignal(v, r, p, m) \/ ActsOn(v, r, p, m) \/ StopsIn(v, r, p)
  <2>1. ParentsHear => Alive(v)
    BY <1>4 DEF Alive
  <2> QED
    BY <1>1, <1>4, <2>1, IssignalGood
<1>6. SigsOnly(v, r.k, p) => SigsOnly(s, r.k, p)
  BY <1>3, OnlyTrans DEF SigsOnly
<1>7. Good(v, r.k, p, m) => Good(s, r.k, p, m)
  BY <1>3, GoodTrans
<1>8. CASE NoSignal(v, r, p, m)
  BY <1>2, <1>4, <1>6, <1>7, <1>8 DEF NoSignal
<1>9. CASE ActsOn(v, r, p, m)
  BY <1>4, <1>6, <1>7, <1>9 DEF ActsOn
<1>10. CASE StopsIn(v, r, p)
  <2>1. CalmBut(s, r.k, p) /\ (ParentsHear => Tells(s, r.k))
    BY <1>4, <1>10, CalmButTrans, TellsTrans DEF StopsIn
  <2> QED
    BY <1>10, <2>1 DEF StopsIn
<1> QED
  BY <1>5, <1>8, <1>9, <1>10

(* exit: the parent is told and woken.                                     *)
LEMMA ExitGood ==
  ASSUME NEW s, NEW p \in Procs, Sound(s, p, NoProc), ParentsHear => Alive(s),
         ParentsHear => ~ IsParent(p)
  PROVE  LET t == Exit(s, p)
         IN /\ Sound(t, NoProc, NoProc) /\ CalmBut(s, t, p)
            /\ ParentsHear => Tells(s, t) /\ Told(t, p)
<1> DEFINE t == Exit(s, p)
           u == [s EXCEPT !.stat[p] = "SZOMB", !.sig[p] = {}]
           v == Sigchld(u, p)
           ch == Addr(Parent[p])
<1> SUFFICES /\ Sound(t, NoProc, NoProc) /\ CalmBut(s, t, p)
             /\ ParentsHear => Tells(s, t) /\ Told(t, p)
  OBVIOUS
<1>1. s \in KType /\ p \in AllProcs /\ p # NoProc
  BY ProcFacts DEF Sound, Core
<1>2. s.stat[p] = "SRUN" /\ s.wchan[p] = NoChan
  BY <1>1 DEF Sound, Core, Runs, Place
<1>3. t = IF Parent[p] = NoProc THEN v ELSE Wakeup(v, ch)
  BY Zenon DEF Exit, Orphan
<1>4. /\ Marks(s, u, p, "SZOMB") /\ u.sig = [s.sig EXCEPT ![p] = {}] /\ u.waited = s.waited
      /\ u.wchan = s.wchan
  BY <1>1, Fields DEF KType, Marks, Stats
<1> HIDE DEF u, t
<1>5. Sound(u, NoProc, NoProc) /\ CalmBut(s, u, p)
  <2>1. Halts(s, p, NoProc, p) /\ CpuAfter(p, p) = NoProc
    BY DEF Halts, CpuAfter
  <2> QED
    BY <1>2, <1>4, <2>1, MarkSound
<1>6. /\ u.stat[p] = "SZOMB" /\ \A q \in Procs : q # p => u.stat[q] = s.stat[q]
      /\ \A q \in Procs : q # p => u.sig[q] = s.sig[q]
  BY <1>1, <1>4, Fields, ProcFacts DEF Marks
<1>7. ParentsHear => Tells(s, u)
  BY <1>4, <1>6 DEF Tells, HearsOn, Fresh
<1>8. ParentsHear => Alive(u)
  BY <1>6 DEF Alive
<1>9. /\ Good(u, v, NoProc, NoProc)
      /\ ParentsHear /\ Parent[p] # NoProc => SIGCHLD \in v.sig[Parent[p]]
  BY <1>5, <1>8, SigchldGood
<1> HIDE DEF v
<1>10. Sound(v, NoProc, NoProc) /\ CalmBut(s, v, p) /\ (ParentsHear => Tells(s, v))
  BY <1>5, <1>7, <1>9, CalmButTrans, TellsTrans DEF Good
<1>11. CASE Parent[p] = NoProc
  BY <1>3, <1>10, <1>11 DEF Told
<1>12. CASE Parent[p] # NoProc
  <2>1. t = Wakeup(v, ch) /\ Parent[p] \in Procs /\ ch \in Chans
    BY <1>3, <1>12, ParentFacts
  <2>2. /\ Good(v, t, NoProc, NoProc) /\ t.sig = v.sig
        /\ \A q \in Procs : t.wchan[q] # ch
    BY <1>10, <2>1, WakeupGood
  <2>3. Sound(t, NoProc, NoProc) /\ CalmBut(s, t, p) /\ (ParentsHear => Tells(s, t))
    BY <1>10, <2>2, CalmButTrans, TellsTrans DEF Good
  <2>4. ParentsHear => Told(t, p)
    BY <1>9, <1>12, <2>1, <2>2 DEF Told
  <2> QED
    BY <2>3, <2>4
<1> QED
  BY <1>11, <1>12

-----------------------------------------------------------------------------
(* The parents.                                                            *)

(* A child of q has stopped or exited, and wait has not reported it.       *)
NewsOf(c) == Fresh(k, c) \/ pc[c] = "exited"
News(q) == \E c \in Procs : Parent[c] = q /\ NewsOf(c)

(* q does not lie in wait on news: if it is about to, a SIGCHLD is pending, *)
(* which the CURSIG of tsleep will find.                                   *)
InWait(q) == k.wchan[q] = Addr(q)
Hears(q) ==
  /\ k.stat[q] # "SZOMB" /\ SIGKILL \notin k.sig[q]
  /\ InWait(q) => fr[q].catch
  /\ News(q) => /\ InWait(q) => pc[q] = "cursig" /\ SIGCHLD \in k.sig[q]
                /\ pc[q] = "wait" => SIGCHLD \in k.sig[q]
Heard == \A q \in Procs : IsParent(q) => Hears(q)
HInv == ParentsHear => Heard

IInv == SInv /\ HInv

(* Nobody exits or stops unheard.                                          *)
NewsTold == \A c \in Procs : NewsOf(c)' => NewsOf(c) \/ Told(k', c)

(* The steps of q that keep it where it was, as wait sees it.              *)
SameForWait(q) ==
  /\ fr'[q] = fr[q]
  /\ \/ pc'[q] = pc[q]
     \/ pc[q] \notin {"cursig", "wait"} /\ pc'[q] \notin {"cursig", "wait"}

LEMMA HearsKept ==
  ASSUME NEW q \in Procs, IsParent(q), Hears(q), HearsOn(k, k', q), SameForWait(q), NewsTold
  PROVE  Hears(q)'
<1>1. ASSUME News(q)'
      PROVE  News(q) \/ (SIGCHLD \in k'.sig[q] /\ ~ InWait(q)')
  <2>1. PICK c \in Procs : Parent[c] = q /\ NewsOf(c)'
    BY <1>1 DEF News
  <2>2. CASE NewsOf(c)
    BY <2>1, <2>2 DEF News
  <2>3. CASE Told(k', c)
    BY <2>1, <2>3, ProcFacts DEF Told, InWait
  <2> QED
    BY <2>1, <2>2, <2>3 DEF NewsTold
<1>2. k'.stat[q] # "SZOMB" /\ SIGKILL \notin k'.sig[q]
  BY DEF Hears, HearsOn
<1>3. InWait(q)' => InWait(q)
  BY DEF InWait, HearsOn
<1>4. InWait(q)' => fr'[q].catch
  BY <1>3 DEF Hears, SameForWait
<1>5. SIGCHLD \in k.sig[q] => SIGCHLD \in k'.sig[q]
  BY DEF HearsOn
<1>6. News(q)' => /\ InWait(q)' => pc'[q] = "cursig" /\ SIGCHLD \in k'.sig[q]
                  /\ pc'[q] = "wait" => SIGCHLD \in k'.sig[q]
  BY <1>1, <1>3, <1>5 DEF Hears, SameForWait
<1> QED
  BY <1>2, <1>4, <1>6 DEF Hears

(* p itself: it leaves wait, or goes on in it with no news, or calls tsleep. *)
LeavesWait(p) == pc'[p] # "wait" /\ k'.wchan[p] # Addr(p)
StaysInWait(p) ==
  ~ News(p) /\ fr'[p] = fr[p] /\ (InWait(p)' => InWait(p))
EntersTsleep(p) ==
  /\ fr'[p].catch /\ pc[p] = "wait" /\ pc'[p] = "cursig"
  /\ k'.sig[p] = k.sig[p]
  /\ \A c \in Procs : NewsOf(c)' => NewsOf(c)

LEMMA HearsMoved ==
  ASSUME NEW p \in Procs, IsParent(p), Hears(p), NewsTold,
         k'.stat[p] # "SZOMB", SIGKILL \notin k'.sig[p],
         LeavesWait(p) \/ StaysInWait(p) \/ EntersTsleep(p)
  PROVE  Hears(p)'
<1>1. CASE LeavesWait(p)
  BY <1>1 DEF LeavesWait, Hears, InWait
<1>2. CASE StaysInWait(p)
  <2>1. News(p)' => SIGCHLD \in k'.sig[p] /\ ~ InWait(p)'
    <3> SUFFICES ASSUME News(p)'
                 PROVE  SIGCHLD \in k'.sig[p] /\ ~ InWait(p)'
      OBVIOUS
    <3>1. PICK c \in Procs : Parent[c] = p /\ NewsOf(c)'
      BY DEF News
    <3>2. ~ NewsOf(c)
      BY <1>2, <3>1 DEF StaysInWait, News
    <3>3. Told(k', c)
      BY <3>1, <3>2 DEF NewsTold
    <3> QED
      BY <3>1, <3>3, ProcFacts DEF Told, InWait
  <2> QED
    BY <1>2, <2>1 DEF StaysInWait, Hears
<1>3. CASE EntersTsleep(p)
  <2>1. News(p)' => News(p)
    BY <1>3 DEF EntersTsleep, News
  <2> QED
    BY <1>3, <2>1 DEF EntersTsleep, Hears
<1> QED
  BY <1>1, <1>2, <1>3

(* What a step of p does not do to the other processes.                    *)
Elsewhere(p) ==
  /\ pc' \in [AllProcs -> UserPCs \cup SchedPCs] /\ fr' \in [Procs -> Frame]
  /\ pc'[Proc0] = pc[Proc0]
  /\ \A q \in Procs \ {p} :
       /\ fr'[q] = fr[q]
       /\ pc'[q] = pc[q] \/ (pc[q] = "exited" /\ pc'[q] = "reaped")

(* The parents other than p miss nothing.                                  *)
TellsBut(s, t, p) ==
  /\ \A q \in Procs \ {p} : IsParent(q) => HearsOn(s, t, q)
  /\ \A c \in Procs : Fresh(t, c) => Fresh(s, c) \/ Told(t, c)

LEMMA HeardStep ==
  ASSUME ParentsHear, Heard, NEW p \in Procs, Elsewhere(p), TellsBut(k, k', p),
         pc'[p] = "exited" => pc[p] = "exited" \/ Told(k', p),
         IsParent(p) => /\ k'.stat[p] # "SZOMB" /\ SIGKILL \notin k'.sig[p]
                        /\ LeavesWait(p) \/ StaysInWait(p) \/ EntersTsleep(p)
  PROVE  Heard'
<1>1. NewsTold
  <2> SUFFICES ASSUME NEW c \in Procs, NewsOf(c)'
               PROVE  NewsOf(c) \/ Told(k', c)
    BY DEF NewsTold
  <2>1. CASE Fresh(k', c)
    BY <2>1 DEF TellsBut, NewsOf
  <2>2. CASE pc'[c] = "exited"
    BY <2>2 DEF Elsewhere, NewsOf
  <2> QED
    BY <2>1, <2>2 DEF NewsOf
<1> SUFFICES ASSUME NEW q \in Procs, IsParent(q)
             PROVE  Hears(q)'
  BY DEF Heard
<1>2. Hears(q)
  BY DEF Heard
<1>3. CASE q = p
  BY <1>1, <1>2, <1>3, HearsMoved
<1>4. CASE q # p
  <2>1. HearsOn(k, k', q) /\ SameForWait(q)
    BY <1>4 DEF TellsBut, Elsewhere, SameForWait
  <2> QED
    BY <1>1, <1>2, <2>1, HearsKept
<1> QED
  BY <1>3, <1>4

(* The steps of the kernel and of sched.                                   *)
LEMMA HeardSame ==
  ASSUME ParentsHear, Heard, fr' = fr, \A q \in Procs : pc'[q] = pc[q], Tells(k, k')
  PROVE  Heard'
<1>1. NewsTold
  BY DEF NewsTold, NewsOf, Tells
<1> SUFFICES ASSUME NEW q \in Procs, IsParent(q)
             PROVE  Hears(q)'
  BY DEF Heard
<1>2. Hears(q) /\ HearsOn(k, k', q) /\ SameForWait(q)
  BY DEF Heard, Tells, SameForWait
<1> QED
  BY <1>1, <1>2, HearsKept

-----------------------------------------------------------------------------
(* What is known of the process that has the CPU, by where it is.          *)

LEMMA Running ==
  ASSUME SInv, NEW p \in Procs, cur = p
  PROVE  /\ k \in KType /\ p \in AllProcs /\ p # Proc0 /\ p # NoProc
         /\ k.stat[p] = "SRUN" /\ p \in k.load /\ p \notin k.runq
         /\ pc[p] = "cursig" => Sound(k, p, p) /\ k.wchan[p] # NoChan /\ p \in k.slpq
         /\ pc[p] # "cursig" => Sound(k, p, NoProc) /\ k.wchan[p] = NoChan /\ p \notin k.slpq
         /\ pc[p] \notin {"cursig", "slept", "stopped1"} => p \notin k.timer \cup k.tmo
         /\ ~ fr[p].timo => p \notin k.timer \cup k.tmo
         /\ k.timer \cap k.tmo = {}
<1>1. p \in AllProcs /\ p # Proc0 /\ p # NoProc
  BY ProcFacts
<1>2. /\ Sound(k, p, MaskedProc) /\ k \in KType
      /\ MaskedProc = IF pc[p] = "cursig" THEN p ELSE NoProc
  BY <1>1 DEF SInv, TypeOK, MaskedProc, Masked
<1>3. k.stat[p] = "SRUN" /\ p \in k.load /\ p \notin k.runq
  BY <1>1, <1>2 DEF Sound, Core, Runs
<1>4. Place(k, p, MaskedProc)
  BY <1>1, <1>2 DEF Sound, Core
<1>5. pc[p] = "cursig" => k.wchan[p] # NoChan
  BY DEF SInv, Places
<1>6. pc[p] # "cursig" => k.wchan[p] = NoChan
  BY <1>1, <1>2, <1>3, <1>4 DEF Place
<1>7. p \in k.slpq <=> k.wchan[p] # NoChan
  BY <1>4 DEF Place
<1>8. /\ pc[p] \notin {"cursig", "slept", "stopped1"} => p \notin k.timer \cup k.tmo
      /\ ~ fr[p].timo => p \notin k.timer \cup k.tmo
      /\ k.timer \cap k.tmo = {}
  BY DEF SInv, Limits, NoStaleTimer
<1> QED
  BY <1>1, <1>2, <1>3, <1>5, <1>6, <1>7, <1>8

-----------------------------------------------------------------------------
(* The frames of the steps.                                                *)

(* A step of p, which has the CPU.                                         *)
CpuOK(p) ==
  /\ cur' \in {p, NoProc} /\ sw' = sw /\ ret' \in {"none", "0", "EINTR", "EWOULDBLOCK"}
  /\ pc'[p] \in UserPCs
  /\ pc'[p] = "cursig" => cur' = p /\ k'.wchan[p] # NoChan
  /\ Sound(k', cur', IF pc'[p] = "cursig" THEN p ELSE NoProc)
LimitsOK(p) ==
  /\ k'.timer \subseteq k.timer \cup {p} /\ k'.tmo \subseteq k.tmo \cup {p}
  /\ k'.timer \cap k'.tmo = {}
  /\ p \in k'.timer \cup k'.tmo => fr'[p].timo /\ pc'[p] \in {"cursig", "slept", "stopped1"}

LEMMA ProcStep ==
  ASSUME SInv, NEW p \in Procs, cur = p, Elsewhere(p), CpuOK(p), LimitsOK(p),
         k'.load \subseteq k.load
  PROVE  SInv'
<1>1. p \in AllProcs /\ p # Proc0 /\ p # NoProc
  BY ProcFacts
<1>2. MaskedProc' = IF pc'[p] = "cursig" THEN p ELSE NoProc
  BY <1>1 DEF MaskedProc, Masked, CpuOK
<1>3. Sound(k', cur', MaskedProc')
  BY <1>2 DEF CpuOK
<1>4. TypeOK'
  BY <1>1, <1>3 DEF SInv, TypeOK, Elsewhere, CpuOK, Sound, Core
<1>5. Places'
  <2>1. pc'[Proc0] \in SchedPCs
    BY DEF SInv, Places, Elsewhere
  <2>2. ASSUME NEW q \in Procs
        PROVE  pc'[q] \in UserPCs /\ (pc'[q] = "cursig" => cur' = q /\ k'.wchan[q] # NoChan)
    <3>1. CASE q = p
      BY <3>1 DEF CpuOK
    <3>2. CASE q # p
      BY <3>2 DEF SInv, Places, Elsewhere, UserPCs
    <3> QED
      BY <3>1, <3>2
  <2> QED
    BY <2>1, <2>2 DEF Places
<1>6. Swapping'
  BY <1>1 DEF SInv, Swapping, Elsewhere, CpuOK
<1>7. NoStaleTimer'
  <2> SUFFICES ASSUME NEW q \in k'.timer \cup k'.tmo
               PROVE  q \in Procs /\ fr'[q].timo /\ pc'[q] \in {"cursig", "slept", "stopped1"}
    BY DEF NoStaleTimer
  <2>1. CASE q = p
    BY <2>1 DEF LimitsOK
  <2>2. CASE q # p
    <3>1. q \in k.timer \cup k.tmo
      BY <2>2 DEF LimitsOK
    <3>2. q \in Procs /\ fr[q].timo /\ pc[q] \in {"cursig", "slept", "stopped1"}
      BY <3>1 DEF SInv, Limits, NoStaleTimer
    <3> QED
      BY <2>2, <3>2 DEF Elsewhere
  <2> QED
    BY <2>1, <2>2
<1>8. Limits'
  BY <1>7 DEF Limits, LimitsOK
<1> QED
  BY <1>3, <1>4, <1>5, <1>6, <1>8 DEF SInv

(* An interrupt.                                                           *)
LEMMA InterruptStep ==
  ASSUME SInv, ~ Masked, UNCHANGED <<cur, pc, fr, sw>>, ret' = "none",
         Sound(k', cur, NoProc), k'.load = k.load,
         k'.timer \subseteq k.timer, k'.tmo \subseteq k.tmo \cup k.timer,
         k'.timer \cap k'.tmo = {}
  PROVE  SInv'
<1>1. MaskedProc' = NoProc
  BY DEF MaskedProc, Masked
<1>2. TypeOK'
  BY DEF SInv, TypeOK, Sound, Core
<1>3. Places'
  BY ProcFacts DEF SInv, Places, Masked
<1>4. Swapping'
  BY DEF SInv, Swapping
<1>5. NoStaleTimer'
  <2> SUFFICES ASSUME NEW q \in k'.timer \cup k'.tmo
               PROVE  q \in Procs /\ fr[q].timo /\ pc[q] \in {"cursig", "slept", "stopped1"}
    BY DEF NoStaleTimer
  <2>1. q \in k.timer \cup k.tmo
    OBVIOUS
  <2> QED
    BY <2>1 DEF SInv, Limits, NoStaleTimer
<1> QED
  BY <1>1, <1>2, <1>3, <1>4, <1>5 DEF SInv, Limits

(* Without one: nobody is in the masked part of tsleep.                    *)
LEMMA NotMasked ==
  ASSUME SInv, ~ Masked
  PROVE  Sound(k, cur, NoProc) /\ k \in KType /\ k.timer \cap k.tmo = {}
BY DEF SInv, MaskedProc, TypeOK, Limits

(* A step of sched.                                                        *)
SchedOK ==
  /\ cur' \in {Proc0, NoProc} /\ ret' = "none"
  /\ pc' \in [AllProcs -> UserPCs \cup SchedPCs] /\ fr' = fr
  /\ pc'[Proc0] \in SchedPCs /\ \A q \in Procs : pc'[q] = pc[q]
  /\ Sound(k', cur', NoProc)
  /\ k'.timer = k.timer /\ k'.tmo = k.tmo

LEMMA SchedStep ==
  ASSUME SInv, cur = Proc0, SchedOK, Swapping', sw' \in Procs \cup {NoProc}
  PROVE  SInv'
<1>1. MaskedProc' = NoProc
  BY ProcFacts DEF MaskedProc, Masked, SchedOK, SchedPCs
<1>2. Sound(k', cur', MaskedProc')
  BY <1>1 DEF SchedOK
<1>3. TypeOK'
  BY <1>2, ProcFacts DEF SInv, TypeOK, SchedOK, Sound, Core
<1>4. Places'
  BY ProcFacts DEF SInv, Places, SchedOK
<1>5. NoStaleTimer'
  BY DEF SInv, Limits, NoStaleTimer, SchedOK
<1> QED
  BY <1>2, <1>3, <1>4, <1>5 DEF SInv, Limits, SchedOK

-----------------------------------------------------------------------------
(* Interrupts.                                                             *)

LEMMA InterruptGood ==
  ASSUME IInv, ~ Masked, NEW t, Good(k, t, cur, NoProc), Interrupt(t)
  PROVE  IInv'
<1>1. /\ k' = t /\ UNCHANGED <<cur, pc, fr, sw>> /\ ret' = "none"
  BY DEF Interrupt, NoReturn
<1>2. Sound(t, cur, NoProc) /\ Calm(k, t) /\ (ParentsHear => Tells(k, t))
  BY DEF Good
<1>3. SInv'
  BY <1>1, <1>2, NotMasked, InterruptStep DEF IInv, Calm
<1>4. HInv'
  BY <1>1, <1>2, HeardSame DEF IInv, HInv
<1> QED
  BY <1>3, <1>4 DEF IInv

LEMMA HeardAlive ==
  ASSUME IInv
  PROVE  ParentsHear => Alive(k)
BY DEF IInv, HInv, Heard, Hears, Alive

LEMMA WakeupStep ==
  ASSUME IInv, NEW ch \in Chans, ~ Masked, Interrupt(Wakeup(k, ch))
  PROVE  IInv'
<1>1. Good(k, Wakeup(k, ch), cur, NoProc)
  BY NotMasked, WakeupGood DEF IInv
<1> QED
  BY <1>1, InterruptGood

LEMMA SchedcpuStep ==
  ASSUME IInv, Schedcpu
  PROVE  IInv'
<1> DEFINE s == [k EXCEPT !.fresh = {}]
           t == Wakeup(s, RUNIN)
<1>1. Sound(k, cur, NoProc) /\ k \in KType /\ ~ Masked
  BY NotMasked DEF IInv, Schedcpu
<1>2. Interrupt(t)
  BY DEF Schedcpu
<1>3. /\ s \in KType /\ SameQueues(k, s) /\ s.runout = k.runout
      /\ s.waited = k.waited /\ s.sig = k.sig /\ s.timer = k.timer /\ s.tmo = k.tmo
  BY <1>1, Fields DEF KType, SameQueues
<1> HIDE DEF s
<1>4. Good(k, s, cur, NoProc)
  BY <1>1, <1>3, SoundSame DEF Good, Calm, SameQueues, Tells, HearsOn, Fresh
<1>5. Good(s, t, cur, NoProc)
  BY <1>4, ChanFacts, WakeupGood DEF Good
<1> HIDE DEF t
<1>6. Good(k, t, cur, NoProc)
  BY <1>4, <1>5, GoodTrans
<1> QED
  BY <1>1, <1>2, <1>6, InterruptGood

LEMMA KillStep ==
  ASSUME IInv, NEW p \in Procs, NEW g \in Sigs, Kill(p, g)
  PROVE  IInv'
<1>1. Sound(k, cur, NoProc) /\ ~ Masked /\ Interrupt(Psignal(k, p, g))
  BY NotMasked DEF IInv, Kill
<1>2. IsParent(p) => g # SIGKILL
  BY SynchAssumption, ProcFacts DEF IsParent, Kill
<1>3. Good(k, Psignal(k, p, g), cur, NoProc)
  BY <1>1, <1>2, HeardAlive, PsignalGood
<1> QED
  BY <1>1, <1>3, InterruptGood

(* The time limit passes: p has left the callout table.                    *)
SetsTmo(s, t, p) == t = [s EXCEPT !.tmo = @ \cup {p}]

LEMMA TmoGood ==
  ASSUME NEW s, NEW c, NEW m, Sound(s, c, m), NEW p \in Procs, NEW t, SetsTmo(s, t, p)
  PROVE  /\ Sound(t, c, m) /\ Tells(s, t)
         /\ t.load = s.load /\ t.timer = s.timer /\ t.tmo = s.tmo \cup {p}
<1>1. s \in KType /\ p \in AllProcs
  BY ProcFacts DEF Sound, Core
<1>2. /\ t \in KType /\ SameQueues(s, t) /\ t.runout = s.runout
      /\ t.waited = s.waited /\ t.sig = s.sig
      /\ t.load = s.load /\ t.timer = s.timer /\ t.tmo = s.tmo \cup {p}
  BY <1>1, Fields DEF KType, SameQueues, SetsTmo
<1>3. Sound(t, c, m)
  BY <1>2, SoundSame
<1>4. Tells(s, t)
  BY <1>2 DEF SameQueues, Tells, HearsOn, Fresh
<1> QED
  BY <1>2, <1>3, <1>4

LEMMA SoftclockStep ==
  ASSUME IInv, NEW p \in Procs, Softclock(p)
  PROVE  IInv'
<1> DEFINE s == [k EXCEPT !.timer = @ \ {p}]
           u == Setrun(s, p)
           v == Unsleep(s, p)
           t == Endtsleep(k, p)
<1>1. /\ Sound(k, cur, NoProc) /\ k \in KType /\ ~ Masked
      /\ k.timer \cap k.tmo = {} /\ p \in k.timer /\ Interrupt(t) /\ p \in AllProcs
  BY NotMasked, ProcFacts DEF IInv, Softclock
<1>2. /\ s \in KType /\ SameQueues(k, s) /\ s.runout = k.runout
      /\ s.waited = k.waited /\ s.sig = k.sig /\ s.timer = k.timer \ {p} /\ s.tmo = k.tmo
      /\ s.stat = k.stat /\ s.wchan = k.wchan /\ s.load = k.load
  BY <1>1, Fields DEF KType, SameQueues
<1>3. \/ t = s /\ k.wchan[p] = NoChan
      \/ SetsTmo(u, t, p) /\ k.wchan[p] # NoChan /\ k.stat[p] = "SSLEEP"
      \/ SetsTmo(v, t, p) /\ k.wchan[p] # NoChan /\ k.stat[p] # "SSLEEP"
  BY DEF Endtsleep, SetsTmo
<1> HIDE DEF s, t
<1>4. Sound(s, cur, NoProc) /\ Tells(k, s)
  BY <1>1, <1>2, SoundSame DEF SameQueues, Tells, HearsOn, Fresh
<1>5. /\ Sound(t, cur, NoProc) /\ (ParentsHear => Tells(k, t))
      /\ t.load = k.load /\ t.timer = k.timer \ {p} /\ t.tmo \subseteq k.tmo \cup {p}
  <2>1. CASE t = s
    BY <1>2, <1>4, <2>1
  <2>2. CASE SetsTmo(u, t, p) /\ k.stat[p] = "SSLEEP"
    <3>1. Good(s, u, cur, NoProc)
      BY <1>2, <1>4, <2>2, ProcFacts, SetrunGood
    <3> HIDE DEF u
    <3>2. Sound(u, cur, NoProc) /\ Calm(s, u) /\ (ParentsHear => Tells(s, u))
      BY <3>1 DEF Good
    <3>3. /\ Sound(t, cur, NoProc) /\ Tells(u, t)
          /\ t.load = u.load /\ t.timer = u.timer /\ t.tmo = u.tmo \cup {p}
      BY <2>2, <3>2, TmoGood
    <3>4. ParentsHear => Tells(k, t)
      BY <1>4, <3>2, <3>3, TellsTrans
    <3> QED
      BY <1>2, <3>2, <3>3, <3>4 DEF Calm
  <2>3. CASE SetsTmo(v, t, p) /\ k.stat[p] # "SSLEEP"
    <3>1. Sound(v, cur, NoProc) /\ Kept(s, v) /\ Tells(s, v)
      BY <1>2, <1>4, <2>3, UnsleepStopped
    <3> HIDE DEF v
    <3>2. /\ Sound(t, cur, NoProc) /\ Tells(v, t)
          /\ t.load = v.load /\ t.timer = v.timer /\ t.tmo = v.tmo \cup {p}
      BY <2>3, <3>1, TmoGood
    <3>3. Tells(k, t)
      BY <1>4, <3>1, <3>2, TellsTrans
    <3> QED
      BY <1>2, <3>1, <3>2, <3>3 DEF Kept
  <2> QED
    BY <1>3, <2>1, <2>2, <2>3
<1>6. /\ k' = t /\ UNCHANGED <<cur, pc, fr, sw>> /\ ret' = "none"
  BY <1>1 DEF Interrupt, NoReturn
<1>7. SInv'
  <2>1. t.timer \subseteq k.timer /\ t.tmo \subseteq k.tmo \cup k.timer /\ t.timer \cap t.tmo = {}
    BY <1>1, <1>5
  <2> QED
    BY <1>1, <1>5, <1>6, <2>1, InterruptStep DEF IInv
<1>8. HInv'
  BY <1>5, <1>6, HeardSame DEF IInv, HInv
<1> QED
  BY <1>7, <1>8 DEF IInv

-----------------------------------------------------------------------------
(* tsleep.                                                                 *)

(* What a step of p must do for the invariant.                             *)
HeardOK(p) ==
  /\ TellsBut(k, k', p)
  /\ pc'[p] = "exited" => pc[p] = "exited" \/ Told(k', p)
  /\ IsParent(p) => /\ k'.stat[p] # "SZOMB" /\ SIGKILL \notin k'.sig[p]
                    /\ LeavesWait(p) \/ StaysInWait(p) \/ EntersTsleep(p)

LEMMA UserStep ==
  ASSUME IInv, NEW p \in Procs, cur = p, Elsewhere(p), CpuOK(p), LimitsOK(p),
         k'.load \subseteq k.load, ParentsHear => HeardOK(p)
  PROVE  IInv'
<1>1. SInv'
  BY ProcStep DEF IInv
<1>2. HInv'
  BY HeardStep DEF IInv, HInv, HeardOK
<1> QED
  BY <1>1, <1>2 DEF IInv

LEMMA TellsToBut ==
  ASSUME NEW s, NEW t, NEW p, Tells(s, t)
  PROVE  TellsBut(s, t, p)
BY DEF Tells, TellsBut

(* A parent that runs is alive and has no SIGKILL.                         *)
LEMMA ParentLives ==
  ASSUME IInv, ParentsHear, NEW p \in Procs, IsParent(p), NEW t, Tells(k, t)
  PROVE  t.stat[p] # "SZOMB" /\ SIGKILL \notin t.sig[p]
BY DEF IInv, HInv, Heard, Hears, Tells, HearsOn

(* p moves to l, and its frame is f.                                       *)
LEMMA MovesTo ==
  ASSUME SInv, NEW p \in Procs, NEW l \in UserPCs, pc' = [pc EXCEPT ![p] = l],
         NEW f \in Frame, fr' = [fr EXCEPT ![p] = f]
  PROVE  Elsewhere(p) /\ pc'[p] = l /\ fr'[p] = f
<1>1. p \in AllProcs /\ p # Proc0 /\ Proc0 \in AllProcs
  BY ProcFacts
<1>2. pc \in [AllProcs -> UserPCs \cup SchedPCs] /\ fr \in [Procs -> Frame]
  BY DEF SInv, TypeOK
<1> QED
  BY <1>1, <1>2, ProcFacts DEF Elsewhere

LEMMA MovesOn ==
  ASSUME SInv, NEW p \in Procs, NEW l \in UserPCs, pc' = [pc EXCEPT ![p] = l], fr' = fr
  PROVE  Elsewhere(p) /\ pc'[p] = l /\ fr'[p] = fr[p]
<1>1. fr[p] \in Frame /\ fr' = [fr EXCEPT ![p] = fr[p]]
  BY DEF SInv, TypeOK
<1> QED
  BY <1>1, MovesTo

(* p, which runs, is linked on the sleep queue of c.                       *)
Links(s, u, p, c) ==
  /\ u.wchan = [s.wchan EXCEPT ![p] = c] /\ u.slpq = s.slpq \cup {p}
  /\ u.stat = s.stat /\ u.runq = s.runq /\ u.load = s.load
  /\ u.runout = s.runout /\ u.panic = s.panic
(* Only sched sleeps on runout, and only when it has said so and nobody    *)
(* needs it.                                                               *)
MaySleepOn(s, p, c) ==
  c = RUNOUT => /\ p = Proc0 /\ s.runout
                /\ \A q \in Procs : s.stat[q] = "SRUN" => q \in s.load

(* Nobody else's channel changes.                                          *)
Linked(s, u, p, c) == u.wchan[p] = c /\ \A q \in AllProcs \ {p} : u.wchan[q] = s.wchan[q]

LEMMA LinkSound ==
  ASSUME NEW p \in AllProcs, NEW s, Sound(s, p, NoProc), NEW c \in Chans,
         MaySleepOn(s, p, c), NEW u \in KType, Links(s, u, p, c)
  PROVE  Sound(u, p, p) /\ Linked(s, u, p, c)
<1>1. s \in KType /\ Core(s, p, NoProc) /\ p # NoProc /\ c # NoChan
  BY ProcFacts, ChanFacts DEF Sound, Core
<1>2. u.wchan[p] = c /\ \A q \in AllProcs \ {p} : u.wchan[q] = s.wchan[q]
  BY <1>1, Fields DEF Links
<1>3. ASSUME NEW q \in AllProcs
      PROVE  Place(u, q, p)
  <2>1. Place(s, q, NoProc) /\ q # NoProc
    BY <1>1, ProcFacts DEF Core
  <2>2. CASE q = p
    BY <1>1, <1>2, <2>2 DEF Place, Links, MaySleepOn
  <2>3. CASE q # p
    BY <1>2, <2>1, <2>3 DEF Place, Links
  <2> QED
    BY <2>2, <2>3
<1>4. Core(u, p, p)
  BY <1>1, <1>3 DEF Core, Runs, Links
<1>5. Announced(u) /\ Served(u)
  <2>1. CASE p = Proc0
    BY <1>2, <2>1 DEF Announced, Served, Links, MaySleepOn
  <2>2. CASE p # Proc0
    BY <1>2, <2>2, ProcFacts DEF Sound, Announced, Served, Links
  <2> QED
    BY <2>1, <2>2
<1> QED
  BY <1>2, <1>4, <1>5 DEF Sound, Linked

(* Lines 139 to 157 of kern_synch.c.                                       *)
Enqueues(s, t, p, f) ==
  /\ t.stat = s.stat /\ t.sig = s.sig /\ t.waited = s.waited /\ t.load = s.load
  /\ t.tmo = s.tmo /\ t.timer = (IF f.timo THEN s.timer \cup {p} ELSE s.timer)
  /\ t.wchan[p] = f.chan /\ \A q \in AllProcs \ {p} : t.wchan[q] = s.wchan[q]

LEMMA EnqueueGood ==
  ASSUME SInv, NEW p \in Procs, cur = p, pc[p] # "cursig",
         NEW f \in Frame, f.chan \in Chans, f.chan # RUNOUT
  PROVE  LET t == Enqueue(k, p, f)
         IN Sound(t, p, p) /\ Enqueues(k, t, p, f)
<1> DEFINE t == Enqueue(k, p, f)
<1>1. /\ k \in KType /\ p \in AllProcs /\ p # Proc0 /\ p # NoProc
      /\ k.stat[p] = "SRUN" /\ p \in k.load /\ p \notin k.runq
      /\ Sound(k, p, NoProc) /\ k.wchan[p] = NoChan /\ p \notin k.slpq
  BY Running
<1>2. f.timo \in BOOLEAN /\ f.catch \in BOOLEAN /\ f.chan # NoChan
  BY ChanFacts DEF Frame
<1> DEFINE T == IF f.timo THEN k.timer \cup {p} ELSE k.timer
           I == IF f.catch THEN k.sintr \cup {p} ELSE k.sintr
<1>3. /\ t \in KType /\ t.stat = k.stat /\ t.sig = k.sig /\ t.waited = k.waited /\ t.load = k.load
      /\ t.tmo = k.tmo /\ t.timer = T
      /\ t.wchan = [k.wchan EXCEPT ![p] = f.chan] /\ t.slpq = k.slpq \cup {p}
      /\ t.runq = k.runq /\ t.runout = k.runout /\ t.panic = k.panic
  <2>1. t = [k EXCEPT !.wchan[p] = f.chan, !.slpq = @ \cup {p}, !.woken = @ \ {p},
                      !.timer = T, !.sintr = I, !.panic = @ \/ k.stat[p] # "SRUN"]
    BY DEF Enqueue
  <2>2. (k.panic \/ k.stat[p] # "SRUN") = k.panic
    BY <1>1, Fields
  <2>3. T \subseteq AllProcs /\ I \subseteq AllProcs
    BY <1>1, Fields
  <2> HIDE DEF t, T, I
  <2>4. t = [k EXCEPT !.wchan = [k.wchan EXCEPT ![p] = f.chan], !.slpq = k.slpq \cup {p},
                      !.woken = k.woken \ {p}, !.timer = T, !.sintr = I, !.panic = k.panic]
    BY <2>1, <2>2
  <2> QED
    BY <1>1, <2>3, <2>4, Fields, ZenonT(60) DEF KType
<1> HIDE DEF t
<1>4. Links(k, t, p, f.chan) /\ MaySleepOn(k, p, f.chan)
  BY <1>3 DEF Links, MaySleepOn
<1>5. Sound(t, p, p) /\ Linked(k, t, p, f.chan)
  BY <1>1, <1>3, <1>4, LinkSound
<1>6. Enqueues(k, t, p, f)
  BY <1>3, <1>5 DEF Enqueues, Linked
<1> QED
  BY <1>5, <1>6, Zenon DEF t

LEMMA TsleepFromStep ==
  ASSUME IInv, NEW p \in Procs, NEW f \in Frame, NEW l \in {"run", "wait"},
         f.chan \in Chans, f.chan # RUNOUT, TsleepFrom(p, f, l),
         f.chan # Addr(p) \/ (f.catch /\ l = "wait")
  PROVE  IInv'
<1>1. /\ SInv /\ cur = p /\ pc[p] = l /\ k' = Enqueue(k, p, f)
      /\ pc' = [pc EXCEPT ![p] = "cursig"] /\ fr' = [fr EXCEPT ![p] = f]
      /\ UNCHANGED <<cur, sw>> /\ ret' = "none"
  BY DEF IInv, TsleepFrom, Has, At, NoReturn
<1>2. Sound(k', p, p) /\ Enqueues(k, k', p, f)
  BY <1>1, EnqueueGood
<1>3. p \notin k.timer \cup k.tmo /\ k.timer \cap k.tmo = {} /\ k.stat[p] = "SRUN" /\ p \in AllProcs
  BY <1>1, Running
<1>4. Elsewhere(p) /\ pc'[p] = "cursig" /\ fr'[p] = f
  BY <1>1, MovesTo DEF UserPCs
<1>5. CpuOK(p)
  BY <1>1, <1>2, <1>4, ChanFacts DEF CpuOK, UserPCs, Enqueues
<1>6. LimitsOK(p) /\ k'.load \subseteq k.load
  BY <1>2, <1>3, <1>4 DEF LimitsOK, Enqueues
<1>7. ASSUME ParentsHear
      PROVE  HeardOK(p)
  <2>1. \A c \in Procs : Fresh(k', c) <=> Fresh(k, c)
    BY <1>2 DEF Enqueues, Fresh
  <2>2. \A q \in Procs \ {p} : HearsOn(k, k', q)
    BY <1>2, ProcFacts DEF Enqueues, HearsOn
  <2>3. TellsBut(k, k', p)
    BY <2>1, <2>2 DEF TellsBut
  <2>4. IsParent(p) => k'.stat[p] # "SZOMB" /\ SIGKILL \notin k'.sig[p]
    BY <1>2, <1>7 DEF IInv, HInv, Heard, Hears, Enqueues
  <2>5. LeavesWait(p) \/ EntersTsleep(p)
    <3>1. CASE f.chan # Addr(p)
      BY <1>2, <1>4, <3>1 DEF LeavesWait, Enqueues
    <3>2. CASE f.catch /\ l = "wait"
      <4>1. \A c \in Procs : pc'[c] = "exited" => pc[c] = "exited"
        BY <1>4 DEF Elsewhere
      <4>2. \A c \in Procs : NewsOf(c)' => NewsOf(c)
        BY <2>1, <4>1 DEF NewsOf
      <4> QED
        BY <1>1, <1>2, <1>4, <3>2, <4>2 DEF EntersTsleep, Enqueues
    <3> QED
      BY <3>1, <3>2
  <2> QED
    BY <1>4, <2>3, <2>4, <2>5 DEF HeardOK
<1> QED
  BY <1>1, <1>4, <1>5, <1>6, <1>7, UserStep

LEMMA TsleepStep ==
  ASSUME IInv, NEW p \in Procs, NEW f \in Sleeps[p], Tsleep(p, f)
  PROVE  IInv'
<1>1. f \in Frame /\ \E e \in Events : f.chan = Ev(e)
  BY SynchAssumption
<1>2. f.chan \in Chans /\ f.chan # RUNOUT /\ f.chan # Addr(p)
  BY <1>1, ChanFacts DEF Ev, Addr
<1> QED
  BY <1>1, <1>2, TsleepFromStep DEF Tsleep

LEMMA WaitSleepStep ==
  ASSUME IInv, NEW p \in Procs, WaitSleep(p)
  PROVE  IInv'
<1> DEFINE f == [chan |-> Addr(p), catch |-> TRUE, timo |-> FALSE]
<1>1. f \in Frame /\ f.chan \in Chans /\ f.chan # RUNOUT /\ f.catch
  BY ChanFacts DEF Frame
<1>2. TsleepFrom(p, f, "wait")
  BY DEF WaitSleep
<1> HIDE DEF f
<1> QED
  BY <1>1, <1>2, TsleepFromStep

(* What p, which has the CPU, has made of k in the middle of a step.       *)
Made(s, p) ==
  /\ Sound(s, p, NoProc)
  /\ s.load = k.load /\ s.timer = k.timer /\ s.tmo = k.tmo
  /\ ParentsHear => Tells(k, s)
(* The same when its time limit is off.                                    *)
Ready(s, p) ==
  /\ Sound(s, p, NoProc)
  /\ s.load = k.load /\ s.timer \subseteq k.timer /\ s.tmo \subseteq k.tmo
  /\ p \notin s.timer \cup s.tmo
  /\ ParentsHear => Tells(k, s)

LEMMA ReadyFacts ==
  ASSUME NEW p \in Procs, NEW s, Sound(s, p, NoProc)
  PROVE  s \in KType /\ s.stat[p] = "SRUN" /\ s.wchan[p] = NoChan
BY ProcFacts DEF Sound, Core, Runs, Place

LEMMA GoodReady ==
  ASSUME NEW p, NEW s, Ready(s, p), NEW t, Good(s, t, p, NoProc)
  PROVE  Ready(t, p)
BY TellsTrans DEF Ready, Good, Calm

(* tsleep returns.                                                         *)
DropsWoken(s, t, p) == t = [s EXCEPT !.woken = @ \ {p}]

LEMMA DropsWokenIs ==
  ASSUME NEW p, NEW s, Ready(s, p), NEW t, DropsWoken(s, t, p)
  PROVE  Ready(t, p)
<1>1. s \in KType
  BY DEF Ready, Sound, Core
<1>2. /\ t \in KType /\ SameQueues(s, t) /\ t.runout = s.runout
      /\ t.waited = s.waited /\ t.sig = s.sig /\ t.timer = s.timer /\ t.tmo = s.tmo
      /\ t.stat = s.stat /\ t.wchan = s.wchan /\ t.load = s.load
  BY <1>1, Fields DEF KType, SameQueues, DropsWoken
<1>3. Sound(t, p, NoProc)
  BY <1>2, SoundSame DEF Ready
<1>4. Tells(s, t)
  BY <1>2 DEF Tells, HearsOn, Fresh
<1> QED
  BY <1>2, <1>3, <1>4, TellsTrans DEF Ready

LEMMA ReadyStep ==
  ASSUME IInv, NEW p \in Procs, cur = p, Ready(k', p), Elsewhere(p),
         cur' = p, sw' = sw, ret' \in {"none", "0", "EINTR", "EWOULDBLOCK"},
         pc'[p] \in {"run", "scan"}
  PROVE  IInv'
<1>1. k'.wchan[p] = NoChan /\ k'.wchan[p] # Addr(p)
  BY ReadyFacts, ChanFacts DEF Ready
<1>2. CpuOK(p)
  BY DEF CpuOK, Ready, UserPCs
<1>3. LimitsOK(p) /\ k'.load \subseteq k.load
  BY Running DEF LimitsOK, Ready, IInv
<1>4. ASSUME ParentsHear
      PROVE  HeardOK(p)
  <2>1. Tells(k, k')
    BY <1>4 DEF Ready
  <2>2. TellsBut(k, k', p)
    BY <2>1, TellsToBut
  <2>3. IsParent(p) => k'.stat[p] # "SZOMB" /\ SIGKILL \notin k'.sig[p]
    BY <1>4, <2>1, ParentLives
  <2>4. LeavesWait(p) /\ pc'[p] # "exited"
    BY <1>1 DEF LeavesWait
  <2> QED
    BY <2>2, <2>3, <2>4 DEF HeardOK
<1> QED
  BY <1>2, <1>3, <1>4, UserStep

LEMMA ReturnStep ==
  ASSUME IInv, NEW p \in Procs, cur = p, NEW s, Ready(s, p),
         NEW v \in {"0", "EINTR", "EWOULDBLOCK"}, Return(p, s, v)
  PROVE  IInv'
<1>1. PICK l \in {"run", "scan"} : pc' = [pc EXCEPT ![p] = l]
  <2>1. CASE v = "0" /\ fr[p].chan = Addr(p)
    BY <2>1 DEF Return, At
  <2>2. CASE ~ (v = "0" /\ fr[p].chan = Addr(p))
    BY <2>2 DEF Return, At
  <2> QED
    BY <2>1, <2>2
<1>2. /\ DropsWoken(s, k', p) /\ fr' = [fr EXCEPT ![p] = NoFrame] /\ ret' = v
      /\ cur' = p /\ sw' = sw
  BY DEF Return, DropsWoken
<1>3. Elsewhere(p) /\ pc'[p] = l
  <2>1. NoFrame \in Frame /\ l \in UserPCs
    BY DEF NoFrame, Frame, UserPCs
  <2> QED
    BY <1>1, <1>2, <2>1, MovesTo DEF IInv
<1>4. Ready(k', p)
  BY <1>2, DropsWokenIs
<1> QED
  BY <1>1, <1>2, <1>3, <1>4, ReadyStep

(* p stops inside issignal.  Only a sleep that goes on keeps its limit.    *)
LEMMA StopAtStep ==
  ASSUME IInv, NEW p \in Procs, cur = p, NEW s,
         Sound(s, NoProc, NoProc), s.load = k.load, s.timer \subseteq k.timer, s.tmo \subseteq k.tmo,
         ParentsHear => Tells(k, s) /\ ~ IsParent(p),
         NEW l \in {"stopped1", "stopped2", "stopped3"},
         p \in s.timer \cup s.tmo => fr[p].timo /\ l = "stopped1",
         StopAt(p, s, l)
  PROVE  IInv'
<1>1. /\ k' = s /\ pc' = [pc EXCEPT ![p] = l] /\ fr' = fr /\ cur' = NoProc /\ sw' = sw
      /\ ret' = "none"
  BY DEF StopAt, At, Swtch, NoReturn
<1>2. Elsewhere(p) /\ pc'[p] = l /\ fr'[p] = fr[p]
  BY <1>1, MovesOn DEF IInv, UserPCs
<1>3. CpuOK(p)
  BY <1>1, <1>2 DEF CpuOK, UserPCs
<1>4. LimitsOK(p) /\ k'.load \subseteq k.load
  BY <1>1, <1>2, Running DEF LimitsOK, IInv
<1>5. ParentsHear => HeardOK(p)
  BY <1>1, <1>2, TellsToBut DEF HeardOK
<1> QED
  BY <1>2, <1>3, <1>4, <1>5, UserStep

(* The flags are reset and the time limit is cancelled.                    *)
LEMMA ResetReady ==
  ASSUME SInv, NEW p \in Procs, cur = p, NEW s, Made(s, p)
  PROVE  Ready(Reset(s, p), p)
<1> DEFINE t == Reset(s, p)
           T == IF p \notin s.tmo /\ fr[p].timo THEN s.timer \ {p} ELSE s.timer
<1>1. s \in KType /\ p \in AllProcs
  BY ReadyFacts, ProcFacts DEF Made
<1>2. /\ ~ fr[p].timo => p \notin k.timer \cup k.tmo
      /\ k.timer \cap k.tmo = {}
  BY Running
<1>3. p \notin T /\ T \subseteq s.timer
  BY <1>2 DEF Made
<1>4. t = [s EXCEPT !.sintr = @ \ {p}, !.tmo = @ \ {p}, !.timer = T]
  BY DEF Reset
<1> HIDE DEF t, T
<1>5. /\ t \in KType /\ SameQueues(s, t) /\ t.runout = s.runout
      /\ t.waited = s.waited /\ t.sig = s.sig /\ t.timer = T /\ t.tmo = s.tmo \ {p}
      /\ t.stat = s.stat /\ t.wchan = s.wchan /\ t.load = s.load
  BY <1>1, <1>3, <1>4, Fields DEF KType, SameQueues
<1>6. Sound(t, p, NoProc)
  BY <1>5, SoundSame DEF Made
<1>7. ParentsHear => Tells(k, t)
  <2>1. Tells(s, t)
    BY <1>5 DEF Tells, HearsOn, Fresh
  <2> QED
    BY <2>1, TellsTrans DEF Made
<1>8. Ready(t, p)
  BY <1>3, <1>5, <1>6, <1>7 DEF Ready, Made
<1> QED
  BY <1>8 DEF t

LEMMA ReadyAlive ==
  ASSUME IInv, NEW s, ParentsHear => Tells(k, s)
  PROVE  ParentsHear => Alive(s)
BY HeardAlive DEF Alive, Tells, HearsOn

LEMMA Results ==
  /\ STOPPED \notin Sigs /\ 0 \notin Sigs /\ STOPPED # 0
BY DEF STOPPED, Sigs, SIGINT, SIGKILL, SIGTSTP, SIGCONT, SIGCHLD

LEMMA LastCursigStep ==
  ASSUME IInv, NEW p \in Procs, cur = p, NEW s, Ready(s, p), NEW r,
         NoSignal(s, r, p, NoProc) \/ ActsOn(s, r, p, NoProc) \/ StopsIn(s, r, p),
         LastCursig(p, r)
  PROVE  IInv'
<1>1. CASE NoSignal(s, r, p, NoProc)
  <2>1. Return(p, r.k, "0")
    BY <1>1, Results DEF NoSignal, LastCursig
  <2>2. Ready(r.k, p)
    BY <1>1, GoodReady DEF NoSignal
  <2> QED
    BY <2>1, <2>2, ReturnStep
<1>2. CASE ActsOn(s, r, p, NoProc)
  <2>1. Return(p, r.k, "EINTR")
    BY <1>2, Results DEF ActsOn, LastCursig
  <2>2. Ready(r.k, p)
    BY <1>2, GoodReady DEF ActsOn
  <2> QED
    BY <2>1, <2>2, ReturnStep
<1>3. CASE StopsIn(s, r, p)
  <2>1. StopAt(p, r.k, "stopped2")
    BY <1>3, Results DEF StopsIn, LastCursig
  <2>2. /\ Sound(r.k, NoProc, NoProc) /\ r.k.load = k.load
        /\ r.k.timer \subseteq k.timer /\ r.k.tmo \subseteq k.tmo
        /\ p \notin r.k.timer \cup r.k.tmo
        /\ ParentsHear => Tells(k, r.k) /\ ~ IsParent(p)
    BY <1>3, TellsTrans DEF StopsIn, CalmBut, Ready
  <2> QED
    BY <2>1, <2>2, StopAtStep
<1> QED
  BY <1>1, <1>2, <1>3

(* From the label resume on.                                               *)
LEMMA ResumeStep ==
  ASSUME IInv, NEW p \in Procs, cur = p, NEW s, Made(s, p), NEW g, NEW c, Resume(p, s, g, c)
  PROVE  IInv'
<1> DEFINE t == Reset(s, p)
           r == Issignal(t, p)
<1>1. \/ Return(p, t, "EWOULDBLOCK")
      \/ LastCursig(p, r)
      \/ Return(p, t, "EINTR")
      \/ Return(p, t, "0")
  BY Zenon DEF Resume
<1>2. Ready(t, p)
  BY ResetReady DEF IInv
<1> HIDE DEF t
<1>3. NoSignal(t, r, p, NoProc) \/ ActsOn(t, r, p, NoProc) \/ StopsIn(t, r, p)
  <2>1. Sound(t, p, NoProc) /\ (ParentsHear => Alive(t))
    BY <1>2, ReadyAlive DEF Ready
  <2> QED
    BY <2>1, IssignalGood
<1> HIDE DEF r
<1>4. CASE LastCursig(p, r)
  BY <1>2, <1>3, <1>4, LastCursigStep
<1> QED
  BY <1>1, <1>2, <1>4, ReturnStep

(* p goes to sleep: it is on the sleep queue, and gives up the processor.  *)
LEMMA SleepSound ==
  ASSUME NEW p \in AllProcs, NEW s, Sound(s, p, p), s.wchan[p] # NoChan,
         NEW t, t = [s EXCEPT !.stat[p] = "SSLEEP"]
  PROVE  /\ Sound(t, NoProc, NoProc) /\ Tells(s, t)
         /\ t.load = s.load /\ t.timer = s.timer /\ t.tmo = s.tmo
         /\ t.sig = s.sig /\ t.wchan = s.wchan /\ t.stat[p] = "SSLEEP"
<1>1. s \in KType /\ Core(s, p, p) /\ p # NoProc
  BY ProcFacts DEF Sound, Core
<1>2. /\ t \in KType /\ t.stat = [s.stat EXCEPT ![p] = "SSLEEP"]
      /\ t.wchan = s.wchan /\ t.slpq = s.slpq /\ t.runq = s.runq
      /\ t.load = s.load /\ t.panic = s.panic /\ t.runout = s.runout
      /\ t.timer = s.timer /\ t.tmo = s.tmo /\ t.sig = s.sig /\ t.waited = s.waited
  BY <1>1, Fields DEF KType, Stats
<1>3. t.stat[p] = "SSLEEP" /\ \A q \in AllProcs \ {p} : t.stat[q] = s.stat[q]
  BY <1>1, <1>2, Fields
<1>4. ASSUME NEW q \in AllProcs
      PROVE  Place(t, q, NoProc)
  <2>1. Place(s, q, p)
    BY <1>1 DEF Core
  <2>2. CASE q = p
    BY <1>2, <1>3, <2>1, <2>2 DEF Place
  <2>3. CASE q # p
    BY <1>2, <1>3, <2>1, <2>3 DEF Place
  <2> QED
    BY <2>2, <2>3
<1>5. t.runq = { q \in t.load : t.stat[q] = "SRUN" } \ {NoProc}
  <2>1. s.runq = { q \in s.load : s.stat[q] = "SRUN" } \ {p} /\ s.load \subseteq AllProcs
    BY <1>1, Fields DEF Core
  <2> QED
    BY <1>2, <1>3, <2>1, ProcFacts
<1>6. t.stat[Proc0] \in {"SRUN", "SSLEEP"} /\ Proc0 \in t.load
  BY <1>1, <1>2, <1>3, ProcFacts DEF Core
<1>7. Core(t, NoProc, NoProc)
  BY <1>1, <1>2, <1>4, <1>5, <1>6 DEF Core, Runs
<1>8. Announced(t) /\ Served(t)
  BY <1>2, <1>3, ProcFacts DEF Sound, Announced, Served
<1>9. Tells(s, t)
  BY <1>2, <1>3, ProcFacts DEF Tells, HearsOn, Fresh
<1> QED
  BY <1>2, <1>3, <1>7, <1>8, <1>9 DEF Sound

LEMMA GoToSleepStep ==
  ASSUME IInv, NEW p \in Procs, cur = p, pc[p] = "cursig", NEW s, Good(k, s, p, p),
         s.wchan[p] = k.wchan[p],
         ParentsHear /\ IsParent(p) /\ k.wchan[p] = Addr(p) => SIGCHLD \notin k.sig[p],
         GoToSleep(p, s)
  PROVE  IInv'
<1>1. /\ k' = [s EXCEPT !.stat[p] = "SSLEEP"] /\ pc' = [pc EXCEPT ![p] = "slept"]
      /\ fr' = fr /\ cur' = NoProc /\ sw' = sw /\ ret' = "none"
  BY DEF GoToSleep, At, Swtch, NoReturn
<1>2. SInv /\ k.wchan[p] # NoChan /\ p \in AllProcs /\ k.timer \cap k.tmo = {}
      /\ (~ fr[p].timo => p \notin k.timer \cup k.tmo)
  BY Running DEF IInv
<1>3. Sound(s, p, p) /\ Calm(k, s) /\ (ParentsHear => Tells(k, s))
  BY DEF Good
<1>4. /\ Sound(k', NoProc, NoProc) /\ Tells(s, k')
      /\ k'.load = s.load /\ k'.timer = s.timer /\ k'.tmo = s.tmo
      /\ k'.wchan = s.wchan
  BY <1>1, <1>2, <1>3, SleepSound
<1>5. Elsewhere(p) /\ pc'[p] = "slept" /\ fr'[p] = fr[p]
  BY <1>1, <1>2, MovesOn DEF UserPCs
<1>6. CpuOK(p)
  BY <1>1, <1>4, <1>5 DEF CpuOK, UserPCs
<1>7. LimitsOK(p) /\ k'.load \subseteq k.load
  BY <1>2, <1>3, <1>4, <1>5 DEF LimitsOK, Calm
<1>8. ASSUME ParentsHear
      PROVE  HeardOK(p)
  <2>1. Tells(k, k') /\ TellsBut(k, k', p)
    BY <1>3, <1>4, <1>8, TellsTrans, TellsToBut
  <2>2. IsParent(p) => k'.stat[p] # "SZOMB" /\ SIGKILL \notin k'.sig[p]
    BY <1>8, <2>1, ParentLives
  <2>3. IsParent(p) => LeavesWait(p) \/ StaysInWait(p)
    <3>1. CASE k.wchan[p] # Addr(p)
      BY <1>4, <1>5, <3>1 DEF LeavesWait
    <3>2. CASE k.wchan[p] = Addr(p) /\ IsParent(p)
      <4>1. ~ News(p)
        BY <1>8, <3>2 DEF IInv, HInv, Heard, Hears, InWait
      <4> QED
        BY <1>5, <3>2, <4>1 DEF StaysInWait, InWait
    <3> QED
      BY <3>1, <3>2
  <2> QED
    BY <1>5, <2>1, <2>2, <2>3 DEF HeardOK
<1> QED
  BY <1>5, <1>6, <1>7, <1>8, UserStep

(* A signal ends the sleep before it began.                                *)
LEMMA UnsleepMade ==
  ASSUME NEW p \in Procs, NEW m \in {p, NoProc}, NEW s, Sound(s, p, m),
         s.load = k.load, s.timer = k.timer, s.tmo = k.tmo, ParentsHear => Tells(k, s)
  PROVE  Made([Unsleep(s, p) EXCEPT !.stat[p] = "SRUN"], p)
<1> DEFINE u == Unsleep(s, p)
           t == [u EXCEPT !.stat[p] = "SRUN"]
<1>1. p \in AllProcs /\ p # NoProc /\ s.stat[p] = "SRUN"
  BY ProcFacts DEF Sound, Core, Runs
<1>2. /\ Sound(u, p, m) /\ Kept(s, u) /\ u.stat = s.stat /\ u.wchan[p] = NoChan
      /\ Tells(s, u)
  BY <1>1, UnsleepStopped
<1> HIDE DEF u
<1>3. u \in KType /\ u.stat[p] = "SRUN"
  BY <1>1, <1>2 DEF Sound, Core
<1>4. t = u
  BY <1>1, <1>3, Fields DEF KType
<1>5. Sound(u, p, NoProc)
  <2>1. \A q \in AllProcs : Place(u, q, NoProc)
    BY <1>2 DEF Sound, Core, Place
  <2> QED
    BY <1>2, <2>1 DEF Sound, Core
<1>6. Made(u, p)
  BY <1>2, <1>5, TellsTrans DEF Made, Kept
<1> QED
  BY <1>4, <1>6 DEF u

(* Lines 155 to 175 of kern_synch.c, for a process that still runs on its  *)
(* way to sleep or has been continued.                                     *)
LEMMA FirstCursigStep ==
  ASSUME IInv, NEW p \in Procs, cur = p, NEW m,
         \/ pc[p] = "cursig" /\ m = p
         \/ pc[p] = "stopped1" /\ m = NoProc,
         NEW r, NoSignal(k, r, p, m) \/ ActsOn(k, r, p, m) \/ StopsIn(k, r, p),
         FirstCursig(p, r)
  PROVE  IInv'
<1>1. /\ SInv /\ k.timer \cap k.tmo = {} /\ (~ fr[p].timo => p \notin k.timer \cup k.tmo)
      /\ pc[p] = "cursig" <=> k.wchan[p] # NoChan
  BY Running DEF IInv
<1>2. CASE NoSignal(k, r, p, m)
  <2>1. /\ Good(k, r.k, p, m) /\ r.k.wchan = k.wchan
        /\ ParentsHear /\ IsParent(p) => SIGCHLD \notin k.sig[p]
    BY <1>2 DEF NoSignal, SigsOnly
  <2>2. CASE pc[p] = "cursig"
    <3>1. GoToSleep(p, r.k) /\ m = p
      BY <1>1, <1>2, <2>1, <2>2, Results DEF NoSignal, FirstCursig
    <3> QED
      BY <2>1, <2>2, <3>1, GoToSleepStep
  <2>3. CASE pc[p] # "cursig"
    <3>1. Resume(p, r.k, 0, FALSE) /\ m = NoProc
      BY <1>1, <1>2, <2>1, <2>3, Results DEF NoSignal, FirstCursig
    <3>2. Made(r.k, p)
      BY <2>1, <3>1 DEF Made, Good, Calm
    <3> QED
      BY <3>1, <3>2, ResumeStep
  <2> QED
    BY <2>2, <2>3
<1>3. CASE ActsOn(k, r, p, m)
  <2> DEFINE s == [Unsleep(r.k, p) EXCEPT !.stat[p] = "SRUN"]
  <2>1. Resume(p, s, r.res, TRUE)
    BY <1>3, Results DEF ActsOn, FirstCursig
  <2>2. Made(s, p)
    <3>1. /\ Sound(r.k, p, m) /\ m \in {p, NoProc} /\ (ParentsHear => Tells(k, r.k))
          /\ r.k.load = k.load /\ r.k.timer = k.timer /\ r.k.tmo = k.tmo
      BY <1>3 DEF ActsOn, Good, Calm
    <3> QED
      BY <3>1, UnsleepMade
  <2> HIDE DEF s
  <2> QED
    BY <2>1, <2>2, ResumeStep
<1>4. CASE StopsIn(k, r, p)
  <2>1. StopAt(p, r.k, "stopped1")
    BY <1>4, Results DEF StopsIn, FirstCursig
  <2>2. /\ Sound(r.k, NoProc, NoProc) /\ r.k.load = k.load
        /\ r.k.timer = k.timer /\ r.k.tmo = k.tmo
        /\ ParentsHear => Tells(k, r.k) /\ ~ IsParent(p)
    BY <1>4 DEF StopsIn, CalmBut
  <2>3. p \in k.timer \cup k.tmo => fr[p].timo
    BY <1>1 DEF SInv, Limits, NoStaleTimer
  <2> QED
    BY <2>1, <2>2, <2>3, StopAtStep
<1> QED
  BY <1>2, <1>3, <1>4

LEMMA CursigStep ==
  ASSUME IInv, NEW p \in Procs, Cursig(p)
  PROVE  IInv'
<1>1. cur = p /\ pc[p] = "cursig" /\ SInv
  BY DEF Cursig, Has, IInv
<1>2. Sound(k, p, p)
  BY <1>1, Running
<1>3. CASE fr[p].catch
  <2> DEFINE r == Issignal(k, p)
  <2>1. FirstCursig(p, r)
    BY <1>3 DEF Cursig
  <2>2. NoSignal(k, r, p, p) \/ ActsOn(k, r, p, p) \/ StopsIn(k, r, p)
    BY <1>2, HeardAlive, IssignalGood
  <2> HIDE DEF r
  <2> QED
    BY <1>1, <2>1, <2>2, FirstCursigStep
<1>4. CASE ~ fr[p].catch
  <2>1. GoToSleep(p, k) /\ Good(k, k, p, p)
    BY <1>2, <1>4, GoodSame DEF Cursig
  <2>2. ParentsHear /\ IsParent(p) => k.wchan[p] # Addr(p)
    BY <1>4 DEF IInv, HInv, Heard, Hears, InWait
  <2> QED
    BY <1>1, <2>1, <2>2, GoToSleepStep
<1> QED
  BY <1>3, <1>4

LEMMA Stopped1Step ==
  ASSUME IInv, NEW p \in Procs, Stopped1(p)
  PROVE  IInv'
<1> DEFINE r == IssignalAgain(k, p)
<1>1. cur = p /\ pc[p] = "stopped1" /\ FirstCursig(p, r) /\ SInv
  BY DEF Stopped1, Has, IInv
<1>2. Sound(k, p, NoProc)
  BY <1>1, Running
<1>3. NoSignal(k, r, p, NoProc) \/ ActsOn(k, r, p, NoProc) \/ StopsIn(k, r, p)
  BY <1>2, HeardAlive, IssignalAgainGood
<1> HIDE DEF r
<1> QED
  BY <1>1, <1>3, FirstCursigStep

LEMMA MadeNow ==
  ASSUME NEW p, Sound(k, p, NoProc)
  PROVE  Made(k, p)
BY TellsSame DEF Made

LEMMA SleptStep ==
  ASSUME IInv, NEW p \in Procs, Slept(p)
  PROVE  IInv'
<1>1. cur = p /\ pc[p] = "slept" /\ Resume(p, k, 0, fr[p].catch) /\ SInv
  BY DEF Slept, Has, IInv
<1>2. Made(k, p)
  BY <1>1, Running, MadeNow
<1> QED
  BY <1>1, <1>2, ResumeStep

(* Between two steps outside a sleep, no time limit runs.                  *)
LEMMA ReadyNow ==
  ASSUME SInv, NEW p \in Procs, cur = p, pc[p] \notin {"cursig", "slept", "stopped1"}
  PROVE  Ready(k, p)
BY Running, TellsSame DEF Ready

LEMMA Stopped2Step ==
  ASSUME IInv, NEW p \in Procs, Stopped2(p)
  PROVE  IInv'
<1> DEFINE r == IssignalAgain(k, p)
<1>1. cur = p /\ pc[p] = "stopped2" /\ LastCursig(p, r) /\ SInv
  BY DEF Stopped2, Has, IInv
<1>2. Ready(k, p) /\ Sound(k, p, NoProc)
  BY <1>1, ReadyNow DEF Ready
<1>3. NoSignal(k, r, p, NoProc) \/ ActsOn(k, r, p, NoProc) \/ StopsIn(k, r, p)
  BY <1>2, HeardAlive, IssignalAgainGood
<1> HIDE DEF r
<1> QED
  BY <1>1, <1>2, <1>3, LastCursigStep

-----------------------------------------------------------------------------
(* The rest of a process's life.                                           *)

LEMMA HeardLeaves ==
  ASSUME IInv, ParentsHear, NEW p \in Procs, Tells(k, k'), LeavesWait(p), pc'[p] # "exited"
  PROVE  HeardOK(p)
<1>1. TellsBut(k, k', p)
  BY TellsToBut
<1>2. IsParent(p) => k'.stat[p] # "SZOMB" /\ SIGKILL \notin k'.sig[p]
  BY ParentLives
<1> QED
  BY <1>1, <1>2 DEF HeardOK

(* A signal is taken from p_sig, and its handler is called.                *)
LEMMA TakeSignalStep ==
  ASSUME IInv, NEW p \in Procs, cur = p, NEW s, Ready(s, p), SigsOnly(k, s, p),
         NEW g, DropsSigs(s, k', p, {g}),
         pc' = [pc EXCEPT ![p] = "run"], UNCHANGED <<cur, fr, sw>>, ret' = "none"
  PROVE  IInv'
<1>1. s \in KType /\ p \in AllProcs
  BY ProcFacts, ReadyFacts DEF Ready
<1>2. /\ k' \in KType /\ SameQueues(s, k') /\ k'.runout = s.runout /\ k'.waited = s.waited
      /\ k'.stat = s.stat /\ k'.wchan = s.wchan /\ k'.load = s.load
      /\ k'.timer = s.timer /\ k'.tmo = s.tmo
      /\ k'.sig = [s.sig EXCEPT ![p] = s.sig[p] \ {g}]
  BY <1>1, Fields DEF KType, SameQueues, DropsSigs
<1>3. Sound(k', p, NoProc) /\ k'.wchan[p] = NoChan
  BY <1>2, SoundSame, ReadyFacts DEF Ready
<1>4. Elsewhere(p) /\ pc'[p] = "run"
  BY MovesOn DEF IInv, UserPCs
<1>5. CpuOK(p)
  BY <1>3, <1>4 DEF CpuOK, UserPCs
<1>6. LimitsOK(p) /\ k'.load \subseteq k.load
  BY <1>2, Running DEF LimitsOK, Ready, IInv
<1>7. ASSUME ParentsHear
      PROVE  HeardOK(p)
  <2>1. Tells(k, s)
    BY <1>7 DEF Ready
  <2>2. \A q \in Procs \ {p} : k'.sig[q] = s.sig[q]
    BY <1>1, <1>2, Fields, ProcFacts
  <2>3. ASSUME NEW q \in Procs \ {p}, IsParent(q)
        PROVE  HearsOn(k, k', q)
    BY <1>2, <2>1, <2>2, <2>3 DEF Tells, HearsOn
  <2>4. \A c \in Procs : Fresh(k', c) => Fresh(k, c)
    BY <1>2 DEF SigsOnly, Only, Fresh
  <2>5. TellsBut(k, k', p)
    BY <2>3, <2>4 DEF TellsBut
  <2>6. IsParent(p) => k'.stat[p] # "SZOMB" /\ SIGKILL \notin k'.sig[p]
    <3>1. IsParent(p) => s.stat[p] # "SZOMB" /\ SIGKILL \notin s.sig[p]
      BY <1>7, <2>1, ParentLives
    <3>2. k'.sig[p] = s.sig[p] \ {g}
      BY <1>1, <1>2, Fields
    <3> QED
      BY <1>2, <3>1, <3>2
  <2>7. LeavesWait(p)
    BY <1>3, <1>4, ChanFacts DEF LeavesWait
  <2> QED
    BY <1>4, <2>5, <2>6, <2>7 DEF HeardOK
<1> QED
  BY <1>4, <1>5, <1>6, <1>7, UserStep

LEMMA ExitStep ==
  ASSUME IInv, NEW p \in Procs, cur = p, NEW s, Ready(s, p), SIGKILL \in k.sig[p],
         k' = Exit(s, p), pc' = [pc EXCEPT ![p] = "exited"], cur' = NoProc,
         UNCHANGED <<fr, sw>>, ret' = "none"
  PROVE  IInv'
<1>1. ParentsHear => ~ IsParent(p)
  BY DEF IInv, HInv, Heard, Hears
<1>2. Sound(s, p, NoProc) /\ (ParentsHear => Alive(s) /\ Tells(k, s))
  BY ReadyAlive DEF Ready
<1>3. /\ Sound(k', NoProc, NoProc) /\ CalmBut(s, k', p)
      /\ ParentsHear => Tells(s, k') /\ Told(k', p)
  BY <1>1, <1>2, ExitGood
<1>4. Elsewhere(p) /\ pc'[p] = "exited"
  BY MovesOn DEF IInv, UserPCs
<1>5. CpuOK(p)
  BY <1>3, <1>4 DEF CpuOK, UserPCs
<1>6. LimitsOK(p) /\ k'.load \subseteq k.load
  BY <1>3, Running DEF LimitsOK, Ready, CalmBut, IInv
<1>7. ParentsHear => HeardOK(p)
  BY <1>1, <1>2, <1>3, TellsTrans, TellsToBut DEF HeardOK
<1> QED
  BY <1>4, <1>5, <1>6, <1>7, UserStep

LEMMA PostsigStep ==
  ASSUME IInv, NEW p \in Procs, cur = p, pc[p] \in {"run", "stopped3"}, NEW r,
         NoSignal(k, r, p, NoProc) \/ ActsOn(k, r, p, NoProc) \/ StopsIn(k, r, p),
         Postsig(p, r)
  PROVE  IInv'
<1>1. SInv /\ Ready(k, p)
  BY ReadyNow DEF IInv
<1>2. CASE StopsIn(k, r, p)
  <2>1. StopAt(p, r.k, "stopped3")
    BY <1>2, Results DEF StopsIn, Postsig, STOPPED, SIGKILL
  <2>2. /\ Sound(r.k, NoProc, NoProc) /\ r.k.load = k.load
        /\ r.k.timer \subseteq k.timer /\ r.k.tmo \subseteq k.tmo
        /\ p \notin r.k.timer \cup r.k.tmo
        /\ ParentsHear => Tells(k, r.k) /\ ~ IsParent(p)
    BY <1>1, <1>2 DEF StopsIn, CalmBut, Ready
  <2> QED
    BY <2>1, <2>2, StopAtStep
<1>3. CASE NoSignal(k, r, p, NoProc) \/ ActsOn(k, r, p, NoProc)
  <2>1. /\ Good(k, r.k, p, NoProc) /\ SigsOnly(k, r.k, p) /\ r.res # STOPPED
        /\ r.res = SIGKILL => SIGKILL \in k.sig[p]
    BY <1>3, Results DEF NoSignal, ActsOn, Sigs
  <2>2. Ready(r.k, p)
    BY <1>1, <2>1, GoodReady
  <2>3. CASE r.res = SIGKILL
    <3>1. /\ k' = Exit(r.k, p) /\ pc' = [pc EXCEPT ![p] = "exited"] /\ cur' = NoProc
          /\ UNCHANGED <<fr, sw>> /\ ret' = "none"
      BY <2>1, <2>3 DEF Postsig, At, Swtch, NoReturn
    <3> QED
      BY <2>1, <2>2, <2>3, <3>1, ExitStep
  <2>4. CASE r.res # SIGKILL
    <3>1. /\ DropsSigs(r.k, k', p, {r.res}) /\ pc' = [pc EXCEPT ![p] = "run"]
          /\ UNCHANGED <<cur, fr, sw>> /\ ret' = "none"
      BY <2>1, <2>4 DEF Postsig, At, NoReturn, DropsSigs
    <3> QED
      BY <2>1, <2>2, <3>1, TakeSignalStep
  <2> QED
    BY <2>3, <2>4
<1> QED
  BY <1>2, <1>3

LEMMA SyscallReturnStep ==
  ASSUME IInv, NEW p \in Procs, SyscallReturn(p)
  PROVE  IInv'
<1> DEFINE r == Issignal(k, p)
<1>1. cur = p /\ pc[p] = "run" /\ Postsig(p, r) /\ SInv
  BY DEF SyscallReturn, Has, IInv
<1>2. Sound(k, p, NoProc)
  BY <1>1, Running
<1>3. NoSignal(k, r, p, NoProc) \/ ActsOn(k, r, p, NoProc) \/ StopsIn(k, r, p)
  BY <1>2, HeardAlive, IssignalGood
<1> HIDE DEF r
<1> QED
  BY <1>1, <1>3, PostsigStep

LEMMA Stopped3Step ==
  ASSUME IInv, NEW p \in Procs, Stopped3(p)
  PROVE  IInv'
<1> DEFINE r == IssignalAgain(k, p)
<1>1. cur = p /\ pc[p] = "stopped3" /\ Postsig(p, r) /\ SInv
  BY DEF Stopped3, Has, IInv
<1>2. Sound(k, p, NoProc)
  BY <1>1, Running
<1>3. NoSignal(k, r, p, NoProc) \/ ActsOn(k, r, p, NoProc) \/ StopsIn(k, r, p)
  BY <1>2, HeardAlive, IssignalAgainGood
<1> HIDE DEF r
<1> QED
  BY <1>1, <1>3, PostsigStep

(* wait1.                                                                  *)
LEMMA WaitStep ==
  ASSUME IInv, NEW p \in Procs, Wait(p)
  PROVE  IInv'
<1>1. /\ SInv /\ cur = p /\ pc[p] \in {"run", "scan"} /\ UNCHANGED <<cur, fr, sw>> /\ ret' = "none"
  BY DEF Wait, Has, NoReturn, IInv
<1>2. /\ p \notin k.timer \cup k.tmo /\ k.timer \cap k.tmo = {}
      /\ Sound(k, p, NoProc) /\ k \in KType /\ k.wchan[p] = NoChan
  BY <1>1, Running
<1>3. /\ p \in AllProcs /\ p # Proc0 /\ Proc0 \in AllProcs
      /\ pc \in [AllProcs -> UserPCs \cup SchedPCs] /\ fr \in [Procs -> Frame]
  BY <1>1, ProcFacts DEF SInv, TypeOK
<1>4. k.wchan[p] # Addr(p)
  BY <1>2, ChanFacts
<1>5. ASSUME NEW c \in Children(p), Reap(p, c)
      PROVE  IInv'
  <2>1. c \in Procs /\ c # p /\ c \in AllProcs /\ c # Proc0 /\ pc[c] = "exited"
    BY <1>5, SynchAssumption, ProcFacts DEF Children, Reap, Zombies
  <2>2. k' = k /\ pc' = [pc EXCEPT ![c] = "reaped", ![p] = "run"]
    BY <1>5 DEF Reap
  <2>3. pc'[p] = "run" /\ pc'[c] = "reaped" /\ \A q \in AllProcs \ {p, c} : pc'[q] = pc[q]
    BY <1>3, <2>1, <2>2
  <2>4. Elsewhere(p)
    <3>1. pc' \in [AllProcs -> UserPCs \cup SchedPCs]
      BY <1>3, <2>1, <2>2 DEF UserPCs
    <3> QED
      BY <1>1, <1>3, <2>1, <2>3, <3>1, ProcFacts DEF Elsewhere
  <2>5. CpuOK(p)
    BY <1>1, <1>2, <2>2, <2>3 DEF CpuOK, UserPCs
  <2>6. LimitsOK(p) /\ k'.load \subseteq k.load
    BY <1>2, <2>2 DEF LimitsOK
  <2>7. ParentsHear => HeardOK(p)
    BY <1>4, <2>2, <2>3, TellsSame, HeardLeaves DEF LeavesWait
  <2> QED
    BY <1>1, <2>4, <2>5, <2>6, <2>7, UserStep
<1>6. ASSUME NEW c \in Children(p), ReportStop(p, c)
      PROVE  IInv'
  <2>1. k' = [k EXCEPT !.waited = @ \cup {c}] /\ pc' = [pc EXCEPT ![p] = "run"] /\ c \in AllProcs
    BY <1>6, ProcFacts DEF Children, ReportStop, At
  <2>2. /\ k' \in KType /\ SameQueues(k, k') /\ k'.runout = k.runout
        /\ k'.stat = k.stat /\ k'.wchan = k.wchan /\ k'.load = k.load /\ k'.sig = k.sig
        /\ k'.timer = k.timer /\ k'.tmo = k.tmo /\ k'.waited = k.waited \cup {c}
    BY <1>2, <2>1, Fields DEF KType, SameQueues
  <2>3. Elsewhere(p) /\ pc'[p] = "run"
    BY <1>1, <2>1, MovesOn DEF UserPCs
  <2>4. CpuOK(p)
    BY <1>1, <1>2, <2>2, <2>3, SoundSame DEF CpuOK, UserPCs
  <2>5. LimitsOK(p) /\ k'.load \subseteq k.load
    BY <1>2, <2>2 DEF LimitsOK
  <2>6. Tells(k, k')
    BY <2>2 DEF Tells, HearsOn, Fresh
  <2>7. ParentsHear => HeardOK(p)
    BY <1>4, <2>2, <2>3, <2>6, HeardLeaves DEF LeavesWait
  <2> QED
    BY <1>1, <2>3, <2>4, <2>5, <2>7, UserStep
<1>7. ASSUME NothingYet(p)
      PROVE  IInv'
  <2>1. PICK l \in {"run", "wait"} : k' = k /\ pc' = [pc EXCEPT ![p] = l]
    <3>1. CASE \A c \in Children(p) : pc[c] = "reaped"
      BY <1>7, <3>1 DEF NothingYet, At
    <3>2. CASE ~ \A c \in Children(p) : pc[c] = "reaped"
      BY <1>7, <3>2 DEF NothingYet, At
    <3> QED
      BY <3>1, <3>2
  <2>2. Elsewhere(p) /\ pc'[p] = l /\ fr'[p] = fr[p]
    BY <1>1, <2>1, MovesOn DEF UserPCs
  <2>3. CpuOK(p)
    BY <1>1, <1>2, <2>1, <2>2 DEF CpuOK, UserPCs
  <2>4. LimitsOK(p) /\ k'.load \subseteq k.load
    BY <1>2, <2>1 DEF LimitsOK
  <2>5. ~ News(p)
    BY <1>7 DEF NothingYet, Zombies, NewlyStopped, Children, News, NewsOf, Fresh
  <2>6. ASSUME ParentsHear
        PROVE  HeardOK(p)
    <3>1. TellsBut(k, k', p)
      BY <2>1, TellsSame, TellsToBut
    <3>2. IsParent(p) => k'.stat[p] # "SZOMB" /\ SIGKILL \notin k'.sig[p]
      BY <2>1, <2>6, TellsSame, ParentLives
    <3>3. StaysInWait(p)
      BY <2>1, <2>2, <2>5 DEF StaysInWait, InWait
    <3> QED
      BY <2>2, <3>1, <3>2, <3>3 DEF HeardOK
  <2> QED
    BY <1>1, <2>2, <2>3, <2>4, <2>6, UserStep
<1> QED
  BY <1>5, <1>6, <1>7 DEF Wait

(* The run queue.                                                          *)
LEMMA SetrqSound ==
  ASSUME NEW p \in AllProcs, NEW s, Sound(s, p, NoProc)
  PROVE  LET t == Setrq(s, p)
         IN /\ Sound(t, NoProc, NoProc) /\ Kept(s, t) /\ Tells(s, t)
            /\ t.wchan = s.wchan
<1> DEFINE t == Setrq(s, p)
<1>1. /\ s \in KType /\ Core(s, p, NoProc) /\ p # NoProc /\ s.stat[p] = "SRUN" /\ p \in s.load
      /\ s.runq = { q \in s.load : s.stat[q] = "SRUN" } \ {p} /\ Place(s, p, NoProc)
  BY ProcFacts DEF Sound, Core, Runs
<1>2. p \notin s.runq /\ p \notin s.slpq
  BY <1>1 DEF Place
<1>3. /\ t \in KType /\ Kept(s, t)
      /\ t.sig = s.sig /\ t.waited = s.waited
      /\ t.stat = s.stat /\ t.runq = s.runq \cup {p} /\ t.runout = s.runout
      /\ t.wchan = s.wchan /\ t.slpq = s.slpq
      /\ t.panic <=> s.panic
  BY <1>1, <1>2, SetrqIs
<1> HIDE DEF t
<1>4. t.runq = { q \in t.load : t.stat[q] = "SRUN" } \ {NoProc}
  BY <1>1, <1>3, Fields, ProcFacts DEF Kept
<1>5. Core(t, NoProc, NoProc)
  BY <1>1, <1>3, <1>4 DEF Core, Runs, Place, Kept
<1>6. Announced(t) /\ Served(t)
  BY <1>3 DEF Sound, Announced, Served, Kept
<1>7. Tells(s, t)
  BY <1>3 DEF Tells, HearsOn, Fresh
<1> QED
  BY <1>3, <1>5, <1>6, <1>7 DEF Sound, t

LEMMA PreemptStep ==
  ASSUME IInv, NEW p \in Procs, Preempt(p)
  PROVE  IInv'
<1>1. /\ SInv /\ cur = p /\ pc[p] = "run" /\ k' = Setrq(k, p) /\ cur' = NoProc
      /\ UNCHANGED <<pc, fr, sw>> /\ ret' = "none"
  BY DEF Preempt, Has, Swtch, NoReturn, IInv
<1>2. /\ p \notin k.timer \cup k.tmo /\ k.timer \cap k.tmo = {} /\ k \in KType
      /\ Sound(k, p, NoProc) /\ k.wchan[p] = NoChan /\ p \in AllProcs
  BY <1>1, Running
<1>3. /\ Sound(k', NoProc, NoProc) /\ Kept(k, k') /\ Tells(k, k') /\ k'.wchan = k.wchan
  BY <1>1, <1>2, SetrqSound
<1>4. Elsewhere(p) /\ pc'[p] = "run"
  BY <1>1 DEF Elsewhere, SInv, TypeOK
<1>5. CpuOK(p)
  BY <1>1, <1>3, <1>4 DEF CpuOK, UserPCs
<1>6. LimitsOK(p) /\ k'.load \subseteq k.load
  BY <1>2, <1>3 DEF LimitsOK, Kept
<1>7. ParentsHear => HeardOK(p)
  BY <1>2, <1>3, <1>4, ChanFacts, HeardLeaves DEF LeavesWait
<1> QED
  BY <1>1, <1>4, <1>5, <1>6, <1>7, UserStep

LEMMA DispatchStep ==
  ASSUME IInv, NEW p \in AllProcs, Dispatch(p)
  PROVE  IInv'
<1>1. /\ SInv /\ cur = NoProc /\ p \in k.runq /\ p \in k.load /\ cur' = p
      /\ k' = [k EXCEPT !.runq = @ \ {p}] /\ UNCHANGED <<pc, fr, sw>> /\ ret' = "none"
  BY DEF Dispatch, NoReturn, IInv
<1>2. /\ Sound(k, NoProc, NoProc) /\ k \in KType /\ k.timer \cap k.tmo = {} /\ p # NoProc
  BY <1>1, NotMasked, ProcFacts DEF Masked
<1>3. /\ k' \in KType /\ k'.runq = k.runq \ {p} /\ k'.slpq = k.slpq /\ k'.stat = k.stat
      /\ k'.wchan = k.wchan /\ k'.load = k.load /\ k'.sig = k.sig /\ k'.runout = k.runout
      /\ k'.timer = k.timer /\ k'.tmo = k.tmo /\ k'.waited = k.waited /\ k'.panic = k.panic
  BY <1>1, <1>2, Fields DEF KType
<1>4. Sound(k', p, NoProc)
  <2>1. k.runq = { q \in k.load : k.stat[q] = "SRUN" } \ {NoProc} /\ k.load \subseteq AllProcs
    BY <1>2, Fields DEF Sound, Core
  <2>2. k'.runq = { q \in k'.load : k'.stat[q] = "SRUN" } \ {p} /\ Runs(k', p)
    BY <1>1, <1>3, <2>1, ProcFacts DEF Runs
  <2>3. Core(k', p, NoProc)
    BY <1>2, <1>3, <2>2 DEF Sound, Core, Place
  <2> QED
    BY <1>2, <1>3, <2>3 DEF Sound, Announced, Served
<1>5. \A q \in AllProcs : pc[q] # "cursig"
  BY <1>1, ProcFacts DEF SInv, Places, SchedPCs, AllProcs
<1>6. MaskedProc' = NoProc
  BY <1>1, <1>5 DEF MaskedProc, Masked
<1>7. TypeOK'
  BY <1>1, <1>3 DEF SInv, TypeOK
<1>8. Places' /\ Swapping'
  BY <1>1, <1>3, <1>5, ProcFacts DEF SInv, Places, Swapping
<1>9. Limits'
  BY <1>1, <1>3 DEF SInv, Limits, NoStaleTimer
<1>10. Tells(k, k')
  BY <1>3 DEF Tells, HearsOn, Fresh
<1>11. HInv'
  BY <1>1, <1>10, HeardSame DEF IInv, HInv
<1> QED
  BY <1>1, <1>4, <1>6, <1>7, <1>8, <1>9, <1>11 DEF IInv, SInv

-----------------------------------------------------------------------------
(* Swapping.                                                               *)

(* sleep without PCATCH, by the process that has the CPU.                  *)
Sleeping(s, t, p, c) == t = [s EXCEPT !.stat[p] = "SSLEEP", !.wchan[p] = c, !.slpq = @ \cup {p}]

LEMMA SleepAtSound ==
  ASSUME NEW p \in AllProcs, NEW s, Sound(s, p, NoProc), NEW c \in Chans,
         MaySleepOn(s, p, c), p \in Procs => c # Addr(p), NEW t, Sleeping(s, t, p, c)
  PROVE  /\ Sound(t, NoProc, NoProc) /\ Tells(s, t) /\ t.wchan[p] = c
         /\ t.load = s.load /\ t.timer = s.timer /\ t.tmo = s.tmo
<1> DEFINE u == [s EXCEPT !.wchan[p] = c, !.slpq = @ \cup {p}]
<1>1. s \in KType
  BY DEF Sound, Core
<1>2. /\ u \in KType /\ Links(s, u, p, c) /\ u.sig = s.sig /\ u.waited = s.waited
      /\ u.timer = s.timer /\ u.tmo = s.tmo
  BY <1>1, Fields DEF KType, Links
<1>3. t = [u EXCEPT !.stat[p] = "SSLEEP"]
  BY <1>1 DEF KType, Sleeping
<1> HIDE DEF u
<1>4. Sound(u, p, p) /\ Linked(s, u, p, c)
  BY <1>2, LinkSound
<1>5. c # NoChan
  BY ChanFacts
<1>6. /\ Sound(t, NoProc, NoProc) /\ Tells(u, t)
      /\ t.load = u.load /\ t.timer = u.timer /\ t.tmo = u.tmo /\ t.wchan = u.wchan
  BY <1>3, <1>4, <1>5, SleepSound DEF Linked
<1>7. Tells(s, u)
  BY <1>2, <1>4, ProcFacts DEF Tells, HearsOn, Fresh, Links, Linked
<1> QED
  BY <1>2, <1>4, <1>6, <1>7, TellsTrans DEF Links, Linked

(* swapout begins.                                                         *)
Locks(s, t, p) == t = [s EXCEPT !.lock = @ \cup {p}]

LEMMA LocksSound ==
  ASSUME NEW p \in Procs, NEW s, NEW c, Sound(s, c, NoProc), NEW t, Locks(s, t, p)
  PROVE  /\ Sound(t, c, NoProc) /\ Tells(s, t)
         /\ t.load = s.load /\ t.timer = s.timer /\ t.tmo = s.tmo
<1>1. s \in KType /\ p \in AllProcs
  BY ProcFacts DEF Sound, Core
<1>2. /\ t \in KType /\ SameQueues(s, t) /\ t.runout = s.runout
      /\ t.stat = s.stat /\ t.wchan = s.wchan /\ t.load = s.load /\ t.sig = s.sig
      /\ t.timer = s.timer /\ t.tmo = s.tmo /\ t.waited = s.waited
  BY <1>1, Fields DEF KType, SameQueues, Locks
<1>3. Sound(t, c, NoProc)
  BY <1>2, SoundSame
<1>4. Tells(s, t)
  BY <1>2 DEF Tells, HearsOn, Fresh
<1> QED
  BY <1>2, <1>3, <1>4

(* swapout ends: whoever is runnable now and out of core, sched is told.   *)
SwappedBy(s, c, d, p) == (c = p /\ d = NoProc) \/ (p \notin s.load /\ d = c)

LEMMA SwapoutEndSound ==
  ASSUME NEW p \in Procs, NEW s, NEW c, Sound(s, c, NoProc), NEW d, SwappedBy(s, c, d, p)
  PROVE  LET t == SwapoutEnd(s, p)
         IN /\ Sound(t, d, NoProc) /\ Tells(s, t) /\ t.load = s.load \ {p}
            /\ t.timer = s.timer /\ t.tmo = s.tmo /\ t.wchan[p] = s.wchan[p]
<1> DEFINE u == [s EXCEPT !.load = @ \ {p}, !.lock = @ \ {p}, !.fresh = @ \cup {p}]
           t == KickSched(u)
<1>1. s \in KType /\ p \in AllProcs /\ p # Proc0 /\ p # NoProc /\ Core(s, c, NoProc) /\ Announced(s)
  BY ProcFacts DEF Sound, Core
<1>2. /\ u \in KType /\ u.load = s.load \ {p} /\ u.stat = s.stat /\ u.wchan = s.wchan
      /\ u.slpq = s.slpq /\ u.runq = s.runq /\ u.runout = s.runout /\ u.panic = s.panic
      /\ u.sig = s.sig /\ u.waited = s.waited /\ u.timer = s.timer /\ u.tmo = s.tmo
  BY <1>1, Fields DEF KType
<1>3. SwapoutEnd(s, p) = t
  BY DEF SwapoutEnd
<1> HIDE DEF u
<1>4. Runs(u, d)
  BY <1>1, <1>2 DEF Runs, Core, SwappedBy
<1>5. u.runq = { q \in u.load : u.stat[q] = "SRUN" } \ {d}
  <2>1. s.runq = { q \in s.load : s.stat[q] = "SRUN" } \ {c} /\ s.load \subseteq AllProcs
    BY <1>1, Fields DEF Core
  <2>2. CASE c = p /\ d = NoProc
    BY <1>2, <2>1, <2>2, ProcFacts
  <2>3. CASE p \notin s.load /\ d = c
    BY <1>2, <2>1, <2>3
  <2> QED
    BY <2>2, <2>3 DEF SwappedBy
<1>6. Core(u, d, NoProc) /\ Announced(u)
  BY <1>1, <1>2, <1>4, <1>5 DEF Core, Place, Announced
<1>7. /\ Sound(t, d, NoProc) /\ Calm(u, t) /\ Kept(u, t) /\ Undisturbed(u, t)
      /\ t.sig = u.sig /\ t.waited = u.waited
  BY <1>6, KickSchedSound
<1> HIDE DEF t
<1>8. Tells(s, t)
  BY <1>2, <1>7 DEF Tells, HearsOn, Fresh, Undisturbed
<1>9. /\ t.load = s.load \ {p} /\ t.timer = s.timer /\ t.tmo = s.tmo /\ t.wchan[p] = s.wchan[p]
  BY <1>2, <1>7 DEF Kept, Undisturbed
<1> QED
  BY <1>3, <1>7, <1>8, <1>9

LEMMA SelfSwapoutStep ==
  ASSUME IInv, NEW p \in Procs, SelfSwapout(p)
  PROVE  IInv'
<1> DEFINE s == SwapoutBegin(k, p)
<1>1. /\ SInv /\ cur = p /\ pc[p] = "run" /\ cur' = NoProc /\ Sleeping(s, k', p, IO(p))
      /\ pc' = [pc EXCEPT ![p] = "selfswap"] /\ UNCHANGED <<fr, sw>> /\ ret' = "none"
      /\ Locks(k, s, p)
  BY DEF SelfSwapout, SleepAt, Has, At, Swtch, NoReturn, IInv, Sleeping, SwapoutBegin, Locks
<1> HIDE DEF s
<1>2. /\ p \notin k.timer \cup k.tmo /\ k.timer \cap k.tmo = {}
      /\ Sound(k, p, NoProc) /\ p \in AllProcs
  BY <1>1, Running
<1>3. /\ Sound(s, p, NoProc) /\ Tells(k, s)
      /\ s.load = k.load /\ s.timer = k.timer /\ s.tmo = k.tmo
  BY <1>1, <1>2, LocksSound
<1>4. IO(p) \in Chans /\ MaySleepOn(s, p, IO(p)) /\ IO(p) # Addr(p)
  BY <1>2, ChanFacts DEF MaySleepOn, IO, Addr
<1>5. /\ Sound(k', NoProc, NoProc) /\ Tells(s, k') /\ k'.wchan[p] = IO(p)
      /\ k'.load = s.load /\ k'.timer = s.timer /\ k'.tmo = s.tmo
  BY <1>1, <1>2, <1>3, <1>4, SleepAtSound
<1>6. Elsewhere(p) /\ pc'[p] = "selfswap"
  BY <1>1, MovesOn DEF UserPCs
<1>7. CpuOK(p)
  BY <1>1, <1>5, <1>6 DEF CpuOK, UserPCs
<1>8. LimitsOK(p) /\ k'.load \subseteq k.load
  BY <1>2, <1>3, <1>5 DEF LimitsOK
<1>9. ParentsHear => HeardOK(p)
  BY <1>3, <1>4, <1>5, <1>6, TellsTrans, HeardLeaves DEF LeavesWait
<1> QED
  BY <1>1, <1>6, <1>7, <1>8, <1>9, UserStep

LEMMA SelfSwappedStep ==
  ASSUME IInv, NEW p \in Procs, SelfSwapped(p)
  PROVE  IInv'
<1>1. /\ SInv /\ cur = p /\ pc[p] = "selfswap" /\ cur' = NoProc /\ k' = SwapoutEnd(k, p)
      /\ pc' = [pc EXCEPT ![p] = "run"] /\ UNCHANGED <<fr, sw>> /\ ret' = "none"
  BY DEF SelfSwapped, Has, At, Swtch, NoReturn, IInv
<1>2. /\ p \notin k.timer \cup k.tmo /\ k.timer \cap k.tmo = {}
      /\ Sound(k, p, NoProc) /\ k.wchan[p] = NoChan
  BY <1>1, Running
<1>3. /\ Sound(k', NoProc, NoProc) /\ Tells(k, k') /\ k'.load = k.load \ {p}
      /\ k'.timer = k.timer /\ k'.tmo = k.tmo /\ k'.wchan[p] = k.wchan[p]
  <2>1. SwappedBy(k, p, NoProc, p)
    BY DEF SwappedBy
  <2> QED
    BY <1>1, <1>2, <2>1, SwapoutEndSound
<1>4. Elsewhere(p) /\ pc'[p] = "run"
  BY <1>1, MovesOn DEF UserPCs
<1>5. CpuOK(p)
  BY <1>1, <1>3, <1>4 DEF CpuOK, UserPCs
<1>6. LimitsOK(p) /\ k'.load \subseteq k.load
  BY <1>2, <1>3 DEF LimitsOK
<1>7. ParentsHear => HeardOK(p)
  BY <1>2, <1>3, <1>4, ChanFacts, HeardLeaves DEF LeavesWait
<1> QED
  BY <1>1, <1>4, <1>5, <1>6, <1>7, UserStep

-----------------------------------------------------------------------------
(* sched.                                                                  *)

LEMMA SchedRuns ==
  ASSUME IInv, cur = Proc0
  PROVE  /\ SInv /\ k \in KType /\ Sound(k, Proc0, NoProc) /\ Core(k, Proc0, NoProc)
         /\ k.wchan[Proc0] = NoChan /\ Proc0 \in AllProcs
<1>1. Proc0 \in AllProcs /\ Proc0 # NoProc
  BY ProcFacts
<1>2. ~ Masked
  BY <1>1 DEF IInv, SInv, Places, Masked, SchedPCs
<1>3. Sound(k, Proc0, NoProc) /\ k \in KType
  BY <1>2, NotMasked DEF IInv
<1>4. k.wchan[Proc0] = NoChan
  BY <1>1, <1>3 DEF Sound, Core, Runs, Place
<1> QED
  BY <1>1, <1>3, <1>4 DEF IInv, Sound

(* Where sched goes.                                                       *)
LEMMA SchedMoves ==
  ASSUME SInv, NEW l \in SchedPCs, pc' = [pc EXCEPT ![Proc0] = l]
  PROVE  /\ pc' \in [AllProcs -> UserPCs \cup SchedPCs] /\ pc'[Proc0] = l
         /\ \A q \in Procs : pc'[q] = pc[q]
BY ProcFacts DEF SInv, TypeOK

LEMMA SchedGood ==
  ASSUME IInv, cur = Proc0, NEW l \in SchedPCs, pc' = [pc EXCEPT ![Proc0] = l],
         fr' = fr, ret' = "none", cur' \in {Proc0, NoProc}, sw' \in Procs \cup {NoProc},
         Sound(k', cur', NoProc), k'.timer = k.timer, k'.tmo = k.tmo, Tells(k, k'),
         l = "victim" => sw' \in Procs \cap k'.load /\ cur' = Proc0,
         l \in {"swapin", "swapout"} => sw' \in Procs \ k'.load
  PROVE  IInv'
<1>1. /\ pc' \in [AllProcs -> UserPCs \cup SchedPCs] /\ pc'[Proc0] = l
      /\ \A q \in Procs : pc'[q] = pc[q]
  BY SchedMoves DEF IInv
<1>2. SchedOK /\ Swapping'
  BY <1>1 DEF SchedOK, Swapping
<1>3. SInv'
  BY <1>2, SchedStep DEF IInv
<1>4. HInv'
  BY <1>1, HeardSame DEF IInv, HInv
<1> QED
  BY <1>3, <1>4 DEF IInv

(* sched sleeps.                                                           *)
LEMMA SchedSleeps ==
  ASSUME IInv, cur = Proc0, NEW s, Sound(s, Proc0, NoProc), s.timer = k.timer, s.tmo = k.tmo,
         Tells(k, s), NEW c \in Chans, MaySleepOn(s, Proc0, c),
         NEW l \in SchedPCs \ {"victim"}, SleepAt(Proc0, s, c, l),
         sw' \in Procs \cup {NoProc}, l \in {"swapin", "swapout"} => sw' \in Procs \ s.load
  PROVE  IInv'
<1>1. /\ Sleeping(s, k', Proc0, c) /\ pc' = [pc EXCEPT ![Proc0] = l] /\ fr' = fr
      /\ cur' = NoProc /\ ret' = "none"
  BY DEF SleepAt, Sleeping, At, Swtch, NoReturn
<1>2. /\ Sound(k', NoProc, NoProc) /\ Tells(s, k')
      /\ k'.load = s.load /\ k'.timer = s.timer /\ k'.tmo = s.tmo
  BY <1>1, ProcFacts, SleepAtSound
<1>3. Tells(k, k')
  BY <1>2, TellsTrans
<1> QED
  BY <1>1, <1>2, <1>3, SchedGood

(* What sched's own steps change in k.                                     *)
Announces(s, t) == t = [s EXCEPT !.runout = TRUE]

LEMMA AnnounceSound ==
  ASSUME NEW s, Sound(s, Proc0, NoProc), s.wchan[Proc0] = NoChan, NEW t, Announces(s, t)
  PROVE  /\ Sound(t, Proc0, NoProc) /\ Tells(s, t) /\ t.runout
         /\ t.stat = s.stat /\ t.load = s.load /\ t.timer = s.timer /\ t.tmo = s.tmo
<1>1. s \in KType
  BY DEF Sound, Core
<1>2. /\ t \in KType /\ SameQueues(s, t) /\ t.runout
      /\ t.stat = s.stat /\ t.wchan = s.wchan /\ t.load = s.load /\ t.sig = s.sig
      /\ t.timer = s.timer /\ t.tmo = s.tmo /\ t.waited = s.waited
  BY <1>1, Fields DEF KType, SameQueues, Announces
<1>3. Sound(t, Proc0, NoProc)
  BY <1>2, CoreSame, ChanFacts DEF Sound, Announced, Served
<1>4. Tells(s, t)
  BY <1>2 DEF Tells, HearsOn, Fresh
<1> QED
  BY <1>2, <1>3, <1>4

LEMMA SchedIdleStep ==
  ASSUME IInv, SchedIdle
  PROVE  IInv'
<1> DEFINE s == Announce(k)
<1>1. /\ cur = Proc0 /\ Wanted = {} /\ SleepAt(Proc0, s, RUNOUT, "sched") /\ sw' = sw
      /\ Announces(k, s)
  BY DEF SchedIdle, Has, Announces, Announce
<1> HIDE DEF s
<1>2. /\ Sound(s, Proc0, NoProc) /\ Tells(k, s) /\ s.runout
      /\ s.stat = k.stat /\ s.load = k.load /\ s.timer = k.timer /\ s.tmo = k.tmo
  BY <1>1, SchedRuns, AnnounceSound
<1>3. MaySleepOn(s, Proc0, RUNOUT)
  BY <1>1, <1>2 DEF MaySleepOn, Wanted
<1>4. sw' \in Procs \cup {NoProc} /\ RUNOUT \in Chans /\ "sched" \in SchedPCs \ {"victim"}
  BY <1>1, ChanFacts DEF IInv, SInv, TypeOK, SchedPCs
<1> QED
  BY <1>1, <1>2, <1>3, <1>4, SchedSleeps

LEMMA SwapinBeginStep ==
  ASSUME IInv, NEW p \in AllProcs, SwapinBegin(p)
  PROVE  IInv'
<1>1. /\ cur = Proc0 /\ p \in Procs /\ p \notin k.load
      /\ SleepAt(Proc0, k, IO(Proc0), "swapin") /\ sw' = p
  BY DEF SwapinBegin, Has, Wanted
<1>2. Sound(k, Proc0, NoProc) /\ Tells(k, k)
  BY <1>1, SchedRuns, TellsSame
<1>3. /\ IO(Proc0) \in Chans /\ MaySleepOn(k, Proc0, IO(Proc0))
      /\ "swapin" \in SchedPCs \ {"victim"}
  BY ChanFacts, ProcFacts DEF MaySleepOn, SchedPCs
<1> QED
  BY <1>1, <1>2, <1>3, SchedSleeps

LEMMA SchedWaitStep ==
  ASSUME IInv, SchedWait
  PROVE  IInv'
<1>1. cur = Proc0 /\ SleepAt(Proc0, k, RUNIN, "sched") /\ sw' = sw
  BY DEF SchedWait, Has
<1>2. Sound(k, Proc0, NoProc) /\ Tells(k, k)
  BY <1>1, SchedRuns, TellsSame
<1>3. /\ RUNIN \in Chans /\ MaySleepOn(k, Proc0, RUNIN) /\ "sched" \in SchedPCs \ {"victim"}
      /\ sw' \in Procs \cup {NoProc}
  BY <1>1, ChanFacts DEF MaySleepOn, SchedPCs, IInv, SInv, TypeOK
<1> QED
  BY <1>1, <1>2, <1>3, SchedSleeps

LEMMA NoCoreStep ==
  ASSUME IInv, NEW p \in AllProcs, NoCore(p)
  PROVE  IInv'
<1>1. /\ cur = Proc0 /\ p \in Procs \cap k.load /\ pc' = [pc EXCEPT ![Proc0] = "victim"]
      /\ sw' = p /\ UNCHANGED <<k, cur, fr>> /\ ret' = "none"
  BY DEF NoCore, Has, At, NoReturn, DeadWood, Movable
<1>2. Sound(k, Proc0, NoProc) /\ Tells(k, k) /\ "victim" \in SchedPCs
  BY <1>1, SchedRuns, TellsSame DEF SchedPCs
<1> QED
  BY <1>1, <1>2, SchedGood

(* SLOAD is cleared, and a runnable victim comes off the run queue.        *)
LEMMA UnloadSound ==
  ASSUME NEW s, NEW p \in Procs, p \in s.load, Sound(s, Proc0, NoProc), s.wchan[Proc0] = NoChan
  PROVE  LET t == Unload(s, p)
         IN /\ Sound(t, Proc0, NoProc) /\ Tells(s, t) /\ t.load = s.load \ {p}
            /\ t.timer = s.timer /\ t.tmo = s.tmo
<1> DEFINE t == Unload(s, p)
<1>1. /\ s \in KType /\ p \in AllProcs /\ p # Proc0 /\ Core(s, Proc0, NoProc)
      /\ s.runq = { q \in s.load : s.stat[q] = "SRUN" } \ {Proc0} /\ s.load \subseteq AllProcs
  BY ProcFacts, Fields DEF Sound, Core
<1>2. s.stat[p] = "SRUN" <=> p \in s.runq
  BY <1>1
<1>3. /\ t \in KType /\ t.load = s.load \ {p} /\ t.runq = s.runq \ {p} /\ t.stat = s.stat
      /\ t.wchan = s.wchan /\ t.slpq = s.slpq /\ t.runout = s.runout /\ t.panic = s.panic
      /\ t.sig = s.sig /\ t.waited = s.waited /\ t.timer = s.timer /\ t.tmo = s.tmo
  <2>1. CASE s.stat[p] = "SRUN"
    <3>1. t = [s EXCEPT !.load = @ \ {p}, !.runq = @ \ {p}, !.panic = @ \/ p \notin s.runq]
      BY <2>1 DEF Unload
    <3>2. (s.panic \/ p \notin s.runq) = s.panic
      BY <1>1, <1>2, <2>1, Fields
    <3>3. t = [s EXCEPT !.load = @ \ {p}, !.runq = @ \ {p}, !.panic = s.panic]
      BY <3>1, <3>2
    <3> HIDE DEF t
    <3> QED
      BY <1>1, <3>3, Fields DEF KType
  <2>2. CASE s.stat[p] # "SRUN"
    <3>1. t = [s EXCEPT !.load = @ \ {p}]
      BY <2>2 DEF Unload
    <3> HIDE DEF t
    <3>2. s.runq = s.runq \ {p}
      BY <1>2, <2>2
    <3> QED
      BY <1>1, <3>1, <3>2, Fields DEF KType
  <2> QED
    BY <2>1, <2>2
<1> HIDE DEF t
<1>4. t.runq = { q \in t.load : t.stat[q] = "SRUN" } \ {Proc0}
  BY <1>1, <1>3
<1>5. Core(t, Proc0, NoProc)
  BY <1>1, <1>3, <1>4 DEF Core, Place, Runs
<1>6. Sound(t, Proc0, NoProc)
  BY <1>3, <1>5, ChanFacts DEF Sound, Announced, Served
<1>7. Tells(s, t)
  BY <1>3 DEF Tells, HearsOn, Fresh
<1> QED
  BY <1>3, <1>6, <1>7, Zenon DEF t

LEMMA SchedSwapoutStep ==
  ASSUME IInv, SchedSwapout
  PROVE  IInv'
<1> DEFINE u == Unload(k, sw)
           s == SwapoutBegin(u, sw)
<1>1. /\ cur = Proc0 /\ pc[Proc0] = "victim" /\ SleepAt(Proc0, s, IO(Proc0), "swapout")
      /\ sw' = sw /\ Locks(u, s, sw)
  BY DEF SchedSwapout, Has, SwapoutBegin, Locks
<1>2. sw \in Procs /\ sw \in k.load
  BY <1>1 DEF IInv, SInv, Swapping
<1> HIDE DEF s
<1>3. /\ Sound(u, Proc0, NoProc) /\ Tells(k, u) /\ u.load = k.load \ {sw}
      /\ u.timer = k.timer /\ u.tmo = k.tmo
  BY <1>1, <1>2, SchedRuns, UnloadSound
<1> HIDE DEF u
<1>4. /\ Sound(s, Proc0, NoProc) /\ Tells(u, s)
      /\ s.load = u.load /\ s.timer = u.timer /\ s.tmo = u.tmo
  BY <1>1, <1>2, <1>3, LocksSound
<1>5. Tells(k, s)
  BY <1>3, <1>4, TellsTrans
<1>6. /\ IO(Proc0) \in Chans /\ MaySleepOn(s, Proc0, IO(Proc0))
      /\ "swapout" \in SchedPCs \ {"victim"}
  BY ChanFacts, ProcFacts DEF MaySleepOn, SchedPCs
<1>7. sw' \in Procs \ s.load
  BY <1>1, <1>2, <1>3, <1>4
<1> QED
  BY <1>1, <1>3, <1>4, <1>5, <1>6, <1>7, SchedSleeps

LEMMA SchedSwappedStep ==
  ASSUME IInv, SchedSwapped
  PROVE  IInv'
<1>1. /\ cur = Proc0 /\ pc[Proc0] = "swapout" /\ k' = SwapoutEnd(k, sw)
      /\ pc' = [pc EXCEPT ![Proc0] = "sched"] /\ sw' = NoProc /\ UNCHANGED <<cur, fr>>
      /\ ret' = "none"
  BY DEF SchedSwapped, Has, At, NoReturn
<1>2. sw \in Procs /\ SwappedBy(k, Proc0, Proc0, sw)
  BY <1>1 DEF IInv, SInv, Swapping, SwappedBy
<1>3. /\ Sound(k', Proc0, NoProc) /\ Tells(k, k') /\ k'.timer = k.timer /\ k'.tmo = k.tmo
  BY <1>1, <1>2, SchedRuns, SwapoutEndSound
<1>4. "sched" \in SchedPCs
  BY DEF SchedPCs
<1> QED
  BY <1>1, <1>3, <1>4, SchedGood

(* The image is in core: a runnable process goes on the run queue.         *)
Queued(s, u, p) == u = IF s.stat[p] = "SRUN" THEN Setrq(s, p) ELSE s
Loads(s, t, p) == t = [s EXCEPT !.load = @ \cup {p}, !.fresh = @ \cup {p}]

LEMMA LoadSound ==
  ASSUME NEW s, NEW p \in Procs, p \notin s.load, Sound(s, Proc0, NoProc), s.wchan[Proc0] = NoChan,
         NEW u, Queued(s, u, p), NEW t, Loads(u, t, p)
  PROVE  Sound(t, Proc0, NoProc) /\ Tells(s, t) /\ t.timer = s.timer /\ t.tmo = s.tmo
<1>1. /\ s \in KType /\ p \in AllProcs /\ p # Proc0 /\ p # NoProc /\ Core(s, Proc0, NoProc)
      /\ s.runq = { q \in s.load : s.stat[q] = "SRUN" } \ {Proc0} /\ s.load \subseteq AllProcs
      /\ Place(s, p, NoProc)
  BY ProcFacts, Fields DEF Sound, Core
<1>2. p \notin s.runq /\ (s.stat[p] = "SRUN" => p \notin s.slpq)
  BY <1>1 DEF Place
<1>3. /\ u \in KType /\ Kept(s, u) /\ u.sig = s.sig /\ u.waited = s.waited
      /\ u.stat = s.stat /\ u.wchan = s.wchan /\ u.slpq = s.slpq /\ u.runout = s.runout
      /\ u.panic <=> s.panic
      /\ u.runq = (IF s.stat[p] = "SRUN" THEN s.runq \cup {p} ELSE s.runq)
  <2>1. CASE s.stat[p] = "SRUN"
    <3>1. u = Setrq(s, p)
      BY <2>1 DEF Queued
    <3> QED
      BY <1>1, <1>2, <2>1, <3>1, SetrqIs
  <2>2. CASE s.stat[p] # "SRUN"
    BY <1>1, <2>2 DEF Kept, Queued
  <2> QED
    BY <2>1, <2>2
<1>4. /\ t \in KType /\ t.load = u.load \cup {p} /\ t.runq = u.runq /\ t.stat = u.stat
      /\ t.wchan = u.wchan /\ t.slpq = u.slpq /\ t.runout = u.runout /\ t.panic = u.panic
      /\ t.sig = u.sig /\ t.waited = u.waited /\ t.timer = u.timer /\ t.tmo = u.tmo
  <2>1. u \in KType /\ p \in AllProcs
    BY <1>1, <1>3
  <2> QED
    BY <2>1, Fields DEF KType, Loads
<1>5. t.runq = { q \in t.load : t.stat[q] = "SRUN" } \ {Proc0}
  BY <1>1, <1>3, <1>4 DEF Kept
<1>6. Core(t, Proc0, NoProc)
  BY <1>1, <1>3, <1>4, <1>5 DEF Core, Place, Runs, Kept
<1>7. Sound(t, Proc0, NoProc)
  BY <1>3, <1>4, <1>6, ChanFacts DEF Sound, Announced, Served
<1>8. Tells(s, t)
  BY <1>3, <1>4 DEF Tells, HearsOn, Fresh
<1> QED
  BY <1>3, <1>4, <1>7, <1>8 DEF Kept

LEMMA SwapinEndStep ==
  ASSUME IInv, SwapinEnd
  PROVE  IInv'
<1> DEFINE s == IF k.stat[sw] = "SRUN" THEN Setrq(k, sw) ELSE k
<1>1. /\ cur = Proc0 /\ pc[Proc0] = "swapin" /\ Queued(k, s, sw) /\ Loads(s, k', sw)
      /\ pc' = [pc EXCEPT ![Proc0] = "sched"] /\ sw' = NoProc /\ UNCHANGED <<cur, fr>>
      /\ ret' = "none"
  BY DEF SwapinEnd, Has, At, NoReturn, Loads, Queued
<1> HIDE DEF s
<1>2. sw \in Procs /\ sw \notin k.load
  BY <1>1 DEF IInv, SInv, Swapping
<1>3. /\ Sound(k', Proc0, NoProc) /\ Tells(k, k') /\ k'.timer = k.timer /\ k'.tmo = k.tmo
  BY <1>1, <1>2, SchedRuns, LoadSound
<1>4. "sched" \in SchedPCs
  BY DEF SchedPCs
<1> QED
  BY <1>1, <1>3, <1>4, SchedGood

-----------------------------------------------------------------------------
(* The invariant and what follows from it.                                 *)

LEMMA InitIInv ==
  ASSUME Init
  PROVE  IInv
<1>1. /\ k.stat = [p \in AllProcs |-> "SRUN"] /\ k.wchan = [p \in AllProcs |-> NoChan]
      /\ k.sig = [p \in AllProcs |-> {}] /\ k.slpq = {} /\ k.runq = AllProcs /\ k.load = AllProcs
      /\ k.tmo = {} /\ k.timer = {} /\ k.waited = {} /\ k.runout = FALSE /\ k.panic = FALSE
  BY DEF Init
<1>2. k \in KType
  BY DEF Init, KType, Stats
<1>3. /\ cur = NoProc /\ pc = [p \in AllProcs |-> IF p = Proc0 THEN "sched" ELSE "run"]
      /\ fr = [p \in Procs |-> NoFrame] /\ ret = "none" /\ sw = NoProc
  BY DEF Init
<1>4. NoFrame \in Frame
  BY DEF NoFrame, Frame
<1>5. TypeOK
  BY <1>2, <1>3, <1>4 DEF TypeOK, UserPCs, SchedPCs
<1>6. MaskedProc = NoProc
  BY <1>3 DEF MaskedProc, Masked
<1>7. Core(k, NoProc, NoProc)
  BY <1>1, <1>2, ProcFacts, ChanFacts DEF Core, Place, Runs
<1>8. Announced(k) /\ Served(k)
  BY <1>1, ProcFacts, ChanFacts DEF Announced, Served
<1>9. pc[Proc0] = "sched" /\ \A p \in Procs : pc[p] = "run"
  BY <1>3, ProcFacts
<1>10. Places /\ Swapping
  BY <1>9 DEF Places, Swapping, UserPCs, SchedPCs
<1>11. Limits
  BY <1>1 DEF Limits, NoStaleTimer
<1>12. HInv
  <2> SUFFICES ASSUME NEW q \in Procs
               PROVE  Hears(q)
    BY DEF HInv, Heard
  <2>1. k.stat[q] = "SRUN" /\ k.sig[q] = {} /\ k.wchan[q] = NoChan
    BY <1>1, ProcFacts
  <2> QED
    BY <1>9, <2>1, ChanFacts DEF Hears, InWait
<1> QED
  BY <1>3, <1>5, <1>6, <1>7, <1>8, <1>10, <1>11, <1>12 DEF IInv, SInv, Sound

LEMMA StutterIInv ==
  ASSUME IInv, UNCHANGED vars
  PROVE  IInv'
<1>1. /\ k' = k /\ cur' = cur /\ pc' = pc /\ fr' = fr /\ ret' = ret /\ sw' = sw
  BY DEF vars
<1>2. SInv'
  BY <1>1 DEF IInv, SInv, TypeOK, MaskedProc, Masked, Places, Swapping, Limits, NoStaleTimer
<1>3. HInv'
  BY <1>1, TellsSame, HeardSame DEF IInv, HInv
<1> QED
  BY <1>2, <1>3 DEF IInv

LEMMA SwapDoneStep ==
  ASSUME IInv, NEW p \in AllProcs, SwapDone(p)
  PROVE  IInv'
BY ChanFacts, WakeupStep DEF SwapDone

LEMMA WakeupEventStep ==
  ASSUME IInv, NEW e \in Events, WakeupEvent(e)
  PROVE  IInv'
BY ChanFacts, WakeupStep DEF WakeupEvent

LEMMA ProcNext ==
  ASSUME IInv, NEW p \in Procs,
         \/ \E f \in Sleeps[p] : Tsleep(p, f)
         \/ Step(p) \/ Wait(p) \/ Preempt(p) \/ SelfSwapout(p)
         \/ Softclock(p)
         \/ \E g \in Sigs : Kill(p, g)
  PROVE  IInv'
<1>1. CASE \E f \in Sleeps[p] : Tsleep(p, f)
  BY <1>1, TsleepStep
<1>2. CASE Step(p)
  BY <1>2, CursigStep, Stopped1Step, SleptStep, Stopped2Step, Stopped3Step,
     SyscallReturnStep, SelfSwappedStep, WaitSleepStep DEF Step
<1>3. CASE \E g \in Sigs : Kill(p, g)
  BY <1>3, KillStep
<1> QED
  BY <1>1, <1>2, <1>3, WaitStep, PreemptStep, SelfSwapoutStep, SoftclockStep

LEMMA SchedNext ==
  ASSUME IInv, Sched
  PROVE  IInv'
BY SchedIdleStep, SwapinEndStep, SchedSwapoutStep, SchedSwappedStep, SchedWaitStep,
   SwapinBeginStep, NoCoreStep DEF Sched

LEMMA NextIInv ==
  ASSUME IInv, Next
  PROVE  IInv'
<1>1. CASE \E p \in AllProcs : Dispatch(p) \/ SwapDone(p)
  BY <1>1, DispatchStep, SwapDoneStep
<1>2. CASE \E e \in Events : WakeupEvent(e)
  BY <1>2, WakeupEventStep
<1> QED
  BY <1>1, <1>2, ProcNext, SchedNext, SchedcpuStep DEF Next

(* The invariant: every routine keeps the queues exact, whoever it wakes,  *)
(* stops or moves, sched is told of whoever needs it, and no parent that   *)
(* catches SIGCHLD lies in wait on news.                                   *)
THEOREM SynchInvariance == Spec => []IInv
<1>1. Init => IInv
  BY InitIInv
<1>2. IInv /\ [Next]_vars => IInv'
  BY NextIInv, StutterIInv
<1> QED
  BY <1>1, <1>2, PTL DEF Spec

(* A process is on the run queue exactly if it could run and is in core,   *)
(* and on a sleep queue exactly if p_wchan is set: the queues of setrq,    *)
(* remrq, tsleep, wakeup and unsleep.                                      *)
THEOREM SynchQueuesExact == Spec => []QueuesExact
<1>1. IInv => QueuesExact
  <2> SUFFICES ASSUME IInv
               PROVE  QueuesExact
    OBVIOUS
  <2>1. TypeOK /\ Sound(k, cur, MaskedProc) /\ k \in KType
    BY DEF IInv, SInv, TypeOK
  <2>2. /\ k.runq = { p \in k.load : k.stat[p] = "SRUN" } \ {cur}
        /\ \A p \in AllProcs : Place(k, p, MaskedProc)
    BY <2>1 DEF Sound, Core
  <2>3. k.slpq = { p \in AllProcs : k.wchan[p] # NoChan }
    BY <2>1, <2>2, Fields DEF Place
  <2>4. ASSUME NEW p \in AllProcs
        PROVE  /\ k.stat[p] = "SSLEEP" => p \in k.slpq
               /\ p \in k.slpq /\ k.stat[p] = "SRUN" => Has(p, "cursig")
    <3>1. Place(k, p, MaskedProc) /\ p # NoProc
      BY <2>2, ProcFacts
    <3>2. p = MaskedProc => Has(p, "cursig")
      BY <3>1 DEF MaskedProc, Masked, Has
    <3> QED
      BY <3>1, <3>2 DEF Place
  <2> QED
    BY <2>1, <2>2, <2>3, <2>4 DEF QueuesExact
<1> QED
  BY <1>1, SynchInvariance, PTL

(* If no other channel hashes to the sleep queue of runout, no routine     *)
(* panics: the only queue that wakeup may walk while a process on it still *)
(* runs is that of runout, when the process tells sched of another from    *)
(* within the masked part of tsleep.                                       *)
THEOREM SynchNoPanic == ASSUME HashApart PROVE Spec => []NoPanic
<1>1. IInv => NoPanic
  BY DEF IInv, SInv, Sound, Core, NoPanic
<1> QED
  BY <1>1, SynchInvariance, PTL

(* A time limit and its flag do not outlive the tsleep that set them: the  *)
(* untimeout of tsleep and the check of p_wchan in endtsleep.              *)
THEOREM SynchNoStaleTimer == Spec => []NoStaleTimer
<1>1. IInv => NoStaleTimer
  BY DEF IInv, SInv, Limits
<1> QED
  BY <1>1, SynchInvariance, PTL

(* sched does not sleep on runout while a process that could run is out of *)
(* core: the handshake of sched with wakeup, setrun and swapout.           *)
THEOREM SynchNoLostRunout == Spec => []NoLostRunout
<1>1. IInv => NoLostRunout
  BY DEF IInv, SInv, Sound, Served, NoLostRunout, Wanted
<1> QED
  BY <1>1, SynchInvariance, PTL

(* A parent that catches SIGCHLD and is not stopped itself does not sleep  *)
(* in wait while a child has exited or stopped unreported: though wait1    *)
(* looks at its children before tsleep puts it on the queue, the SIGCHLD   *)
(* of stop and exit ends the sleep.                                        *)
THEOREM SynchNoLostStop == ASSUME ParentsHear PROVE Spec => []NoLostStop
<1>1. IInv => NoLostStop
  <2> SUFFICES ASSUME IInv, NEW p \in Procs, k.wchan[p] = Addr(p), k.stat[p] = "SSLEEP"
               PROVE  Zombies(p) = {} /\ NewlyStopped(p) = {}
    BY DEF NoLostStop
  <2>1. pc[p] # "cursig"
    BY Running DEF IInv, SInv, Places
  <2>2. IsParent(p) => ~ News(p)
    BY <2>1 DEF IInv, HInv, Heard, Hears, InWait
  <2> QED
    BY <2>2 DEF IsParent, News, NewsOf, Fresh, Zombies, NewlyStopped, Children
<1> QED
  BY <1>1, SynchInvariance, PTL
=============================================================================
