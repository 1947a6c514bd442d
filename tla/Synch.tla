------------------------------- MODULE Synch -------------------------------
(***************************************************************************)
(* Sleeping, waking, stopping and swapping in the 2.11BSD kernel: tsleep,  *)
(* wakeup, setrun, unsleep, endtsleep and swtch (sys/sys/kern_synch.c),    *)
(* psignal, issignal and stop (sys/sys/kern_sig.c), and the swapper, sched *)
(* with swapin and swapout (sys/sys/vm_sched.c, sys/sys/vm_swap.c).        *)
(*                                                                         *)
(* tsleep runs at splhigh up to the point where it gives up the processor, *)
(* so that stretch is one step.  Interrupts (wakeup, psignal, endtsleep)   *)
(* come between steps.  Only the process that has the CPU (cur) takes the  *)
(* other steps; swtch picks the next one from the run queue.               *)
(*                                                                         *)
(* The scheduling state is one record, k, because the routines call each   *)
(* other: each is an operator from a state of k to the state it leaves.    *)
(***************************************************************************)
EXTENDS Integers, FiniteSets

CONSTANTS
  Procs,     \* user processes
  Proc0,     \* proc[0], the swapper
  NoProc,    \* no process
  Parent,    \* p_pptr; NoProc stands for init
  Events,    \* what interrupts and other processes wait for and announce
  Hash,      \* the sleep queue of each channel
  Action,    \* what each process does with each signal
  Sends,     \* the pairs <<process, signal>> that occur
  Sleeps     \* how each process sleeps: the arguments of its calls of tsleep

SIGINT == 2
SIGKILL == 9
SIGTSTP == 18
SIGCONT == 19
SIGCHLD == 20
Sigs == {SIGINT, SIGKILL, SIGTSTP, SIGCONT, SIGCHLD}

AllProcs == Procs \cup {Proc0}

(* Channels are addresses: of an event, a proc, a swap buffer, a flag.     *)
Ev(e) == <<"event", e>>
Addr(p) == <<"proc", p>>
IO(p) == <<"swapbuf", p>>
RUNOUT == <<"runout", Proc0>>
RUNIN == <<"runin", Proc0>>
NoChan == <<"none", Proc0>>
Chans ==
  { Ev(e) : e \in Events } \cup { Addr(p) : p \in Procs }
    \cup { IO(p) : p \in AllProcs } \cup {RUNOUT, RUNIN}

(* tsleep's arguments: ident, PCATCH in priority, and timo # 0.            *)
Frame == [chan : Chans \cup {NoChan}, catch : BOOLEAN, timo : BOOLEAN]

ASSUME SynchAssumption ==
  /\ Proc0 \notin Procs
  /\ NoProc \notin AllProcs
  /\ Parent \in [Procs -> Procs \cup {NoProc}]
  /\ \A p \in Procs : Parent[p] # p
  /\ Hash \in [Chans -> Nat]
  /\ Action \in [Procs -> [Sigs -> {"IGN", "HOLD", "CATCH", "DFL"}]]
  /\ \A p \in Procs : /\ Action[p][SIGKILL] = "DFL"
                      /\ Action[p][SIGINT] # "DFL"
                      /\ Action[p][SIGCONT] # "IGN"
                      /\ Action[p][SIGCHLD] # "DFL"
  /\ Sends \subseteq Procs \X (Sigs \ {SIGCHLD})
  /\ Sleeps \in [Procs -> SUBSET { f \in Frame : \E e \in Events : f.chan = Ev(e) }]
  /\ \A p \in Procs : Parent[p] # NoProc => <<Parent[p], SIGKILL>> \notin Sends

VARIABLES
  k,      \* the proc table and the queues, see below
  cur,    \* u.u_procp, the process that has the CPU
  pc,     \* where a process is
  fr,     \* tsleep's arguments
  ret,    \* history: what tsleep has just returned
  sw      \* the process sched is moving

vars == <<k, cur, pc, fr, ret, sw>>

(* The fields of k.  stat is p_stat and wchan is p_wchan; sig is p_sig;    *)
(* slpq and runq are the processes linked on slpque and on qs; load, lock, *)
(* sintr and tmo are those with SLOAD, SLOCK, P_SINTR and P_TIMEOUT; timer *)
(* those with an endtsleep in the callout table.  runout is the flag sched *)
(* leaves when it waits for work.  panic: the kernel has panicked.  woken  *)
(* is history: a wakeup for the channel came since tsleep was called.      *)
(* waited: the stopped processes with P_WAITED.  fresh: those whose p_time *)
(* is 0, because they have been in core, or out of it, for less than a     *)
(* second.                                                                 *)
Stats == {"SSLEEP", "SRUN", "SSTOP", "SZOMB"}
KType ==
  [ stat : [AllProcs -> Stats], wchan : [AllProcs -> Chans \cup {NoChan}],
    sig : [AllProcs -> SUBSET Sigs],
    slpq : SUBSET AllProcs, runq : SUBSET AllProcs,
    load : SUBSET AllProcs, lock : SUBSET AllProcs,
    sintr : SUBSET AllProcs, tmo : SUBSET AllProcs, timer : SUBSET AllProcs,
    waited : SUBSET AllProcs, fresh : SUBSET AllProcs,
    runout : BOOLEAN, panic : BOOLEAN, woken : SUBSET AllProcs ]

NoFrame == [chan |-> NoChan, catch |-> FALSE, timo |-> FALSE]

-----------------------------------------------------------------------------
(* The sleep queues and the run queue.                                     *)

(* unsleep(p): it walks the queue of p_wchan until it meets p.             *)
Unsleep(s, p) ==
  IF s.wchan[p] = NoChan
    THEN s
    ELSE [s EXCEPT !.slpq = @ \ {p}, !.wchan[p] = NoChan,
                   !.panic = @ \/ p \notin s.slpq]

(* setrq(p): p_link is one field, so p may not be on a queue already.      *)
Setrq(s, p) ==
  [s EXCEPT !.runq = @ \cup {p}, !.panic = @ \/ p \in s.runq \cup s.slpq]

Sleepers(s, c) == { p \in s.slpq : s.wchan[p] = c }
Chain(s, c) == { p \in s.slpq : Hash[s.wchan[p]] = Hash[c] }

(* wakeup(chan) but for the swapper's part.  The whole queue is walked, so *)
(* whoever is on it must be asleep or stopped.                             *)
WakeupOne(s, c) ==
  LET W == Sleepers(s, c)
      R == { p \in W : s.stat[p] = "SSLEEP" }
  IN [s EXCEPT !.wchan = [p \in AllProcs |-> IF p \in W THEN NoChan ELSE s.wchan[p]],
               !.slpq = @ \ W,
               !.stat = [p \in AllProcs |-> IF p \in R THEN "SRUN" ELSE s.stat[p]],
               !.runq = @ \cup (R \cap s.load),
               !.woken = @ \cup { p \in W : c[1] \in {"event", "proc"} },
               !.panic = @ \/ (\E p \in Chain(s, c) :
                                 s.stat[p] \notin {"SSLEEP", "SSTOP"})
                           \/ R \cap s.runq # {}]

(* "if (runout != 0) { runout = 0; wakeup(&runout); }"                     *)
KickSched(s) ==
  IF s.runout THEN WakeupOne([s EXCEPT !.runout = FALSE], RUNOUT) ELSE s

(* Mutant: a process that is swapped out is made runnable, and sched is    *)
(* not told.                                                               *)
WakeupNoKick(s, c) == WakeupOne(s, c)

(* wakeup(chan): sched is told of a runnable process that is not in core.  *)
Wakeup(s, c) ==
  IF \E p \in Sleepers(s, c) : s.stat[p] = "SSLEEP" /\ p \notin s.load
    THEN KickSched(WakeupOne(s, c))
    ELSE WakeupOne(s, c)

(* setrun(p), of a process that sleeps or is stopped.                      *)
Setrun(s, p) ==
  LET s1 == [Unsleep(s, p) EXCEPT
               !.stat[p] = "SRUN",
               !.panic = @ \/ s.stat[p] \notin {"SSLEEP", "SSTOP"}]
  IN IF p \in s.load THEN Setrq(s1, p) ELSE KickSched(s1)

(* Mutant: the time limit of a process that was just woken is reported.    *)
EndtsleepLate(s, p) ==
  LET s1 == [s EXCEPT !.timer = @ \ {p}]
  IN IF s.stat[p] = "SSLEEP"
       THEN [Setrun(s1, p) EXCEPT !.tmo = @ \cup {p}]
       ELSE [Unsleep(s1, p) EXCEPT !.tmo = @ \cup {p}]

(* endtsleep(p), called by softclock: it is out of the callout table.      *)
Endtsleep(s, p) ==
  LET s1 == [s EXCEPT !.timer = @ \ {p}]
  IN IF s.wchan[p] = NoChan
       THEN s1
       ELSE IF s.stat[p] = "SSLEEP"
         THEN [Setrun(s1, p) EXCEPT !.tmo = @ \cup {p}]
         ELSE [Unsleep(s1, p) EXCEPT !.tmo = @ \cup {p}]

-----------------------------------------------------------------------------
(* Signals.                                                                *)

Orphan(p) == Parent[p] = NoProc

(* The signals psignal forgets at once.  exit sets p_sigignore to ~0.      *)
Forgets(s, p, g) ==
  \/ Action[p][g] = "IGN"
  \/ s.stat[p] = "SZOMB"
  \/ g = SIGTSTP /\ Action[p][g] = "DFL" /\ Orphan(p)

(* p_sig with g added: a stop and a SIGCONT cancel each other.             *)
Cancels(g) ==
  CASE g = SIGCONT -> {SIGTSTP} [] g = SIGTSTP -> {SIGCONT} [] OTHER -> {}
Post(s, p, g) ==
  [s EXCEPT !.sig[p] = (@ \ Cancels(g)) \cup {g}]

Deferred(s, p, g) ==
  Action[p][g] = "HOLD" /\ ~ (g = SIGCONT /\ s.stat[p] = "SSTOP")

(* Mutant: SIGCONT puts a process that was woken while stopped to sleep.   *)
PsignalStoppedSleeps(s, p, g) ==
  LET s1 == IF Action[p][g] = "DFL" THEN [s EXCEPT !.sig[p] = @ \ {g}] ELSE s
  IN CASE g = SIGKILL -> Setrun(s, p)
       [] g = SIGCONT -> IF Action[p][g] = "CATCH"
                           THEN Setrun(s1, p)
                           ELSE [s1 EXCEPT !.stat[p] = "SSLEEP"]
       [] g = SIGTSTP -> [s EXCEPT !.sig[p] = @ \ {g}]
       [] OTHER -> IF p \in s.sintr THEN Unsleep(s, p) ELSE s

(* The case SSTOP of psignal.  The process stays stopped but for SIGKILL   *)
(* and SIGCONT.  A sleep that the signal may end is over.                  *)
PsignalStopped(s, p, g) ==
  LET s1 == IF Action[p][g] = "DFL" THEN [s EXCEPT !.sig[p] = @ \ {g}] ELSE s
  IN CASE g = SIGKILL -> Setrun(s, p)
       [] g = SIGCONT -> IF Action[p][g] = "CATCH" \/ s.wchan[p] = NoChan
                           THEN Setrun(s1, p)
                           ELSE [s1 EXCEPT !.stat[p] = "SSLEEP"]
       [] g = SIGTSTP -> [s EXCEPT !.sig[p] = @ \ {g}]
       [] OTHER -> IF p \in s.sintr THEN Unsleep(s, p) ELSE s

(* The case SSLEEP of psignal, of a signal that does not stop p.           *)
PsignalAsleep(s, p, g) ==
  IF p \notin s.sintr
    THEN s
    ELSE IF g = SIGCONT /\ Action[p][g] = "DFL"
      THEN [s EXCEPT !.sig[p] = @ \ {g}]
      ELSE Setrun(s, p)

(* psignal(p, g), given what its case SSLEEP leaves.                       *)
Deliver(s, p, g, asleep) ==
  IF Forgets(s, p, g)
    THEN s
    ELSE IF Deferred(s, p, g)
      THEN Post(s, p, g)
      ELSE CASE s.stat[p] = "SSLEEP" -> asleep
             [] s.stat[p] = "SSTOP" -> PsignalStopped(Post(s, p, g), p, g)
             [] OTHER -> Post(s, p, g)

(* Mutant: the signal to the parent is forgotten.                          *)
SigchldForgotten(s, p) == s

(* psignal(p_pptr, SIGCHLD).                                               *)
Sigchld(s, p) ==
  LET q == Parent[p]
  IN IF q = NoProc
       THEN s
       ELSE Deliver(s, q, SIGCHLD, PsignalAsleep(Post(s, q, SIGCHLD), q, SIGCHLD))

(* stop(p): the parent, which may be in wait, is woken.                    *)
Stop(s, p) ==
  LET s1 == [s EXCEPT !.stat[p] = "SSTOP", !.waited = @ \ {p}]
  IN IF Orphan(p) THEN s1 ELSE Wakeup(s1, Addr(Parent[p]))

(* psignal(p, g): a process that sleeps interruptibly is stopped on the    *)
(* spot.                                                                   *)
StopsNow(s, p, g) ==
  g = SIGTSTP /\ Action[p][g] = "DFL" /\ p \in s.sintr

Psignal(s, p, g) ==
  LET s1 == Post(s, p, g)
  IN Deliver(s, p, g,
       IF StopsNow(s, p, g)
         THEN Stop(Sigchld([s1 EXCEPT !.sig[p] = @ \ {g}], p), p)
         ELSE PsignalAsleep(s1, p, g))

(* issignal(p), called through CURSIG: signals that are held are not seen, *)
(* those without effect are dropped, and the least of the others decides.  *)
(* The result is 0, the signal, or STOPPED if p stops inside issignal.     *)
STOPPED == -1
NoEffect(p, g) ==
  \/ Action[p][g] = "IGN"
  \/ Action[p][g] = "DFL" /\ g = SIGCONT
  \/ Action[p][g] = "DFL" /\ g = SIGTSTP /\ Orphan(p)
Seen(s, p) == { g \in s.sig[p] : Action[p][g] # "HOLD" }
Effective(s, p) == { g \in Seen(s, p) : ~ NoEffect(p, g) }
Least(S) == CHOOSE g \in S : \A h \in S : g <= h

Issignal(s, p) ==
  IF Effective(s, p) = {}
    THEN [k |-> [s EXCEPT !.sig[p] = @ \ Seen(s, p)], res |-> 0]
    ELSE LET g == Least(Effective(s, p))
             s1 == [s EXCEPT !.sig[p] = { h \in @ : h \notin Seen(s, p) \/ h >= g }]
         IN IF g = SIGTSTP /\ Action[p][g] = "DFL"
              THEN [k |-> Stop(Sigchld(s1, p), p), res |-> STOPPED]
              ELSE [k |-> s1, res |-> g]

(* issignal goes on after a stop: it takes the stop signal away.           *)
IssignalAgain(s, p) == Issignal([s EXCEPT !.sig[p] = @ \ {SIGTSTP}], p)

-----------------------------------------------------------------------------
(* tsleep.                                                                 *)

Has(p, l) == cur = p /\ pc[p] = l
At(p, l) == pc' = [pc EXCEPT ![p] = l]
Swtch == cur' = NoProc
NoReturn == ret' = "none"

(* A process in the middle of tsleep is at splhigh.                        *)
Masked == cur # NoProc /\ pc[cur] = "cursig"

(* Lines 139 to 157: p goes on the sleep queue, still in state SRUN.       *)
Enqueue(s, p, f) ==
  [s EXCEPT !.wchan[p] = f.chan, !.slpq = @ \cup {p}, !.woken = @ \ {p},
            !.timer = IF f.timo THEN @ \cup {p} ELSE @,
            !.sintr = IF f.catch THEN @ \cup {p} ELSE @,
            !.panic = @ \/ s.stat[p] # "SRUN"]

TsleepFrom(p, f, l) ==
  /\ Has(p, l)
  /\ k' = Enqueue(k, p, f) /\ fr' = [fr EXCEPT ![p] = f]
  /\ At(p, "cursig")
  /\ UNCHANGED <<cur, sw>> /\ NoReturn

Tsleep(p, f) == TsleepFrom(p, f, "run")

(* tsleep returns v.  wait1 looks at its children again if that is 0.      *)
Return(p, s, v) ==
  /\ k' = [s EXCEPT !.woken = @ \ {p}] /\ fr' = [fr EXCEPT ![p] = NoFrame]
  /\ ret' = v
  /\ At(p, IF v = "0" /\ fr[p].chan = Addr(p) THEN "scan" ELSE "run")
  /\ UNCHANGED <<cur, sw>>

(* p stopped inside issignal and will go on at l.                          *)
StopAt(p, s, l) ==
  /\ k' = s /\ At(p, l) /\ Swtch
  /\ UNCHANGED <<fr, sw>> /\ NoReturn

(* Mutant: the time limit of a sleep that ended otherwise is left running. *)
ResetLeavesTimer(s, p) == [s EXCEPT !.sintr = @ \ {p}, !.tmo = @ \ {p}]

(* Lines 178 to 186: the flags are reset and the time limit is cancelled.  *)
Reset(s, p) ==
  [s EXCEPT !.sintr = @ \ {p}, !.tmo = @ \ {p},
            !.timer = IF p \notin s.tmo /\ fr[p].timo THEN @ \ {p} ELSE @]

(* Line 187 on: c is what CURSIG did.                                      *)
LastCursig(p, c) ==
  CASE c.res = STOPPED -> StopAt(p, c.k, "stopped2")
    [] c.res = 0 -> Return(p, c.k, "0")
    [] OTHER -> Return(p, c.k, "EINTR")

(* From the label resume on, with sig = g and the local variable catch.    *)
Resume(p, s, g, catch) ==
  IF g = 0 /\ p \in s.tmo
    THEN Return(p, Reset(s, p), "EWOULDBLOCK")
    ELSE IF catch
      THEN IF g = 0 THEN LastCursig(p, Issignal(Reset(s, p), p))
                    ELSE Return(p, Reset(s, p), "EINTR")
      ELSE Return(p, Reset(s, p), "0")

(* Lines 173 to 175.                                                       *)
GoToSleep(p, s) ==
  /\ k' = [s EXCEPT !.stat[p] = "SSLEEP"]
  /\ At(p, "slept") /\ Swtch
  /\ UNCHANGED <<fr, sw>> /\ NoReturn

(* Lines 155 to 175: c is what CURSIG did.                                 *)
FirstCursig(p, c) ==
  CASE c.res = STOPPED -> StopAt(p, c.k, "stopped1")
    [] c.res = 0 ->
         IF c.k.wchan[p] = NoChan THEN Resume(p, c.k, 0, FALSE)
                                  ELSE GoToSleep(p, c.k)
    [] OTHER -> Resume(p, [Unsleep(c.k, p) EXCEPT !.stat[p] = "SRUN"], c.res, TRUE)

Cursig(p) ==
  /\ Has(p, "cursig")
  /\ IF fr[p].catch THEN FirstCursig(p, Issignal(k, p)) ELSE GoToSleep(p, k)

Stopped1(p) == Has(p, "stopped1") /\ FirstCursig(p, IssignalAgain(k, p))
Slept(p) == Has(p, "slept") /\ Resume(p, k, 0, fr[p].catch)
Stopped2(p) == Has(p, "stopped2") /\ LastCursig(p, IssignalAgain(k, p))

-----------------------------------------------------------------------------
(* The rest of a process's life.                                           *)

(* syscall returns: "while (i = CURSIG(p)) postsig(i)".  A caught signal's *)
(* handler is called in user mode; SIGKILL ends the process.               *)
Exit(s, p) ==
  LET s1 == Sigchld([s EXCEPT !.stat[p] = "SZOMB", !.sig[p] = {}], p)
  IN IF Orphan(p) THEN s1 ELSE Wakeup(s1, Addr(Parent[p]))

Postsig(p, c) ==
  CASE c.res = STOPPED -> StopAt(p, c.k, "stopped3")
    [] c.res = SIGKILL ->
         /\ k' = Exit(c.k, p) /\ At(p, "exited") /\ Swtch
         /\ UNCHANGED <<fr, sw>> /\ NoReturn
    [] OTHER ->
         /\ k' = [c.k EXCEPT !.sig[p] = @ \ {c.res}] /\ At(p, "run")
         /\ UNCHANGED <<cur, fr, sw>> /\ NoReturn

SyscallReturn(p) ==
  Has(p, "run") /\ Seen(k, p) # {} /\ Postsig(p, Issignal(k, p))
Stopped3(p) == Has(p, "stopped3") /\ Postsig(p, IssignalAgain(k, p))

(* wait1: a zombie is reaped, a stopped child is reported once; failing    *)
(* that the parent sleeps, unless it has no child.                         *)
Children(p) == { c \in Procs : Parent[c] = p }
Zombies(p) == { c \in Children(p) : pc[c] = "exited" }
NewlyStopped(p) == { c \in Children(p) : k.stat[c] = "SSTOP" } \ k.waited

Reap(p, c) ==
  /\ c \in Zombies(p)
  /\ pc' = [pc EXCEPT ![c] = "reaped", ![p] = "run"]
  /\ UNCHANGED k
ReportStop(p, c) ==
  /\ Zombies(p) = {} /\ c \in NewlyStopped(p)
  /\ k' = [k EXCEPT !.waited = @ \cup {c}]
  /\ At(p, "run")
NothingYet(p) ==
  /\ Zombies(p) = {} /\ NewlyStopped(p) = {}
  /\ At(p, IF \A c \in Children(p) : pc[c] = "reaped" THEN "run" ELSE "wait")
  /\ UNCHANGED k

Wait(p) ==
  /\ Has(p, "run") \/ Has(p, "scan")
  /\ Children(p) # {}
  /\ (\E c \in Children(p) : Reap(p, c) \/ ReportStop(p, c)) \/ NothingYet(p)
  /\ UNCHANGED <<cur, fr, sw>> /\ NoReturn
WaitSleep(p) ==
  TsleepFrom(p, [chan |-> Addr(p), catch |-> TRUE, timo |-> FALSE], "wait")

(* runrun is set: "setrq(u.u_procp); swtch()".                             *)
Preempt(p) ==
  /\ Has(p, "run") /\ k' = Setrq(k, p) /\ Swtch
  /\ UNCHANGED <<pc, fr, sw>> /\ NoReturn

(* The end of swtch, in proc[0]'s loop: the process is taken off qs.       *)
Dispatch(p) ==
  /\ cur = NoProc /\ p \in k.runq \cap k.load
  /\ cur' = p /\ k' = [k EXCEPT !.runq = @ \ {p}]
  /\ UNCHANGED <<pc, fr, sw>> /\ NoReturn

(* sleep(chan, PSWP), without PCATCH: the caller goes on at l.             *)
SleepAt(p, s, c, l) ==
  /\ k' = [s EXCEPT !.stat[p] = "SSLEEP", !.wchan[p] = c, !.slpq = @ \cup {p}]
  /\ At(p, l) /\ Swtch
  /\ UNCHANGED fr /\ NoReturn

(* swapout of p, from SLOCK to its end.                                    *)
SwapoutBegin(s, p) == [s EXCEPT !.lock = @ \cup {p}]
SwapoutEnd(s, p) ==
  KickSched([s EXCEPT !.load = @ \ {p}, !.lock = @ \ {p}, !.fresh = @ \cup {p}])

(* expand or xexpand finds no core: the process swaps itself out, and is   *)
(* not on the run queue when it calls swtch.                               *)
SelfSwapout(p) ==
  /\ Has(p, "run")
  /\ SleepAt(p, SwapoutBegin(k, p), IO(p), "selfswap")
  /\ UNCHANGED sw
SelfSwapped(p) ==
  /\ Has(p, "selfswap")
  /\ k' = SwapoutEnd(k, p) /\ At(p, "run") /\ Swtch
  /\ UNCHANGED <<fr, sw>> /\ NoReturn

-----------------------------------------------------------------------------
(* sched.                                                                  *)

(* "++runout", before sched sleeps.                                        *)
Announce(s) == [s EXCEPT !.runout = TRUE]

Wanted == { p \in Procs : k.stat[p] = "SRUN" /\ p \notin k.load }

SchedIdle ==
  /\ Has(Proc0, "sched") /\ Wanted = {}
  /\ SleepAt(Proc0, Announce(k), RUNOUT, "sched")
  /\ UNCHANGED sw

(* swapin(p) finds core, and reads the image.                              *)
SwapinBegin(p) ==
  /\ Has(Proc0, "sched") /\ p \in Wanted
  /\ SleepAt(Proc0, k, IO(Proc0), "swapin")
  /\ sw' = p
SwapinEnd ==
  /\ Has(Proc0, "swapin")
  /\ LET s == IF k.stat[sw] = "SRUN" THEN Setrq(k, sw) ELSE k
     IN k' = [s EXCEPT !.load = @ \cup {sw}, !.fresh = @ \cup {sw}]
  /\ At(Proc0, "sched") /\ sw' = NoProc
  /\ UNCHANGED <<cur, fr>> /\ NoReturn

(* There is no core.  Whom to swap out: someone who sleeps interruptibly   *)
(* or is stopped; failing that whoever has been in core for a second, if   *)
(* the other has been out of it for two.  Then the priority is lowered for *)
(* a moment.                                                               *)
Movable == { p \in Procs : k.stat[p] # "SZOMB" /\ p \in k.load \ k.lock }
DeadWood == { p \in Movable : \/ k.stat[p] = "SSLEEP" /\ p \in k.sintr
                              \/ k.stat[p] = "SSTOP" }
NoCore(p) ==
  /\ Has(Proc0, "sched") /\ Wanted # {}
  /\ p \in DeadWood \/ (DeadWood = {} /\ p \in Movable \ k.fresh)
  /\ At(Proc0, "victim") /\ sw' = p
  /\ UNCHANGED <<k, cur, fr>> /\ NoReturn

(* Mutant: a victim that has become runnable is left on the run queue.     *)
UnloadOnly(s, p) == [s EXCEPT !.load = @ \ {p}]

(* SLOAD is cleared; a runnable process comes off the run queue (remrq).   *)
Unload(s, p) ==
  IF s.stat[p] = "SRUN"
    THEN [s EXCEPT !.load = @ \ {p}, !.runq = @ \ {p},
                   !.panic = @ \/ p \notin s.runq]
    ELSE [s EXCEPT !.load = @ \ {p}]

SchedSwapout ==
  /\ Has(Proc0, "victim")
  /\ SleepAt(Proc0, SwapoutBegin(Unload(k, sw), sw), IO(Proc0), "swapout")
  /\ UNCHANGED sw
SchedSwapped ==
  /\ Has(Proc0, "swapout")
  /\ k' = SwapoutEnd(k, sw) /\ At(Proc0, "sched") /\ sw' = NoProc
  /\ UNCHANGED <<cur, fr>> /\ NoReturn

(* Nobody can be swapped out yet: wait on runin.                           *)
SchedWait ==
  /\ Has(Proc0, "sched") /\ Wanted # {} /\ DeadWood = {}
  /\ SleepAt(Proc0, k, RUNIN, "sched")
  /\ UNCHANGED sw

-----------------------------------------------------------------------------
(* Interrupts.                                                             *)

Interrupt(s) == k' = s /\ UNCHANGED <<cur, pc, fr, sw>> /\ NoReturn

(* An event is announced; a swap transfer ends.                            *)
WakeupEvent(e) == ~ Masked /\ Interrupt(Wakeup(k, Ev(e)))
SwapDone(p) == ~ Masked /\ k.wchan[p] = IO(p) /\ Interrupt(Wakeup(k, IO(p)))
(* schedcpu.  sched is never interrupted for a second between two sleeps.  *)
Schedcpu ==
  /\ ~ Masked /\ cur # Proc0
  /\ Interrupt(Wakeup([k EXCEPT !.fresh = {}], RUNIN))
Softclock(p) == ~ Masked /\ p \in k.timer /\ Interrupt(Endtsleep(k, p))
Kill(p, g) == ~ Masked /\ <<p, g>> \in Sends /\ Interrupt(Psignal(k, p, g))

-----------------------------------------------------------------------------
Init ==
  /\ k = [ stat |-> [p \in AllProcs |-> "SRUN"],
           wchan |-> [p \in AllProcs |-> NoChan],
           sig |-> [p \in AllProcs |-> {}],
           slpq |-> {}, runq |-> AllProcs, load |-> AllProcs, lock |-> {},
           sintr |-> {}, tmo |-> {}, timer |-> {}, waited |-> {}, fresh |-> {},
           runout |-> FALSE, panic |-> FALSE, woken |-> {} ]
  /\ cur = NoProc
  /\ pc = [p \in AllProcs |-> IF p = Proc0 THEN "sched" ELSE "run"]
  /\ fr = [p \in Procs |-> NoFrame]
  /\ ret = "none"
  /\ sw = NoProc

Step(p) ==
  \/ Cursig(p) \/ Stopped1(p) \/ Slept(p) \/ Stopped2(p) \/ Stopped3(p)
  \/ SyscallReturn(p) \/ SelfSwapped(p) \/ WaitSleep(p)

Sched ==
  \/ SchedIdle \/ SwapinEnd \/ SchedSwapout \/ SchedSwapped \/ SchedWait
  \/ \E p \in AllProcs : SwapinBegin(p) \/ NoCore(p)

Next ==
  \/ \E p \in Procs : \/ \E f \in Sleeps[p] : Tsleep(p, f)
                      \/ Step(p) \/ Wait(p) \/ Preempt(p) \/ SelfSwapout(p)
                      \/ Softclock(p)
                      \/ \E g \in Sigs : Kill(p, g)
  \/ \E p \in AllProcs : Dispatch(p) \/ SwapDone(p)
  \/ Sched
  \/ Schedcpu
  \/ \E e \in Events : WakeupEvent(e)

Spec == Init /\ [][Next]_vars

-----------------------------------------------------------------------------
(* Properties.                                                             *)

UserPCs == { "run", "cursig", "slept", "stopped1", "stopped2", "stopped3",
             "selfswap", "scan", "wait", "exited", "reaped" }
SchedPCs == {"sched", "swapin", "victim", "swapout"}

(* The state is of the expected shape.                                     *)
TypeOK ==
  /\ k \in KType
  /\ cur \in AllProcs \cup {NoProc}
  /\ pc \in [AllProcs -> UserPCs \cup SchedPCs]
  /\ fr \in [Procs -> Frame]
  /\ ret \in {"none", "0", "EINTR", "EWOULDBLOCK"}
  /\ sw \in Procs \cup {NoProc}

(* No chain walk of wakeup meets a process that is neither asleep nor      *)
(* stopped, nothing is set running twice, no process is put on a second    *)
(* queue through its one p_link, and remrq and unsleep find whom they look *)
(* for: the panics of wakeup, setrun, setrq, remrq and tsleep.             *)
NoPanic == ~ k.panic

(* A process is on the run queue exactly if it could run and is in core, on *)
(* a sleep queue exactly if p_wchan is set, and never asleep off the sleep  *)
(* queues, where no wakeup would find it: whatever wakeups, signals, time   *)
(* limits and swaps came between.                                           *)
QueuesExact ==
  /\ TypeOK
  /\ k.runq = { p \in k.load : k.stat[p] = "SRUN" } \ {cur}
  /\ k.slpq = { p \in AllProcs : k.wchan[p] # NoChan }
  /\ \A p \in AllProcs :
       /\ k.stat[p] = "SSLEEP" => p \in k.slpq
       /\ p \in k.slpq /\ k.stat[p] = "SRUN" => Has(p, "cursig")

(* A time limit and its flag never outlive the tsleep that set them, so no *)
(* later sleep is cut short or reports EWOULDBLOCK for an earlier one.     *)
NoStaleTimer ==
  \A p \in k.timer \cup k.tmo :
    p \in Procs /\ fr[p].timo /\ pc[p] \in {"cursig", "slept", "stopped1"}

(* What tsleep returns, as its comment has it: 0 if a wakeup was done,     *)
(* EWOULDBLOCK if the time limit passed first, EINTR if there is a signal  *)
(* to act on.                                                              *)
TsleepReturns ==
  [][ \A p \in Procs :
        pc[p] \in {"cursig", "slept", "stopped1", "stopped2"}
          /\ pc'[p] \in {"run", "scan"} =>
        CASE ret' = "0" -> p \in k.woken
          [] ret' = "EWOULDBLOCK" -> fr[p].timo /\ p \notin k.woken \cup k.timer
          [] OTHER -> Effective(k', p) # {} ]_vars

(* sched never sleeps on runout while a process that could run is out of   *)
(* core.                                                                   *)
NoLostRunout == k.wchan[Proc0] = RUNOUT => Wanted = {}

(* A parent asleep in wait has no child whose exit or stop it has not been *)
(* told of.                                                                *)
NoLostStop ==
  \A p \in Procs :
    k.wchan[p] = Addr(p) /\ k.stat[p] = "SSLEEP" =>
      Zombies(p) = {} /\ NewlyStopped(p) = {}
=============================================================================
