------------------------------- MODULE Callout -------------------------------
(***************************************************************************)
(* The callout table of the 2.11BSD kernel (sys/sys/kern_clock.c).         *)
(* timeout() arranges that a function is called after some ticks,          *)
(* untimeout() cancels that, hardclock() counts the ticks and softclock()  *)
(* makes the calls that are due.                                           *)
(*                                                                         *)
(* calltodo is a list of increments: an entry that is not yet due holds    *)
(* the ticks after the entry before it, and the entries at the front that  *)
(* are due hold 0 or, negated, the ticks since they were.                  *)
(*                                                                         *)
(* hardclock is an interrupt.  If the CPU was at base priority it lowers   *)
(* its own and runs softclock, during which the next ticks interrupt; else *)
(* the calls stay due until a later tick.  softclock unlinks each entry at *)
(* splhigh and makes the call at low priority, so ticks, and timeout and   *)
(* untimeout from the called function or an interrupt, come between two    *)
(* calls.  timeout and untimeout run at splclock: the steps of timeout's   *)
(* loop (ins) are not interrupted.                                         *)
(***************************************************************************)
EXTENDS Integers, Sequences, FreeLists

CONSTANTS
  Funs,     \* the functions (with their arguments) that are called
  NoFun,    \* no function
  NCALL,    \* the size of the table
  Times,    \* the ticks timeout is asked for
  MaxLate   \* bound: the clock finds the CPU at base priority, and softclock
            \* gets on, before a call is more than this late

ASSUME CalloutAssumption ==
  /\ NoFun \notin Funs
  /\ NCALL \in Nat \ {0}
  /\ Times \subseteq Int
  /\ MaxLate \in Nat

VARIABLES
  calltodo,  \* the list: c_func with c_arg, and c_time
  nfree,     \* the length of callfree
  ins,       \* timeout's loop: what it inserts, t, and the position of p2
  soft,      \* is softclock running?
  panicked,  \* "timeout table overflow"
  left,      \* history: the ticks left, of each entry of calltodo
  called     \* history: the call softclock has just made

vars == <<calltodo, nfree, ins, soft, panicked, left, called>>

Entry(f, t) == [fn |-> f, time |-> t]
Nobody == [fn |-> NoFun, late |-> 0]
NoIns == [fn |-> NoFun, asked |-> 0, t |-> 0, pos |-> 0]

Due(i) == calltodo[i].time <= 0

(* Between two instructions of code that is not masked.                    *)
Interruptible == ins = NoIns /\ ~ panicked

-----------------------------------------------------------------------------
(* timeout(f, t).                                                          *)

(* Mutant: no test for an empty free list.                                 *)
TimeoutUnchecked(f, t) ==
  /\ Interruptible
  /\ nfree' = nfree - 1
  /\ ins' = LET n == IF t <= 0 THEN 1 ELSE t
            IN  [fn |-> f, asked |-> n, t |-> n, pos |-> 1]
  /\ called' = Nobody
  /\ UNCHANGED <<calltodo, soft, panicked, left>>

Timeout(f, t) ==
  /\ Interruptible
  /\ IF nfree = 0
       THEN panicked' = TRUE /\ UNCHANGED <<nfree, ins>>
       ELSE /\ nfree' = nfree - 1
            /\ ins' = LET n == IF t <= 0 THEN 1 ELSE t
                      IN  [fn |-> f, asked |-> n, t |-> n, pos |-> 1]
            /\ UNCHANGED panicked
  /\ called' = Nobody
  /\ UNCHANGED <<calltodo, soft, left>>

Scanning == ins # NoIns /\ ins.pos <= Len(calltodo) /\ calltodo[ins.pos].time < ins.t

TimeoutScan ==
  /\ Scanning
  /\ ins' = [ins EXCEPT !.pos = @ + 1,
                        !.t = IF Due(ins.pos) THEN @ ELSE @ - calltodo[ins.pos].time]
  /\ called' = Nobody
  /\ UNCHANGED <<calltodo, nfree, soft, panicked, left>>

(* The entry is linked in before p2, whose increment shrinks.              *)
TimeoutLink ==
  /\ ins # NoIns /\ ~ Scanning
  /\ calltodo' =
       Insert([ j \in DOMAIN calltodo |->
                  IF j = ins.pos THEN [calltodo[j] EXCEPT !.time = @ - ins.t] ELSE calltodo[j] ],
              ins.pos, Entry(ins.fn, ins.t))
  /\ left' = Insert(left, ins.pos, ins.asked)
  /\ ins' = NoIns
  /\ called' = Nobody
  /\ UNCHANGED <<nfree, soft, panicked>>

-----------------------------------------------------------------------------
(* Mutants of Untimeout: the increment is not passed on; the entry is not  *)
(* put on callfree.                                                        *)
UntimeoutAt(f, i, l, n) ==
  /\ Interruptible
  /\ calltodo[i].fn = f
  /\ \A j \in 1..(i - 1) : calltodo[j].fn # f
  /\ calltodo' = Delete(l, i)
  /\ left' = Delete(left, i)
  /\ nfree' = n
  /\ called' = Nobody
  /\ UNCHANGED <<ins, soft, panicked>>
UntimeoutDropsTime(f) == \E i \in DOMAIN calltodo : UntimeoutAt(f, i, calltodo, nfree + 1)

(* p2's increment goes to the entry after it, unless p2 is due.            *)
PassOn(i) ==
  [ j \in DOMAIN calltodo |->
      IF j = i + 1 /\ ~ Due(i)
        THEN [calltodo[j] EXCEPT !.time = @ + calltodo[i].time] ELSE calltodo[j] ]
UntimeoutLeaks(f) == \E i \in DOMAIN calltodo : UntimeoutAt(f, i, PassOn(i), nfree)

(* untimeout(f): the first entry that matches is removed.  If there is     *)
(* none nothing happens.                                                   *)
Untimeout(f) ==
  /\ Interruptible
  /\ \E i \in DOMAIN calltodo :
       /\ calltodo[i].fn = f
       /\ \A j \in 1..(i - 1) : calltodo[j].fn # f
       /\ calltodo' = Delete(PassOn(i), i)
       /\ left' = Delete(left, i)
  /\ nfree' = nfree + 1
  /\ called' = Nobody
  /\ UNCHANGED <<ins, soft, panicked>>

-----------------------------------------------------------------------------
(* hardclock's loop decrements an entry if it goes on past all before it:  *)
(* past those that were due already.                                       *)
Counts(i) == \A j \in 1..(i - 1) : Due(j)
Late(n) == left # <<>> /\ left[1] <= - n

(* Mutant: needsoft only in the tick that makes an entry due.              *)
NeedSoftOnce == calltodo # <<>> /\ calltodo[1].time = 1

(* needsoft: an entry is decremented to 0 or below.                        *)
NeedSoft == calltodo # <<>> /\ calltodo[1].time <= 1

(* One tick.                                                               *)
Hardclock(basepri) ==
  /\ Interruptible
  /\ basepri => ~ soft
  /\ ~ Late(IF basepri THEN MaxLate + 1 ELSE MaxLate)
  /\ calltodo' = [ i \in DOMAIN calltodo |->
                     IF Counts(i) THEN [calltodo[i] EXCEPT !.time = @ - 1] ELSE calltodo[i] ]
  /\ left' = [ i \in DOMAIN left |-> left[i] - 1 ]
  /\ soft' = (soft \/ (basepri /\ NeedSoft))
  /\ called' = Nobody
  /\ UNCHANGED <<nfree, ins, panicked>>

(* Mutant: an entry is called one tick before it is due.                   *)
DueSoon == calltodo # <<>> /\ calltodo[1].time <= 1

(* The test of softclock's loop.                                           *)
DueNow == calltodo # <<>> /\ Due(1)

(* The first entry is unlinked and called, with the ticks it is late.      *)
Softclock ==
  /\ Interruptible
  /\ soft
  /\ DueNow
  /\ calltodo' = Delete(calltodo, 1)
  /\ left' = Delete(left, 1)
  /\ nfree' = nfree + 1
  /\ called' = [fn |-> calltodo[1].fn, late |-> - calltodo[1].time]
  /\ UNCHANGED <<ins, soft, panicked>>

SoftclockDone ==
  /\ Interruptible
  /\ soft
  /\ ~ DueNow
  /\ soft' = FALSE
  /\ called' = Nobody
  /\ UNCHANGED <<calltodo, nfree, ins, panicked, left>>

Init ==
  /\ calltodo = <<>>
  /\ nfree = NCALL
  /\ ins = NoIns
  /\ soft = FALSE
  /\ panicked = FALSE
  /\ left = <<>>
  /\ called = Nobody

Next ==
  \/ \E f \in Funs : Untimeout(f) \/ \E t \in Times : Timeout(f, t)
  \/ TimeoutScan
  \/ TimeoutLink
  \/ \E basepri \in BOOLEAN : Hardclock(basepri)
  \/ Softclock
  \/ SoftclockDone

Spec == Init /\ [][Next]_vars

(* The masked loop and softclock run on; and the clock, which ticks for    *)
(* ever, again and again finds the CPU at base priority.                   *)
FairSpec ==
  /\ Spec
  /\ WF_vars(TimeoutScan \/ TimeoutLink)
  /\ SF_vars(Softclock \/ SoftclockDone)
  /\ SF_vars(Hardclock(TRUE))

-----------------------------------------------------------------------------
(* The variables have the types of the structures they stand for.          *)
TypeOK ==
  /\ calltodo \in Seq([fn : Funs, time : Int])
  /\ nfree \in 0..NCALL
  /\ ins \in [fn : Funs \cup {NoFun}, asked : Int, t : Int, pos : Nat]
  /\ soft \in BOOLEAN /\ panicked \in BOOLEAN
  /\ left \in Seq(Int) /\ Len(left) = Len(calltodo)
  /\ called \in [fn : Funs \cup {NoFun}, late : Int]

(* The increments add up: whatever timeouts, cancellations, ticks and late *)
(* calls came in between, an entry that follows a call not yet due holds   *)
(* the ticks between the two, any other the ticks left until it is due or  *)
(* since it was.                                                           *)
IncrementsExact ==
  \A i \in DOMAIN calltodo :
    IF i > 1 /\ left[i - 1] > 0
      THEN calltodo[i].time = left[i] - left[i - 1]
      ELSE calltodo[i].time = left[i]

(* "timeout table overflow" means what it says: every entry is in use.     *)
PanicOnlyWhenFull == panicked => Len(calltodo) = NCALL

(* The table implements the abstract list of timers: nothing is called     *)
(* early, the calls due first are made first, each is told how late it is, *)
(* and a cancellation moves no other call.                                 *)
Abstract == INSTANCE Timers
  WITH pend <- [ i \in DOMAIN calltodo |-> [fn |-> calltodo[i].fn, left |-> left[i]] ]
TimersSpec == Abstract!TSpec

(* A function on the list is in the end called or cancelled, however often *)
(* new calls are put before it and however late softclock runs.            *)
Pending(f) == \E i \in DOMAIN calltodo : calltodo[i].fn = f
EventuallyCalled ==
  \A f \in Funs :
    \/ []<><<Untimeout(f)>>_vars
    \/ []<>(called.fn = f \/ ~ Pending(f) \/ panicked)
=============================================================================
