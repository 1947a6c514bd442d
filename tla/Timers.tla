------------------------------- MODULE Timers -------------------------------
(***************************************************************************)
(* What the callout table promises (sys/sys/kern_clock.c): a list of calls *)
(* with the ticks left until each is due, negative if it is late.  A tick  *)
(* brings every call one tick nearer; a call is made only when it is due,  *)
(* the ones due first before the others, and is told how late it is; a     *)
(* cancelled call leaves the times of the others alone.                    *)
(***************************************************************************)
EXTENDS Integers, Sequences, FreeLists

CONSTANTS Funs, NoFun, Times

VARIABLES pend, called

tvars == <<pend, called>>

Nobody == [fn |-> NoFun, late |-> 0]

(* At least one tick from now.                                             *)
Ticks(t) == IF t <= 0 THEN 1 ELSE t

Set(f, t) ==
  /\ \E k \in 1..(Len(pend) + 1) :
       /\ \A j \in 1..(k - 1) : pend[j].left < Ticks(t)
       /\ \A j \in k..Len(pend) : pend[j].left >= Ticks(t)
       /\ pend' = Insert(pend, k, [fn |-> f, left |-> Ticks(t)])
  /\ called' = Nobody

Cancel(f) ==
  /\ \E i \in DOMAIN pend :
       /\ pend[i].fn = f
       /\ \A j \in 1..(i - 1) : pend[j].fn # f
       /\ pend' = Delete(pend, i)
  /\ called' = Nobody

Tick ==
  /\ pend' = [ i \in DOMAIN pend |-> [pend[i] EXCEPT !.left = @ - 1] ]
  /\ called' = Nobody

Expire ==
  /\ pend # <<>> /\ pend[1].left <= 0
  /\ pend' = Delete(pend, 1)
  /\ called' = [fn |-> pend[1].fn, late |-> - pend[1].left]

(* A call has been made and returns.                                       *)
Rest == called' = Nobody /\ UNCHANGED pend

TInit == pend = <<>> /\ called = Nobody
TNext ==
  \/ \E f \in Funs : Cancel(f) \/ \E t \in Times : Set(f, t)
  \/ Tick
  \/ Expire
  \/ Rest
TSpec == TInit /\ [][TNext]_tvars
=============================================================================
