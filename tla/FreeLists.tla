------------------------------ MODULE FreeLists ------------------------------
(***************************************************************************)
(* The linked queues of the kernel as sequences: the free lists of h/buf.h *)
(* (binsheadfree, binstailfree, bremfree) and a driver's request queue,    *)
(* where no buffer is linked twice, and the list of callouts.  Each macro  *)
(* relinks one element in place, so the sequence is the chain read from    *)
(* the head.                                                               *)
(***************************************************************************)
EXTENDS Integers, Sequences

(* The buffers on a queue.                                                 *)
Elems(s) == { s[i] : i \in DOMAIN s }

(* No buffer is linked twice.                                              *)
Distinct(s) == \A i, j \in DOMAIN s : s[i] = s[j] => i = j

Position(s, b) == CHOOSE i \in DOMAIN s : s[i] = b

(* The i-th element is unlinked, the order of the others is kept.          *)
Delete(s, i) == [ j \in 1..(Len(s) - 1) |-> IF j < i THEN s[j] ELSE s[j + 1] ]

(* bremfree: unlink b.                                                     *)
Unlink(s, b) == IF b \in Elems(s) THEN Delete(s, Position(s, b)) ELSE s

(* Link b in as the k-th element.                                          *)
Insert(s, k, b) ==
  [ j \in 1..(Len(s) + 1) |->
      IF j < k THEN s[j] ELSE IF j = k THEN b ELSE s[j - 1] ]

(* binsheadfree and binstailfree.                                          *)
PushHead(s, b) == Insert(s, 1, b)
PushTail(s, b) == Insert(s, Len(s) + 1, b)
=============================================================================
