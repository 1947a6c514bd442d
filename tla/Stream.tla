------------------------------- MODULE Stream -------------------------------
(***************************************************************************)
(* What a pipe promises: bytes come out once, in the order they went in,   *)
(* and bytes that go in together stay together.  A byte is identified by   *)
(* its writer and a number, counted from when the pipe was last empty.     *)
(***************************************************************************)
EXTENDS Naturals, Sequences, FiniteSets

CONSTANTS
  Writers,
  Chunk      \* how many bytes go in together at most

VARIABLES
  queue,   \* the bytes <<writer, number>> that are in the pipe
  next,    \* the number of each writer's next byte
  got      \* the number of the next byte of each that is to come out

Zero == [w \in Writers |-> 0]

Put(w, n) ==
  /\ queue' = queue \o [i \in 1 .. n |-> <<w, next[w] + i - 1>>]
  /\ next' = [next EXCEPT ![w] = @ + n]
  /\ UNCHANGED got

(* The bytes that come out are the next ones of their writers.             *)
From(w, n) == { i \in 1 .. n : queue[i][1] = w }
Get(n) ==
  /\ queue' = SubSeq(queue, n + 1, Len(queue))
  /\ \A w \in Writers : \A i \in From(w, n) :
       queue[i][2] = got[w] + Cardinality(From(w, i)) - 1
  /\ got' = IF queue' = << >>
              THEN Zero
              ELSE [w \in Writers |-> got[w] + Cardinality(From(w, n))]
  /\ next' = IF queue' = << >> THEN Zero ELSE next

StreamInit == queue = << >> /\ next = Zero /\ got = Zero
StreamNext ==
  \/ \E w \in Writers : \E n \in 1 .. Chunk : Put(w, n)
  \/ \E n \in 1 .. Len(queue) : Get(n)
Spec == StreamInit /\ [][StreamNext]_<<queue, next, got>>
=============================================================================
