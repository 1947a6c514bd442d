------------------------------- MODULE MCPipe -------------------------------
(* Instances of Pipe for TLC. *)
EXTENDS Pipe, TLC

CONSTANTS r1, r2, w1

OneReader == {r1}
TwoReaders == {r1, r2}
OneWriter == {w1}
Nobody == {}
Two == {2}
OneThree == {1, 3}
=============================================================================
