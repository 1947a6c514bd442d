---------------------------- MODULE MCBufferCache ----------------------------
(***************************************************************************)
(* Instances of the buffer cache for TLC.                                  *)
(***************************************************************************)
EXTENDS BufferCache, TLC

CONSTANTS p1, p2

OneProc == {p1}
TwoProcs == {p1, p2}
ProcSymmetry == Permutations(TwoProcs)

OneDev == {0}
TwoDevs == {0, 1}
NoDevs == {}
SecondDev == {1}
OneBlk == {1}
TwoBlks == {1, 2}
ThreeBlks == {1, 2, 3}

ByPlace == [ x \in DevBlks |-> x[1] + x[2] ]

NoFile == <<>>
Block1 == <<0, 1>>
Block2 == <<0, 2>>
Block3 == <<0, 3>>
OneBlockFile == << Block1 >>

ReadSync == {"bread", "breada", "fsync"}
ReadWrite == {"bread", "breada", "getblk"}
ReadClose == {"bread", "close"}
ReadFsync == {"bread", "fsync"}
ShareClose == {"bread", "getblk", "geteblk", "close"}
Mixed == {"getblk", "breada", "geteblk"}
=============================================================================
