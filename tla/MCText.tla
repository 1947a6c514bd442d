------------------------------- MODULE MCText -------------------------------
(* Instances of Text for TLC. *)
EXTENDS Text, TLC

CONSTANTS p1, p2, p3, t1, t2, i1, i2, i3

TwoProcs == {p1, p2}
ThreeProcs == {p1, p2, p3}
TwoTexts == {t1, t2}
TwoInodes == {i1, i2}
ThreeInodes == {i1, i2, i3}

Load(table, exec, grow, unlink, umount, short, irele) ==
  [ table |-> table, exec |-> exec, grow |-> grow, unlink |-> unlink,
    umount |-> umount, short |-> short, irele |-> irele ]
All == {t1, t2}

(* One process runs files and the other is its child, and core runs short  *)
(* for the swapper, or for the processes; or both run files and core       *)
(* suffices, and one removes a file, or unmounts the file system.          *)
Sound ==
  { Load(All, {p1}, {p2}, {p1}, {}, {Sched}, TRUE),
    Load(All, {p1}, {p1, p2}, {}, {}, {p1, p2}, TRUE),
    Load(All, {p1, p2}, {}, {p1}, {}, {}, TRUE),
    Load({t1}, {p1, p2}, {}, {}, {p1}, {}, FALSE) }

(* Both run files, and core runs short for one of them.                    *)
Reuse == { Load({t1}, {p1, p2}, {}, {}, {}, {p1}, FALSE) }
(* One runs and removes files, and unmounts, while its child is swapped.   *)
Stale == { Load(All, {p1}, {}, {p1}, {p1}, {Sched}, FALSE) }
(* One runs files and the other unmounts, and irele writes the inode.      *)
Writes == { Load(All, {p1}, {}, {}, {p2}, {}, TRUE) }
(* Core runs short for the processes and for the swapper.                  *)
Crowded == { Load(All, {p1, p3}, {p2}, {}, {}, {p1, p2, Sched}, FALSE) }

Symmetry == Permutations(TwoInodes)
=============================================================================
