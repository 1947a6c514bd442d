---------------------------- MODULE MCInodeCache ----------------------------
(***************************************************************************)
(* Instances of the inode cache for TLC.                                   *)
(***************************************************************************)
EXTENDS InodeCache, TLC

CONSTANTS p1, p2, s1, s2, e1, e2, a, b, c

TwoProcs == {p1, p2}
TwoSlots == {s1, s2}
OneEntry == {e1}
TwoEntries == {e1, e2}
TwoNames == {a, b}
ThreeNames == {a, b, c}
Apart == [n \in Names |-> n]

Load(s, k, f) == [slots |-> s, calls |-> k, faults |-> f]
Both(k) == [p \in Procs |-> k]
Alone(k) == {[p \in Procs |-> IF p = q THEN k ELSE {}] : q \in Procs}
Apiece(k, m) == {[p \in Procs |-> IF p = q THEN k ELSE m] : q \in Procs}

Roomy == {Load(TwoSlots, Both({"creat", "unlink", "sync"}), {})}
Cramped == {Load({s}, Both({"creat", "unlink", "write"}), {}) : s \in Slots}
Held ==
  {Load({s}, k, {}) : s \in Slots, k \in Apiece({"open"}, {"creat", "unlink", "write"})}
Shared == {Load({s}, Both({"creat", "write"}), {}) : s \in Slots}
Unreadable ==
  {Load({s}, k, {"iget", "access"}) : s \in Slots, k \in Alone({"open", "creat", "unlink"})}
Unwritable ==
  {Load({s}, Both({"creat", "unlink"}), {"bread", "direnter", "dirremove"}) : s \in Slots}
Unsound ==
  {Load({s}, k, {f}) : s \in Slots, k \in Alone({"creat"}), f \in {"dirwrite", "iupdat"}}
Removing ==
  {Load({s}, k, {"dirwrite"}) : s \in Slots, k \in Alone({"creat", "unlink"})}
AllLoads == Roomy \cup Held \cup Shared \cup Unreadable \cup Unwritable \cup Unsound

Symmetry ==
  Permutations(Procs) \cup Permutations(Slots) \cup Permutations(Entries) \cup Permutations(Names)
=============================================================================
