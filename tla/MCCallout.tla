------------------------------ MODULE MCCallout ------------------------------
(* Instances of Callout for TLC. *)
EXTENDS Callout, TLC

CONSTANTS f1, f2

TwoFuns == {f1, f2}
ZeroOneThree == {0, 1, 3}
=============================================================================
