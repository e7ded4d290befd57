----------------------------- MODULE MCBwProcess -----------------------------
(* Instances of BwProcess for TLC. *)
EXTENDS BwProcess
CONSTANTS d1, d2
OneDescendant == {d1}
TwoDescendants == {d1, d2}
=============================================================================
