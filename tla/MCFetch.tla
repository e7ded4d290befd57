------------------------------- MODULE MCFetch -------------------------------
(* Instances of VaultwardenFetch for TLC. *)
EXTENDS VaultwardenFetch, TLC
CONSTANTS i1, i2, A, B
MCItems == {i1, i2}
MCEnvNames == {A, B}
TwoItems == (A :> i1 @@ B :> i2)
=============================================================================
