----------------------------- MODULE MCBootstrap -----------------------------
(* Instances of Bootstrap for TLC. *)
EXTENDS Bootstrap, TLC
CONSTANTS p, q, u, v, a1, a2
Siblings == {[profile |-> p, unit |-> u], [profile |-> q, unit |-> v]}
One == {[profile |-> p, unit |-> u]}
OneName == <<"BW_PASSWORD">>
AllNames == <<"BW_CLIENTID", "BW_CLIENTSECRET", "BW_PASSWORD">>
=============================================================================
