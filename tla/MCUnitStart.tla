----------------------------- MODULE MCUnitStart -----------------------------
(* Two services: unit hermes, profile work-a; unit hermes-work, profile a. *)
EXTENDS UnitStart, TLC
CONSTANTS s1, s2
MCServices == {s1, s2}
MCUnit == s1 :> <<"hermes">> @@ s2 :> <<"hermes", "work">>
MCProfile == s1 :> <<"work", "a">> @@ s2 :> <<"a">>
MCNames == {"BW_CLIENTID", "BW_CLIENTSECRET", "BW_PASSWORD"}
=============================================================================
