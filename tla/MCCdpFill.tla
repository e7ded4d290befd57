------------------------------ MODULE MCCdpFill ------------------------------
(* Instances of CdpFill for TLC. *)
EXTENDS CdpFill, TLC
CONSTANTS f1, own, other, field, editable
MCFills == {f1}
MCHosts == {own, other}
MCElements == {field, editable}
MCInputs == {field}
=============================================================================
