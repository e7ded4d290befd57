----------------------------- MODULE FillPromise -----------------------------
(***************************************************************************)
(* What a caller of vaultwarden_browser_fill may rely on, whatever the page *)
(* and the connection to the browser do: a success means that the browser   *)
(* has taken the value, a refusal by the origin guard means that the page   *)
(* was not touched and will not be.  A failure promises nothing: the value  *)
(* may be typed, and it may even be typed after the failure was reported.   *)
(*                                                                          *)
(* CdpFill implements it; SessionClients uses it for the last part of the   *)
(* tool's handler.                                                          *)
(***************************************************************************)
CONSTANT Fills      \* the calls of the tool

VARIABLES
    result,         \* what each call has returned
    effect          \* what each call has done to the page so far

promiseVars == <<result, effect>>

Results == {"none", "success", "refused", "failed"}
Effects == {"none", "touched", "typed"}

PromiseTypeOK ==
    /\ result \in [Fills -> Results]
    /\ effect \in [Fills -> Effects]

PromiseInit ==
    /\ result = [f \in Fills |-> "none"]
    /\ effect = [f \in Fills |-> "none"]

\* The field is cleared or focused.
Touch(f) ==
    /\ result[f] \in {"none", "failed"} /\ effect[f] = "none"
    /\ effect' = [effect EXCEPT ![f] = "touched"]
    /\ UNCHANGED result

\* The browser takes the value.
Type(f) ==
    /\ result[f] \in {"none", "failed"} /\ effect[f] = "touched"
    /\ effect' = [effect EXCEPT ![f] = "typed"]
    /\ UNCHANGED result

Return(f, r) ==
    /\ result[f] = "none"
    /\ result' = [result EXCEPT ![f] = r]
    /\ UNCHANGED effect

Succeed(f) == effect[f] = "typed" /\ Return(f, "success")
Refuse(f) == effect[f] = "none" /\ Return(f, "refused")
Fail(f) == Return(f, "failed")

PromiseNext ==
    \E f \in Fills : Touch(f) \/ Type(f) \/ Succeed(f) \/ Refuse(f) \/ Fail(f)

PromiseSpec == PromiseInit /\ [][PromiseNext]_promiseVars
=============================================================================
