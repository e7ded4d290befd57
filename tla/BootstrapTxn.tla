---------------------------- MODULE BootstrapTxn ----------------------------
(***************************************************************************)
(* What setup and remove of the systemd bootstrap promise: each takes its   *)
(* installation from one whole state to the other, or fails and leaves it   *)
(* as it was.  Bootstrap is the detailed specification.                     *)
(***************************************************************************)
CONSTANT Setups       \* installations: a profile with the unit it serves

VARIABLES
    status,     \* the state of each installation, seen when nobody changes it
    busy,       \* installations an operation works on
    report      \* what the last operation on an installation reported

txnVars == <<status, busy, report>>

TxnInit ==
    /\ status \in [Setups -> {"absent", "installed"}]
    /\ busy = {}
    /\ report \in [Setups -> {"none", "installed"}]

\* An operation on an installation starts.
Begin(l) ==
    /\ l \notin busy
    /\ busy' = busy \cup {l}
    /\ UNCHANGED <<status, report>>

End(l, from, to, says) ==
    /\ l \in busy
    /\ status[l] = from
    /\ busy' = busy \ {l}
    /\ status' = [status EXCEPT ![l] = to]
    /\ report' = [report EXCEPT ![l] = says]

\* install returns True.
Installed(l) == End(l, "absent", "installed", "installed")

\* remove returns True.
Removed(l) == End(l, "installed", "absent", "removed")

\* install or remove raises, and nothing has changed.
InstallFailed(l) == End(l, "absent", "absent", "install failed")
RemoveFailed(l)  == End(l, "installed", "installed", "remove failed")

TxnNext ==
    \E l \in Setups :
        \/ Begin(l)
        \/ Installed(l) \/ Removed(l)
        \/ InstallFailed(l) \/ RemoveFailed(l)

TxnSpec == TxnInit /\ [][TxnNext]_txnVars
=============================================================================
