------------------------------- MODULE BwCall -------------------------------
(***************************************************************************)
(* What a caller may rely on when it runs one Bitwarden CLI command through *)
(* _run_bw (vaultwarden_secret_source/__init__.py): the call waits no       *)
(* longer than the deadline it was given, then kills the command's process  *)
(* group, waits at most twice KillWait for the direct child, and returns.   *)
(*                                                                          *)
(* The module is the abstract specification of the detailed BwProcess, and  *)
(* the part of it VaultwardenFetch runs its commands with.                  *)
(*                                                                          *)
(* Time is discrete and advances only while the caller is blocked: in       *)
(* select, in a wait, or in a file operation.  `until' is the latest time   *)
(* at which the present blocking call returns; an instruction takes no      *)
(* time.                                                                    *)
(***************************************************************************)
EXTENDS Integers

CONSTANT KillWait      \* the timeout of each process.wait in _kill_process_group

ASSUME KillWaitAssumption == KillWait \in Nat \ {0}

VARIABLES
    now,        \* time.monotonic()
    until,      \* the present blocking call returns no later than this
    phase,      \* where the caller stands in _run_bw
    child,      \* the direct child process; "dying" once SIGKILL is pending
    outcome     \* what _run_bw returns or raises

callVars == <<now, until, phase, child, outcome>>

Phases == {"idle", "select", "wait1", "wait2", "returned"}
ChildStates == {"none", "running", "dying", "zombie", "reaped"}

\* "eof" is the outcome still open: both pipes are drained and the exit code
\* decides.  The failures are the kinds of _BwFailure _run_bw can raise itself.
Failures == {"TIMEOUT", "LIMIT", "IO_ERROR", "NOT_INVOKED", "EXIT"}
Outcomes == {"none", "eof", "ok"} \cup Failures

CallTypeOK ==
    /\ now \in Nat
    /\ until \in Int
    /\ phase \in Phases
    /\ child \in ChildStates
    /\ outcome \in Outcomes

CallInit ==
    /\ now \in Nat
    /\ until = now
    /\ phase = "idle"
    /\ child = "none"
    /\ outcome = "none"

(***************************************************************************)
(* The steps of the call                                                    *)
(***************************************************************************)

\* _check_deadline at the head of _run_bw finds the deadline d passed.
TooLate(d) ==
    /\ phase = "idle"
    /\ now >= d
    /\ phase' = "returned"
    /\ outcome' = "TIMEOUT"
    /\ UNCHANGED <<now, until, child>>

\* Popen raises OSError.
SpawnFails(d) ==
    /\ phase = "idle"
    /\ now < d
    /\ phase' = "returned"
    /\ outcome' = "NOT_INVOKED"
    /\ UNCHANGED <<now, until, child>>

\* Popen succeeds; the select loop may now block until d.
Spawn(d) ==
    /\ phase = "idle"
    /\ now < d
    /\ phase' = "select"
    /\ child' = "running"
    /\ until' = d
    /\ outcome' = "none"
    /\ UNCHANGED now

Killed(c) == IF c = "running" THEN "dying" ELSE c

\* The select loop ends with result o and the process group is killed: both
\* pipes at end of file with time left, the deadline, the output limit, or an
\* error of select or read.
Kill(o) ==
    /\ phase = "select"
    /\ \/ o = "eof" /\ now < until
       \/ o = "TIMEOUT" /\ now >= until
       \/ o \in {"LIMIT", "IO_ERROR"} /\ now <= until
    /\ phase' = "wait1"
    /\ child' = Killed(child)
    /\ until' = now + KillWait
    /\ outcome' = o
    /\ UNCHANGED now

\* process.wait collects the child; an open outcome becomes the exit code's.
Reap(exit) ==
    /\ phase \in {"wait1", "wait2"}
    /\ child = "zombie"
    /\ exit \in {"ok", "EXIT"}
    /\ child' = "reaped"
    /\ phase' = "returned"
    /\ outcome' = IF outcome = "eof" THEN exit ELSE outcome
    /\ UNCHANGED <<now, until>>

\* Variant: the first wait is repeated until the child is gone.
WaitAgainAndAgain ==
    /\ phase = "wait1"
    /\ now >= until
    /\ child' = Killed(child)
    /\ until' = now + KillWait
    /\ UNCHANGED <<now, phase, outcome>>

\* The first wait expires; the child is killed again and waited for again.
WaitAgain ==
    /\ phase = "wait1"
    /\ now >= until
    /\ phase' = "wait2"
    /\ child' = Killed(child)
    /\ until' = now + KillWait
    /\ UNCHANGED <<now, outcome>>

\* Variants: a missing exit code passes for zero; the second wait has no timeout.
GiveUpAsSuccess ==
    /\ phase = "wait2"
    /\ now >= until
    /\ phase' = "returned"
    /\ outcome' = IF outcome = "eof" THEN "ok" ELSE outcome
    /\ UNCHANGED <<now, until, child>>

NeverGiveUp == FALSE /\ UNCHANGED callVars

\* The second wait expires; without an exit code the call is a timeout.
GiveUp ==
    /\ phase = "wait2"
    /\ now >= until
    /\ phase' = "returned"
    /\ outcome' = IF outcome = "eof" THEN "TIMEOUT" ELSE outcome
    /\ UNCHANGED <<now, until, child>>

\* The child ends, by itself or because it was killed.
ChildEnds ==
    /\ child \in {"running", "dying"}
    /\ child' = "zombie"
    /\ UNCHANGED <<now, until, phase, outcome>>

Blocked == phase \in {"select", "wait1", "wait2"}

\* Time passes while the caller is blocked, never past the end of the wait.
TickTo(limit) ==
    /\ now < limit
    /\ now' = now + 1
    /\ UNCHANGED <<until, phase, child, outcome>>

CallNext(d) ==
    \/ TooLate(d)
    \/ SpawnFails(d)
    \/ Spawn(d)
    \/ \E o \in {"eof", "TIMEOUT", "LIMIT", "IO_ERROR"} : Kill(o)
    \/ \E exit \in {"ok", "EXIT"} : Reap(exit)
    \/ WaitAgain
    \/ GiveUp
    \/ ChildEnds
    \/ Blocked /\ TickTo(until)
=============================================================================
