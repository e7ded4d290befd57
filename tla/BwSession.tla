------------------------------ MODULE BwSession ------------------------------
(***************************************************************************)
(* One Bitwarden CLI session, as fetch, _lookup and _fetch_single_field     *)
(* open it: copy the pinned executable into a private stage directory, hash *)
(* the copy before every command, run the commands in a private state       *)
(* directory -- version, server, login, unlock, sync and then the caller's  *)
(* own -- and remove both directories on the way out.  Everything happens   *)
(* within one budget of time, counted from the start of the session.        *)
(*                                                                          *)
(* The module gives the steps of a session; the modules that extend it say  *)
(* which commands follow the sync and what is made of their output.         *)
(***************************************************************************)
EXTENDS BwCall

CONSTANTS
    Budget,        \* the session's deadline
    CliTimeout,    \* cli_timeout_seconds: the longest a single command may take
    Chunks,        \* chunks of the executable read to copy or to hash it
    ChunkTime,     \* the longest one chunk takes
    CleanupTime    \* the longest the removal of one directory takes

ASSUME SessionAssumptions ==
    /\ Budget \in Nat \ {0}
    /\ CliTimeout \in Nat \ {0}
    /\ Chunks \in Nat
    /\ ChunkTime \in 0..(2 * KillWait)
    /\ CleanupTime \in Nat

VARIABLES
    pc,         \* where the session stands
    step,       \* "stage", or the command that is prepared or run
    left,       \* chunks still to read before the copy or the hash is complete
    env,        \* what the environment of the next command holds
    dirs,       \* the directories of the session that exist: "stage", "state"
    executable, \* "open" once the executable is staged and verified
    error       \* the kind of the result's error, or "none"

sessionVars == <<pc, step, left, env, dirs, executable, error>>

\* Steps every session has; the callers' own commands are Commands.
Preamble == {"version", "config", "login", "unlock", "sync"}
CallKinds == {"TIMEOUT", "AUTH_EXPIRED", "AUTH_FAILED", "NETWORK", "REF_INVALID",
              "BINARY_MISSING", "INTERNAL"}
ErrorKinds == CallKinds \cup {"EMPTY_VALUE", "NOT_CONFIGURED"}
PCs == {"start", "chunk", "io", "call", "data", "leave_state", "leave_stage", "done"}

SessionTypeOK(Commands) ==
    /\ CallTypeOK
    /\ pc \in PCs
    /\ step \in {"stage"} \cup Preamble \cup Commands
    /\ left \in 0..Chunks
    /\ env \subseteq {"credentials", "session"}
    /\ dirs \subseteq {"stage", "state"}
    /\ executable \in {"none", "open"}
    /\ error \in ErrorKinds \cup {"none"}

\* A session that has not begun; the clock counts towards its deadline.
SessionBegins ==
    /\ CallInit
    /\ pc = "start" /\ step = "stage" /\ left = Chunks
    /\ env = {}
    /\ dirs = {} /\ executable = "none"
    /\ error = "none"

SessionInit == now = 0 /\ SessionBegins

Late == now >= Budget

\* The session ends: the directories that exist are removed, inner one first.
Leave ==
    /\ pc' = IF "state" \in dirs THEN "leave_state" ELSE "leave_stage"
    /\ until' = now + CleanupTime
    /\ UNCHANGED <<now, phase, child, outcome>>
    /\ UNCHANGED <<step, left, env, dirs, executable>>

\* The session fails with an error of kind k.
Abort(k) == error' = k /\ Leave

\* Command s is next: the staged executable is hashed again before it runs.
Advance(s) ==
    /\ pc' = "chunk"
    /\ step' = s
    /\ left' = Chunks

(***************************************************************************)
(* Staging and hashing                                                      *)
(***************************************************************************)

\* The stage directory is created, or its creation raises.
BeginStage ==
    /\ pc = "start"
    /\ Advance("stage")
    /\ dirs' = {"stage"}
    /\ UNCHANGED <<callVars, env, executable, error>>

StageDirFails ==
    /\ pc = "start"
    /\ pc' = "done"
    /\ error' = "INTERNAL"
    /\ UNCHANGED <<callVars, step, left, env, dirs, executable>>

\* Variant: one more chunk is read than there are.
NextChunkTooMany ==
    /\ pc = "chunk" /\ ~Late /\ left >= 0
    /\ pc' = "io"
    /\ left' = left - 1
    /\ until' = now + ChunkTime
    /\ UNCHANGED <<now, phase, child, outcome>>
    /\ UNCHANGED <<step, env, dirs, executable, error>>

\* _check_deadline passes and the next chunk is read.
NextChunk ==
    /\ pc = "chunk" /\ ~Late /\ left > 0
    /\ pc' = "io"
    /\ left' = left - 1
    /\ until' = now + ChunkTime
    /\ UNCHANGED <<now, phase, child, outcome>>
    /\ UNCHANGED <<step, env, dirs, executable, error>>

ChunkRead ==
    /\ pc = "io"
    /\ pc' = "chunk"
    /\ UNCHANGED <<callVars, step, left, env, dirs, executable, error>>

\* _check_deadline fails between two chunks.
ChunkLate == pc = "chunk" /\ Late /\ Abort("TIMEOUT")

\* A chunk cannot be read or written, the digest of all of them is not the pinned
\* one, or the format of the staged file is refused; a failure of the staging
\* that is not translated is internal.
Rejected ==
    /\ \/ pc = "io"
       \/ pc = "chunk" /\ ~Late /\ left = 0
    /\ \/ Abort("BINARY_MISSING")
       \/ step = "stage" /\ Abort("INTERNAL")

Hashed == pc = "chunk" /\ ~Late /\ left = 0

\* The executable is staged; the state directory is created, or that raises.
Staged ==
    /\ Hashed /\ step = "stage"
    /\ executable' = "open"
    /\ dirs' = dirs \cup {"state"}
    /\ Advance("version")
    /\ UNCHANGED <<callVars, env, error>>

StateDirFails ==
    /\ Hashed /\ step = "stage"
    /\ executable' = "open"
    /\ error' = "INTERNAL"
    /\ pc' = "leave_stage"
    /\ until' = now + CleanupTime
    /\ UNCHANGED <<now, phase, child, outcome>>
    /\ UNCHANGED <<step, left, env, dirs>>

(***************************************************************************)
(* Running a command                                                        *)
(***************************************************************************)

\* The hash before command `step' matches; the command may start.
Verified ==
    /\ Hashed /\ step # "stage"
    /\ pc' = "call"
    /\ phase' = "idle"
    /\ UNCHANGED <<now, until, child, outcome>>
    /\ UNCHANGED <<step, left, env, dirs, executable, error>>

\* Variant: the command's own timeout alone.
CommandDeadlineUncapped == now + CliTimeout

\* _run_pinned_bw: the command's deadline is the earlier of its own timeout and
\* the session's.
CommandDeadline == IF now + CliTimeout < Budget THEN now + CliTimeout ELSE Budget

\* The steps of _run_bw; its own deadline check cannot fail right after
\* _remaining_timeout.
CallStep ==
    /\ pc = "call"
    /\ \/ Spawn(CommandDeadline)
       \/ SpawnFails(CommandDeadline)
       \/ Kill("TIMEOUT")
       \/ \E exit \in {"ok", "EXIT"} : Reap(exit)
       \/ WaitAgain
       \/ GiveUp
    /\ UNCHANGED sessionVars

\* The command closes its pipes, floods one, or breaks one: in its own time.
CallCutShort ==
    /\ pc = "call"
    /\ \E o \in {"eof", "LIMIT", "IO_ERROR"} : Kill(o)
    /\ UNCHANGED sessionVars

\* The child of this or of an abandoned call ends.
ChildStep == ChildEnds /\ UNCHANGED sessionVars

\* The kinds a failed call is reported with; _classify_bw_error reads them from
\* the diagnostics of a command that exits with a nonzero code.
KindsOf(o) ==
    CASE o = "EXIT"        -> CallKinds
      [] o = "TIMEOUT"     -> {"TIMEOUT"}
      [] o = "NOT_INVOKED" -> {"BINARY_MISSING"}
      [] OTHER             -> {"INTERNAL"}

CallFailed ==
    /\ pc = "call" /\ phase = "returned" /\ outcome \in Failures
    /\ \E k \in KindsOf(outcome) : Abort(k)

Succeeded(s) == pc = "call" /\ phase = "returned" /\ outcome = "ok" /\ step = s

\* The pinned version enables the credentials; any other ends the session.
VersionAccepted ==
    /\ Succeeded("version")
    /\ env' = {"credentials"}
    /\ Advance("config")
    /\ UNCHANGED <<callVars, dirs, executable, error>>

VersionRefused == Succeeded("version") /\ Abort("BINARY_MISSING")

Configured ==
    /\ Succeeded("config")
    /\ Advance("login")
    /\ UNCHANGED <<callVars, env, dirs, executable, error>>

LoggedIn ==
    /\ Succeeded("login")
    /\ Advance("unlock")
    /\ UNCHANGED <<callVars, env, dirs, executable, error>>

\* unlock prints the session key, or nothing.
Unlocked ==
    /\ Succeeded("unlock")
    /\ env' = env \cup {"session"}
    /\ Advance("sync")
    /\ UNCHANGED <<callVars, dirs, executable, error>>

NoSession == Succeeded("unlock") /\ Abort("AUTH_FAILED")

\* The vault is synchronised: the caller's own commands follow.
Synced ==
    /\ Succeeded("sync")
    /\ pc' = "data"
    /\ UNCHANGED <<callVars, step, left, env, dirs, executable, error>>

(***************************************************************************)
(* Leaving                                                                  *)
(***************************************************************************)

\* Variant: a failing removal is ignored.
LeaveStateSilently(ok) ==
    /\ pc = "leave_state"
    /\ pc' = "leave_stage"
    /\ dirs' = IF ok THEN dirs \ {"state"} ELSE dirs
    /\ until' = now + CleanupTime
    /\ UNCHANGED <<now, phase, child, outcome>>
    /\ UNCHANGED <<step, left, env, executable, error>>

\* The state directory is removed, or its removal raises.
LeaveState(ok) ==
    /\ pc = "leave_state"
    /\ pc' = "leave_stage"
    /\ dirs' = IF ok THEN dirs \ {"state"} ELSE dirs
    /\ error' = IF ok THEN error ELSE "INTERNAL"
    /\ until' = now + CleanupTime
    /\ UNCHANGED <<now, phase, child, outcome>>
    /\ UNCHANGED <<step, left, env, executable>>

\* The stage directory is removed, or both attempts fail; only the caller of a
\* staged executable looks at the result.
LeaveStage(ok) ==
    /\ pc = "leave_stage"
    /\ pc' = "done"
    /\ dirs' = IF ok THEN dirs \ {"stage"} ELSE dirs
    /\ error' = IF executable = "open" /\ ~ok THEN "INTERNAL" ELSE error
    /\ UNCHANGED <<callVars, step, left, env, executable>>

\* The calling thread is blocked.
Waiting ==
    \/ pc \in {"io", "leave_state", "leave_stage"}
    \/ pc = "call" /\ Blocked

SessionTick == Waiting /\ TickTo(until) /\ UNCHANGED sessionVars

\* The steps of a session up to the caller's own commands.
Prepare ==
    \/ BeginStage \/ StageDirFails
    \/ NextChunk \/ ChunkRead \/ ChunkLate \/ Rejected
    \/ Staged \/ StateDirFails \/ Verified
    \/ CallFailed
    \/ VersionAccepted \/ VersionRefused \/ Configured \/ LoggedIn
    \/ Unlocked \/ NoSession \/ Synced

(***************************************************************************)
(* Where the time of a session goes (an inductive invariant)                *)
(***************************************************************************)

\* The latest moment at which the session's own work can stop: the budget is used
\* up when a command is killed and both waits for it expire.
Slowest == Budget + 2 * KillWait

CallTimely ==
    /\ phase = "idle" => now < Budget
    /\ phase = "select" => now <= until /\ until <= Budget
    /\ phase = "wait1" => now <= until /\ until <= Budget + KillWait
    /\ phase = "wait2" => now <= until /\ until <= Slowest
    /\ phase = "returned" => now <= Slowest

SessionTimely ==
    /\ pc = "start" => now <= Budget
    /\ pc \in {"chunk", "data"} => now <= Slowest
    /\ pc = "io" => now <= until /\ until <= Slowest
    /\ pc = "call" => CallTimely
    /\ pc = "leave_state" => now <= until /\ until <= Slowest + CleanupTime
    /\ pc = "leave_stage" => now <= until /\ until <= Slowest + 2 * CleanupTime
    /\ pc = "done" => now <= Slowest + 2 * CleanupTime

\* A child without a pending SIGKILL is inside the select loop of a call.
ChildAttended ==
    child = "running" => pc = "call" /\ phase = "select"
=============================================================================
