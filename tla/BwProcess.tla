------------------------------ MODULE BwProcess ------------------------------
(***************************************************************************)
(* The supervision of one Bitwarden CLI command: _run_bw and                *)
(* _kill_process_group of vaultwarden_secret_source/__init__.py, with the   *)
(* operating system around them.                                            *)
(*                                                                          *)
(* The caller reads the two pipes of the command through a selector until   *)
(* both are at end of file, the deadline passes, a stream exceeds the       *)
(* output limit or a read fails; whichever it is, it sends SIGKILL to the   *)
(* command's process group while the direct child is still unreaped, waits  *)
(* twice for the child at most, and returns.                                *)
(*                                                                          *)
(* The command may fork descendants, which inherit its pipes, leave its     *)
(* group with setsid, close a pipe early, and outlive it; a process stuck   *)
(* in the kernel dies long after the signal.                                *)
(***************************************************************************)
EXTENDS Integers, FiniteSets

CONSTANTS
    Descendants,     \* processes the command may fork
    Deadline,        \* the command_deadline given to _run_bw
    KillWait,        \* the timeout of each process.wait
    MaxOutput,       \* _MAX_OUTPUT_BYTES, in units of one write
    MaxWritten,      \* bound: units one stream carries in a behaviour
    ChunkSize        \* the largest single os.read, in units of one write

Child == "child"

ASSUME ProcessAssumptions ==
    /\ Deadline \in Nat
    /\ KillWait \in Nat \ {0}
    /\ MaxOutput \in Nat \ {0}
    /\ MaxWritten \in Nat
    /\ ChunkSize \in Nat \ {0}
    /\ Child \notin Descendants

Processes == Descendants \cup {Child}
Streams == {"stdout", "stderr"}

VARIABLES
    now, until, phase, outcome,   \* as in BwCall
    child,      \* the direct child, whether doomed or not
    exitCode,   \* how the child ended
    live,       \* descendants that run
    used,       \* descendants forked so far
    escaped,    \* descendants that left the process group
    doomed,     \* processes with SIGKILL pending
    signalled,  \* whom _kill_process_group has reached: "group" or "child"
    holders,    \* processes that hold the write end of each pipe
    written,    \* units written to each pipe
    taken,      \* units the caller has read from each pipe
    open        \* streams still registered with the selector

callVars == <<now, until, phase, child, outcome>>
osVars == <<exitCode, live, used, escaped, doomed, holders, written>>
vars == <<callVars, osVars, signalled, taken, open>>

\* BwCall does not tell a killed child by its pending signals.
Contract == INSTANCE BwCall WITH
    child <- IF child = "running" /\ Child \in doomed THEN "dying" ELSE child

TypeOK ==
    /\ Contract!CallTypeOK
    /\ exitCode \in {"none", "zero", "nonzero", "killed"}
    /\ live \subseteq used /\ used \subseteq Descendants /\ escaped \subseteq Descendants
    /\ doomed \subseteq Processes
    /\ signalled \in {"none", "group", "child"}
    /\ holders \in [Streams -> SUBSET Processes]
    /\ written \in [Streams -> 0..MaxWritten]
    /\ taken \in [Streams -> 0..MaxWritten]
    /\ open \subseteq Streams

Init ==
    /\ now \in {0, Deadline}
    /\ until = now
    /\ phase = "idle" /\ child = "none" /\ outcome = "none"
    /\ exitCode = "none"
    /\ live = {} /\ used = {} /\ escaped = {} /\ doomed = {}
    /\ signalled = "none"
    /\ holders = [s \in Streams |-> {}]
    /\ written = [s \in Streams |-> 0]
    /\ taken = [s \in Streams |-> 0]
    /\ open = {}

Running == live \cup (IF child = "running" THEN {Child} ELSE {})

(***************************************************************************)
(* The command and its descendants                                          *)
(***************************************************************************)

\* A running process forks a descendant, which inherits its pipes and group.
Fork(p, d) ==
    /\ p \in Running \ doomed
    /\ d \in Descendants \ used
    /\ live' = live \cup {d}
    /\ used' = used \cup {d}
    /\ escaped' = IF p \in escaped THEN escaped \cup {d} ELSE escaped
    /\ holders' = [s \in Streams |->
                      IF p \in holders[s] THEN holders[s] \cup {d} ELSE holders[s]]
    /\ UNCHANGED <<callVars, exitCode, doomed, written, taken, open, signalled>>

\* A descendant leaves the process group (setsid).
Escape(d) ==
    /\ d \in live \ (doomed \cup escaped)
    /\ escaped' = escaped \cup {d}
    /\ UNCHANGED <<callVars, exitCode, live, used, doomed, holders, written, taken, open, signalled>>

\* A process writes one unit to a pipe it holds.
Write(p, s) ==
    /\ p \in (Running \cap holders[s]) \ doomed
    /\ phase = "select"
    /\ written[s] < MaxWritten
    /\ written' = [written EXCEPT ![s] = @ + 1]
    /\ UNCHANGED <<callVars, exitCode, live, used, escaped, doomed, holders, taken, open, signalled>>

\* A process closes its end of a pipe and goes on.
CloseEnd(p, s) ==
    /\ p \in (Running \cap holders[s]) \ doomed
    /\ holders' = [holders EXCEPT ![s] = @ \ {p}]
    /\ UNCHANGED <<callVars, exitCode, live, used, escaped, doomed, written, taken, open, signalled>>

Release(p) == holders' = [s \in Streams |-> holders[s] \ {p}]

\* The child ends: by itself with a code, or killed once SIGKILL is pending.
ChildExit(code) ==
    /\ child = "running"
    /\ (code = "killed") <=> (Child \in doomed)
    /\ child' = "zombie"
    /\ exitCode' = code
    /\ Release(Child)
    /\ UNCHANGED <<now, until, phase, outcome, live, used, escaped, doomed,
                   written, taken, open, signalled>>

\* A descendant ends, by itself or killed.
DescendantExit(d) ==
    /\ d \in live
    /\ live' = live \ {d}
    /\ Release(d)
    /\ UNCHANGED <<callVars, exitCode, used, escaped, doomed, written, taken, open, signalled>>

(***************************************************************************)
(* _run_bw                                                                  *)
(***************************************************************************)

\* The deadline has passed before the command is started.
TooLate ==
    /\ phase = "idle"
    /\ now >= Deadline
    /\ phase' = "returned"
    /\ outcome' = "TIMEOUT"
    /\ UNCHANGED <<now, until, child, osVars, taken, open, signalled>>

\* Popen raises OSError.
PopenFails ==
    /\ phase = "idle"
    /\ now < Deadline
    /\ phase' = "returned"
    /\ outcome' = "NOT_INVOKED"
    /\ UNCHANGED <<now, until, child, osVars, taken, open, signalled>>

\* Popen starts the command in a group of its own; both pipes are registered.
Popen ==
    /\ phase = "idle"
    /\ now < Deadline
    /\ phase' = "select"
    /\ until' = Deadline
    /\ child' = "running"
    /\ holders' = [s \in Streams |-> {Child}]
    /\ open' = Streams
    /\ UNCHANGED <<now, outcome, exitCode, live, used, escaped, doomed, written, taken,
                   signalled>>

\* Variant: the limit itself instead of one more byte.
RoomUpToLimit(s) == MaxOutput - taken[s]

\* How many units one os.read may ask for: remaining_bytes.
Room(s) == MaxOutput + 1 - taken[s]

\* What one os.read of stream s may return: at most what it asks for and what
\* the pipe holds; nothing means end of file, or that nothing was asked for.
Chunks(s) ==
    LET buffered == written[s] - taken[s]
    IN  {n \in 0..ChunkSize :
            /\ n <= Room(s) /\ n <= buffered
            /\ n = 0 => \/ Room(s) = 0
                        \/ buffered = 0 /\ holders[s] = {}}

\* A ready pipe is read; an empty read unregisters it.
Read(s) ==
    /\ phase = "select"
    /\ s \in open
    /\ \E n \in Chunks(s) :
          /\ taken[s] + n <= MaxOutput
          /\ taken' = [taken EXCEPT ![s] = @ + n]
          /\ open' = IF n = 0 THEN open \ {s} ELSE open
    /\ UNCHANGED <<callVars, osVars, signalled>>

\* Variant: kill is sent to the direct child instead of its group.
DoomChildOnly ==
    /\ doomed' = doomed \cup (Running \cap {Child})
    /\ signalled' = "group"

\* killpg marks every process of the group; when it raises OSError, only the
\* child is killed.
Doom ==
    \/ doomed' = doomed \cup (Running \ escaped) /\ signalled' = "group"
    \/ doomed' = doomed \cup (Running \cap {Child}) /\ signalled' = "child"

\* Variant: the child is polled, and so collected, before the group is killed.
KillGroupAfterPoll(o) ==
    /\ phase = "select"
    /\ phase' = "wait1"
    /\ until' = now + KillWait
    /\ outcome' = o
    /\ child' = IF child = "zombie" THEN "reaped" ELSE child
    /\ Doom
    /\ UNCHANGED <<now, exitCode, live, used, escaped, holders, written, open>>

\* _kill_process_group up to its first wait.
KillGroup(o) ==
    /\ phase = "select"
    /\ phase' = "wait1"
    /\ until' = now + KillWait
    /\ outcome' = o
    /\ Doom
    /\ UNCHANGED <<now, child, exitCode, live, used, escaped, holders, written, open>>

\* The loop ends with both pipes drained and time left.
Drained == open = {} /\ now < until /\ KillGroup("eof") /\ UNCHANGED taken

\* Variant: the deadline is only looked at behind the loop.
DeadlinePassedBehindLoop ==
    open = {} /\ now >= until /\ KillGroup("TIMEOUT") /\ UNCHANGED taken

\* The deadline is found passed, in the loop or behind it.
DeadlinePassed == now >= until /\ KillGroup("TIMEOUT") /\ UNCHANGED taken

\* A read takes a stream over the output limit.
OverLimit(s) ==
    /\ phase = "select"
    /\ s \in open
    /\ \E n \in Chunks(s) :
          /\ taken[s] + n > MaxOutput
          /\ taken' = [taken EXCEPT ![s] = @ + n]
    /\ KillGroup("LIMIT")

\* The selector or a read raises.
ReadFails == open # {} /\ KillGroup("IO_ERROR") /\ UNCHANGED taken

\* Variant: the exit code is handed on undecided.
ReapUndecided ==
    /\ phase \in {"wait1", "wait2"}
    /\ child = "zombie"
    /\ child' = "reaped"
    /\ phase' = "returned"
    /\ outcome' = IF outcome # "eof" THEN outcome ELSE exitCode
    /\ UNCHANGED <<now, until, osVars, taken, open, signalled>>

\* process.wait collects the child; the exit code decides a drained call.
Reap ==
    /\ phase \in {"wait1", "wait2"}
    /\ child = "zombie"
    /\ child' = "reaped"
    /\ phase' = "returned"
    /\ outcome' = IF outcome # "eof" THEN outcome
                  ELSE IF exitCode = "zero" THEN "ok" ELSE "EXIT"
    /\ UNCHANGED <<now, until, osVars, taken, open, signalled>>

\* The first wait expires: process.kill, and a second wait.
FirstWaitExpires ==
    /\ phase = "wait1"
    /\ now >= until
    /\ phase' = "wait2"
    /\ until' = now + KillWait
    /\ doomed' = doomed \cup (Running \cap {Child})
    /\ UNCHANGED <<now, child, outcome, exitCode, live, used, escaped, holders,
                   written, taken, open, signalled>>

\* Variant: a missing exit code counts as a nonzero one.
SecondWaitUnchecked ==
    /\ phase = "wait2"
    /\ now >= until
    /\ phase' = "returned"
    /\ outcome' = IF outcome = "eof" THEN "EXIT" ELSE outcome
    /\ UNCHANGED <<now, until, child, osVars, taken, open, signalled>>

\* The second wait expires: without an exit code the call is a timeout.
SecondWaitExpires ==
    /\ phase = "wait2"
    /\ now >= until
    /\ phase' = "returned"
    /\ outcome' = IF outcome = "eof" THEN "TIMEOUT" ELSE outcome
    /\ UNCHANGED <<now, until, child, osVars, taken, open, signalled>>

Tick ==
    /\ phase \in {"select", "wait1", "wait2"}
    /\ now < until
    /\ now' = now + 1
    /\ UNCHANGED <<until, phase, child, outcome, osVars, taken, open, signalled>>

(***************************************************************************)
(* The specification                                                        *)
(***************************************************************************)

Caller ==
    \/ TooLate \/ PopenFails \/ Popen
    \/ \E s \in Streams : Read(s) \/ OverLimit(s)
    \/ Drained \/ DeadlinePassed
    \/ Reap \/ FirstWaitExpires \/ SecondWaitExpires

Environment ==
    \/ ReadFails
    \/ \E p \in Processes, d \in Descendants : Fork(p, d)
    \/ \E d \in Descendants : Escape(d) \/ DescendantExit(d)
    \/ \E p \in Processes, s \in Streams : Write(p, s) \/ CloseEnd(p, s)
    \/ \E code \in {"zero", "nonzero", "killed"} : ChildExit(code)

Next == Caller \/ Environment \/ Tick

Spec == Init /\ [][Next]_vars

\* The caller is a running thread and time passes: nothing is assumed of the
\* command, nor that a read ever fails.
FairSpec == Spec /\ WF_vars(Caller) /\ WF_vars(Tick)

(***************************************************************************)
(* Properties                                                               *)
(***************************************************************************)

\* A call that succeeds hands over the whole output of a command that ended by
\* itself with code zero: the read loop never takes a full buffer for the end
\* of the stream, and a process the caller killed never counts as a success.
OkIsWholeOutput ==
    outcome = "ok" =>
        /\ exitCode = "zero"
        /\ \A s \in Streams : taken[s] = written[s] /\ taken[s] <= MaxOutput

\* Once _run_bw has returned, every process of the command's group that still
\* runs has SIGKILL pending, whichever way the loop was left; when killpg failed,
\* the direct child has.
NoUnsignalledSurvivor ==
    phase = "returned" =>
        /\ signalled = "group" => Running \ escaped \subseteq doomed
        /\ Running \cap {Child} \subseteq doomed

\* The group is signalled while the direct child is still unreaped, so its
\* process-group id cannot belong to another process by then.
SignalledBeforeReaped ==
    [][phase = "select" /\ phase' = "wait1" => child' \in {"running", "zombie"}]_vars

\* The call keeps the contract of BwCall: it returns within the deadline and two
\* waits, kills before it collects, and succeeds only through a collected child.
RefinesCall == Contract!CallInit /\ [][Contract!CallNext(Deadline)]_(Contract!callVars)

\* The call returns even when the command never ends, closes its pipes early or
\* leaves a descendant behind that keeps them open.
Returns == <>(phase = "returned")
=============================================================================
