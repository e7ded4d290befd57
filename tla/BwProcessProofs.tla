---------------------------- MODULE BwProcessProofs ----------------------------
(***************************************************************************)
(* Theorems about BwProcess, for any number of descendants, every deadline, *)
(* output limit and read size:                                              *)
(*   - types;                                                               *)
(*   - a success is the whole output of a command that ended with zero;     *)
(*   - nobody in the command's group is left unsignalled;                   *)
(*   - the group is signalled before the child is collected;                *)
(*   - the supervision implements the contract of BwCall.                   *)
(***************************************************************************)
EXTENDS BwProcess, TLAPS

(***************************************************************************)
(* Types                                                                    *)
(***************************************************************************)

\* The contract's types, without its mapping.
CallOK ==
    /\ now \in Nat /\ until \in Int
    /\ phase \in {"idle", "select", "wait1", "wait2", "returned"}
    /\ child \in {"none", "running", "zombie", "reaped"}
    /\ outcome \in {"none", "eof", "ok", "TIMEOUT", "LIMIT", "IO_ERROR", "NOT_INVOKED", "EXIT"}

ProcessOK ==
    /\ exitCode \in {"none", "zero", "nonzero", "killed"}
    /\ live \subseteq used /\ used \subseteq Descendants /\ escaped \subseteq Descendants
    /\ doomed \subseteq Processes
    /\ signalled \in {"none", "group", "child"}

PipesOK ==
    /\ holders \in [Streams -> SUBSET Processes]
    /\ written \in [Streams -> 0..MaxWritten]
    /\ taken \in [Streams -> 0..MaxWritten]
    /\ open \subseteq Streams
    /\ \A s \in Streams : taken[s] <= written[s]

StateOK == CallOK /\ ProcessOK /\ PipesOK

\* Only running processes are doomed, and those are processes.
LEMMA RunningAreProcesses ==
    ASSUME ProcessOK PROVE Running \subseteq Processes
BY DEF ProcessOK, Running, Processes

\* The steps of the command and its descendants.
Command ==
    \/ \E p \in Processes, d \in Descendants : Fork(p, d)
    \/ \E d \in Descendants : Escape(d) \/ DescendantExit(d)
    \/ \E p \in Processes, s \in Streams : Write(p, s) \/ CloseEnd(p, s)
    \/ \E code \in {"zero", "nonzero", "killed"} : ChildExit(code)

\* What the command does keeps the types.
LEMMA CommandTyped ==
    ASSUME StateOK, Command
    PROVE  StateOK'
<1> USE DEF StateOK, CallOK, ProcessOK, PipesOK, callVars
<1>1. ASSUME NEW p \in Processes, NEW d \in Descendants, Fork(p, d) PROVE StateOK'
  BY <1>1 DEF Fork, Processes
<1>2. ASSUME NEW d \in Descendants, Escape(d) PROVE StateOK'
  BY <1>2 DEF Escape
<1>3. ASSUME NEW d \in Descendants, DescendantExit(d) PROVE StateOK'
  BY <1>3 DEF DescendantExit, Release
<1>4. ASSUME NEW p \in Processes, NEW s \in Streams, Write(p, s) PROVE StateOK'
  BY <1>4, ProcessAssumptions DEF Write
<1>5. ASSUME NEW p \in Processes, NEW s \in Streams, CloseEnd(p, s) PROVE StateOK'
  BY <1>5 DEF CloseEnd
<1>6. ASSUME NEW code \in {"zero", "nonzero", "killed"}, ChildExit(code) PROVE StateOK'
  BY <1>6 DEF ChildExit, Release
<1> QED BY <1>1, <1>2, <1>3, <1>4, <1>5, <1>6 DEF Command

\* The loop ends and the group is killed.
LEMMA KillTyped ==
    ASSUME StateOK, NEW o \in {"eof", "TIMEOUT", "LIMIT", "IO_ERROR"}, KillGroup(o),
           taken' \in [Streams -> 0..MaxWritten],
           \A s \in Streams : taken'[s] <= written[s]
    PROVE  StateOK'
<1>1. CallOK'
  BY ProcessAssumptions DEF StateOK, CallOK, KillGroup
<1>2. doomed' \subseteq Processes
  BY RunningAreProcesses DEF StateOK, ProcessOK, KillGroup, Doom
<1>3. ProcessOK'
  BY <1>2 DEF StateOK, ProcessOK, KillGroup, Doom
<1>4. PipesOK'
  BY DEF StateOK, PipesOK, KillGroup
<1> QED BY <1>1, <1>3, <1>4 DEF StateOK

\* A read returns no more than the pipe holds.
LEMMA ReadBounded ==
    ASSUME StateOK, NEW s \in Streams, NEW n \in Chunks(s),
           taken' = [taken EXCEPT ![s] = @ + n]
    PROVE  /\ taken' \in [Streams -> 0..MaxWritten]
           /\ \A r \in Streams : taken'[r] <= written[r]
<1>1. n \in Nat /\ n <= written[s] - taken[s]
  BY ProcessAssumptions DEF Chunks
<1> QED
  BY <1>1, ProcessAssumptions DEF StateOK, PipesOK

\* The steps of the caller and the clock.
LEMMA CallerTyped ==
    ASSUME StateOK, Caller \/ ReadFails \/ Tick
    PROVE  StateOK'
<1>1. CASE TooLate \/ PopenFails \/ SecondWaitExpires \/ Reap \/ Tick
  BY <1>1 DEF TooLate, PopenFails, SecondWaitExpires, Reap, Tick, osVars, StateOK, CallOK,
              ProcessOK, PipesOK
<1>2. CASE Popen
  BY <1>2, ProcessAssumptions DEF Popen, StateOK, CallOK, ProcessOK, PipesOK, Processes
<1>3. CASE FirstWaitExpires
  <2>1. doomed' \subseteq Processes
    BY <1>3 DEF FirstWaitExpires, StateOK, ProcessOK, Processes
  <2> QED
    BY <1>3, <2>1, ProcessAssumptions DEF FirstWaitExpires, StateOK, CallOK, ProcessOK, PipesOK
<1>4. ASSUME NEW s \in Streams, Read(s) PROVE StateOK'
  <2>1. PICK n \in Chunks(s) :
          /\ taken' = [taken EXCEPT ![s] = @ + n]
          /\ open' = IF n = 0 THEN open \ {s} ELSE open
    BY <1>4 DEF Read
  <2> QED
    BY <1>4, <2>1, ReadBounded
       DEF Read, callVars, osVars, StateOK, CallOK, ProcessOK, PipesOK
<1>5. ASSUME NEW s \in Streams, OverLimit(s) PROVE StateOK'
  BY <1>5, ReadBounded, KillTyped DEF OverLimit
<1>6. CASE Drained \/ DeadlinePassed \/ ReadFails
  BY <1>6, KillTyped DEF Drained, DeadlinePassed, ReadFails, StateOK, PipesOK
<1> QED BY <1>1, <1>2, <1>3, <1>4, <1>5, <1>6 DEF Caller

\* Every step is one of the command, of the caller or of the clock.
LEMMA StepsOf ==
    ASSUME [Next]_vars
    PROVE  Command \/ (Caller \/ ReadFails \/ Tick) \/ UNCHANGED vars
BY DEF Next, Environment, Command

\* The state keeps its types, and a pipe holds what was not read from it.
LEMMA StateTyped == Spec => []StateOK
<1>1. Init => StateOK
  BY ProcessAssumptions DEF Init, StateOK, CallOK, ProcessOK, PipesOK
<1>2. StateOK /\ UNCHANGED vars => StateOK'
  BY DEF vars, callVars, osVars, StateOK, CallOK, ProcessOK, PipesOK
<1>3. StateOK /\ [Next]_vars => StateOK'
  BY <1>2, StepsOf, CommandTyped, CallerTyped
<1> QED BY <1>1, <1>3, PTL DEF Spec

\* The types of the run, under the contract's view of the child.
THEOREM ProcessTypeCorrect == Spec => []TypeOK
<1>1. StateOK => TypeOK
  BY DEF StateOK, CallOK, ProcessOK, PipesOK, TypeOK, Contract!CallTypeOK, Contract!Phases,
         Contract!ChildStates, Contract!Outcomes, Contract!Failures
<1> QED BY <1>1, StateTyped, PTL

(***************************************************************************)
(* How far the call has come                                                *)
(***************************************************************************)

\* Before the command starts nothing has happened; while it runs under the loop
\* time is left and no outcome is known; afterwards somebody has been signalled.
CallInv ==
    /\ phase = "idle" =>
          /\ child = "none" /\ exitCode = "none" /\ outcome = "none"
          /\ signalled = "none"
          /\ \A s \in Streams : taken[s] = 0 /\ written[s] = 0
    /\ child = "none" <=> (phase = "idle" \/ (phase = "returned" /\ signalled = "none"))
    /\ child = "none" => live = {} /\ doomed = {} /\ outcome \in {"none", "TIMEOUT", "NOT_INVOKED"}
    /\ phase = "select" =>
          /\ now <= until /\ outcome = "none" /\ signalled = "none"
          /\ child \in {"running", "zombie"}
    /\ phase \in {"wait1", "wait2"} =>
          /\ signalled # "none" /\ child \in {"running", "zombie"}
          /\ outcome \in {"eof", "TIMEOUT", "LIMIT", "IO_ERROR"}
    /\ child = "running" => exitCode = "none"
    /\ outcome = "ok" => child = "reaped" /\ exitCode = "zero"

\* Whoever runs in the group after the kill is doomed.
GroupInv ==
    /\ signalled = "group" => Running \ escaped \subseteq doomed
    /\ signalled # "none" => Running \cap {Child} \subseteq doomed

\* A stream the selector has dropped is at its end, and nothing comes after it.
OutputInv ==
    /\ phase = "select" =>
          \A s \in Streams :
             /\ taken[s] <= MaxOutput
             /\ s \notin open => holders[s] = {} /\ taken[s] = written[s]
    /\ outcome \in {"eof", "ok"} =>
          /\ phase \notin {"idle", "select"}
          /\ \A s \in Streams : taken[s] = written[s] /\ taken[s] <= MaxOutput

ProcessInv == CallInv /\ GroupInv /\ OutputInv

\* The command's own steps.
LEMMA CommandKeepsInv ==
    ASSUME StateOK, ProcessInv, Command
    PROVE  ProcessInv'
<1> USE ProcessAssumptions DEF ProcessInv, CallInv, GroupInv, OutputInv, Running
<1>1. ASSUME NEW p \in Processes, NEW d \in Descendants, Fork(p, d) PROVE ProcessInv'
  <2>1. d # Child /\ d \notin live /\ p \in Running /\ p \notin doomed
    BY <1>1 DEF Fork, StateOK, ProcessOK
  <2>2. CallInv' /\ OutputInv'
    BY <1>1, <2>1 DEF Fork, callVars, StateOK, PipesOK
  <2>3. GroupInv'
    BY <1>1, <2>1 DEF Fork, callVars
  <2> QED BY <2>2, <2>3
<1>2. ASSUME NEW d \in Descendants, Escape(d) PROVE ProcessInv'
  BY <1>2 DEF Escape, callVars
<1>3. ASSUME NEW d \in Descendants, DescendantExit(d) PROVE ProcessInv'
  BY <1>3 DEF DescendantExit, Release, callVars, StateOK, PipesOK
<1>4. ASSUME NEW p \in Processes, NEW s \in Streams, Write(p, s) PROVE ProcessInv'
  BY <1>4 DEF Write, callVars, StateOK, PipesOK
<1>5. ASSUME NEW p \in Processes, NEW s \in Streams, CloseEnd(p, s) PROVE ProcessInv'
  BY <1>5 DEF CloseEnd, callVars, StateOK, PipesOK
<1>6. ASSUME NEW code \in {"zero", "nonzero", "killed"}, ChildExit(code) PROVE ProcessInv'
  BY <1>6 DEF ChildExit, Release, StateOK, PipesOK
<1> QED BY <1>1, <1>2, <1>3, <1>4, <1>5, <1>6 DEF Command

\* The loop ends: the group is killed, or only the child.
LEMMA KillKeepsInv ==
    ASSUME StateOK, ProcessInv, NEW o \in {"eof", "TIMEOUT", "LIMIT", "IO_ERROR"},
           KillGroup(o), o = "eof" => open = {} /\ taken' = taken
    PROVE  ProcessInv'
<1>1. CallInv'
  BY DEF ProcessInv, CallInv, KillGroup, Doom
<1>2. GroupInv'
  <2>1. Child \notin escaped /\ Running' = Running /\ escaped' = escaped
    BY ProcessAssumptions DEF KillGroup, Running, StateOK, ProcessOK
  <2> QED
    BY <2>1 DEF KillGroup, Doom, GroupInv
<1>3. OutputInv'
  BY DEF ProcessInv, CallInv, OutputInv, KillGroup
<1> QED BY <1>1, <1>2, <1>3 DEF ProcessInv

\* The caller's steps and the clock's.
LEMMA CallerKeepsInv ==
    ASSUME StateOK, ProcessInv, Caller \/ ReadFails \/ Tick
    PROVE  ProcessInv'
<1> USE ProcessAssumptions
<1>1. CASE TooLate \/ PopenFails \/ SecondWaitExpires \/ Tick
  BY <1>1 DEF TooLate, PopenFails, SecondWaitExpires, Tick, osVars, ProcessInv, CallInv,
              GroupInv, OutputInv, Running, StateOK, CallOK
<1>2. CASE Popen
  BY <1>2 DEF Popen, ProcessInv, CallInv, GroupInv, OutputInv, Running, StateOK, CallOK
<1>3. CASE Reap
  <2>1. /\ phase \in {"wait1", "wait2"} /\ phase' = "returned"
        /\ child = "zombie" /\ child' = "reaped"
        /\ UNCHANGED <<now, until, osVars, taken, open, signalled>>
    BY <1>3 DEF Reap
  <2>2. /\ outcome' \in {outcome, "ok", "EXIT"}
        /\ outcome' = "ok" => outcome = "eof" /\ exitCode = "zero"
        /\ outcome' # "eof"
    BY <1>3 DEF Reap, ProcessInv, CallInv
  <2>3. CallInv'
    BY <2>1, <2>2 DEF osVars, ProcessInv, CallInv
  <2>4. OutputInv'
    BY <2>1, <2>2 DEF osVars, ProcessInv, OutputInv
  <2>5. GroupInv'
    BY <2>1 DEF osVars, ProcessInv, GroupInv, Running
  <2> QED BY <2>3, <2>4, <2>5 DEF ProcessInv
<1>4. CASE FirstWaitExpires
  BY <1>4 DEF FirstWaitExpires, ProcessInv, CallInv, GroupInv, OutputInv, Running
<1>5. ASSUME NEW s \in Streams, Read(s) PROVE ProcessInv'
  <2>1. PICK n \in Chunks(s) :
          /\ taken[s] + n <= MaxOutput
          /\ taken' = [taken EXCEPT ![s] = @ + n]
          /\ open' = IF n = 0 THEN open \ {s} ELSE open
    BY <1>5 DEF Read
  <2>2. n \in Nat /\ (n = 0 => taken[s] = written[s] /\ holders[s] = {})
    BY <1>5 DEF Read, Chunks, Room, ProcessInv, OutputInv, StateOK, PipesOK
  <2>3. UNCHANGED <<callVars, osVars, signalled>> /\ phase = "select" /\ s \in open
    BY <1>5 DEF Read
  <2>4. OutputInv'
    <3>1. outcome' = "none" /\ phase' = "select"
      BY <2>3 DEF callVars, ProcessInv, CallInv
    <3>2. ASSUME NEW r \in Streams
          PROVE  /\ taken'[r] <= MaxOutput
                 /\ r \notin open' => holders[r] = {} /\ taken'[r] = written[r]
      <4>1. CASE r = s
        <5>1. taken[s] \in Nat /\ taken'[s] = taken[s] + n
          BY <2>1 DEF StateOK, PipesOK
        <5>2. CASE n = 0
          BY <2>1, <2>2, <4>1, <5>1, <5>2
        <5>3. CASE n # 0
          BY <2>1, <2>3, <4>1, <5>1, <5>3
        <5> QED BY <5>2, <5>3
      <4>2. CASE r # s
        BY <2>1, <2>3, <4>2 DEF ProcessInv, OutputInv, StateOK, PipesOK
      <4> QED BY <4>1, <4>2
    <3> QED
      BY <2>3, <3>1, <3>2 DEF osVars, OutputInv
  <2>5. CallInv' /\ GroupInv'
    BY <2>3 DEF callVars, osVars, ProcessInv, CallInv, GroupInv, Running
  <2> QED BY <2>4, <2>5 DEF ProcessInv
<1>6. CASE Drained \/ DeadlinePassed \/ ReadFails
  BY <1>6, KillKeepsInv DEF Drained, DeadlinePassed, ReadFails
<1>7. ASSUME NEW s \in Streams, OverLimit(s) PROVE ProcessInv'
  BY <1>7, KillKeepsInv DEF OverLimit
<1> QED BY <1>1, <1>2, <1>3, <1>4, <1>5, <1>6, <1>7 DEF Caller

\* The inductive invariant of the supervision.
THEOREM ProcessInvariant == Spec => [](StateOK /\ ProcessInv)
<1>1. Init => ProcessInv
  BY DEF Init, ProcessInv, CallInv, GroupInv, OutputInv
<1>2. ProcessInv /\ UNCHANGED vars => ProcessInv'
  BY DEF vars, callVars, osVars, ProcessInv, CallInv, GroupInv, OutputInv, Running
<1>3. StateOK /\ ProcessInv /\ [Next]_vars => ProcessInv'
  BY <1>2, StepsOf, CommandKeepsInv, CallerKeepsInv
<1> QED BY <1>1, <1>3, StateTyped, PTL DEF Spec

\* A success hands over the whole output of a command that ended with code zero.
THEOREM SuccessIsWhole == Spec => []OkIsWholeOutput
<1>1. StateOK /\ ProcessInv => OkIsWholeOutput
  BY DEF ProcessInv, CallInv, OutputInv, OkIsWholeOutput
<1> QED BY <1>1, ProcessInvariant, PTL

\* When _run_bw has returned nobody it could reach runs without a pending SIGKILL.
THEOREM NobodyUnsignalled == Spec => []NoUnsignalledSurvivor
<1>1. StateOK /\ ProcessInv => NoUnsignalledSurvivor
  BY ProcessAssumptions
     DEF StateOK, ProcessOK, ProcessInv, CallInv, GroupInv, NoUnsignalledSurvivor, Running
<1> QED BY <1>1, ProcessInvariant, PTL

\* The group is signalled while its leader is unreaped.
THEOREM LeaderStillThere == Spec => SignalledBeforeReaped
<1>1. StateOK /\ ProcessInv /\ [Next]_vars =>
        [phase = "select" /\ phase' = "wait1" => child' \in {"running", "zombie"}]_vars
  <2> SUFFICES ASSUME ProcessInv, [Next]_vars, phase = "select", phase' = "wait1"
               PROVE  child' \in {"running", "zombie"}
    OBVIOUS
  <2>1. child \in {"running", "zombie"}
    BY DEF ProcessInv, CallInv
  <2>2. child' = child \/ child' = "zombie"
    BY DEF Next, Environment, Caller, TooLate, PopenFails, Popen, Read, OverLimit, Drained,
           DeadlinePassed, ReadFails, KillGroup, Reap, FirstWaitExpires, SecondWaitExpires,
           Fork, Escape, DescendantExit, Write, CloseEnd, ChildExit, Tick, callVars, vars
  <2> QED BY <2>1, <2>2
<1> QED BY <1>1, ProcessInvariant, PTL DEF Spec, SignalledBeforeReaped

(***************************************************************************)
(* The contract                                                             *)
(***************************************************************************)

\* The child as the contract sees it.
Seen == IF child = "running" /\ Child \in doomed THEN "dying" ELSE child

contractVars == <<now, until, phase, Seen, outcome>>

\* What the command does on its own is its end, or nothing the contract sees.
LEMMA CommandKeepsContract ==
    ASSUME StateOK, ProcessInv, Command
    PROVE  Contract!ChildEnds \/ UNCHANGED contractVars
<1> USE DEF contractVars, Seen, callVars
<1>1. ASSUME NEW code \in {"zero", "nonzero", "killed"}, ChildExit(code)
      PROVE  Contract!ChildEnds
  BY <1>1 DEF ChildExit, Contract!ChildEnds
<1>2. ASSUME NEW p \in Processes, NEW d \in Descendants, Fork(p, d)
      PROVE  UNCHANGED contractVars
  BY <1>2 DEF Fork
<1>3. ASSUME NEW d \in Descendants, Escape(d) \/ DescendantExit(d)
      PROVE  UNCHANGED contractVars
  BY <1>3 DEF Escape, DescendantExit
<1>4. ASSUME NEW p \in Processes, NEW s \in Streams, Write(p, s) \/ CloseEnd(p, s)
      PROVE  UNCHANGED contractVars
  BY <1>4 DEF Write, CloseEnd
<1> QED BY <1>1, <1>2, <1>3, <1>4 DEF Command

\* The end of the loop is the contract's kill, also when killpg fails.
LEMMA KillKeepsContract ==
    ASSUME StateOK, ProcessInv, NEW o \in {"eof", "TIMEOUT", "LIMIT", "IO_ERROR"},
           KillGroup(o),
           o = "eof" => now < until, o = "TIMEOUT" => now >= until
    PROVE  Contract!Kill(o)
<1>1. Seen' = IF Seen = "running" THEN "dying" ELSE Seen
  BY ProcessAssumptions
     DEF Seen, KillGroup, Doom, Running, ProcessInv, CallInv, StateOK, ProcessOK
<1>2. phase = "select" /\ now <= until
  BY DEF KillGroup, ProcessInv, CallInv
<1> QED
  BY <1>1, <1>2 DEF KillGroup, Contract!Kill, Contract!Killed, Seen

\* Each step of the caller is the contract's step of the same name, or a read.
LEMMA CallerKeepsContract ==
    ASSUME StateOK, ProcessInv, Caller \/ ReadFails \/ Tick
    PROVE  Contract!CallNext(Deadline) \/ UNCHANGED contractVars
<1> USE DEF Contract!CallNext
<1>1. CASE TooLate
  BY <1>1 DEF TooLate, osVars, Contract!TooLate
<1>2. CASE PopenFails
  BY <1>2 DEF PopenFails, osVars, Contract!SpawnFails
<1>3. CASE Popen
  <2>1. Child \notin doomed /\ outcome = "none"
    BY <1>3 DEF Popen, ProcessInv, CallInv
  <2> QED
    BY <1>3, <2>1 DEF Popen, Contract!Spawn
<1>4. ASSUME NEW s \in Streams, Read(s) PROVE UNCHANGED contractVars
  BY <1>4 DEF Read, callVars, osVars, contractVars, Seen
<1>5. ASSUME NEW s \in Streams, OverLimit(s) PROVE Contract!Kill("LIMIT")
  BY <1>5, KillKeepsContract DEF OverLimit
<1>6. CASE Drained
  BY <1>6, KillKeepsContract DEF Drained
<1>7. CASE DeadlinePassed
  BY <1>7, KillKeepsContract DEF DeadlinePassed
<1>8. CASE ReadFails
  BY <1>8, KillKeepsContract DEF ReadFails
<1>9. CASE Reap
  <2> DEFINE exit == IF exitCode = "zero" THEN "ok" ELSE "EXIT"
  <2>1. Contract!Reap(exit)
    BY <1>9 DEF Reap, osVars, Contract!Reap
  <2> QED BY <2>1
<1>10. CASE FirstWaitExpires
  <2>1. Seen' = IF Seen = "running" THEN "dying" ELSE Seen
    BY <1>10 DEF FirstWaitExpires, Seen, Running
  <2>2. Contract!WaitAgain
    BY <1>10, <2>1 DEF FirstWaitExpires, Seen, Contract!WaitAgain, Contract!Killed
  <2> QED BY <2>2
<1>11. CASE SecondWaitExpires
  BY <1>11 DEF SecondWaitExpires, osVars, Contract!GiveUp
<1>12. CASE Tick
  BY <1>12 DEF Tick, osVars, Contract!Blocked, Contract!TickTo
<1> QED
  BY <1>1, <1>2, <1>3, <1>4, <1>5, <1>6, <1>7, <1>8, <1>9, <1>10, <1>11, <1>12 DEF Caller

\* _run_bw keeps the contract its callers are modelled with.
THEOREM ProcessRefinesCall == Spec => RefinesCall
<1>1. Init => Contract!CallInit
  BY ProcessAssumptions DEF Init, Contract!CallInit
<1>2. StateOK /\ ProcessInv /\ [Next]_vars =>
        [Contract!CallNext(Deadline)]_(Contract!callVars)
  <2> SUFFICES ASSUME StateOK, ProcessInv, [Next]_vars
               PROVE  Contract!CallNext(Deadline) \/ UNCHANGED Contract!callVars
    OBVIOUS
  <2>1. UNCHANGED contractVars => UNCHANGED Contract!callVars
    BY DEF contractVars, Seen, Contract!callVars
  <2>2. UNCHANGED vars => UNCHANGED contractVars
    BY DEF vars, callVars, osVars, contractVars, Seen
  <2>3. Contract!ChildEnds => Contract!CallNext(Deadline)
    BY DEF Contract!CallNext
  <2> QED
    BY <2>1, <2>2, <2>3, StepsOf, CommandKeepsContract, CallerKeepsContract
<1> QED BY <1>1, <1>2, ProcessInvariant, PTL DEF Spec, RefinesCall
=============================================================================
