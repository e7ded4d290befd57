--------------------------- MODULE BwSessionProofs ---------------------------
(***************************************************************************)
(* Lemmas about the steps of a CLI session: each keeps the types and the    *)
(* time bounds of BwSession.  They hold for every session that extends the  *)
(* module, whatever its own commands are.                                   *)
(***************************************************************************)
EXTENDS BwSession, TLAPS

\* A session starts well typed and on time.
LEMMA SessionStarts ==
    ASSUME NEW Commands, SessionBegins, now <= Budget
    PROVE  SessionTypeOK(Commands) /\ SessionTimely /\ ChildAttended
BY SessionAssumptions, KillWaitAssumption
   DEF SessionBegins, CallInit, SessionTypeOK, CallTypeOK, Phases, ChildStates, Outcomes,
       Failures, PCs, Preamble, SessionTimely, ChildAttended, CallTimely, Slowest

\* The end of a session, with or without an error, keeps the types.
LEMMA LeaveTyped ==
    ASSUME NEW Commands, SessionTypeOK(Commands), Leave,
           error' \in ErrorKinds \cup {"none"}
    PROVE  SessionTypeOK(Commands)'
BY SessionAssumptions DEF Leave, SessionTypeOK, CallTypeOK, PCs

\* A session that fails with a kind of error keeps the types.
LEMMA AbortTyped ==
    ASSUME NEW Commands, SessionTypeOK(Commands), NEW k \in ErrorKinds, Abort(k)
    PROVE  SessionTypeOK(Commands)'
BY LeaveTyped DEF Abort

\* The steps before the caller's own commands keep the types.
LEMMA PrepareTyped ==
    ASSUME NEW Commands, SessionTypeOK(Commands), Prepare
    PROVE  SessionTypeOK(Commands)'
<1> USE SessionAssumptions, KillWaitAssumption
    DEF SessionTypeOK, CallTypeOK, PCs, callVars
<1>1. CASE BeginStage
  BY <1>1 DEF BeginStage, Advance
<1>2. CASE StageDirFails
  BY <1>2 DEF StageDirFails, ErrorKinds, CallKinds
<1>3. CASE NextChunk
  BY <1>3 DEF NextChunk
<1>4. CASE ChunkRead
  BY <1>4 DEF ChunkRead
<1>5. CASE ChunkLate \/ Rejected \/ VersionRefused \/ NoSession
  BY <1>5, AbortTyped
     DEF ChunkLate, Rejected, VersionRefused, NoSession, ErrorKinds, CallKinds
<1>6. CASE Staged
  BY <1>6 DEF Staged, Advance, Preamble
<1>7. CASE StateDirFails
  BY <1>7 DEF StateDirFails, ErrorKinds, CallKinds
<1>8. CASE Verified
  BY <1>8 DEF Verified, Phases
<1>9. CASE CallFailed
  <2>1. PICK k \in KindsOf(outcome) : Abort(k)
    BY <1>9 DEF CallFailed
  <2>2. k \in ErrorKinds
    BY <2>1 DEF KindsOf, ErrorKinds, CallKinds
  <2> QED BY <2>1, <2>2, AbortTyped
<1>10. CASE VersionAccepted
  BY <1>10 DEF VersionAccepted, Advance, Preamble
<1>11. CASE Configured
  BY <1>11 DEF Configured, Advance, Preamble
<1>12. CASE LoggedIn
  BY <1>12 DEF LoggedIn, Advance, Preamble
<1>13. CASE Unlocked
  BY <1>13 DEF Unlocked, Advance, Preamble
<1>14. CASE Synced
  BY <1>14 DEF Synced
<1> QED
  BY <1>1, <1>2, <1>3, <1>4, <1>5, <1>6, <1>7, <1>8, <1>9, <1>10, <1>11, <1>12, <1>13,
     <1>14
     DEF Prepare

\* The steps of a call, of the child and of the clock keep the types.
LEMMA CallTyped ==
    ASSUME NEW Commands, SessionTypeOK(Commands),
           CallStep \/ CallCutShort \/ ChildStep \/ SessionTick
    PROVE  SessionTypeOK(Commands)'
<1> USE SessionAssumptions, KillWaitAssumption DEF SessionTypeOK, CallTypeOK, sessionVars
<1>1. CASE CallStep
  <2>1. CASE Spawn(CommandDeadline)
    BY <1>1, <2>1 DEF CallStep, Spawn, CommandDeadline, Phases, ChildStates, Outcomes
  <2>2. CASE SpawnFails(CommandDeadline)
    BY <1>1, <2>2 DEF CallStep, SpawnFails, Phases, Outcomes, Failures
  <2>3. CASE Kill("TIMEOUT")
    BY <1>1, <2>3 DEF CallStep, Kill, Killed, Phases, ChildStates, Outcomes, Failures
  <2>4. CASE \E exit \in {"ok", "EXIT"} : Reap(exit)
    BY <1>1, <2>4 DEF CallStep, Reap, Phases, ChildStates, Outcomes, Failures
  <2>5. CASE WaitAgain
    BY <1>1, <2>5 DEF CallStep, WaitAgain, Killed, Phases, ChildStates
  <2>6. CASE GiveUp
    BY <1>1, <2>6 DEF CallStep, GiveUp, Phases, Outcomes, Failures
  <2> QED
    BY <1>1, <2>1, <2>2, <2>3, <2>4, <2>5, <2>6 DEF CallStep
<1>2. CASE CallCutShort
  BY <1>2 DEF CallCutShort, Kill, Killed, Phases, ChildStates, Outcomes, Failures
<1>3. CASE ChildStep
  BY <1>3 DEF ChildStep, ChildEnds, ChildStates
<1>4. CASE SessionTick
  BY <1>4 DEF SessionTick, TickTo
<1> QED BY <1>1, <1>2, <1>3, <1>4

\* Leaving the session keeps its time bounds when its own work is over in time.
LEMMA LeaveTimely ==
    ASSUME now \in Nat, now <= Slowest, Leave
    PROVE  SessionTimely'
BY SessionAssumptions, KillWaitAssumption DEF Leave, SessionTimely, Slowest

\* A session that ends while no unsignalled child runs leaves none.
LEMMA LeaveAttended ==
    ASSUME ChildAttended, Leave, pc = "call" => phase # "select"
    PROVE  ChildAttended'
BY DEF ChildAttended, Leave

\* The steps before the caller's own commands keep the time bounds.
LEMMA PrepareTimely ==
    ASSUME NEW Commands, SessionTypeOK(Commands), SessionTimely, Prepare
    PROVE  SessionTimely'
<1> USE SessionAssumptions, KillWaitAssumption
    DEF SessionTypeOK, CallTypeOK, SessionTimely, callVars, Slowest
<1>1. CASE BeginStage \/ StageDirFails
  BY <1>1 DEF BeginStage, StageDirFails, Advance
<1>2. CASE NextChunk
  BY <1>2 DEF NextChunk, Late
<1>3. CASE ChunkRead
  BY <1>3 DEF ChunkRead
<1>4. CASE ChunkLate \/ Rejected
  BY <1>4, LeaveTimely DEF ChunkLate, Rejected, Abort
<1>5. CASE Staged \/ StateDirFails
  BY <1>5 DEF Staged, StateDirFails, Hashed, Late, Advance
<1>6. CASE Verified
  BY <1>6 DEF Verified, Hashed, Late, CallTimely
<1>7. CASE CallFailed
  BY <1>7, LeaveTimely DEF CallFailed, CallTimely, Abort
<1>8. CASE VersionRefused \/ NoSession
  BY <1>8, LeaveTimely DEF VersionRefused, NoSession, Succeeded, CallTimely, Abort
<1>9. CASE VersionAccepted \/ Configured \/ LoggedIn \/ Unlocked
  BY <1>9 DEF VersionAccepted, Configured, LoggedIn, Unlocked, Succeeded, CallTimely, Advance
<1>10. CASE Synced
  BY <1>10 DEF Synced, Succeeded, CallTimely
<1> QED
  BY <1>1, <1>2, <1>3, <1>4, <1>5, <1>6, <1>7, <1>8, <1>9, <1>10 DEF Prepare

\* The steps of a call, of the child and of the clock keep the time bounds.
LEMMA CallStepTimely ==
    ASSUME NEW Commands, SessionTypeOK(Commands), SessionTimely,
           CallStep \/ CallCutShort \/ ChildStep \/ SessionTick
    PROVE  SessionTimely'
<1> USE SessionAssumptions, KillWaitAssumption
    DEF SessionTypeOK, CallTypeOK, SessionTimely, CallTimely, sessionVars, Slowest
<1>1. CASE CallStep
  <2>1. CASE Spawn(CommandDeadline)
    BY <1>1, <2>1 DEF CallStep, Spawn, CommandDeadline
  <2>2. CASE SpawnFails(CommandDeadline)
    BY <1>1, <2>2 DEF CallStep, SpawnFails
  <2>3. CASE Kill("TIMEOUT")
    BY <1>1, <2>3 DEF CallStep, Kill
  <2>4. CASE \E exit \in {"ok", "EXIT"} : Reap(exit)
    BY <1>1, <2>4 DEF CallStep, Reap
  <2>5. CASE WaitAgain
    BY <1>1, <2>5 DEF CallStep, WaitAgain
  <2>6. CASE GiveUp
    BY <1>1, <2>6 DEF CallStep, GiveUp
  <2> QED
    BY <1>1, <2>1, <2>2, <2>3, <2>4, <2>5, <2>6 DEF CallStep
<1>2. CASE CallCutShort
  BY <1>2 DEF CallCutShort, Kill
<1>3. CASE ChildStep
  BY <1>3 DEF ChildStep, ChildEnds
<1>4. CASE SessionTick
  BY <1>4 DEF SessionTick, TickTo, Waiting, Blocked
<1> QED BY <1>1, <1>2, <1>3, <1>4

\* A child without SIGKILL stays inside the select loop of its call.
LEMMA PrepareAttended ==
    ASSUME ChildAttended, Prepare
    PROVE  ChildAttended'
<1>1. CASE BeginStage \/ StageDirFails \/ NextChunk \/ ChunkRead
  BY <1>1 DEF ChildAttended, BeginStage, StageDirFails, NextChunk, ChunkRead, Advance, callVars
<1>2. CASE ChunkLate \/ Rejected
  BY <1>2, LeaveAttended DEF ChunkLate, Rejected, Abort
<1>3. CASE Staged \/ StateDirFails \/ Verified
  BY <1>3 DEF ChildAttended, Staged, StateDirFails, Verified, Hashed, Advance, callVars
<1>4. CASE CallFailed \/ VersionRefused \/ NoSession
  BY <1>4, LeaveAttended DEF CallFailed, VersionRefused, NoSession, Succeeded, Abort
<1>5. CASE VersionAccepted \/ Configured \/ LoggedIn \/ Unlocked \/ Synced
  BY <1>5 DEF ChildAttended, VersionAccepted, Configured, LoggedIn, Unlocked, Synced,
              Succeeded, Advance, callVars
<1> QED BY <1>1, <1>2, <1>3, <1>4, <1>5 DEF Prepare

\* The steps of a call, of the child and of the clock keep it there.
LEMMA CallAttended ==
    ASSUME ChildAttended, CallStep \/ CallCutShort \/ ChildStep \/ SessionTick
    PROVE  ChildAttended'
BY DEF ChildAttended, CallStep, CallCutShort, ChildStep, SessionTick, sessionVars,
       Spawn, SpawnFails, Kill, Killed, Reap, WaitAgain, GiveUp, ChildEnds, TickTo
=============================================================================
