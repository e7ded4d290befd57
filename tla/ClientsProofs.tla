----------------------------- MODULE ClientsProofs -----------------------------
(***************************************************************************)
(* Theorems about SessionClients, for all settings, items, budgets and      *)
(* numbers of fields:                                                       *)
(*   - types and time bounds of doctor, lookup and the fill tool;           *)
(*   - what runs is the pinned build;                                       *)
(*   - what is left behind is reported, what is typed comes from a session  *)
(*     that ended well and from an item within the boundary;                *)
(*   - doctor speaks for the checks of the others.                          *)
(***************************************************************************)
EXTENDS SessionClients, BwSessionProofs

SessionOK == SessionTypeOK({"collections", "items", "get"})
Timely == SessionTimely /\ ChildAttended

(***************************************************************************)
(* The session's part of a step                                             *)
(***************************************************************************)

\* The caller's own commands and its end are steps of a session.
LEMMA OwnStepsKeepSession ==
    ASSUME SessionOK, Timely,
           \/ AskCollections \/ AskItems \/ AskItem
           \/ VersionChecked \/ CollectionsListed \/ ItemsListed \/ FieldRead
    PROVE  SessionOK' /\ Timely'
<1> USE DEF SessionOK, Timely
<1>1. CASE AskCollections \/ AskItems \/ AskItem
  <2>1. PICK s \in {"collections", "items", "get"} : Ask(s)
    BY <1>1 DEF AskCollections, AskItems, AskItem
  <2>2. SessionOK'
    BY <2>1, SessionAssumptions DEF Ask, Advance, SessionTypeOK, CallTypeOK, callVars, PCs
  <2>3. Timely'
    BY <2>1 DEF Ask, Advance, SessionTimely, CallTimely, ChildAttended, callVars
  <2> QED BY <2>2, <2>3
<1>2. CASE VersionChecked \/ CollectionsListed \/ ItemsListed \/ FieldRead
  <2>1. /\ pc = "call" /\ phase = "returned"
        /\ \/ \E k \in ErrorKinds : Abort(k)
           \/ Leave /\ error' = error
           \/ /\ pc' = "data"
              /\ UNCHANGED <<callVars, step, left, env, dirs, executable, error>>
    BY <1>2 DEF VersionChecked, DoctorStops, CollectionsListed, ItemsListed, FieldRead,
                Succeeded, Conclude, Spoil, ErrorKinds, CallKinds
  <2>2. CASE Leave /\ (error' = error \/ \E k \in ErrorKinds : Abort(k))
    <3>1. error' \in ErrorKinds \cup {"none"}
      BY <2>2 DEF SessionTypeOK, Abort
    <3>2. now \in Nat /\ now <= Slowest
      BY <2>1 DEF SessionTypeOK, CallTypeOK, SessionTimely, CallTimely
    <3> QED
      BY <2>1, <2>2, <3>1, <3>2, LeaveTyped, LeaveTimely, LeaveAttended
  <2>3. CASE /\ pc' = "data"
             /\ UNCHANGED <<callVars, step, left, env, dirs, executable, error>>
    <3>1. SessionOK'
      BY <2>3 DEF SessionTypeOK, CallTypeOK, callVars, PCs
    <3>2. Timely'
      BY <2>1, <2>3 DEF SessionTimely, CallTimely, ChildAttended, callVars
    <3> QED BY <3>1, <3>2
  <2> QED
    BY <2>1, <2>2, <2>3 DEF Abort
<1> QED BY <1>1, <1>2

\* So is its clean-up.
LEMMA CloseKeepsSession ==
    ASSUME SessionOK, Timely, CloseState \/ CloseStage
    PROVE  SessionOK' /\ Timely'
<1> USE SessionAssumptions, KillWaitAssumption
<1>1. PICK ok \in BOOLEAN :
        \/ /\ pc = "leave_state" /\ pc' = "leave_stage"
           /\ error' = IF ok THEN error ELSE "INTERNAL"
           /\ dirs' = IF ok THEN dirs \ {"state"} ELSE dirs
           /\ until' = now + CleanupTime
           /\ UNCHANGED <<now, phase, child, outcome>>
           /\ UNCHANGED <<step, left, env, executable>>
        \/ /\ pc = "leave_stage" /\ pc' = "done"
           /\ error' \in {error, "INTERNAL"}
           /\ dirs' = IF ok THEN dirs \ {"stage"} ELSE dirs
           /\ UNCHANGED <<callVars, step, left, env, executable>>
  BY DEF CloseState, CloseStage, LeaveState, LeaveStage, Masked
<1>2. SessionOK'
  <2>1. error' \in ErrorKinds \cup {"none"}
    BY <1>1 DEF SessionOK, SessionTypeOK, ErrorKinds, CallKinds
  <2>2. dirs' \subseteq {"stage", "state"}
    BY <1>1 DEF SessionOK, SessionTypeOK
  <2>3. pc' \in PCs /\ CallTypeOK'
    BY <1>1 DEF SessionOK, SessionTypeOK, CallTypeOK, PCs, callVars
  <2> QED
    BY <1>1, <2>1, <2>2, <2>3 DEF SessionOK, SessionTypeOK, callVars
<1>3. Timely'
  BY <1>1 DEF SessionOK, Timely, SessionTypeOK, CallTypeOK, SessionTimely, ChildAttended,
              callVars, Slowest
<1> QED BY <1>2, <1>3

\* Every step keeps the session's types, time bounds and child.
LEMMA ClientKeepsSession ==
    ASSUME SessionOK, Timely, [Next]_vars
    PROVE  SessionOK' /\ Timely'
<1>1. CASE Refuse
  <2>1. error' \in ErrorKinds
    BY <1>1 DEF Refuse, ErrorKinds, CallKinds
  <2>2. SessionOK'
    BY <1>1, <2>1 DEF Refuse, SessionOK, SessionTypeOK, CallTypeOK, callVars, PCs
  <2>3. Timely'
    BY <1>1, SessionAssumptions, KillWaitAssumption
       DEF Refuse, SessionOK, Timely, SessionTypeOK, CallTypeOK, SessionTimely, ChildAttended,
           callVars, Slowest
  <2> QED BY <2>2, <2>3
<1>2. CASE PrepareSession
  BY <1>2, PrepareTyped, PrepareTimely, PrepareAttended DEF PrepareSession, SessionOK, Timely
<1>3. CASE RunsCommand \/ CliEnds \/ Tick
  BY <1>3, CallTyped, CallStepTimely, CallAttended
     DEF RunsCommand, CliEnds, Tick, SessionOK, Timely
<1>4. CASE \/ AskCollections \/ AskItems \/ AskItem
           \/ VersionChecked \/ CollectionsListed \/ ItemsListed \/ FieldRead
  BY <1>4, OwnStepsKeepSession
<1>5. CASE CloseState \/ CloseStage
  BY <1>5, CloseKeepsSession
<1>6. CASE CliSyncs \/ (\E f \in Fills : Converse(f) \/ ReportFailure(f)) \/ UNCHANGED vars
  <2>1. UNCHANGED <<callVars, sessionVars>>
    BY <1>6 DEF CliSyncs, Converse, ReportFailure, vars
  <2> QED
    BY <2>1 DEF SessionOK, Timely, SessionTypeOK, CallTypeOK, SessionTimely, CallTimely,
                ChildAttended, callVars, sessionVars
<1> QED
  BY <1>1, <1>2, <1>3, <1>4, <1>5, <1>6 DEF Next, Client

\* A client starts within its time.
LEMMA ClientStarts == Init => SessionOK /\ Timely
<1> SUFFICES ASSUME Init PROVE SessionOK /\ Timely
  OBVIOUS
<1>1. now <= Budget /\ SessionBegins
  BY ClientAssumptions, SessionAssumptions DEF Init
<1> QED
  BY <1>1, SessionStarts DEF SessionOK, Timely

\* The session of a client is in time, whatever the CLI does.
LEMMA ClientAlwaysTimely == Spec => [](SessionOK /\ Timely)
<1>1. SessionOK /\ Timely /\ [Next]_vars => (SessionOK /\ Timely)'
  BY ClientKeepsSession
<1> QED BY <1>1, ClientStarts, PTL DEF Spec

\* doctor, lookup and the fill tool's session are over in time, for every budget
\* and every time-out of a command.
THEOREM ClientEndsInTime == Spec => []EndsInTime
<1>1. SessionOK /\ Timely => EndsInTime
  BY SessionAssumptions, KillWaitAssumption
     DEF SessionOK, SessionTypeOK, CallTypeOK, Phases, PCs, Timely, SessionTimely, CallTimely,
         Slowest, EndsInTime
<1> QED BY <1>1, ClientAlwaysTimely, PTL

(***************************************************************************)
(* Types                                                                    *)
(***************************************************************************)

DataOK ==
    /\ StageTypeOK
    /\ settings \in Configs
    /\ client \in Clients
    /\ asked \in Items \cup {Junk}
    /\ cache \in Vaults \cup {NoCache}
    /\ field \in Names \cup {NoName}
    /\ answer \in {"none", "ambiguous", "listed", "checked", "value"}
    /\ Fill!PromiseTypeOK

\* A chunk of the executable is copied to its place in the copy.
LEMMA StageStepTyped ==
    ASSUME SessionOK, StageTypeOK, StageStep
    PROVE  StageTypeOK'
<1>1. CASE copy' = copy
  BY <1>1 DEF StageTypeOK
<1>2. CASE CopyChunk
  BY <1>2 DEF CopyChunk, StageTypeOK, Builds
<1> QED BY <1>1, <1>2 DEF StageStep

\* Every step keeps the types of what a client keeps besides its session.
LEMMA ClientKeepsData ==
    ASSUME SessionOK, DataOK, [Next]_vars
    PROVE  DataOK'
<1> USE DEF DataOK, Vaults
<1>1. CASE PrepareSession
  BY <1>1, StageStepTyped DEF PrepareSession, Quiet, clientVars, Fill!PromiseTypeOK
<1>2. CASE CliSyncs
  BY <1>2 DEF CliSyncs, StageTypeOK, Fill!PromiseTypeOK
<1>3. CASE VersionChecked \/ CollectionsListed \/ ItemsListed \/ FieldRead
  <2>1. UNCHANGED <<copy, settings, client, asked, cache, result, effect>>
    BY <1>3 DEF VersionChecked, CollectionsListed, ItemsListed, FieldRead, Conclude, Spoil,
                Quiet, clientVars
  <2>2. /\ answer' \in {answer, "ambiguous", "listed", "checked", "value"}
        /\ field' \in Names \cup {field, NoName}
    BY <1>3 DEF VersionChecked, CollectionsListed, ItemsListed, FieldRead, Conclude, Spoil,
                Quiet, clientVars
  <2> QED
    BY <2>1, <2>2 DEF StageTypeOK, Fill!PromiseTypeOK
<1>4. CASE \E f \in Fills : Converse(f) \/ ReportFailure(f)
  <2>1. PICK f \in Fills :
          \/ Fill!Touch(f) \/ Fill!Type(f)
          \/ Fill!Succeed(f) \/ Fill!Refuse(f) \/ Fill!Fail(f)
    BY <1>4 DEF Converse, ReportFailure
  <2>2. Fill!PromiseTypeOK'
    BY <2>1 DEF Fill!Touch, Fill!Type, Fill!Succeed, Fill!Refuse, Fill!Fail, Fill!Return,
                Fill!PromiseTypeOK, Fill!Results, Fill!Effects
  <2> QED
    BY <1>4, <2>2 DEF Converse, ReportFailure, clientVars, StageTypeOK
<1>5. CASE \/ Refuse \/ RunsCommand \/ CliEnds \/ Tick \/ CloseState \/ CloseStage
           \/ AskCollections \/ AskItems \/ AskItem \/ UNCHANGED vars
  <2>1. UNCHANGED <<copy, clientVars, result, effect>>
    BY <1>5 DEF Refuse, RunsCommand, CliEnds, Tick, CloseState, CloseStage, AskCollections,
                AskItems, AskItem, Ask, Quiet, vars
  <2> QED
    BY <2>1 DEF clientVars, StageTypeOK, Fill!PromiseTypeOK
<1> QED
  BY <1>1, <1>2, <1>3, <1>4, <1>5 DEF Next, Client

\* The variables keep their types, for every set of settings and items.
THEOREM ClientTypeCorrect == Spec => []TypeOK
<1>1. Init => DataOK
  BY DEF Init, DataOK, StageInit, StageTypeOK, Clients, Fill!PromiseInit, Fill!PromiseTypeOK,
         Fill!Results, Fill!Effects
<1>2. SessionOK /\ DataOK /\ [Next]_vars => DataOK'
  BY ClientKeepsData
<1>3. SessionOK /\ DataOK => TypeOK
  BY DEF SessionOK, DataOK, TypeOK
<1> QED BY <1>1, <1>2, <1>3, ClientAlwaysTimely, PTL DEF Spec

(***************************************************************************)
(* The staged executable                                                    *)
(***************************************************************************)

\* Nothing runs before the executable is staged, it is staged only from a copy
\* with the right digest, and the copy is not written to afterwards.
PinnedInv ==
    /\ pc \in {"start", "chunk", "io"} /\ step = "stage" => executable = "none"
    /\ pc = "start" => step = "stage"
    /\ pc \in {"call", "data"} \/ child # "none" => executable = "open"
    /\ pc \in {"chunk", "io"} /\ step # "stage" => executable = "open"
    /\ executable = "open" => DigestMatches

\* The session's end keeps it.
LEMMA LeaveKeepsPinned ==
    ASSUME PinnedInv, Leave, copy' = copy
    PROVE  PinnedInv'
BY DEF PinnedInv, Leave, DigestMatches

\* Staging opens a copy of the pinned build only, and does not write to it later.
LEMMA PrepareKeepsPinned ==
    ASSUME SessionOK, PinnedInv, Prepare, StageStep
    PROVE  PinnedInv'
<1>1. copy' = copy \/ (pc = "io" /\ step = "stage" /\ pc' = "chunk")
  BY DEF StageStep
<1>2. CASE ChunkRead
  <2>1. CASE step = "stage"
    BY <1>2, <2>1 DEF ChunkRead, PinnedInv, callVars
  <2>2. CASE step # "stage"
    BY <1>1, <1>2, <2>2 DEF ChunkRead, PinnedInv, DigestMatches, callVars
  <2> QED BY <2>1, <2>2
<1>3. CASE ChunkLate \/ Rejected \/ VersionRefused \/ NoSession \/ CallFailed
  <2>1. Leave
    BY <1>3 DEF ChunkLate, Rejected, VersionRefused, NoSession, CallFailed, Abort
  <2>2. copy' = copy
    BY <1>1, <2>1 DEF Leave
  <2> QED BY <2>1, <2>2, LeaveKeepsPinned
<1>4. CASE BeginStage \/ StageDirFails \/ NextChunk
  BY <1>1, <1>4 DEF BeginStage, StageDirFails, NextChunk, Advance, PinnedInv, DigestMatches,
                    callVars
<1>5. CASE Staged \/ StateDirFails
  <2>1. copy' = copy /\ executable = "none" /\ executable' = "open"
    BY <1>1, <1>5 DEF Staged, StateDirFails, Hashed, PinnedInv
  <2>2. DigestMatches'
    BY <2>1 DEF StageStep, DigestMatches
  <2> QED
    BY <1>5, <2>1, <2>2 DEF Staged, StateDirFails, Hashed, Advance, PinnedInv, callVars
<1>6. CASE Verified
  BY <1>1, <1>6 DEF Verified, Hashed, PinnedInv, DigestMatches
<1>7. CASE VersionAccepted \/ Configured \/ LoggedIn \/ Unlocked \/ Synced
  BY <1>1, <1>7 DEF VersionAccepted, Configured, LoggedIn, Unlocked, Synced, Succeeded,
                    Advance, PinnedInv, DigestMatches, callVars
<1> QED
  BY <1>2, <1>3, <1>4, <1>5, <1>6, <1>7 DEF Prepare

\* The staged copy is the pinned build from the moment it is opened.
LEMMA AlwaysPinned == Spec => []PinnedInv
<1>1. Init => PinnedInv
  BY DEF Init, SessionBegins, CallInit, PinnedInv
<1>2. SessionOK /\ PinnedInv /\ [Next]_vars => PinnedInv'
  <2> SUFFICES ASSUME SessionOK, PinnedInv, [Next]_vars PROVE PinnedInv'
    OBVIOUS
  <2>1. CASE Refuse
    BY <2>1 DEF Refuse, PinnedInv, DigestMatches, callVars
  <2>2. CASE PrepareSession
    BY <2>2, PrepareKeepsPinned DEF PrepareSession
  <2>3. CASE RunsCommand \/ CliEnds \/ Tick
    <3>1. UNCHANGED <<sessionVars, copy>>
      BY <2>3 DEF RunsCommand, CallStep, CliEnds, ChildStep, CallCutShort, Tick, SessionTick
    <3>2. child' = child \/ child # "none" \/ pc = "call"
      BY <2>3 DEF RunsCommand, CallStep, CliEnds, ChildStep, ChildEnds, CallCutShort, Tick,
                  SessionTick, TickTo
    <3> QED
      BY <3>1, <3>2 DEF PinnedInv, DigestMatches, sessionVars
  <2>4. CASE AskCollections \/ AskItems \/ AskItem
    BY <2>4 DEF AskCollections, AskItems, AskItem, Ask, Advance, PinnedInv, DigestMatches,
                callVars
  <2>5. CASE VersionChecked \/ CollectionsListed \/ ItemsListed \/ FieldRead
    <3>1. /\ copy' = copy
          /\ \/ Leave
             \/ /\ pc = "call" /\ pc' = "data"
                /\ UNCHANGED <<callVars, step, left, env, dirs, executable, error>>
      BY <2>5 DEF VersionChecked, DoctorStops, CollectionsListed, ItemsListed, FieldRead,
                  Succeeded, Conclude, Spoil, Abort
    <3> QED
      BY <3>1, LeaveKeepsPinned DEF PinnedInv, DigestMatches, callVars
  <2>6. CASE CloseState \/ CloseStage
    BY <2>6 DEF CloseState, CloseStage, LeaveState, LeaveStage, PinnedInv, DigestMatches,
                callVars
  <2>7. CASE CliSyncs \/ (\E f \in Fills : Converse(f) \/ ReportFailure(f)) \/ UNCHANGED vars
    BY <2>7 DEF CliSyncs, Converse, ReportFailure, vars, callVars, sessionVars, PinnedInv,
                DigestMatches
  <2> QED
    BY <2>1, <2>2, <2>3, <2>4, <2>5, <2>6, <2>7 DEF Next, Client
<1> QED BY <1>1, <1>2, ClientAlwaysTimely, PTL DEF Spec

\* No byte of another build is run, whatever is written to the configured file
\* while it is copied.
THEOREM ClientRunsPinnedBuild == Spec => []RunsPinnedBuild
<1>1. PinnedInv => RunsPinnedBuild
  BY DEF PinnedInv, DigestMatches, RunsPinnedBuild
<1> QED BY <1>1, AlwaysPinned, PTL

(***************************************************************************)
(* How a call ends                                                          *)
(***************************************************************************)

Working == {"chunk", "io", "call", "data"}

\* A successful command has been collected.
CollectedInv ==
    pc = "call" =>
        /\ phase \in {"wait1", "wait2"} => outcome # "ok"
        /\ phase = "returned" /\ outcome = "ok" => child = "reaped"

\* What is left of the directories once there is no error.
LeavingInv ==
    /\ pc = "start" => dirs = {}
    /\ pc \in Working \cup {"start"} => error = "none" /\ answer = "none"
    /\ pc = "leave_state" /\ error = "none" => executable = "open"
    /\ pc = "leave_stage" /\ error = "none" => executable = "open" /\ dirs \subseteq {"stage"}
    /\ pc = "done" /\ error = "none" /\ answer # "ambiguous" => dirs = {}

\* The field read is listed, if anything of its name is.
Listed == field.kept # "" => SafeText(field) \in AvailableFields(cache.fields)

\* What an answer rests on.
AnswerInv ==
    /\ pc \in Working \/ answer # "none" => Passes(Checks)
    /\ answer = "value" => child = "reaped" /\ cache.member /\ Listed

\* What was done to the page rests on the answer.
EffectInv ==
    \A f \in Fills : effect[f] # "none" =>
        pc = "done" /\ client = "fill" /\ answer = "value" /\ error = "none"

EndInv == CollectedInv /\ LeavingInv /\ AnswerInv /\ EffectInv

\* The session ends with an error, or with an answer from a staged executable.
LEMMA LeaveKeepsEnd ==
    ASSUME SessionOK, EndInv, Leave, pc \in Working,
           UNCHANGED <<settings, client, asked, cache, result, effect>>,
           error' # "none" \/ executable = "open",
           answer' = "value" => child = "reaped" /\ cache.member /\ Listed'
    PROVE  EndInv'
<1>1. pc' \in {"leave_state", "leave_stage"}
  BY DEF Leave
<1>2. CollectedInv'
  BY <1>1 DEF CollectedInv
<1>3. LeavingInv'
  BY <1>1 DEF Leave, LeavingInv, Working, SessionOK, SessionTypeOK
<1>4. AnswerInv'
  <2>1. Passes(Checks) /\ Checks' = Checks
    BY DEF EndInv, AnswerInv, Checks
  <2> QED
    BY <2>1 DEF Leave, AnswerInv, Listed, Passes
<1>5. EffectInv'
  BY DEF EndInv, EffectInv, Working
<1> QED BY <1>2, <1>3, <1>4, <1>5 DEF EndInv

\* The steps before the caller's own commands.
LEMMA PrepareKeepsEnd ==
    ASSUME SessionOK, PinnedInv, EndInv, PrepareSession
    PROVE  EndInv'
<1>1. /\ UNCHANGED <<settings, client, asked, cache, field, answer, result, effect>>
      /\ Prepare /\ (pc = "start" => Passes(Checks))
  BY DEF PrepareSession, Quiet, clientVars
<1>2. Passes(Checks) /\ Checks' = Checks /\ Passes(Checks)' /\ pc \in Working \cup {"start"}
  <2>1. pc \in Working \cup {"start"}
    BY <1>1 DEF Prepare, BeginStage, StageDirFails, NextChunk, ChunkRead, ChunkLate, Rejected,
                Staged, StateDirFails, Hashed, Verified, CallFailed, VersionAccepted,
                VersionRefused, Configured, LoggedIn, Unlocked, NoSession, Synced, Succeeded,
                Working
  <2> QED
    BY <1>1, <2>1 DEF EndInv, AnswerInv, Checks, Passes
<1>3. answer = "none"
  BY <1>2 DEF EndInv, LeavingInv
<1>4. CASE ChunkLate \/ Rejected \/ VersionRefused \/ NoSession \/ CallFailed
  <2>1. PICK k \in ErrorKinds : Abort(k)
    BY <1>4 DEF ChunkLate, Rejected, VersionRefused, NoSession, CallFailed, KindsOf,
                ErrorKinds, CallKinds
  <2>2. k # "none" /\ pc \in Working
    BY <1>4 DEF ErrorKinds, CallKinds, ChunkLate, Rejected, VersionRefused, NoSession,
                CallFailed, Succeeded, Working
  <2> QED
    BY <1>1, <1>3, <2>1, <2>2, LeaveKeepsEnd DEF Abort
<1>5. CASE StageDirFails \/ StateDirFails
  BY <1>1, <1>2, <1>3, <1>5
     DEF StageDirFails, StateDirFails, Hashed, EndInv, CollectedInv, LeavingInv, AnswerInv,
         EffectInv, Working
<1>6. CASE \/ BeginStage \/ NextChunk \/ ChunkRead \/ Staged \/ Verified
           \/ VersionAccepted \/ Configured \/ LoggedIn \/ Unlocked \/ Synced
  <2>1. /\ pc' \in Working /\ error' = error
        /\ pc' = "call" => phase' = "idle"
    BY <1>6 DEF BeginStage, NextChunk, ChunkRead, Staged, Verified, VersionAccepted, Configured,
                LoggedIn, Unlocked, Synced, Advance, Working
  <2> QED
    BY <1>1, <1>2, <1>3, <2>1 DEF EndInv, CollectedInv, LeavingInv, AnswerInv, EffectInv, Working
<1> QED
  BY <1>1, <1>4, <1>5, <1>6 DEF Prepare

\* A call, the child and the clock.
LEMMA CallKeepsEnd ==
    ASSUME SessionOK, EndInv, RunsCommand \/ CliEnds \/ Tick
    PROVE  EndInv'
<1>1. UNCHANGED <<sessionVars, settings, client, asked, cache, field, answer, result, effect>>
  BY DEF RunsCommand, CallStep, CliEnds, ChildStep, CallCutShort, Tick, SessionTick, Quiet,
         clientVars
<1>2. CollectedInv' /\ (child = "reaped" /\ pc # "call" => child' = "reaped")
  <2>1. CASE CallStep
    BY <2>1 DEF CallStep, Spawn, SpawnFails, Kill, Reap, WaitAgain, GiveUp, EndInv,
                CollectedInv, sessionVars
  <2>2. CASE CallCutShort
    BY <2>2 DEF CallCutShort, Kill, EndInv, CollectedInv, sessionVars
  <2>3. CASE ChildStep
    BY <2>3 DEF ChildStep, ChildEnds, EndInv, CollectedInv, sessionVars
  <2>4. CASE SessionTick
    BY <2>4 DEF SessionTick, TickTo, EndInv, CollectedInv, sessionVars
  <2> QED
    BY <2>1, <2>2, <2>3, <2>4 DEF RunsCommand, CliEnds, Tick
<1>3. answer = "value" => child' = "reaped"
  BY <1>2 DEF EndInv, LeavingInv, AnswerInv, Working
<1> QED
  BY <1>1, <1>2, <1>3 DEF EndInv, LeavingInv, AnswerInv, EffectInv, sessionVars, Checks,
                          Passes, Listed, AvailableFields, SafeText

\* A field with a value is listed, unless nothing is kept of its name.
LEMMA HasValueListed ==
    ASSUME NEW fields, NEW name, HasValue(fields, name), name.kept # ""
    PROVE  SafeText(name) \in AvailableFields(fields)
<1>1. SafeText(name) # NoName
  BY DEF SafeText, NoName
<1> QED BY <1>1 DEF HasValue, AvailableFields

\* doctor's and lookup's answers and the field for the fill tool.
LEMMA AnswerKeepsEnd ==
    ASSUME SessionOK, PinnedInv, EndInv,
           VersionChecked \/ CollectionsListed \/ ItemsListed \/ FieldRead
    PROVE  EndInv'
<1>1. /\ pc = "call" /\ phase = "returned" /\ outcome = "ok" /\ executable = "open"
      /\ answer = "none" /\ child = "reaped"
  BY DEF VersionChecked, DoctorStops, CollectionsListed, ItemsListed, FieldRead, Succeeded,
         PinnedInv, EndInv, CollectedInv, LeavingInv, Working
<1>2. UNCHANGED <<settings, client, asked, cache, result, effect>>
  BY DEF VersionChecked, CollectionsListed, ItemsListed, FieldRead, Conclude, Spoil, Quiet,
         clientVars
<1>3. CASE pc' = "data"
  <2>1. UNCHANGED <<phase, child, outcome, dirs, executable, error, answer>>
    BY <1>1, <1>3 DEF VersionChecked, CollectionsListed, ItemsListed, FieldRead, Conclude,
                      Spoil, Abort, Leave, callVars, Quiet, clientVars
  <2> QED
    BY <1>1, <1>2, <1>3, <2>1
       DEF EndInv, CollectedInv, LeavingInv, AnswerInv, EffectInv, Working, Checks, Passes
<1>4. CASE pc' # "data"
  <2>1. Leave
    BY <1>4 DEF VersionChecked, CollectionsListed, ItemsListed, FieldRead, Conclude, Spoil,
                Abort
  <2>2. answer' = "value" => cache.member /\ Listed'
    <3>1. answer' = "value" => ItemUsable /\ HasValue(cache.fields, field')
      BY <1>1 DEF VersionChecked, CollectionsListed, ItemsListed, FieldRead, Conclude, Spoil,
                  Quiet, clientVars
    <3> QED
      BY <1>2, <3>1, HasValueListed DEF ItemUsable, Listed
  <2> QED
    BY <1>1, <1>2, <2>1, <2>2, LeaveKeepsEnd DEF Working
<1> QED BY <1>3, <1>4

\* The clean-up.
LEMMA CloseKeepsEnd ==
    ASSUME SessionOK, EndInv, CloseState \/ CloseStage
    PROVE  EndInv'
<1>1. /\ UNCHANGED <<settings, client, asked, cache, field, answer, result, effect, child, executable>>
      /\ pc \in {"leave_state", "leave_stage"} /\ pc' \in {"leave_stage", "done"}
  BY DEF CloseState, CloseStage, LeaveState, LeaveStage, Quiet, clientVars, callVars
<1>2. LeavingInv'
  <2>1. CASE CloseState
    BY <2>1 DEF CloseState, LeaveState, EndInv, LeavingInv, Working, SessionOK, SessionTypeOK
  <2>2. CASE CloseStage
    BY <1>1, <2>2 DEF CloseStage, LeaveStage, Masked, EndInv, LeavingInv, Working
  <2> QED BY <2>1, <2>2
<1>3. CollectedInv' /\ EffectInv'
  BY <1>1 DEF EndInv, CollectedInv, EffectInv
<1>4. AnswerInv'
  BY <1>1 DEF EndInv, AnswerInv, Working, Checks, Passes, Listed, AvailableFields, SafeText
<1> QED BY <1>2, <1>3, <1>4 DEF EndInv

\* The conversation of the fill tool.
LEMMA ConverseKeepsEnd ==
    ASSUME DataOK, EndInv, NEW f \in Fills, Converse(f) \/ ReportFailure(f)
    PROVE  EndInv'
<1>1. UNCHANGED <<callVars, sessionVars, settings, client, asked, cache, field, answer>>
  BY DEF Converse, ReportFailure, clientVars
<1>2. CASE Converse(f)
  <2>1. \A g \in Fills : g # f => effect'[g] = effect[g]
    BY <1>2 DEF Converse, Fill!Touch, Fill!Type, Fill!Succeed, Fill!Refuse, Fill!Fail,
                Fill!Return, DataOK, Fill!PromiseTypeOK
  <2>2. EffectInv'
    BY <1>1, <1>2, <2>1 DEF Converse, HasField, EndInv, EffectInv, sessionVars
  <2> QED
    BY <1>1, <2>2 DEF EndInv, CollectedInv, LeavingInv, AnswerInv, Checks, Passes,
                      Listed, AvailableFields, SafeText, callVars, sessionVars
<1>3. CASE ReportFailure(f)
  <2>1. effect' = effect
    BY <1>3 DEF ReportFailure, Fill!Fail, Fill!Return
  <2> QED
    BY <1>1, <2>1 DEF EndInv, CollectedInv, LeavingInv, AnswerInv, EffectInv, Checks, Passes,
                      Listed, AvailableFields, SafeText, callVars, sessionVars
<1> QED BY <1>2, <1>3

\* Every step keeps what is known of the end of a call.
LEMMA ClientKeepsEnd ==
    ASSUME SessionOK, DataOK, PinnedInv, EndInv, [Next]_vars
    PROVE  EndInv'
<1>1. CASE Refuse
  <2>1. answer = "none" /\ dirs = {} /\ error' # "none"
    BY <1>1 DEF Refuse, EndInv, LeavingInv, ErrorKinds, CallKinds
  <2> QED
    BY <1>1, <2>1 DEF Refuse, Quiet, clientVars, EndInv, CollectedInv, LeavingInv, AnswerInv,
                      EffectInv, Working
<1>2. CASE AskCollections \/ AskItems \/ AskItem
  <2>1. /\ pc = "data" /\ pc' = "chunk"
        /\ UNCHANGED <<callVars, dirs, executable, error, clientVars, result, effect>>
    BY <1>2 DEF AskCollections, AskItems, AskItem, Ask, Advance, Quiet
  <2> QED
    BY <2>1 DEF callVars, clientVars, EndInv, CollectedInv, LeavingInv, AnswerInv, EffectInv,
                Working, Checks, Passes
<1>3. CASE CliSyncs
  BY <1>3 DEF CliSyncs, callVars, sessionVars, EndInv, CollectedInv, LeavingInv, AnswerInv,
              EffectInv, Working, Checks, Passes
<1>4. CASE UNCHANGED vars
  BY <1>4 DEF vars, clientVars, callVars, sessionVars, EndInv, CollectedInv, LeavingInv,
              AnswerInv, EffectInv, Checks, Passes, Listed, AvailableFields, SafeText
<1> QED
  BY <1>1, <1>2, <1>3, <1>4, PrepareKeepsEnd, CallKeepsEnd, AnswerKeepsEnd, CloseKeepsEnd,
     ConverseKeepsEnd DEF Next, Client

\* What is known of the end of a call holds throughout.
LEMMA AlwaysEnds == Spec => []EndInv
<1>1. Init => EndInv
  BY DEF Init, SessionBegins, CallInit, Fill!PromiseInit, EndInv, CollectedInv, LeavingInv,
         AnswerInv, EffectInv, Working
<1>2. Init => DataOK
  BY DEF Init, DataOK, StageInit, StageTypeOK, Clients, Fill!PromiseInit, Fill!PromiseTypeOK,
         Fill!Results, Fill!Effects
<1>3. SessionOK /\ DataOK /\ PinnedInv /\ EndInv /\ [Next]_vars => DataOK' /\ EndInv'
  BY ClientKeepsData, ClientKeepsEnd
<1> QED BY <1>1, <1>2, <1>3, ClientAlwaysTimely, AlwaysPinned, PTL DEF Spec

\* A directory left behind is reported, but by lookup's early return.
THEOREM ClientReportsLeftovers == Spec => []LeftoversReported
<1>1. EndInv => LeftoversReported
  BY DEF EndInv, LeavingInv, LeftoversReported
<1> QED BY <1>1, AlwaysEnds, PTL

\* Nothing is typed or cleared before the session is over, with everything in order.
THEOREM ClientTypesAfterSession == Spec => []TypedAfterSession
<1>1. EndInv => TypedAfterSession
  BY DEF EndInv, LeavingInv, AnswerInv, EffectInv, TypedAfterSession
<1> QED BY <1>1, AlwaysEnds, PTL

\* lookup lists what can be typed, under the name its sanitizing makes of it.
THEOREM ClientListsFilledFields == Spec => []FilledFieldsAreListed
<1>1. EndInv => FilledFieldsAreListed
  BY DEF EndInv, AnswerInv, Listed, FilledFieldsAreListed
<1> QED BY <1>1, AlwaysEnds, PTL

(***************************************************************************)
(* The checks of the settings                                               *)
(***************************************************************************)

\* Checks one after the other pass when each part does.
LEMMA PassesBoth ==
    ASSUME NEW S, NEW T, NEW a \in Seq(S), NEW b \in Seq(T)
    PROVE  Passes(a \o b) <=> Passes(a) /\ Passes(b)
<1>0. a \in Seq(S \cup T) /\ b \in Seq(S \cup T)
  OBVIOUS
<1>1. \A k \in DOMAIN a : k \in DOMAIN (a \o b) /\ (a \o b)[k] = a[k]
  BY <1>0
<1>2. \A k \in DOMAIN b : Len(a) + k \in DOMAIN (a \o b) /\ (a \o b)[Len(a) + k] = b[k]
  BY <1>0
<1>3. \A k \in DOMAIN (a \o b) :
        \/ k \in DOMAIN a
        \/ k - Len(a) \in DOMAIN b /\ (a \o b)[k] = b[k - Len(a)]
  BY <1>0
<1> QED BY <1>1, <1>2, <1>3 DEF Passes

\* What it means that the checks of the bootstrap credentials pass.
LEMMA BootstrapPasses ==
    ASSUME NEW s \in AllSettings
    PROVE  /\ \E S : BootstrapChecks(s) \in Seq(S)
           /\ Passes(BootstrapChecks(s)) <=> s.names /\ s.credentials /\ s.binary
<1> DEFINE c1 == Check(~s.names, "REF_INVALID")
           c2 == Check(~s.credentials, "NOT_CONFIGURED")
           c3 == Check(~s.binary, "BINARY_MISSING")
<1>1. /\ c1.fails <=> ~s.names
      /\ c2.fails <=> ~s.credentials
      /\ c3.fails <=> ~s.binary
  BY DEF Check
<1>2. BootstrapChecks(s) = <<c1, c2, c3>>
  BY DEF BootstrapChecks
<1> HIDE DEF c1, c2, c3
<1>3. BootstrapChecks(s) \in Seq({c1, c2, c3})
  BY <1>2
<1>4. Passes(BootstrapChecks(s)) <=> ~c1.fails /\ ~c2.fails /\ ~c3.fails
  BY <1>2 DEF Passes
<1> QED BY <1>1, <1>3, <1>4

\* What it means that the checks of the fill tool pass.
LEMMA FillPasses ==
    ASSUME NEW s \in AllSettings, NEW item
    PROVE  Passes(FillChecks(s, item)) <=>
              /\ item \in s.allowlist \ {Junk}
              /\ s.collection /\ s.server = "ok" /\ s.digest
              /\ Passes(BootstrapChecks(s))
<1> DEFINE c1 == Check(item \notin s.allowlist \ {Junk}, "REF_INVALID")
           c2 == Check(~s.collection, "NOT_CONFIGURED")
           c3 == Check(s.server # "ok", "NOT_CONFIGURED")
           c4 == Check(~s.digest, "NOT_CONFIGURED")
           own == <<c1, c2, c3, c4>>
<1>1. /\ c1.fails <=> item \notin s.allowlist \ {Junk}
      /\ c2.fails <=> ~s.collection
      /\ c3.fails <=> s.server # "ok"
      /\ c4.fails <=> ~s.digest
  BY DEF Check
<1>2. FillChecks(s, item) = own \o BootstrapChecks(s)
  BY DEF FillChecks
<1> HIDE DEF c1, c2, c3, c4
<1>3. own \in Seq({c1, c2, c3, c4})
  OBVIOUS
<1>4. Passes(own) <=> ~c1.fails /\ ~c2.fails /\ ~c3.fails /\ ~c4.fails
  BY DEF Passes
<1> HIDE DEF own
<1> QED
  BY <1>1, <1>2, <1>3, <1>4, PassesBoth, BootstrapPasses

\* What it means that the checks of lookup pass.
LEMMA LookupPasses ==
    ASSUME NEW s \in AllSettings
    PROVE  Passes(LookupChecks(s)) <=> s.server = "ok" /\ Passes(BootstrapChecks(s))
<1> DEFINE c1 == Check(s.server # "ok", "NOT_CONFIGURED")
           own == <<c1>>
<1>1. c1.fails <=> s.server # "ok"
  BY DEF Check
<1>2. LookupChecks(s) = own \o BootstrapChecks(s)
  BY DEF LookupChecks
<1> HIDE DEF c1
<1>3. own \in Seq({c1})
  OBVIOUS
<1>4. Passes(own) <=> ~c1.fails
  BY DEF Passes
<1> HIDE DEF own
<1> QED
  BY <1>1, <1>2, <1>3, <1>4, PassesBoth, BootstrapPasses

\* Settings doctor accepts are good for lookup and for every allowlisted item.
LEMMA DoctorCovers ==
    ASSUME NEW s \in AllSettings, Passes(DoctorChecks(s))
    PROVE  /\ Passes(LookupChecks(s))
           /\ \A i \in s.allowlist : Passes(FillChecks(s, i))
<1>1. PICK S : ConfigChecks(s) \in Seq(S)
  <2> DEFINE c1 == Check(s.server = "missing", "NOT_CONFIGURED")
             c2 == Check(s.server = "extra", "REF_INVALID")
             c3 == Check(~s.collection, "NOT_CONFIGURED")
             c4 == Check(s.allowlist = {}, "NOT_CONFIGURED")
             c5 == Check(Junk \in s.allowlist, "REF_INVALID")
             c6 == Check(s.bound = {}, "NOT_CONFIGURED")
             c7 == Check(~(s.bound \subseteq s.allowlist \ {Junk}), "REF_INVALID")
             c8 == Check(~s.digest, "NOT_CONFIGURED")
             c9 == Check(~s.interpreter, "REF_INVALID")
  <2>1. ConfigChecks(s) = <<c1, c2, c3, c4, c5, c6, c7, c8, c9>>
    BY DEF ConfigChecks
  <2> HIDE DEF c1, c2, c3, c4, c5, c6, c7, c8, c9
  <2>2. ConfigChecks(s) \in Seq({c1, c2, c3, c4, c5, c6, c7, c8, c9})
    BY <2>1
  <2> QED BY <2>2
<1>2. Passes(ConfigChecks(s)) /\ Passes(BootstrapChecks(s))
  BY <1>1, PassesBoth, BootstrapPasses DEF DoctorChecks
<1>3. /\ s.server = "ok" /\ s.collection /\ s.digest
      /\ Junk \notin s.allowlist
  <2>1. DOMAIN ConfigChecks(s) = 1..9
    BY DEF ConfigChecks
  <2>2. /\ ~ConfigChecks(s)[1].fails /\ ~ConfigChecks(s)[2].fails
        /\ ~ConfigChecks(s)[3].fails /\ ~ConfigChecks(s)[5].fails
        /\ ~ConfigChecks(s)[8].fails
    BY <1>2, <2>1 DEF Passes
  <2>3. s.server # "missing" /\ s.server # "extra" /\ s.collection /\ s.digest
        /\ Junk \notin s.allowlist
    BY <2>2 DEF ConfigChecks, Check, AllSettings
  <2> QED
    BY <2>3 DEF AllSettings
<1> QED
  BY <1>2, <1>3, FillPasses, LookupPasses

\* What is typed comes from an item the settings allow and the vault's copy has in
\* the configured collection.
THEOREM ClientTypesWithinBoundary == Spec => []TypedWithinBoundary
<1>1. DataOK /\ EndInv => TypedWithinBoundary
  <2> SUFFICES ASSUME DataOK, EndInv, NEW f \in Fills, effect[f] # "none"
               PROVE  asked \in settings.allowlist /\ cache.member
    BY DEF TypedWithinBoundary
  <2>1. client = "fill" /\ Passes(Checks) /\ cache.member
    BY DEF EndInv, EffectInv, AnswerInv
  <2>2. Passes(FillChecks(settings, asked))
    BY <2>1 DEF Checks, Lookups
  <2>3. settings \in AllSettings
    BY ClientAssumptions DEF DataOK
  <2> QED
    BY <2>1, <2>2, <2>3, FillPasses
<1>2. TypeOK => DataOK
  BY DEF TypeOK, DataOK
<1> QED BY <1>1, <1>2, AlwaysEnds, ClientTypeCorrect, PTL

\* When doctor finds nothing wrong, the checks of the others pass.
THEOREM DoctorSpeaks == Spec => []DoctorSpeaksForAll
<1>1. DataOK /\ EndInv => DoctorSpeaksForAll
  <2> SUFFICES ASSUME DataOK, EndInv, client = "doctor", answer = "checked"
               PROVE  /\ Passes(LookupChecks(settings))
                      /\ \A i \in settings.allowlist : Passes(FillChecks(settings, i))
    BY DEF DoctorSpeaksForAll
  <2>1. Passes(DoctorChecks(settings))
    <3>1. Passes(Checks)
      BY DEF EndInv, AnswerInv
    <3>2. Checks = DoctorChecks(settings)
      BY DEF Checks, Lookups
    <3> QED BY <3>1, <3>2
  <2>2. settings \in AllSettings
    BY ClientAssumptions DEF DataOK
  <2> QED
    BY <2>1, <2>2, DoctorCovers
<1>2. TypeOK => DataOK
  BY DEF TypeOK, DataOK
<1> QED BY <1>1, <1>2, AlwaysEnds, ClientTypeCorrect, PTL
=============================================================================
