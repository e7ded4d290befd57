----------------------------- MODULE FetchProofs -----------------------------
(***************************************************************************)
(* Theorems about VaultwardenFetch, for every vault, every binding of       *)
(* variables to items and every choice of timeouts with                     *)
(* 2 * KillWait + 2 * CleanupTime <= Reserve:                               *)
(*   - types;                                                               *)
(*   - the time bounds of a fetch;                                          *)
(*   - a successful result is one snapshot of the vault;                    *)
(*   - leftovers are reported and commands do not overlap.                  *)
(***************************************************************************)
EXTENDS VaultwardenFetch, BwSessionProofs

SessionOK == SessionTypeOK({"get"})

DataOK ==
    /\ vault \in Vaults
    /\ cache \in Vaults \cup {NoCache}
    /\ todo \subseteq BoundItems
    /\ got \in [BoundItems -> Vaults \cup {NoCache}]
    /\ \E bound \in SUBSET EnvNames : secrets \in [bound -> 0..MaxEdits]

(***************************************************************************)
(* The session's part of a step                                             *)
(***************************************************************************)

\* Every step of the fetch keeps the session's types, time bounds and child.
LEMMA FetchKeepsSession ==
    ASSUME SessionOK, Timely, [Next]_vars
    PROVE  SessionOK' /\ Timely'
<1> USE DEF SessionOK, Timely
<1>1. CASE Refuse
  <2>1. SessionOK'
    BY <1>1 DEF Refuse, SessionTypeOK, CallTypeOK, callVars, PCs, ErrorKinds, CallKinds
  <2>2. Timely'
    BY <1>1, SessionAssumptions, KillWaitAssumption
       DEF Refuse, SessionTypeOK, CallTypeOK, SessionTimely, ChildAttended, callVars,
           Slowest
  <2> QED BY <2>1, <2>2
<1>2. CASE PrepareSession
  BY <1>2, PrepareTyped, PrepareTimely, PrepareAttended DEF PrepareSession
<1>3. CASE RunsCommand \/ CliEnds \/ Tick
  BY <1>3, CallTyped, CallStepTimely, CallAttended DEF RunsCommand, CliEnds, Tick
<1>4. CASE GetItem \/ ItemAccepted
  <2>1. SessionOK'
    <3>1. CASE GetItem
      BY <3>1, SessionAssumptions
         DEF GetItem, Advance, SessionTypeOK, CallTypeOK, callVars, PCs
    <3>2. CASE ItemAccepted
      BY <3>2 DEF ItemAccepted, SessionTypeOK, CallTypeOK, callVars, PCs
    <3> QED BY <1>4, <3>1, <3>2
  <2>2. Timely'
    BY <1>4 DEF GetItem, ItemAccepted, Succeeded, Advance, SessionTimely, CallTimely,
                ChildAttended, callVars
  <2> QED BY <2>1, <2>2
<1>5. CASE ItemRefused
  <2>1. PICK k \in ErrorKinds : Abort(k)
    BY <1>5 DEF ItemRefused, ErrorKinds, CallKinds
  <2>2. SessionOK'
    BY <2>1, AbortTyped
  <2>3. Timely'
    BY <1>5, <2>1, LeaveTimely, LeaveAttended
       DEF ItemRefused, Succeeded, Abort, SessionTypeOK, CallTypeOK, SessionTimely, CallTimely
  <2> QED BY <2>2, <2>3
<1>6. CASE BindFails
  <2>1. PICK k \in ErrorKinds : Abort(k)
    BY <1>6 DEF BindFails, ErrorKinds, CallKinds
  <2>2. SessionOK'
    BY <2>1, AbortTyped
  <2>3. Timely'
    BY <1>6, <2>1, LeaveTimely, LeaveAttended
       DEF BindFails, Abort, SessionTypeOK, CallTypeOK, SessionTimely
  <2> QED BY <2>2, <2>3
<1>7. CASE Complete
  <2>1. SessionOK'
    BY <1>7, LeaveTyped DEF Complete, SessionTypeOK
  <2>2. Timely'
    BY <1>7, LeaveTimely, LeaveAttended
       DEF Complete, SessionTypeOK, CallTypeOK, SessionTimely
  <2> QED BY <2>1, <2>2
<1>8. CASE CloseState
  <2>0. PICK ok \in BOOLEAN : LeaveState(ok)
    BY <1>8 DEF CloseState
  <2>1. SessionOK'
    <3>1. error' \in ErrorKinds \cup {"none"}
      BY <2>0 DEF LeaveState, SessionTypeOK, ErrorKinds, CallKinds
    <3>2. dirs' \subseteq {"stage", "state"}
      BY <2>0 DEF LeaveState, SessionTypeOK
    <3>3. pc' \in PCs /\ CallTypeOK'
      BY <2>0, SessionAssumptions DEF LeaveState, SessionTypeOK, CallTypeOK, PCs
    <3> QED
      BY <2>0, <3>1, <3>2, <3>3 DEF LeaveState, SessionTypeOK
  <2>2. Timely'
    BY <2>0, SessionAssumptions, KillWaitAssumption
       DEF LeaveState, SessionTypeOK, CallTypeOK, SessionTimely, ChildAttended, Slowest
  <2> QED BY <2>1, <2>2
<1>9. CASE CloseStage
  <2>0. PICK ok \in BOOLEAN : LeaveStage(ok)
    BY <1>9 DEF CloseStage
  <2>1. SessionOK'
    <3>1. error' \in ErrorKinds \cup {"none"}
      BY <2>0 DEF LeaveStage, SessionTypeOK, ErrorKinds, CallKinds
    <3>2. dirs' \subseteq {"stage", "state"}
      BY <2>0 DEF LeaveStage, SessionTypeOK
    <3>3. pc' \in PCs /\ CallTypeOK'
      BY <2>0 DEF LeaveStage, SessionTypeOK, CallTypeOK, PCs, callVars
    <3> QED
      BY <2>0, <3>1, <3>2, <3>3 DEF LeaveStage, SessionTypeOK, callVars
  <2>2. Timely'
    BY <2>0, SessionAssumptions, KillWaitAssumption
       DEF LeaveStage, SessionTypeOK, CallTypeOK, SessionTimely, ChildAttended, callVars,
           Slowest
  <2> QED BY <2>1, <2>2
<1>10. CASE Edit \/ CliSyncs \/ Bind
  BY <1>10 DEF Edit, CliSyncs, Bind, SessionTypeOK, CallTypeOK, SessionTimely, CallTimely,
               ChildAttended, callVars, sessionVars
<1>11. CASE UNCHANGED vars
  BY <1>11 DEF vars, SessionTypeOK, CallTypeOK, SessionTimely, CallTimely, ChildAttended,
               callVars, sessionVars
<1> QED
  BY <1>1, <1>2, <1>3, <1>4, <1>5, <1>6, <1>7, <1>8, <1>9, <1>10, <1>11 DEF Next, Fetch

\* Each part of a fetch stops in time, and a child that has not been sent SIGKILL
\* is inside the select loop of its call.
THEOREM AlwaysTimely == Spec => [](SessionOK /\ Timely)
<1>1. Init => SessionOK /\ Timely
  BY SessionStarts, SessionAssumptions DEF Init, SessionInit, SessionOK, Timely
<1>2. SessionOK /\ Timely /\ [Next]_vars => (SessionOK /\ Timely)'
  BY FetchKeepsSession
<1> QED BY <1>1, <1>2, PTL DEF Spec

\* fetch has returned when the orchestrator abandons it.
THEOREM FetchReturnsBeforeAbandoned == Spec => []ReturnsBeforeAbandoned
<1>1. SessionOK /\ Timely => ReturnsBeforeAbandoned
  BY SessionAssumptions, KillWaitAssumption, FetchAssumptions
     DEF SessionOK, SessionTypeOK, CallTypeOK, Phases, PCs, Timely, SessionTimely, CallTimely,
         Slowest, ReturnsBeforeAbandoned
<1> QED BY <1>1, AlwaysTimely, PTL

\* No CLI process without SIGKILL outlives the fetch's time.
THEOREM CliKilledBeforeAbandoned == Spec => []KilledBeforeAbandoned
<1>1. SessionOK /\ Timely => KilledBeforeAbandoned
  BY SessionAssumptions, KillWaitAssumption, FetchAssumptions
     DEF SessionOK, SessionTypeOK, CallTypeOK, Timely, SessionTimely, CallTimely,
         ChildAttended, KilledBeforeAbandoned
<1> QED BY <1>1, AlwaysTimely, PTL

(***************************************************************************)
(* The result's part of a step                                              *)
(***************************************************************************)

\* Every step keeps the types of the vault, its copy and the result.
LEMMA FetchKeepsData ==
    ASSUME DataOK, [Next]_vars
    PROVE  DataOK'
<1> USE FetchAssumptions DEF DataOK, BoundItems
<1>1. CASE Edit
  <2>1. vault' \in Vaults
    <3>1. vault.rev + 1 \in 0..MaxEdits
      <4>1. vault.rev \in 0..MaxEdits
        BY DEF Vaults
      <4>2. vault.rev < MaxEdits
        BY <1>1 DEF Edit
      <4> QED BY <4>1, <4>2
    <3>2. ASSUME NEW i \in Items,
                 vault' = [vault EXCEPT !.rev = @ + 1, !.members = Toggle(i, @)]
          PROVE  vault' \in Vaults
      <4>1. Toggle(i, vault.members) \in SUBSET Items
        BY DEF Vaults, Toggle
      <4> QED BY <3>1, <3>2, <4>1 DEF Vaults
    <3>3. ASSUME NEW e \in EnvNames,
                 vault' = [vault EXCEPT !.rev = @ + 1, !.filled = Toggle(e, @)]
          PROVE  vault' \in Vaults
      <4>1. Toggle(e, vault.filled) \in SUBSET EnvNames
        BY DEF Vaults, Toggle
      <4> QED BY <3>1, <3>3, <4>1 DEF Vaults
    <3> QED BY <1>1, <3>2, <3>3 DEF Edit
  <2>2. UNCHANGED <<cache, todo, got, secrets>>
    BY <1>1 DEF Edit, resultVars
  <2> QED BY <2>1, <2>2
<1>2. CASE CliSyncs
  BY <1>2 DEF CliSyncs, resultVars
<1>3. CASE ItemAccepted
  BY <1>3 DEF ItemAccepted, vaultVars
<1>4. CASE Bind
  <2>1. PICK e \in Unbound :
          /\ e \in got[Binding[e]].filled
          /\ secrets' = [x \in DOMAIN secrets \cup {e} |->
                            IF x = e THEN got[Binding[e]].rev ELSE secrets[x]]
    BY <1>4 DEF Bind
  <2>2. e \in EnvNames /\ Binding[e] \in BoundItems
    BY <2>1 DEF Unbound
  <2>3. got[Binding[e]].rev \in 0..MaxEdits
    BY <2>1, <2>2 DEF Vaults, NoCache
  <2>4. PICK bound \in SUBSET EnvNames : secrets \in [bound -> 0..MaxEdits]
    OBVIOUS
  <2>5. secrets' \in [bound \cup {e} -> 0..MaxEdits]
    BY <2>1, <2>3, <2>4
  <2>6. \E b \in SUBSET EnvNames : secrets' \in [b -> 0..MaxEdits]
    BY <2>2, <2>5
  <2> QED BY <1>4, <2>6 DEF Bind, vaultVars
<1>5. CASE CloseStage
  <2>1. \E b \in SUBSET EnvNames : secrets' \in [b -> 0..MaxEdits]
    <3>1. CASE secrets' = secrets
      BY <3>1
    <3>2. CASE secrets' = [e \in {} |-> 0]
      BY <3>2
    <3> QED BY <1>5, <3>1, <3>2 DEF CloseStage
  <2> QED BY <1>5, <2>1 DEF CloseStage, vaultVars
<1>6. CASE Refuse \/ PrepareSession \/ RunsCommand \/ GetItem \/ ItemRefused \/ BindFails
            \/ Complete \/ CloseState \/ CliEnds \/ Tick \/ UNCHANGED vars
  BY <1>6 DEF Refuse, PrepareSession, RunsCommand, GetItem, ItemRefused, BindFails, Complete,
              CloseState, CliEnds, Tick, vars, vaultVars, resultVars
<1> QED
  BY <1>1, <1>2, <1>3, <1>4, <1>5, <1>6 DEF Next, Fetch

\* The vault, its copy and the result start well typed.
LEMMA TypeStarts == Init => DataOK
<1> SUFFICES ASSUME Init PROVE DataOK
  OBVIOUS
<1>1. vault \in Vaults
  BY FetchAssumptions DEF Init, Vaults
<1>2. secrets \in [{} -> 0..MaxEdits]
  BY DEF Init
<1>3. got \in [BoundItems -> Vaults \cup {NoCache}]
  BY DEF Init
<1> QED BY <1>1, <1>2, <1>3 DEF Init, DataOK

\* The variables keep their types.
THEOREM TypeCorrect == Spec => []TypeOK
<1>1. Init => DataOK
  BY TypeStarts
<1>2. DataOK /\ [Next]_vars => DataOK'
  BY FetchKeepsData
<1>3. SessionOK /\ Timely /\ DataOK => TypeOK
  BY DEF SessionOK, DataOK, TypeOK
<1> QED BY <1>1, <1>2, <1>3, AlwaysTimely, PTL DEF Spec

(***************************************************************************)
(* A successful fetch is one snapshot                                       *)
(***************************************************************************)

\* A session that fails, or ends, keeps the items and values it has.
LEMMA LeaveKeepsSnapshot ==
    ASSUME OneSnapshot, Leave, UNCHANGED <<vaultVars, resultVars>>,
           error' # "none" \/ DOMAIN secrets = EnvNames
    PROVE  OneSnapshot'
BY DEF OneSnapshot, Leave, vaultVars, resultVars, BoundItems

\* Every step keeps the fetched items and the bound values from one copy.
LEMMA FetchKeepsSnapshot ==
    ASSUME DataOK, OneSnapshot, [Next]_vars
    PROVE  OneSnapshot'
<1> USE FetchAssumptions
<1>1. CASE Refuse
  BY <1>1 DEF Refuse, OneSnapshot, BoundItems, vaultVars, resultVars, callVars
<1>2. CASE PrepareSession
  <2>1. UNCHANGED <<cache, todo, got, secrets>>
    BY <1>2 DEF PrepareSession, vaultVars, resultVars
  <2>2. CASE BeginStage \/ StageDirFails
    BY <2>1, <2>2 DEF BeginStage, StageDirFails, Advance, OneSnapshot, BoundItems
  <2>3. CASE NextChunk \/ ChunkRead \/ Verified
    BY <2>1, <2>3 DEF NextChunk, ChunkRead, Verified, OneSnapshot, BoundItems
  <2>4. CASE ChunkLate \/ Rejected \/ VersionRefused \/ NoSession \/ CallFailed
    <3>1. PICK k \in ErrorKinds : Abort(k)
      BY <2>4 DEF ChunkLate, Rejected, VersionRefused, NoSession, CallFailed, KindsOf,
                  ErrorKinds, CallKinds
    <3>2. k # "none"
      BY DEF ErrorKinds, CallKinds
    <3> QED BY <1>2, <3>1, <3>2, LeaveKeepsSnapshot DEF Abort, PrepareSession
  <2>5. CASE Staged \/ StateDirFails
    BY <2>1, <2>5 DEF Staged, StateDirFails, Advance, OneSnapshot, BoundItems
  <2>6. CASE VersionAccepted \/ Configured \/ LoggedIn \/ Unlocked \/ Synced
    BY <2>1, <2>6 DEF VersionAccepted, Configured, LoggedIn, Unlocked, Synced, Succeeded,
                      Advance, OneSnapshot, BoundItems
  <2> QED BY <1>2, <2>2, <2>3, <2>4, <2>5, <2>6 DEF PrepareSession, Prepare
<1>3. CASE RunsCommand \/ CliEnds \/ Tick \/ Edit \/ UNCHANGED vars
  BY <1>3 DEF RunsCommand, CallStep, CliEnds, ChildStep, CallCutShort, Tick, SessionTick, Edit,
              vars, sessionVars, vaultVars, resultVars, OneSnapshot, BoundItems
<1>4. CASE CliSyncs
  <2>1. todo = BoundItems /\ UNCHANGED <<sessionVars, resultVars>>
    BY <1>4 DEF CliSyncs, OneSnapshot
  <2>2. DOMAIN secrets = {}
    BY <2>1 DEF OneSnapshot, BoundItems
  <2> QED BY <1>4, <2>1, <2>2 DEF CliSyncs, OneSnapshot, sessionVars, resultVars, BoundItems
<1>5. CASE GetItem
  BY <1>5 DEF GetItem, Advance, OneSnapshot, vaultVars, resultVars, BoundItems
<1>6. CASE ItemAccepted
  BY <1>6 DEF ItemAccepted, Succeeded, OneSnapshot, DataOK, vaultVars, BoundItems
<1>7. CASE ItemRefused
  BY <1>7, LeaveKeepsSnapshot DEF ItemRefused, Abort
<1>8. CASE Bind
  <2>1. PICK e \in Unbound :
          /\ e \in got[Binding[e]].filled
          /\ secrets' = [x \in DOMAIN secrets \cup {e} |->
                            IF x = e THEN got[Binding[e]].rev ELSE secrets[x]]
    BY <1>8 DEF Bind
  <2>2. e \in EnvNames /\ todo = {} /\ Binding[e] \in BoundItems \ todo
    BY <1>8, <2>1 DEF Bind, Unbound, BoundItems
  <2>3. got[Binding[e]] = cache
    BY <2>2 DEF OneSnapshot
  <2>4. UNCHANGED <<sessionVars, cache, todo, got>> /\ pc = "data"
    BY <1>8 DEF Bind, vaultVars
  <2>5. \A x \in DOMAIN secrets' :
          /\ x \in EnvNames /\ Binding[x] \notin todo
          /\ secrets'[x] = cache.rev
          /\ x \in cache.filled
    BY <2>1, <2>2, <2>3 DEF OneSnapshot
  <2> QED BY <2>4, <2>5 DEF OneSnapshot, sessionVars, BoundItems
<1>9. CASE BindFails
  BY <1>9, LeaveKeepsSnapshot DEF BindFails, Abort
<1>10. CASE Complete
  <2>1. DOMAIN secrets = EnvNames
    BY <1>10 DEF Complete, Unbound, OneSnapshot
  <2> QED BY <1>10, <2>1, LeaveKeepsSnapshot DEF Complete
<1>11. CASE CloseState
  BY <1>11 DEF CloseState, LeaveState, OneSnapshot, vaultVars, resultVars, BoundItems
<1>12. CASE CloseStage
  BY <1>12 DEF CloseStage, LeaveStage, OneSnapshot, vaultVars, BoundItems
<1> QED
  BY <1>1, <1>2, <1>3, <1>4, <1>5, <1>6, <1>7, <1>8, <1>9, <1>10, <1>11, <1>12
     DEF Next, Fetch

\* A fetch that succeeds binds every variable to one revision of the vault.
THEOREM FetchIsOneSnapshot == Spec => []SuccessIsOneSnapshot
<1>1. Init => DataOK /\ OneSnapshot
  <2>1. Init => DataOK
    BY TypeStarts
  <2>2. Init => OneSnapshot
    BY DEF Init, SessionInit, SessionBegins, OneSnapshot
  <2> QED BY <2>1, <2>2
<1>2. DataOK /\ OneSnapshot /\ [Next]_vars => (DataOK /\ OneSnapshot)'
  BY FetchKeepsData, FetchKeepsSnapshot
<1>3. DataOK /\ OneSnapshot => SuccessIsOneSnapshot
  BY FetchAssumptions DEF OneSnapshot, SuccessIsOneSnapshot, BoundItems
<1> QED BY <1>1, <1>2, <1>3, PTL DEF Spec

(***************************************************************************)
(* What a fetch leaves behind                                               *)
(***************************************************************************)

Working == {"chunk", "io", "call", "data"}

\* A session works with a staged executable and without an error; on the way out,
\* what is left of the directories is what is still to be removed, or an error.
LeavingInv ==
    /\ pc = "start" => step = "stage" /\ dirs = {}
    /\ pc \in {"call", "data"} => executable = "open"
    /\ pc \in {"chunk", "io"} /\ step # "stage" => executable = "open"
    /\ pc \in Working \cup {"start"} => error = "none"
    /\ pc = "leave_state" /\ error = "none" => executable = "open"
    /\ pc = "leave_stage" /\ error = "none" => executable = "open" /\ dirs \subseteq {"stage"}
    /\ LeftoversAreReported

\* A session that fails, or ends with its executable staged, has its directories
\* still to remove.
LEMMA LeaveKeepsLeaving ==
    ASSUME SessionOK, Leave, UNCHANGED secrets, error' # "none" \/ executable = "open"
    PROVE  LeavingInv'
BY DEF SessionOK, SessionTypeOK, Leave, Working, LeavingInv, LeftoversAreReported

\* Every step keeps track of what is left to remove.
LEMMA FetchKeepsLeaving ==
    ASSUME SessionOK, LeavingInv, [Next]_vars
    PROVE  LeavingInv'
<1> USE DEF Working, LeavingInv, LeftoversAreReported
<1>1. CASE Refuse
  BY <1>1 DEF Refuse, vaultVars, resultVars
<1>2. CASE PrepareSession
  <2>1. UNCHANGED secrets
    BY <1>2 DEF PrepareSession, resultVars
  <2>2. CASE ChunkLate \/ Rejected \/ VersionRefused \/ NoSession \/ CallFailed
    <3>1. PICK k \in ErrorKinds : Abort(k)
      BY <2>2 DEF ChunkLate, Rejected, VersionRefused, NoSession, CallFailed, KindsOf,
                  ErrorKinds, CallKinds
    <3>2. k # "none"
      BY DEF ErrorKinds, CallKinds
    <3> QED
      BY <2>1, <3>1, <3>2, LeaveKeepsLeaving DEF Abort
  <2>3. CASE StageDirFails \/ StateDirFails
    BY <2>1, <2>3 DEF StageDirFails, StateDirFails, Hashed
  <2>4. CASE BeginStage \/ NextChunk \/ ChunkRead \/ Staged \/ Verified
    BY <2>1, <2>4 DEF BeginStage, NextChunk, ChunkRead, Staged, Hashed, Verified, Advance
  <2>5. CASE VersionAccepted \/ Configured \/ LoggedIn \/ Unlocked \/ Synced
    BY <2>1, <2>5 DEF VersionAccepted, Configured, LoggedIn, Unlocked, Synced, Succeeded,
                      Advance
  <2> QED
    BY <1>2, <2>2, <2>3, <2>4, <2>5 DEF PrepareSession, Prepare
<1>3. CASE RunsCommand \/ CliEnds \/ CliSyncs \/ Edit \/ Tick \/ UNCHANGED vars
  <2>1. UNCHANGED <<sessionVars, secrets>>
    BY <1>3 DEF RunsCommand, CallStep, CliEnds, ChildStep, CallCutShort, CliSyncs, Edit, Tick,
                SessionTick, resultVars, vars
  <2> QED
    BY <2>1 DEF sessionVars
<1>4. CASE GetItem \/ ItemAccepted \/ Bind
  <2>1. /\ pc \in {"call", "data"} /\ pc' \in {"chunk", "data"}
        /\ UNCHANGED <<dirs, executable, error>>
    BY <1>4 DEF GetItem, ItemAccepted, Bind, Succeeded, Advance, sessionVars
  <2> QED BY <2>1
<1>5. CASE ItemRefused \/ BindFails \/ Complete
  BY <1>5, LeaveKeepsLeaving
     DEF ItemRefused, BindFails, Complete, Succeeded, Abort, resultVars
<1>6. CASE CloseState
  BY <1>6 DEF CloseState, LeaveState, SessionOK, SessionTypeOK, resultVars
<1>7. CASE CloseStage
  BY <1>7 DEF CloseStage, LeaveStage, SessionOK, SessionTypeOK
<1> QED
  BY <1>1, <1>2, <1>3, <1>4, <1>5, <1>6, <1>7 DEF Next, Fetch

\* Whatever could not be removed is reported, and secrets are withdrawn when the
\* staged executable stays.
THEOREM FetchReportsLeftovers == Spec => []LeftoversAreReported
<1>1. Init => LeavingInv
  BY DEF Init, SessionInit, SessionBegins, LeavingInv, LeftoversAreReported
<1>2. SessionOK /\ LeavingInv /\ [Next]_vars => LeavingInv'
  BY FetchKeepsLeaving
<1>3. LeavingInv => LeftoversAreReported
  BY DEF LeavingInv
<1> QED BY <1>1, <1>2, <1>3, AlwaysTimely, PTL DEF Spec

(***************************************************************************)
(* Commands do not overlap                                                  *)
(***************************************************************************)

\* Between two commands no child is left: a call that returns with one has failed,
\* and ends the session.
CollectedInv ==
    /\ pc \in {"start", "chunk", "io", "data"} => child \in {"none", "reaped"}
    /\ pc = "call" /\ phase = "idle" => child \in {"none", "reaped"}
    /\ pc = "call" /\ phase \in {"wait1", "wait2"} => outcome # "ok"
    /\ pc = "call" /\ phase = "returned" /\ outcome = "ok" => child = "reaped"

\* Every step keeps the time between two commands free of children.
LEMMA FetchKeepsCollected ==
    ASSUME CollectedInv, [Next]_vars
    PROVE  CollectedInv'
<1> USE DEF CollectedInv
<1>1. CASE Refuse \/ CloseState \/ CloseStage
  BY <1>1 DEF Refuse, CloseState, CloseStage, LeaveState, LeaveStage
<1>2. CASE PrepareSession
  <2>1. CASE \/ StageDirFails \/ ChunkLate \/ Rejected \/ StateDirFails
             \/ CallFailed \/ VersionRefused \/ NoSession
    BY <2>1 DEF StageDirFails, ChunkLate, Rejected, StateDirFails, CallFailed, VersionRefused,
                NoSession, Abort, Leave
  <2>2. CASE BeginStage \/ NextChunk \/ ChunkRead \/ Staged \/ Verified
    BY <2>2 DEF BeginStage, NextChunk, ChunkRead, Staged, Hashed, Verified, Advance, callVars
  <2>3. CASE VersionAccepted \/ Configured \/ LoggedIn \/ Unlocked \/ Synced
    BY <2>3 DEF VersionAccepted, Configured, LoggedIn, Unlocked, Synced, Succeeded, Advance,
                callVars
  <2> QED
    BY <1>2, <2>1, <2>2, <2>3 DEF PrepareSession, Prepare
<1>3. CASE RunsCommand
  BY <1>3 DEF RunsCommand, CallStep, Spawn, SpawnFails, Kill, Reap, WaitAgain, GiveUp,
              sessionVars
<1>4. CASE CliEnds
  BY <1>4 DEF CliEnds, ChildStep, ChildEnds, CallCutShort, Kill, sessionVars
<1>5. CASE Tick \/ CliSyncs \/ Edit \/ UNCHANGED vars
  BY <1>5 DEF Tick, SessionTick, TickTo, CliSyncs, Edit, vars, callVars, sessionVars
<1>6. CASE GetItem \/ ItemAccepted \/ Bind
  BY <1>6 DEF GetItem, ItemAccepted, Bind, Succeeded, Advance, callVars, sessionVars
<1>7. CASE ItemRefused \/ BindFails \/ Complete
  BY <1>7 DEF ItemRefused, BindFails, Complete, Abort, Leave
<1> QED
  BY <1>1, <1>2, <1>3, <1>4, <1>5, <1>6, <1>7 DEF Next, Fetch

\* No two CLI processes share the state directory: a command starts when the one
\* before it has been collected.
THEOREM FetchRunsOneCommand == Spec => OneCommandAtATime
<1>1. Init => CollectedInv
  BY DEF Init, SessionInit, SessionBegins, CallInit, CollectedInv
<1>2. CollectedInv /\ [Next]_vars => CollectedInv'
  BY FetchKeepsCollected
<1>3. CollectedInv /\ [Next]_vars =>
        [phase = "idle" /\ phase' = "select" => child \in {"none", "reaped"}]_vars
  <2> SUFFICES ASSUME CollectedInv, Next, phase = "idle", phase' = "select"
               PROVE  child \in {"none", "reaped"}
    OBVIOUS
  <2>1. CASE RunsCommand
    BY <2>1 DEF RunsCommand, CallStep, CollectedInv
  <2>2. CASE PrepareSession
    BY <2>2 DEF PrepareSession, Prepare, BeginStage, StageDirFails, NextChunk, ChunkRead,
                ChunkLate, Rejected, Staged, StateDirFails, Verified, CallFailed,
                VersionAccepted, VersionRefused, Configured, LoggedIn, Unlocked, NoSession,
                Synced, Abort, Leave, callVars
  <2>3. CASE CliEnds
    BY <2>3 DEF CliEnds, ChildStep, ChildEnds, CallCutShort, Kill
  <2>4. CASE \/ Refuse \/ GetItem \/ ItemAccepted \/ ItemRefused \/ Bind \/ BindFails
             \/ Complete \/ CloseState \/ CloseStage \/ CliSyncs \/ Edit \/ Tick
    BY <2>4 DEF Refuse, GetItem, ItemAccepted, ItemRefused, Bind, BindFails, Complete, Abort,
                Leave, CloseState, CloseStage, LeaveState, LeaveStage, CliSyncs, Edit, Tick,
                SessionTick, TickTo, callVars
  <2> QED
    BY <2>1, <2>2, <2>3, <2>4 DEF Next, Fetch
<1> QED BY <1>1, <1>2, <1>3, PTL DEF Spec, OneCommandAtATime
=============================================================================
