--------------------------- MODULE VaultwardenFetch ---------------------------
(***************************************************************************)
(* VaultwardenSource.fetch of vaultwarden_secret_source/__init__.py: one    *)
(* CLI session that reads every bound item once and turns the bound fields  *)
(* into environment variables, next to a vault that other clients edit and  *)
(* under an orchestrator that abandons the call after FetchTimeout.         *)
(***************************************************************************)
EXTENDS BwSession, FiniteSets

CONSTANTS
    FetchTimeout,  \* fetch_timeout_seconds: when the orchestrator gives up
    Reserve,       \* _FETCH_CLEANUP_RESERVE_SECONDS
    Items,         \* items of the vault
    EnvNames,      \* the environment variables bound in env
    Binding,       \* the item each of them is read from
    MaxEdits       \* bound: edits other clients make to the vault

ASSUME FetchAssumptions ==
    /\ FetchTimeout \in Nat /\ Reserve \in Nat
    /\ Budget = FetchTimeout - Reserve
    /\ Reserve >= 2 * KillWait + 2 * CleanupTime
    /\ Binding \in [EnvNames -> Items]
    /\ MaxEdits \in Nat

VARIABLES
    vault,    \* the vault on the server
    cache,    \* the CLI's local copy in the state directory, or NoCache
    todo,     \* bound items not yet fetched
    got,      \* for each fetched item, the copy it was read from
    secrets   \* result.secrets: for each variable, the revision of its value

resultVars == <<todo, got, secrets>>
vaultVars == <<vault, cache>>
vars == <<callVars, sessionVars, vault, cache, todo, got, secrets>>

\* A revision of the vault: the items in the collection and the bound fields
\* that hold a usable value.  A value is told apart by its revision.
Vaults == [rev : 0..MaxEdits, members : SUBSET Items, filled : SUBSET EnvNames]
NoCache == [rev |-> -1, members |-> {}, filled |-> {}]

BoundItems == {Binding[e] : e \in EnvNames}

TypeOK ==
    /\ SessionTypeOK({"get"})
    /\ vault \in Vaults
    /\ cache \in Vaults \cup {NoCache}
    /\ todo \subseteq BoundItems
    /\ got \in [BoundItems -> Vaults \cup {NoCache}]
    /\ \E bound \in SUBSET EnvNames : secrets \in [bound -> 0..MaxEdits]

Init ==
    /\ SessionInit
    /\ vault = [rev |-> 0, members |-> Items, filled |-> EnvNames]
    /\ cache = NoCache
    /\ todo = BoundItems
    /\ got = [i \in BoundItems |-> NoCache]
    /\ secrets = [e \in {} |-> 0]

(***************************************************************************)
(* The vault and the CLI                                                    *)
(***************************************************************************)

Toggle(x, S) == IF x \in S THEN S \ {x} ELSE S \cup {x}

\* Another client moves an item into or out of the collection, or empties or
\* fills a field.
Edit ==
    /\ pc # "done"
    /\ vault.rev < MaxEdits
    /\ \/ \E i \in Items : vault' =
            [vault EXCEPT !.rev = @ + 1, !.members = Toggle(i, @)]
       \/ \E e \in EnvNames : vault' =
            [vault EXCEPT !.rev = @ + 1, !.filled = Toggle(e, @)]
    /\ UNCHANGED <<callVars, sessionVars, cache, resultVars>>

\* While bw sync runs it replaces its local copy, at a moment of its own.
CliSyncs ==
    /\ pc = "call" /\ step = "sync"
    /\ child = "running"
    /\ cache' = vault
    /\ UNCHANGED <<callVars, sessionVars, vault, resultVars>>

\* The CLI process ends or lets go of its pipes.
CliEnds == (ChildStep \/ CallCutShort) /\ UNCHANGED <<vaultVars, resultVars>>

\* The steps of _run_bw; sync succeeds only when it has copied the vault.
RunsCommand ==
    /\ CallStep
    /\ outcome' = "ok" /\ step = "sync" => cache # NoCache
    /\ UNCHANGED <<vaultVars, resultVars>>

(***************************************************************************)
(* fetch                                                                    *)
(***************************************************************************)

\* The configuration, the bootstrap environment or the binary path is refused, or
\* the deadline passes while they are checked.
Refuse ==
    /\ pc = "start"
    /\ pc' = "done"
    /\ error' \in {"REF_INVALID", "NOT_CONFIGURED", "BINARY_MISSING", "TIMEOUT"}
    /\ UNCHANGED <<callVars, step, left, env, dirs, executable>>
    /\ UNCHANGED <<vaultVars, resultVars>>

PrepareSession == Prepare /\ UNCHANGED <<vaultVars, resultVars>>

\* The next bound item is asked for.
GetItem ==
    /\ pc = "data" /\ todo # {}
    /\ Advance("get")
    /\ UNCHANGED <<callVars, env, dirs, executable, error>>
    /\ UNCHANGED <<vaultVars, resultVars>>

\* Variant: the collection of the item is not looked at.
ItemAcceptedAnyway ==
    /\ Succeeded("get")
    /\ ~Late
    /\ \E i \in todo :
          /\ got' = [got EXCEPT ![i] = cache]
          /\ todo' = todo \ {i}
    /\ pc' = "data"
    /\ UNCHANGED <<callVars, step, left, env, dirs, executable, error>>
    /\ UNCHANGED <<vaultVars, secrets>>

\* The item is fetched in time, is the one asked for and in the collection.
ItemAccepted ==
    /\ Succeeded("get")
    /\ ~Late
    /\ \E i \in todo :
          /\ i \in cache.members
          /\ got' = [got EXCEPT ![i] = cache]
          /\ todo' = todo \ {i}
    /\ pc' = "data"
    /\ UNCHANGED <<callVars, step, left, env, dirs, executable, error>>
    /\ UNCHANGED <<vaultVars, secrets>>

\* The answer is late, not JSON, another item's, or of an item outside the
\* collection.
ItemRefused ==
    /\ Succeeded("get")
    /\ \/ Late /\ Abort("TIMEOUT")
       \/ ~Late /\ Abort("INTERNAL")
       \/ ~Late /\ Abort("REF_INVALID")
    /\ UNCHANGED <<vaultVars, resultVars>>

Unbound == EnvNames \ DOMAIN secrets

\* The next variable receives the value of its field.
Bind ==
    /\ pc = "data" /\ todo = {} /\ ~Late
    /\ \E e \in Unbound :
          /\ e \in got[Binding[e]].filled
          /\ secrets' = [x \in DOMAIN secrets \cup {e} |->
                            IF x = e THEN got[Binding[e]].rev ELSE secrets[x]]
    /\ UNCHANGED <<callVars, sessionVars, vaultVars, todo, got>>

\* A field without a usable value, or the deadline, fails the whole fetch.
BindFails ==
    /\ pc = "data" /\ todo = {} /\ Unbound # {}
    /\ \/ Late /\ Abort("TIMEOUT")
       \/ /\ ~Late
          /\ \E e \in Unbound : e \notin got[Binding[e]].filled
          /\ Abort("EMPTY_VALUE")
    /\ UNCHANGED <<vaultVars, resultVars>>

\* Every variable is bound: the result is returned.
Complete ==
    /\ pc = "data" /\ todo = {} /\ Unbound = {}
    /\ error' = error
    /\ Leave
    /\ UNCHANGED <<vaultVars, resultVars>>

\* The state directory is removed.
CloseState ==
    /\ \E ok \in BOOLEAN : LeaveState(ok)
    /\ UNCHANGED <<vaultVars, resultVars>>

\* executable.close(): when it fails the secrets are withdrawn.
CloseStage ==
    /\ \E ok \in BOOLEAN :
          /\ LeaveStage(ok)
          /\ secrets' = IF executable = "open" /\ ~ok THEN [e \in {} |-> 0] ELSE secrets
    /\ UNCHANGED <<vaultVars, todo, got>>

Tick == SessionTick /\ UNCHANGED <<vaultVars, resultVars>>

Fetch ==
    \/ Refuse \/ PrepareSession \/ RunsCommand
    \/ GetItem \/ ItemAccepted \/ ItemRefused
    \/ Bind \/ BindFails \/ Complete
    \/ CloseState \/ CloseStage

Next == Fetch \/ CliEnds \/ CliSyncs \/ Edit \/ Tick

Spec == Init /\ [][Next]_vars

\* The thread runs and time passes; nothing is assumed of the CLI, whose steps
\* are those of CliEnds and CliSyncs.
FairSpec == Spec /\ WF_vars(Fetch) /\ WF_vars(Tick)

(***************************************************************************)
(* Properties                                                               *)
(***************************************************************************)

\* A fetch that succeeds binds every variable, to values of one and the same
\* revision of the vault, from items that were in the collection in it and
\* from fields that were filled.  An empty field fails the whole fetch, as
\* docs/configuration.md:70 has it; the skill's pitfalls (SKILL.md:309-312) say
\* that it may fail its binding alone.
SuccessIsOneSnapshot ==
    pc = "done" /\ error = "none" =>
        /\ DOMAIN secrets = EnvNames
        /\ \A e \in EnvNames :
              /\ secrets[e] = cache.rev
              /\ e \in cache.filled
              /\ Binding[e] \in cache.members

\* The inductive form: the copy is fixed once the first item is accepted, and
\* what is fetched and bound so far comes from it.
OneSnapshot ==
    /\ todo # BoundItems => step = "get" /\ pc # "start"
    /\ \A i \in BoundItems \ todo : got[i] = cache /\ i \in cache.members
    /\ \A e \in DOMAIN secrets :
          /\ e \in EnvNames /\ Binding[e] \notin todo
          /\ secrets[e] = cache.rev
          /\ e \in cache.filled
    /\ pc \in {"leave_state", "leave_stage", "done"} /\ error = "none" =>
          DOMAIN secrets = EnvNames

\* A CLI process that has not been sent SIGKILL is gone before the orchestrator
\* abandons the worker thread (docs/configuration.md, timeout_seconds).
KilledBeforeAbandoned ==
    now >= FetchTimeout => child # "running"

\* Each part of the session stops in time; the inductive form of the two
\* properties around it.
Timely == SessionTimely /\ ChildAttended

\* fetch returns before the orchestrator abandons it, even when a command uses
\* up the budget, both waits for a killed child expire, and both directories
\* are slow to remove.
ReturnsBeforeAbandoned == now > FetchTimeout => pc = "done"

\* Whatever could not be removed is reported: a result without an error leaves
\* no directory behind, and one whose staged executable is left has no secrets.
LeftoversAreReported ==
    pc = "done" =>
        /\ dirs # {} => error # "none"
        /\ executable = "open" /\ "stage" \in dirs => secrets = [e \in {} |-> 0]

\* A command is started only when the one before it has been collected, so no
\* two CLI processes share the state directory.
OneCommandAtATime ==
    [][phase = "idle" /\ phase' = "select" => child \in {"none", "reaped"}]_vars

\* fetch ends, whatever the CLI and the vault do.
Terminates == <>(pc = "done")
=============================================================================
