# Verification of hermes-vaultwarden

This directory holds TLA+ specifications of hermes-vaultwarden: the secret
source that reads Vaultwarden items through a pinned Bitwarden CLI, the tools
that use it (lookup, doctor, browser fill), and the systemd bootstrap that
provides its credentials. TLC checks the specifications
on small instances; TLAPS proves the most important properties for every value
of the constants.

Paths below are relative to the repository; `__init__.py` is
`vaultwarden_secret_source/__init__.py`, `browser_fill.py` is
`vaultwarden_secret_source/browser_fill.py`, `bootstrap.py` is
`scripts/hermes_vaultwarden_bootstrap.py`.

## 1. The system and its parts

| part | state it keeps | operations | talks to |
|---|---|---|---|
| CLI supervision (`_run_bw`, `_kill_process_group`) | the child process, two pipes and their buffers, a deadline | start, read, kill the group, wait twice | the operating system; called for every CLI command |
| CLI session (`_open_pinned_executable`, `_run_pinned_bw`, the `with` blocks of `fetch`, `_lookup`, `_fetch_single_field`) | stage directory with the copied executable, private state directory, child environment, budget | copy and hash, re-hash before each command, version, config, login, unlock, sync, clean up | CLI supervision, the file system |
| `VaultwardenSource.fetch` | items fetched, secrets of the result | refuse, session, get every item once, bind every variable | a session; the Hermes orchestrator, which abandons the call after `timeout_seconds` |
| bootstrap `install` / `remove` (`bootstrap.py`) | six files and five kinds of directories per installation; the drop-ins the manager has loaded | setup, rollback, remove, restore, daemon-reload | the file system, systemd; other administrators at the same time |
| unit start (rendered drop-in and env script) | the runtime directory and its env file | create the directory, write the file line by line, load it, remove it | systemd, the service, other services |
| browser fill (`browser_fill.py`) | one CDP conversation per call | check the arguments, fetch one field, attach, read the URL, check the origin, find, clear, focus, type | a session for one field, a browser that goes its own way |
| lookup, doctor, status, config commands | none of their own | find UUIDs, check the set-up, print | a session (lookup, doctor) |
| configuration checks, field selection, error classes | none (pure) | `_validate_config`, `_field_value`, `_classify_bw_error`, `_origin_allowed` | everything above |
| plugin registration | a snapshot of the settings | `register` | the host |
| repository and integration scripts | none | file scans, test drivers | not part of the running system |

What is hard here, and what makes each part correct:

* **CLI supervision.** Two pipes, a child, descendants and a clock move
  independently. The output must be whole or refused, nothing of the command's
  process group may survive unsignalled, the group must be signalled before the
  child is collected (its id may be reused afterwards), and the call must return
  whatever the command does.
* **Session and fetch.** A budget is spent by many commands, any of which may
  hang or survive SIGKILL, and the clean-up has to fit behind it. Other clients
  edit the vault between two reads. A result must be one state of the vault or
  carry an error, and leftovers must not pass as a success.
* **Bootstrap.** Each operation is a long sequence of system calls that can fail
  anywhere, be interrupted between an effect and its record, or die. Profiles
  share directories, and nothing locks them.
* **Unit start.** Services start, stop and restart next to each other. Each must
  end up with its own credentials, which rests on the name of a directory.
* **Browser fill.** A guard, then several messages, then the deed: the page may
  navigate, move its focus or flood the connection in between, a request may be
  executed after the call has given up on it, and the tool must tell its caller
  no more than is true. The value must come from a session that ended well and
  from an item within the same boundary as fetch's.
* **lookup and doctor.** They have checks, an early return and a clean-up of
  their own, which must not come apart from fetch's and from each other.

The hazards are listed one by one, with their line and the properties about
them, in `PROJECT.json`.

## 2. Modules

    BwCall ------------- contract of one CLI call
      ^        ^
      | refines| EXTENDS
    BwProcess  BwSession ------- a session, up to the caller's own commands
                 ^      ^
         EXTENDS |      | EXTENDS
      VaultwardenFetch  PinnedStage - the bytes of the staged executable
      fetch, the vault,    ^
      the deadline         | EXTENDS
                        SessionClients - doctor, lookup, the fill tool's handler
                           | EXTENDS  | INSTANCE
                        Settings    FillPromise <-- refines -- CdpFill
                        the checks  promise of one fill        the conversation

    BootstrapTxn <-- refines -- Bootstrap         UnitStart

    MCBwProcess, MCFetch, MCClients, MCCdpFill, MCBootstrap, MCUnitStart:
        instances for TLC
    BwProcessProofs, BwSessionProofs, FetchProofs, ClientsProofs, CdpFillProofs,
    UnitStartProofs, BootstrapProofs <-- EXTENDS -- BootstrapTxnProofs: theorems

**BwCall** is the abstract specification of `_run_bw`: what a caller may rely
on. A call blocks until its deadline at the latest, kills, waits at most twice,
and returns an outcome. `until` is the latest return of the present blocking
call; time advances only while the caller is blocked, so an instruction takes no
time. A killed child is `dying` until it is a `zombie`, for as long as it likes.

**BwProcess** is `_run_bw` with `_kill_process_group` in full: forks, `setsid`,
inherited pipes, buffers, the read size `_MAX_OUTPUT_BYTES + 1 - len`, the limit,
the selector's end, `killpg` and its failure, both waits and the exit code. Its
property `RefinesCall` is that it implements BwCall under the mapping in
`Contract` (the child counts as `dying` once it is doomed).

| BwProcess | `__init__.py` |
|---|---|
| `TooLate`, `PopenFails`, `Popen` | 434-458 |
| `Room`, `Chunks`, `Read`, `OverLimit` | the read loop, 463-473 |
| `Drained`, `DeadlinePassed`, `ReadFails` | the ways out of the loop, 459-489 |
| `KillGroup`, `Doom` | `_kill_process_group` up to the first wait, 401-411 |
| `FirstWaitExpires`, `SecondWaitExpires`, `Reap` | 410-420, 482-506 |
| `Fork`, `Escape`, `Write`, `CloseEnd`, `ChildExit`, `DescendantExit` | the command and the operating system (external) |

**BwSession** uses BwCall's actions for its commands, with the deadline of
`CommandDeadline` (`_remaining_timeout`). Staging and hashing read `Chunks`
chunks, look at the budget before each, and end in a verdict. The steps version,
config, login, unlock and sync are the same in every session, as is the way out
(`LeaveState`, `LeaveStage`). Failures are told apart by their `ErrorKind`.

**VaultwardenFetch** adds the caller's part: refusals before the session starts,
`GetItem`, `ItemAccepted`, `ItemRefused`, `Bind`, `BindFails`, `Complete`, the
withdrawal of the secrets when `executable.close()` fails, and the vault with
other clients (`Edit`). `cache` is the CLI's local copy, replaced only while
`bw sync` runs. A value is represented by the revision of the vault it was read
from, which is all `SuccessIsOneSnapshot` needs to know. The items are asked for
in any order (the code sorts them) and the bindings are made in any order (the
code follows the configuration); no property depends on it.

**BootstrapTxn** promises that an operation takes an installation from absent to
installed or back, or fails and leaves it. **Bootstrap** is the code, one action
per system call. A process is a record (`at`, `doing`, `todo`, the lists
`created_files` and `created_directories`, ...). `doing` tells `install`,
`remove` and their exception handlers (`rollback`, `restore`) apart; `Raise` says
where an exception leads from each. A file's content is the setup it is rendered
for, or, for a credential, the operation that encrypted it, so that a restored
secret differs from a new one.

| Bootstrap | `bootstrap.py` |
|---|---|
| `StartInstall`, `StartRemove` | 347-361, 393-402 |
| `MissingUpTo`, `Scan`, `Mkdir`, `MkdirRaces` | `_make_directory`, 286-297 |
| `WriteTemp`, `WriteRefused`, `Replace`, `Written` | `_write_new`, 317-336, and the sequence 367-373 |
| `Reload` | `_reload_systemd`, 492-500 |
| `UndoFile`, `FilesGone`, `Rmdir`, `DirsGone`, `UndoReload` | the rollback 374-387, the directories of remove 406-416 |
| `Unlink` | 404-405 |
| `Raise` | the two handlers 374-387 and 417-431 |
| `StepFails`, `Crash`, the fault disjuncts of the others | `OSError`, a failing `systemctl`, `KeyboardInterrupt`, a killed process (external) |

**PinnedStage** adds to a session, for each chunk of the executable, the build
the staged copy has it from. The configured file may be written to between any
two reads, so a chunk may be of any build; the copy is opened when its digest
matches, which is taken of the copy.

**Settings** holds the checks each user makes before its session, in their order,
as sequences of (does it fail, with which kind). `ConfigChecks` is
`_validate_config`; `LookupChecks` and `FillChecks` are what lookup and the fill
tool have instead. A value is known by whether it has its form.

**SessionClients** is one call of one of four clients: doctor, lookup with or
without a collection, and the handler of the fill tool.

| SessionClients | code |
|---|---|
| `Checks`, `Refuse` | `__init__.py` `_doctor`, `_lookup`; `browser_fill.py` `handle_vaultwarden_browser_fill`, `_fetch_single_field` |
| `VersionChecked` | the end of `_doctor`, whose session stops after the version |
| `AskCollections`, `CollectionsListed`, `AskItems`, `ItemsListed` | `_lookup`'s own commands; `Conclude("ambiguous", NoName)` is its early return |
| `AskItem`, `FieldRead`, `ItemUsable`, `HasValue` | `_fetch_single_field` and `_field_value`; the name asked for is any |
| `AvailableFields`, `SafeText` | `_available_fields`, `_safe_metadata_text` |
| `CloseState`, `CloseStage`, `Masked` | the `with` block and the `finally` of each; `Masked` is a `finally` that assigns to what has been returned already |
| `Converse`, `ReportFailure` | what the handler does with the value, or without |

The name of a custom field is a pair: what sanitizing keeps of it (its first 200
printable characters) and what it drops. `_field_value` compares both,
`_available_fields` lists the first. Which characters are printable, and in which
order kept and dropped ones stand, no property depends on.

Once the session has given a value, the conversation with the browser is
**FillPromise**: touch, type, and return success, refusal or failure, with late
effects allowed after a failure only. **CdpFill** is
`_run_fill_with_origin_guard`, one action per request and answer:

| CdpFill | `browser_fill.py` |
|---|---|
| `Connect`, `Ask`, `Following` | `send` and the sequence of requests in `_run_fill_with_origin_guard` |
| `Ready`, `SkipEvent`, `Expire` | the receive loop: the answer with the request's id, other messages, the deadline taken once per request |
| `Unusable`, `GiveUp`, `Foreign`, `Refuse`, `Succeed` | the ways to return |
| `Allowed` | `_origin_allowed` |
| `Look`, `Clear`, `Focus`, `Insert`, `Decline`, `Emit`, `Navigate`, `MoveFocus` | the browser and the page (external) |

A page is its navigation, its host, what has the focus and which elements hold
text. `Clear` may move the focus, because the clearing script fires input and
change events. Node ids belong to the document they were found in: requests that
use one fail after a navigation. `deed` and `calm` are history: what a call did
to which page, and whether anybody else touched the page meanwhile. Several calls
may work on one page; the connection may break at any point, and a request
already sent may be executed after its call has returned.

**UnitStart** is a host with services set up by the bootstrap: `Start` creates
the runtime directory unless it exists, `Truncate` and `WriteLine` are the
script, `Load` is `EnvironmentFile=`, `Stop` is the end of the service or a
failed start, after which systemd removes the directory. The script and the
drop-in are `render_env_script` and `render_drop_in`; the name of the directory
is `_runtime_directory_name`, with names as sequences of the parts between dashes.

Operators whose comment begins with "Variant" are not part of the specifications:
each is a definition with a plausible slip. Put in the place of the definition
that follows it, it breaks one of the properties, which shows that the property
can tell the difference.

## 3. Runs

| run | question | instance |
|---|---|---|
| `process` | Is the output whole, is nobody left unsignalled, is the contract kept, does the call return? | one descendant, a `killpg` that may fail, limit of 2 units that a stream can exceed by one, reads of 1 or 2 units, deadline and waits of 1 |
| `fetch` | Is a success one revision of the vault? Are leftovers reported? Do commands never overlap? | two items, two variables, one edit; seconds: timeout 6, budget 4, command timeout 2, waits 1 |
| `fetch_time` | Is every CLI process killed, and has fetch returned, when the orchestrator gives up? Does fetch end? | quarter seconds: timeout 3.5 s, reserve 2.5 s, waits 1 s, clean-ups 0.25 s, command timeout 30 s |
| `bootstrap_fault` | Is each operation all or nothing when one step fails? | one administrator, two profiles, all three credentials, one error, three operations |
| `bootstrap_siblings` | Does the sibling stay whole, and is nothing overwritten or taken away by another, whatever happens? Are operations on two profiles all or nothing when they interleave without a fault? | two administrators, one credential, one fault of any kind, two operations |
| `browser_fill` | Where can a value end up, what does a success or a refusal mean, does every call return? | one call, two hosts, an input field and another editable element, every item and option; requests expire after two time steps, the page navigates once |
| `clients` | Are doctor, lookup and the fill tool within their bounds: build, boundary, time, reports? Do their checks agree? | one call; two items, items of up to two fields of three names, up to two collections found; settings with at most one thing wrong; budget 2, command timeout 1, wait 1, two chunks of up to 1 |
| `unit_start` | Does a service get its own credentials only? See section 6. | two services whose directories have one name |
| `bootstrap_stale`, `bootstrap_interrupt`, `bootstrap_race`, `bootstrap_restore` | Documented promises the code does not keep; see section 6. | the smallest instances that show it |

**Bounds.** The read loop compares what is taken from one stream with the limit;
a limit of two units with reads of one or two reaches below, at and above it by
every route, and the two streams are independent. One descendant suffices for
each hazard of the first run because every property is about a single surviving
process. Two items and two variables are what a mixed result needs, and
one edit what distinguishes two revisions. In `fetch` the budget is large enough
for another command after one that had to be waited for twice, without which
commands could never overlap; in `fetch_time` a command may outlast the session,
without which the budget would never decide. The clock of `fetch_time` is fine
enough to start a kill in the last moment of the budget. Two profiles share the
manifest and the script directory and nothing else; a third would share no more.
One fault is what a transaction promises to survive: the code makes no promise
for a second one in the handler of the first. `MaxOps` of three covers
setup-remove-setup of one profile next to another.

In `browser_fill` a request must be able to be answered late and in time, after
an event and before, for which two steps suffice; one navigation separates the
page that was checked from a later one, and a second would only be later still.
Other calls do to a page what `MoveFocus` and `Navigate` do already, so one call
is enough for TLC; the theorems are about any number. In `clients` a budget of
two and a command timeout of one let either decide, and both waits run out.
Two fields are what a duplicate name takes; of the three names one is listed as it
is, one is listed like the first, and one is not listed. Settings with one thing wrong reach
every check, each with all before it passing; the theorem is about all settings.

Deadlock checking is off throughout: calls, sessions and administrators come to
an end.

**Fairness.** `BwProcess!FairSpec`, `VaultwardenFetch!FairSpec` and
`SessionClients!FairSpec` assume weak
fairness of the Python thread and of the clock: a runnable thread runs, and a
blocking call with a timeout returns. Nothing is assumed of the command, the
child, its descendants, the vault or the kernel's delivery of SIGKILL: in the
counterexamples `Returns` and `Terminates` exclude, they may stand still for
ever. Reads of the executable and the removal of directories are file system
calls of the thread and end (within `ChunkTime` and `CleanupTime`).
`CdpFill!FairSpec` assumes the same of each call and its clock, and nothing of
the browser, which may answer nothing and send events for ever. In
`SessionClients` the conversation is one fair action with the thread because
`FillEnds` shows that it ends.

## 4. Properties

* `OkIsWholeOutput`, `NoUnsignalledSurvivor`, `SignalledBeforeReaped`,
  `RefinesCall`, `Returns`: section 1, CLI supervision. `NoUnsignalledSurvivor`
  is about the command's group: a descendant that calls `setsid` leaves it, and
  when `killpg` itself fails the code only kills the child, which the property
  then asks for.
* `SuccessIsOneSnapshot`: a result without an error has every variable, all from
  one revision of the vault, from items in the collection and fields that were
  filled. It rests on `sync` being the only command that changes the copy and on
  every item being read after it. That one empty field fails the whole fetch
  follows configuration.md; the skill's text says otherwise (section 6).
* `LeftoversAreReported`: no result without an error leaves a directory behind,
  and secrets are withdrawn when the staged executable stays.
* `OneCommandAtATime`: a command starts when the one before has been collected,
  though a call may return with its child still dying.
* `KilledBeforeAbandoned`, `ReturnsBeforeAbandoned`, `Terminates`: docs
  configuration.md, "a credential-bearing process is terminated before the
  orchestrator can abandon its worker thread". They need `Reserve >= 2 * KillWait
  + 2 * CleanupTime`: with the code's 2.5 s and two waits of 1 s, the removal of
  each directory may take a quarter of a second.
* `IsTransactional` (Bootstrap implements BootstrapTxn), `RestoresContent`,
  `ManagerAgrees`: one administrator and one failing step. `IsTransactional`
  compares what a caller sees who waits for the operation to end.
* `SiblingsUntouched`, `WholeWithoutFaults`: two administrators on two profiles.
  A setup may fail because a sibling's remove took the shared directory away;
  then it leaves nothing.
* `NeverOverwritten`: no file that exists is replaced, although the check and the
  replacement are apart, and one goes away only in a step of a remove of its
  installation, or of the rollback of the setup that has recorded it and wrote
  what it holds; for administrators who take turns (section 6 has the others).
  Either half has a mutant: a script all profiles share, and a removal of
  directories with what is in them.
* `GuardHoldsUntilNavigation`: what the origin guard achieves. It cannot promise
  that the value goes to an allowed host, only that a page of another host was
  opened after the check.
* `UndisturbedFillIsExact`: the order clear, focus, insert matters, because the
  listeners that clearing sets off may take the focus away.
* `KeepsPromise` (CdpFill implements FillPromise): a refusal comes before
  anything is touched, a success only after the browser has taken the value. A
  failure promises nothing, and a value may be typed after it was reported: a
  caller that tries again may type twice.
* `FillEnds`: the deadline is taken once per request, so a flood of events does
  not prolong it.
* `RunsPinnedBuild`: no process runs a byte of another build.
* `LeftoversReported`: the counterpart of `LeftoversAreReported` for the other
  clients, with the exception the code has: lookup's early return for an
  ambiguous collection hides a failed clean-up of the stage directory behind
  another failure.
* `TypedAfterSession`, `TypedWithinBoundary`: the value that is typed comes from a
  session that has ended with everything in order, and from an item in the
  allowlist and in the collection.
* `FilledFieldsAreListed`: a custom field the fill tool types is among those
  lookup lists, under what sanitizing keeps of its name. A name of which nothing
  is kept is typed when asked for and never listed. The converse does not hold
  (section 6).
* `DoctorSpeaksForAll`: settings doctor finds nothing wrong with are refused
  neither by lookup nor by the fill of an allowlisted item, although each of the
  three has checks of its own.
* `EndsInTime`, `Reports`: as for fetch; doctor has the time of one command.
* `OnlyOwnCredentials`: section 6.

## 5. Proofs

All theorems hold for every value of the constants that satisfies the named
assumptions of the modules (`KillWaitAssumption`, `SessionAssumptions`,
`FetchAssumptions`, `ProcessAssumptions`, `ClientAssumptions`,
`CdpAssumptions`, `BootstrapAssumptions`), which TLC evaluates for the
instances. Hypotheses beyond these are written into the theorem.

`BwProcessProofs`: `ProcessTypeCorrect`; the inductive invariant
`StateOK /\ ProcessInv` (`ProcessInvariant`), and from it `SuccessIsWhole`,
`NobodyUnsignalled`, `LeaderStillThere` and the refinement `ProcessRefinesCall`.
`OkIsWholeOutput` is not inductive: `OutputInv` adds that a stream the selector
has dropped is at its end and that nobody holds it any more, which no fork can
undo. `NoUnsignalledSurvivor` needs `GroupInv` from the kill on, under which a
process of the group that could still fork is itself doomed. `CallInv` says what
each phase knows of the child. The refinement has one step per action; the kill
is the only one that needs the invariant for more than its types.

`BwSessionProofs` has the lemmas about a session alone: types, time and the
child, each for preparation, call and end. Both callers of a session cite them.

`FetchProofs`:

* `TypeCorrect`: the types.
* `AlwaysTimely`: the inductive invariant `SessionOK /\ Timely`, where `Timely`
  is `SessionTimely /\ ChildAttended`. The two timing properties are not
  inductive: that a child is killed in time depends on where the session stands
  and on `until`, the end of its present wait. `SessionTimely` bounds both for
  every place a session can stand, from the select loop (`until <= Budget`) over
  the waits to the clean-ups, and `ChildAttended` says that an unsignalled child
  exists only inside the select loop of a call.
* `CliKilledBeforeAbandoned` and `FetchReturnsBeforeAbandoned` follow from it and
  from the size of the reserve.
* `FetchIsOneSnapshot`: by the inductive invariant `OneSnapshot`, which ties
  every accepted item to the present copy. It is needed because
  `SuccessIsOneSnapshot` says nothing before the end; the key step is that no
  `sync` runs once the first item is accepted.
* `FetchReportsLeftovers`: by `LeavingInv`. What is left at the end depends on
  the way out: without an error the executable was staged, so the result of
  `close` is looked at.
* `FetchRunsOneCommand`: by `CollectedInv`. A call that returns with its child
  alive has failed, and a session with a failed call starts no other.

`ClientsProofs`, with the same session lemmas: `ClientTypeCorrect`,
`ClientEndsInTime`; `ClientRunsPinnedBuild` by `PinnedInv` (nothing runs before
the copy is opened, and nothing is written to it afterwards); and by `EndInv`
the five properties of the end of a call. `EndInv` carries an answer from where
it is found (`AnswerInv`, with the checks that passed), past the clean-up
(`LeavingInv`), to what is done to the page (`EffectInv`). `DoctorSpeaks` and
`ClientTypesWithinBoundary` rest on lemmas about what it means that a sequence of
checks passes (`PassesBoth`, `DoctorCovers`).

`CdpFillProofs`: `FillTypeCorrect`; the inductive invariant `FillInv`, for each
call `Protocol` (the requests in their order and what those executed have done),
`Guarded` (the page has the host that was checked, or was opened since) and
`Undisturbed` (a page nobody else touches is as the call has made it); from it
`GuardHolds`, `UndisturbedIsExact` and `FillKeepsPromise`, the refinement.

`UnitStartProofs`: `UnitTypeCorrect`, and `OnlyDashesMix`: what a service runs
with is its own, or of a service with the same runtime directory whose profile
has another number of dashes. By the invariants `LinesInv` and `EnvironInv` a file
and an environment hold values of services that share the directory only
(`Sharing`), and by `JoinedAlike` two different pairs of names join to one only
when the dashes fall differently into unit and profile. Its hypothesis `NamesOK`
is that names are sequences of parts and no two services have unit and profile in
common, which setup sees to: it refuses to replace a drop-in or a script. So
credentials mix in the way the run `unit_start` shows and in no other, and
profiles without a dash keep all services of a host apart.

`BootstrapProofs` and `BootstrapTxnProofs` are about any number of
administrators and installations and any sequence of distinct credential names.
They use these hypotheses:

* `Separate`: no two installations have a profile or a unit in common, so that
  they share no file, and of the directories only those of the manifests and
  scripts and the root of the credentials. Two setups of one unit are, for the
  drop-in, two setups of one installation.
* `TakeTurns`: nobody works on one installation at the same time as somebody
  else. The code has no lock for this; it is how the command is used, and
  `bootstrap_race` shows what it saves the code from. Operations on siblings
  interleave freely.
* `Alone`: one administrator, and at most one error; an interrupt or a crash is
  not undone (section 6).
* `Calm`: `Alone`, or no fault at all.

`bootstrap_siblings` satisfies the first two, `bootstrap_fault` all of them.

| theorem | hypotheses | by the inductive invariant |
|---|---|---|
| `TypeCorrect` | none | `StateOK`: the types, and for each process what `at` and `doing` say of its lists (`TypesHold`) |
| `SiblingsStayWhole`, `RestorationIsExact` | `Separate`, `TakeTurns` | `SiblingInv` |
| `AllOrNothing` | `Separate`, `TakeTurns` | `TxnInv` |
| `BootstrapIsTransactional` | `Separate`, `TakeTurns`, `Calm` | `TxnInv`, `BeforeInv` |
| `NothingIsOverwritten` | `Separate`, `TakeTurns` | `SiblingInv`, `FreeInv`, `RecordInv` |
| `ManagerIsUpToDate` | `Separate`, `TakeTurns`, `Alone` | `TxnInv`, `ManagerInv` |
| `OneFailureIsUndone` | `Separate`, `TakeTurns`, `Alone` | `TxnInv`, `ManagerInv` |

* `SiblingsUntouched` is not inductive: an installation that is whole now could
  be damaged later by a process that has one of its paths on a list, and a
  process about to report success could be wrong. `StateOK` has that a process
  lists only paths of its own installation (`OnItsOwn`), and with `Separate` no
  file is on the lists of two (`LayoutsApart`). `SiblingInv` adds `Apart`, that
  no two processes are on one installation, and for each process its `Claim`: its
  directory of credentials exists or is still to be made, the files it no longer
  has to write have what they should have (`WrittenClaim`), and a snapshot is of
  a whole installation of which nothing has changed but what is gone
  (`SnapshotClaim`).
* `TxnInv` adds what each process has still to do (`Progress`): at the start of
  a list nothing is in place, in its middle exactly what has been recorded, at
  its end nothing or everything. `RecordedClaim` is the one the rollback
  depends on: what is on disk is in `created_files`. It holds only while nothing
  but errors has happened (`Gentle`), because an interrupt may come between the
  effect and its record, and `ReadyClaim`, that a file is written into a
  directory that exists, only without others who take it away. `SettledWhole`
  says what this leaves when nobody is at work. The restoration of a failed
  remove is where faults are counted: with one used up, it cannot fail.
* The refinement has one step per action. Only the last steps of an operation
  (`LastStep`) change what a caller sees; `Outcome` says what they lead to, and
  everything before maps to a stutter.
* `NothingIsOverwritten` allows every fault, any number of them, and crashes.
  `_write_new` looks at the path first and `os.replace` comes later;
  `FreeInv`, that the path is still free in between, needs that nobody else
  claims it. `RecordInv` is for what goes away: a path in `created_files` is gone
  or holds what this process wrote, so its rollback deletes nobody else's file.
* `ManagerInv`: the manager has loaded every drop-in but the one of the unit at
  work, and of that one nothing while setup has not tried to reload, which is
  why a rollback from there need not reload either.
  `ManagerAgrees` is false for several administrators even without a fault by
  itself: the reload of a sibling's operation loads the drop-in of a setup that
  is half done, and when that setup fails because a shared directory is gone, its
  rollback does not reload. This is the case of `bootstrap_stale`, and why the
  theorem asks for `Alone`.

What is only model-checked: the liveness properties (`Returns`, `Terminates`,
`FillEnds`, `Reports`), which are out of the proof system's reach, as is what a
recursive definition computes. Every other property of a run that passes is
stated by a theorem. The counterexamples of section 6 are TLC's.

## 6. Where code and documentation part

Each of these is a run that TLC ends with a counterexample:

* `bootstrap_stale`: the documentation has the manager reloaded after every
  rollback; the code does so only when its own reload had been attempted. A
  sibling's operation may have reloaded in between, and the manager keeps a
  drop-in that is gone.
* `bootstrap_interrupt`: an interrupt between `os.replace` and
  `created.append(path)` leaves a file behind that the rollback does not know of.
* `bootstrap_race`: two setups of one profile replace each other's files:
  `_write_new` checks the path, and `os.replace` does not.
* `bootstrap_restore`: the restoration of a failed remove gives up with
  `FileExistsError` when a sibling's setup creates a shared directory at the same
  moment, and the installation is lost.
* `unit_start`: the runtime directory is named after unit and profile joined by a
  dash, and both may contain dashes. `hermes` with `work-a` and `hermes-work` with
  `a` share a directory the comment calls unique; one service truncates, loads or
  removes the other's file. The two services run under one account.

Others met while modelling, where no run is needed to see them:

* `_fetch_single_field` passes over entries of the allowlist that are no UUID,
  where fetch refuses the whole configuration; its docstring speaks of the exact
  same boundary. The items that can be read are the same.
* A failure of the CDP conversation and a refusal by the origin guard carry no
  `error_kind`, which the skill's description lists.
* The env script writes `NAME=value` lines, and systemd's parser takes quotes,
  backslashes and edge blanks of a value as syntax: such a master password
  arrives altered.
* lookup lists a field name when any field of that name is filled; the fill tool
  and fetch take the first of the name and report it empty. Names that are too
  long or unprintable are listed altered and cannot be asked for as listed; a name
  with nothing printable in it can be asked for and is not listed.
* An empty field fails the whole fetch (`__init__.py:746-748`), as
  configuration.md:70 says. The skill (`SKILL.md:309-312`) says that a
  partially-filled item fails that one binding, not the whole fetch, unless it is
  required elsewhere; the code has no such distinction.
* doctor insists on `env` bindings, which a profile that only fills does not need.

## 7. Not modelled, and the plan

Left out for good: output formatting, `status` and `config`, which only print,
the plugin's registration, the repository's own scripts, file modes and owners
(each file is written with the mode it is checked for), and the host's handling
of a `FetchResult`.

Abstractions to know of:

* An instruction takes no time, so a budget cannot run out inside the
  configuration checks; that doctor's budget may be used up by its checks is a
  refusal.
* The length of a read from the executable is bounded by `ChunkTime`.
* In `_write_new` an interrupt between `mkstemp` (line 320) and the `try` (322)
  leaves a temporary file, as a crash does. In the model only the crash does;
  interrupts come at the calls after it.
* The snapshot `remove` takes of its files is one step; parents of the managed
  directories other than the credential root exist.
* URLs, UUIDs and names are known by the verdict of their parser. The kind
  `_classify_bw_error` reads from diagnostics is any of its kinds.
* lookup and doctor report no kind of error; a kind stands for their failure.
* How the fill tool finds its endpoint is one refusal; the session lookup is the
  host's.
* The browser answers `DOM.resolveNode` with an object for input elements. A
  blocked `send` on the socket is not modelled; the code puts no deadline on it.
* In CdpFill a request is executed at most once: CDP has no retries.

Planned next: which of the hypotheses of the Bootstrap theorems can be weakened
(a crash that leaves a prefix of the sequence behind, a reload by a sibling); a
reference definition for `_classify_bw_error`; the registration's snapshot of
the settings next to a host that edits its configuration.
