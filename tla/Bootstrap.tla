------------------------------ MODULE Bootstrap ------------------------------
(***************************************************************************)
(* install and remove of scripts/hermes_vaultwarden_bootstrap.py, one step  *)
(* per system call, run by administrators that may work at the same time.   *)
(*                                                                          *)
(* A step may fail (OSError, a failing systemctl), be interrupted after its *)
(* effect and before the next statement (KeyboardInterrupt), or be the last *)
(* one of its process (a crash).  Faults are bounded by MaxFaults and their *)
(* kinds by FaultKinds.                                                     *)
(*                                                                          *)
(* Modes and owners of files are left out: every file is written with the   *)
(* mode it is checked for.                                                  *)
(***************************************************************************)
EXTENDS Integers, Sequences, FiniteSets, SequencesExt

CONSTANTS
    Admins,            \* processes that run the script
    Setups,            \* the installations they set up: [profile, unit]
    CREDENTIAL_NAMES,  \* the credentials of a profile, a sequence
    Missing,           \* the content of a file that does not exist
    FaultKinds,        \* subset of {"error", "interrupt", "crash"}
    MaxFaults,         \* bound: faults in a behaviour
    MaxOps,            \* bound: operations in a behaviour
    TakeTurns          \* TRUE: nobody works on one installation with another

ASSUME BootstrapAssumptions ==
    /\ FaultKinds \subseteq {"error", "interrupt", "crash"}
    /\ MaxFaults \in Nat /\ MaxOps \in Nat
    /\ TakeTurns \in BOOLEAN
    /\ Missing \notin Setups \cup Nat
    /\ CREDENTIAL_NAMES \in Seq(Range(CREDENTIAL_NAMES)) /\ IsInjective(CREDENTIAL_NAMES)

(***************************************************************************)
(* InstallLayout: the paths of an installation                              *)
(***************************************************************************)

\* Variant: one env script for all profiles.
EnvScriptForAll(l) == <<"env_script", Missing>>

Credential(l, n) == <<"credential", l.profile, n>>
DropIn(l)        == <<"drop_in", l.unit>>
EnvScript(l)     == <<"env_script", l.profile>>
Manifest(l)      == <<"manifest", l.profile>>

Credentials(l) == [i \in DOMAIN CREDENTIAL_NAMES |-> Credential(l, CREDENTIAL_NAMES[i])]
Targets(l) == Credentials(l) \o <<DropIn(l), EnvScript(l), Manifest(l)>>

CredentialRoot == <<"credential_root">>
CredentialDir(l) == <<"credential_dir", l.profile>>
UnitDir(l)       == <<"unit_dir", l.unit>>
ManifestDir      == <<"manifest_dir">>
ScriptDir        == <<"script_dir">>

\* The directories in the order both operations treat them.
Directories(l) == <<CredentialDir(l), UnitDir(l), ManifestDir, ScriptDir>>

Files == UNION {Range(Targets(l)) : l \in Setups}
Dirs  == (UNION {Range(Directories(l)) : l \in Setups}) \cup {CredentialRoot}
Units == {l.unit : l \in Setups}

ParentOf(f) ==
    CASE f[1] = "credential" -> <<"credential_dir", f[2]>>
      [] f[1] = "drop_in"    -> <<"unit_dir", f[2]>>
      [] f[1] = "env_script" -> ScriptDir
      [] f[1] = "manifest"   -> ManifestDir

(***************************************************************************)
(* State                                                                    *)
(***************************************************************************)

VARIABLES
    files,    \* the content of each file: the setup it is rendered for, or,
              \* for a credential, the operation that encrypted it
    dirs,     \* directories that exist
    loaded,   \* the drop-in of each unit the service manager has loaded
    admin,    \* the state of each administrator's process
    faults,   \* faults so far
    ops,      \* operations so far
    report    \* what the last operation on each installation reported

vars == <<files, dirs, loaded, admin, faults, ops, report>>

\* at: where the process stands; doing: "install", "remove", "rollback" or
\* "restore"; todo: paths still to treat; chain: missing directories of the
\* current _make_directory; temp: the directory of an open temporary file.
Idle == [at |-> "idle", doing |-> "none", on |-> Missing, todo |-> <<>>, chain |-> <<>>,
         temp |-> Missing, madeFiles |-> <<>>, madeDirs |-> <<>>, reloading |-> FALSE,
         snapshot |-> <<>>, secret |-> 0, before |-> "none"]

Present(f) == files[f] # Missing

IsInstalled(l) ==
    /\ CredentialDir(l) \in dirs
    /\ files[DropIn(l)] = l /\ files[EnvScript(l)] = l /\ files[Manifest(l)] = l
    /\ \A f \in Range(Credentials(l)) : Present(f)

AnyTarget(l) == \E f \in Range(Targets(l)) : Present(f)

Status(l) == CASE IsInstalled(l)  -> "installed"
               [] ~AnyTarget(l)   -> "absent"
               [] OTHER           -> "partial"

Busy(l) == \E a \in Admins : admin[a].on = l

\* Some installations that share no path are there already, whole and loaded.
Init ==
    \E there \in SUBSET Setups :
        /\ \A l, m \in there : l # m => Range(Targets(l)) \cap Range(Targets(m)) = {}
        /\ files = [f \in Files |->
                        IF \A l \in there : f \notin Range(Targets(l)) THEN Missing
                        ELSE IF f[1] = "credential" THEN 0
                        ELSE CHOOSE l \in there : f \in Range(Targets(l))]
        /\ dirs = UNION {Range(Directories(l)) \cup {CredentialRoot} : l \in there}
        /\ loaded = [u \in Units |-> files[<<"drop_in", u>>]]
        /\ admin = [a \in Admins |-> Idle]
        /\ faults = 0
        /\ ops = 0
        /\ report = [l \in Setups |-> IF l \in there THEN "installed" ELSE "none"]

(***************************************************************************)
(* Exceptions                                                               *)
(***************************************************************************)

Set(a, r) == admin' = [admin EXCEPT ![a] = r]

Finish(a, says) ==
    /\ report' = [report EXCEPT ![admin[a].on] = says]
    /\ Set(a, Idle)

\* Variant: nothing is rolled back or restored.
RaiseOnly(a, r) ==
    Finish(a, IF r.doing \in {"install", "rollback"} THEN "install failed"
              ELSE "remove failed")

\* Where an exception takes a process: install rolls back, remove restores,
\* and an exception in either handler ends the operation.
Raise(a, r) ==
    CASE r.doing = "install" ->
            /\ Set(a, [r EXCEPT !.at = "undo_files", !.doing = "rollback",
                                !.todo = Reverse(r.madeFiles), !.temp = Missing])
            /\ UNCHANGED report
      [] r.doing = "remove" ->
            /\ Set(a, [r EXCEPT !.at = "scan", !.doing = "restore",
                                !.todo = Directories(r.on), !.madeFiles = <<>>,
                                !.madeDirs = <<>>])
            /\ UNCHANGED report
      [] r.doing = "rollback" -> Finish(a, "install failed")
      [] r.doing = "restore"  -> Finish(a, "remove failed")

Fault(kind) ==
    /\ kind \in FaultKinds
    /\ faults < MaxFaults
    /\ faults' = faults + 1

\* A step that has changed the disk or the manager goes on to state r.
Goes(a, r) == Set(a, r) /\ UNCHANGED <<faults, report>>

\* The process is about to make a system call whose OSError it does not tolerate.
CallsSystem(r) ==
    \/ r.at \in {"mkdir", "replace", "reload"}
    \/ r.at \in {"scan", "write", "undo_files", "unlink"} /\ r.todo # <<>>

\* The step raises before it changes anything; a temporary file is unlinked.
StepFails(a) ==
    /\ admin[a].at \notin {"idle", "crashed", "undo_reload"}
    /\ \/ Fault("error") /\ CallsSystem(admin[a])
       \/ Fault("interrupt")
    /\ Raise(a, admin[a])
    /\ UNCHANGED <<files, dirs, loaded, ops>>

\* The process is killed; a temporary file stays.
Crash(a) ==
    /\ admin[a].at \notin {"idle", "crashed"}
    /\ Fault("crash")
    /\ Set(a, [Idle EXCEPT !.at = "crashed", !.temp = admin[a].temp])
    /\ report' = [report EXCEPT ![admin[a].on] = "crashed"]
    /\ UNCHANGED <<files, dirs, loaded, ops>>

(***************************************************************************)
(* Starting an operation                                                    *)
(***************************************************************************)

Starts(a, l) ==
    /\ admin[a].at = "idle"
    /\ TakeTurns => ~Busy(l)
    /\ ops < MaxOps
    /\ ops' = ops + 1
    /\ UNCHANGED <<files, dirs, loaded, faults, report>>

\* install: an exact installation is a no-op and a conflicting one refused
\* before anything changes; otherwise the secrets are encrypted and it starts.
StartInstall(a, l) ==
    /\ ~AnyTarget(l)
    /\ Starts(a, l)
    /\ Set(a, [Idle EXCEPT !.at = "scan", !.doing = "install", !.on = l,
                           !.todo = Directories(l), !.secret = ops', !.before = "absent"])

\* remove: an absent installation is a no-op and a conflicting one refused; an
\* exact one is read into memory.
StartRemove(a, l) ==
    /\ IsInstalled(l)
    /\ Starts(a, l)
    /\ Set(a, [Idle EXCEPT !.at = "unlink", !.doing = "remove", !.on = l,
                           !.todo = Targets(l), !.before = "installed",
                           !.snapshot = [f \in Range(Targets(l)) |-> files[f]]])

(***************************************************************************)
(* _make_directory                                                          *)
(***************************************************************************)

\* What _make_directory has to make for d, outermost first: it walks up from d
\* for as long as nothing is there.
MissingUpTo(d) ==
    IF d \in dirs THEN <<>>
    ELSE IF d[1] = "credential_dir" /\ CredentialRoot \notin dirs THEN <<CredentialRoot, d>>
    ELSE <<d>>

\* The missing directories of the next path are listed; after the last path the
\* files are written.
Scan(a) ==
    LET r == admin[a]
        missing == MissingUpTo(Head(r.todo))
    IN  /\ r.at = "scan"
        /\ Goes(a, IF r.todo = <<>>
                   THEN [r EXCEPT !.at = "write", !.todo = Targets(r.on)]
                   ELSE [r EXCEPT !.at = IF missing = <<>> THEN "scan" ELSE "mkdir",
                                  !.todo = Tail(r.todo), !.chain = missing])
        /\ UNCHANGED <<files, dirs, loaded, ops>>

\* mkdir of the next listed directory: recorded as created, or made and not
\* recorded when chmod fails or an interrupt comes between.
Mkdir(a) ==
    LET r == admin[a]
        d == Head(r.chain)
        done == [r EXCEPT !.chain = Tail(r.chain),
                          !.at = IF Len(r.chain) = 1 THEN "scan" ELSE "mkdir"]
    IN  /\ r.at = "mkdir"
        /\ d \notin dirs
        /\ d[1] = "credential_dir" => CredentialRoot \in dirs
        /\ dirs' = dirs \cup {d}
        /\ \/ Goes(a, [done EXCEPT !.madeDirs = Append(@, d)])
           \/ (Fault("error") \/ Fault("interrupt")) /\ Raise(a, done)
        /\ UNCHANGED <<files, loaded, ops>>

\* Another process has made the directory meanwhile, or removed its parent.
MkdirRaces(a) ==
    LET r == admin[a]
        d == Head(r.chain)
    IN  /\ r.at = "mkdir"
        /\ \/ d \in dirs
           \/ d[1] = "credential_dir" /\ CredentialRoot \notin dirs
        /\ Raise(a, r)
        /\ UNCHANGED <<files, dirs, loaded, ops, faults>>

(***************************************************************************)
(* _write_new                                                               *)
(***************************************************************************)

\* The path is free: a temporary file is created next to it and filled.
WriteTemp(a) ==
    LET r == admin[a]
        f == Head(r.todo)
    IN  /\ r.at = "write" /\ r.todo # <<>>
        /\ ~Present(f) /\ ParentOf(f) \in dirs
        /\ Goes(a, [r EXCEPT !.at = "replace", !.temp = ParentOf(f)])
        /\ UNCHANGED <<files, dirs, loaded, ops>>

\* The path is taken or its directory gone: install raises; restore skips a
\* file that is still there.
WriteRefused(a) ==
    LET r == admin[a]
        f == Head(r.todo)
    IN  /\ r.at = "write" /\ r.todo # <<>>
        /\ Present(f) \/ ParentOf(f) \notin dirs
        /\ IF r.doing = "restore" /\ Present(f)
           THEN Set(a, [r EXCEPT !.todo = Tail(@)]) /\ UNCHANGED report
           ELSE Raise(a, r)
        /\ UNCHANGED <<files, dirs, loaded, ops, faults>>

\* Variant: a fresh credential on restoration.
ContentAnew(a, f) == IF f[1] = "credential" THEN admin[a].secret ELSE admin[a].on

\* What the process writes to f.
ContentOf(a, f) ==
    IF admin[a].doing = "restore" THEN admin[a].snapshot[f]
    ELSE IF f[1] = "credential" THEN admin[a].secret ELSE admin[a].on

\* Variants: a file in place is never recorded; the temporary file stays open.
ReplaceUnrecorded(a) ==
    LET r == admin[a]
    IN  /\ r.at = "replace"
        /\ files' = [files EXCEPT ![Head(r.todo)] = ContentOf(a, Head(r.todo))]
        /\ Goes(a, [r EXCEPT !.at = "write", !.todo = Tail(@), !.temp = Missing])
        /\ UNCHANGED <<dirs, loaded, ops>>

ReplaceKeepingTemp(a) ==
    LET r == admin[a]
    IN  /\ r.at = "replace"
        /\ files' = [files EXCEPT ![Head(r.todo)] = ContentOf(a, Head(r.todo))]
        /\ Goes(a, [r EXCEPT !.at = "write", !.todo = Tail(@),
                             !.madeFiles = Append(@, Head(r.todo))])
        /\ UNCHANGED <<dirs, loaded, ops>>

\* os.replace puts the temporary file in place: recorded, or not when an
\* interrupt comes between.
Replace(a) ==
    LET r == admin[a]
        f == Head(r.todo)
        done == [r EXCEPT !.at = "write", !.todo = Tail(@), !.temp = Missing]
    IN  /\ r.at = "replace"
        /\ files' = [files EXCEPT ![f] = ContentOf(a, f)]
        /\ \/ Goes(a, [done EXCEPT !.madeFiles = Append(@, f)])
           \/ Fault("interrupt") /\ Raise(a, done)
        /\ UNCHANGED <<dirs, loaded, ops>>

\* Every file is written: the manager is reloaded next.
Written(a) ==
    LET r == admin[a]
    IN  /\ r.at = "write" /\ r.todo = <<>>
        /\ Goes(a, [r EXCEPT !.at = IF r.doing = "install" THEN "reload" ELSE "undo_reload",
                             !.reloading = TRUE])
        /\ UNCHANGED <<files, dirs, loaded, ops>>

(***************************************************************************)
(* daemon-reload                                                            *)
(***************************************************************************)

LoadedNow == [u \in Units |-> files[<<"drop_in", u>>]]

\* systemctl daemon-reload reaches the manager: the operation is complete, unless
\* systemctl itself reports a failure or an interrupt comes behind it.
Reload(a) ==
    LET r == admin[a]
    IN  /\ r.at = "reload"
        /\ loaded' = LoadedNow
        /\ \/ /\ Finish(a, IF r.doing = "install" THEN "installed" ELSE "removed")
              /\ UNCHANGED faults
           \/ (Fault("error") \/ Fault("interrupt")) /\ Raise(a, r)
        /\ UNCHANGED <<files, dirs, ops>>

\* The reload after a rollback or a restoration; its failure is swallowed, and so
\* is an interrupt.
UndoReload(a) ==
    LET r == admin[a]
    IN  /\ r.at = "undo_reload"
        /\ \/ loaded' = LoadedNow /\ UNCHANGED faults
           \/ loaded' = loaded /\ (Fault("error") \/ Fault("interrupt"))
        /\ Raise(a, r)
        /\ UNCHANGED <<files, dirs, ops>>

(***************************************************************************)
(* Removing files and directories                                           *)
(***************************************************************************)

\* Rollback unlinks the files it recorded, newest first.
UndoFile(a) ==
    LET r == admin[a]
    IN  /\ r.at = "undo_files" /\ r.todo # <<>>
        /\ files' = [files EXCEPT ![Head(r.todo)] = Missing]
        /\ \/ Goes(a, [r EXCEPT !.todo = Tail(@)])
           \/ Fault("interrupt") /\ Raise(a, r)
        /\ UNCHANGED <<dirs, loaded, ops>>

\* remove unlinks its targets; one that is gone meanwhile raises.
Unlink(a) ==
    LET r == admin[a]
        f == Head(r.todo)
    IN  /\ r.at = "unlink" /\ r.todo # <<>>
        /\ files' = [files EXCEPT ![f] = Missing]
        /\ IF Present(f)
           THEN \/ Goes(a, [r EXCEPT !.todo = Tail(@)])
                \/ Fault("interrupt") /\ Raise(a, r)
           ELSE Raise(a, r) /\ UNCHANGED faults
        /\ UNCHANGED <<dirs, loaded, ops>>

\* The files are gone: the directories follow.
FilesGone(a) ==
    LET r == admin[a]
    IN  /\ r.at \in {"undo_files", "unlink"} /\ r.todo = <<>>
        /\ Goes(a, [r EXCEPT !.at = "rmdir",
                             !.todo = IF r.doing = "rollback" THEN Reverse(r.madeDirs)
                                      ELSE Directories(r.on)])
        /\ UNCHANGED <<files, dirs, loaded, ops>>

\* A directory can be removed when nothing is in it.
Empty(d) ==
    /\ \A f \in Files : Present(f) => ParentOf(f) # d
    /\ \A b \in Admins : admin[b].temp # d
    /\ d = CredentialRoot => \A x \in dirs : x[1] # "credential_dir"

\* Variant: the directory goes with what is in it.
RemoveTree(a) ==
    LET r == admin[a]
        d == Head(r.todo)
    IN  /\ r.at = "rmdir" /\ r.todo # <<>>
        /\ dirs' = dirs \ {d}
        /\ files' = [f \in Files |-> IF ParentOf(f) = d THEN Missing ELSE files[f]]
        /\ Set(a, [r EXCEPT !.todo = Tail(@)])
        /\ UNCHANGED <<loaded, ops, report, faults>>

\* rmdir of the next directory; its failure is tolerated.
Rmdir(a) ==
    LET r == admin[a]
        d == Head(r.todo)
    IN  /\ r.at = "rmdir" /\ r.todo # <<>>
        /\ \/ dirs' = (IF Empty(d) THEN dirs \ {d} ELSE dirs) /\ UNCHANGED faults
           \/ dirs' = dirs /\ Fault("error")
        /\ Set(a, [r EXCEPT !.todo = Tail(@)])
        /\ UNCHANGED <<files, loaded, ops, report>>

\* Variant: rollback never reloads.
DirsGoneNoReload(a) ==
    LET r == admin[a]
    IN  /\ r.at = "rmdir" /\ r.todo = <<>>
        /\ IF r.doing = "remove" THEN Goes(a, [r EXCEPT !.at = "reload"])
           ELSE Raise(a, r) /\ UNCHANGED faults
        /\ UNCHANGED <<files, dirs, loaded, ops>>

\* remove reloads; rollback reloads only when install had got as far.
DirsGone(a) ==
    LET r == admin[a]
    IN  /\ r.at = "rmdir" /\ r.todo = <<>>
        /\ IF r.doing = "remove" THEN Goes(a, [r EXCEPT !.at = "reload"])
           ELSE IF r.reloading THEN Goes(a, [r EXCEPT !.at = "undo_reload"])
           ELSE Raise(a, r) /\ UNCHANGED faults
        /\ UNCHANGED <<files, dirs, loaded, ops>>

(***************************************************************************)
(* The specification                                                        *)
(***************************************************************************)

Step(a) ==
    \/ \E l \in Setups : StartInstall(a, l) \/ StartRemove(a, l)
    \/ Scan(a) \/ Mkdir(a) \/ MkdirRaces(a)
    \/ WriteTemp(a) \/ WriteRefused(a) \/ Replace(a) \/ Written(a)
    \/ Reload(a) \/ UndoReload(a)
    \/ UndoFile(a) \/ Unlink(a) \/ FilesGone(a) \/ Rmdir(a) \/ DirsGone(a)
    \/ StepFails(a) \/ Crash(a)

Next == \E a \in Admins : Step(a)

Spec == Init /\ [][Next]_vars

(***************************************************************************)
(* Properties                                                               *)
(***************************************************************************)

TypeOK ==
    /\ \A f \in Files :
          files[f] \in {Missing} \cup (IF f[1] = "credential" THEN 0..MaxOps ELSE Setups)
    /\ dirs \subseteq Dirs
    /\ loaded \in [Units -> Setups \cup {Missing}]
    /\ \A a \in Admins :
          /\ DOMAIN admin[a] = DOMAIN Idle
          /\ admin[a].temp # Missing => admin[a].at \in {"replace", "crashed"}
          /\ Range(admin[a].todo) \subseteq Files \cup Dirs
    /\ faults \in 0..MaxFaults
    /\ ops \in 0..MaxOps
    /\ report \in [Setups -> {"none", "installed", "removed", "install failed",
                            "remove failed", "crashed"}]

\* The state of an installation as a caller sees it who waits for the operation
\* on it to end.
Settled(l) ==
    IF Busy(l) THEN (CHOOSE r \in {admin[a] : a \in Admins} : r.on = l).before ELSE Status(l)

Txn == INSTANCE BootstrapTxn WITH
    status <- [l \in Setups |-> Settled(l)],
    busy <- {l \in Setups : Busy(l)}

\* "Install one profile transactionally": setup and remove of installations that
\* share no path either reach their goal or, when one step fails, leave the
\* installation as it was -- with files of the same content.
IsTransactional == Txn!TxnSpec

\* A setup that fails leaves none of its targets behind.
FailedInstallLeavesNothing ==
    \A l \in Setups : report[l] = "install failed" /\ ~Busy(l) => ~AnyTarget(l)

\* A remove that fails leaves the installation whole.
FailedRemoveRestores ==
    \A l \in Setups : report[l] = "remove failed" /\ ~Busy(l) => IsInstalled(l)

\* A restored installation has the secrets it had: a failed remove changes no
\* file of an installation.
RestoresContent ==
    \A a \in Admins :
        LET r == admin[a]
        IN  r.at = "undo_reload" /\ r.doing = "restore" =>
                \A f \in Range(Targets(r.on)) : files[f] = r.snapshot[f]

\* When no operation is under way the manager has loaded the drop-ins on disk.
ManagerAgrees ==
    (\A a \in Admins : admin[a].at = "idle") => loaded = LoadedNow

\* After a setup that failed and was rolled back the manager is reloaded, so it
\* does not serve the drop-in that is gone (docs/systemd-bootstrap.md).
FailedInstallIsUnloaded ==
    (\A a \in Admins : admin[a].at = "idle") =>
        \A l \in Setups :
            report[l] = "install failed" /\ ~AnyTarget(l) => loaded[l.unit] # l

\* Two administrators who work on profiles that share directories get in each
\* other's way, yet as long as no step fails by itself each operation is all or
\* nothing.
WholeWithoutFaults ==
    faults = 0 =>
        \A l \in Setups : ~Busy(l) =>
            IF report[l] \in {"installed", "remove failed"} THEN IsInstalled(l)
            ELSE ~AnyTarget(l)

\* An installation stays whole while operations on others succeed, fail, are
\* interrupted or crash, at the same time or later.
SiblingsUntouched ==
    \A l \in Setups : report[l] = "installed" /\ ~Busy(l) => IsInstalled(l)

\* The step is one of a, which takes away a file of the installation it removes, or
\* rolls back and takes away a file it has recorded that is still as it wrote it.
TakesAway(a, f) ==
    /\ admin'[a] # admin[a]
    /\ admin[a].on \in Setups /\ f \in Range(Targets(admin[a].on))
    /\ \/ admin[a].doing = "remove"
       \/ /\ admin[a].doing = "rollback" /\ f \in Range(admin[a].madeFiles)
          /\ files[f] = ContentOf(a, f)

\* Setup replaces no file that exists and its rollback deletes none of another's:
\* a file that exists changes only by going away, through a remove of its
\* installation or through the rollback of the setup that has written it.
NeverOverwritten ==
    [][\A f \in Files :
          files[f] # Missing /\ files'[f] # files[f] =>
              files'[f] = Missing /\ \E a \in Admins : TakesAway(a, f)]_vars
=============================================================================
