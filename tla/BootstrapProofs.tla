---------------------------- MODULE BootstrapProofs ----------------------------
(***************************************************************************)
(* Theorems about Bootstrap, for any number of administrators and           *)
(* installations, every sequence of distinct credential names, every kind   *)
(* and number of faults:                                                    *)
(*   - types;                                                               *)
(* and, for installations that share no profile and no unit (Separate),     *)
(* each worked on by one administrator at a time (TakeTurns):               *)
(*   - an installation stays whole while others work on its siblings;       *)
(*   - a failed remove restores the content it removed.                     *)
(***************************************************************************)
EXTENDS Bootstrap, SequenceTheorems, TLAPS

(***************************************************************************)
(* Sequences                                                                *)
(***************************************************************************)

\* What is in a sequence is its head or in its tail.
LEMMA RangeSplit ==
    ASSUME NEW S, NEW s \in Seq(S), s # <<>>
    PROVE  Range(s) = {Head(s)} \cup Range(Tail(s))
<1>1. /\ Len(s) \in Nat \ {0} /\ Tail(s) \in Seq(S) /\ Len(Tail(s)) = Len(s) - 1
      /\ \A i \in 1..Len(Tail(s)) : Tail(s)[i] = s[i + 1]
      /\ DOMAIN s = 1..Len(s) /\ DOMAIN Tail(s) = 1..Len(Tail(s)) /\ Head(s) = s[1]
  BY EmptySeq, HeadTailProperties, LenProperties
<1>2. Range(s) \subseteq {Head(s)} \cup Range(Tail(s))
  <2>1. ASSUME NEW i \in 1..Len(s), i # 1 PROVE s[i] \in Range(Tail(s))
    <3>1. i - 1 \in 1..Len(Tail(s)) /\ s[i] = Tail(s)[i - 1]
      BY <1>1, <2>1
    <3> QED BY <1>1, <3>1 DEF Range
  <2> QED BY <1>1, <2>1 DEF Range
<1>3. {Head(s)} \cup Range(Tail(s)) \subseteq Range(s)
  BY <1>1 DEF Range
<1> QED BY <1>2, <1>3

\* Append adds one element.
LEMMA RangeAppend ==
    ASSUME NEW S, NEW s \in Seq(S), NEW x \in S
    PROVE  Range(Append(s, x)) = Range(s) \cup {x}
<1>1. /\ Len(s) \in Nat /\ DOMAIN s = 1..Len(s)
      /\ DOMAIN Append(s, x) = 1..(Len(s) + 1)
      /\ \A i \in 1..Len(s) : Append(s, x)[i] = s[i]
      /\ Append(s, x)[Len(s) + 1] = x
  BY AppendProperties, LenProperties
<1>2. \A i \in 1..(Len(s) + 1) : i \in 1..Len(s) \/ i = Len(s) + 1
  BY <1>1
<1> QED BY <1>1, <1>2 DEF Range

\* Reverse keeps the elements.
LEMMA RangeReverse ==
    ASSUME NEW S, NEW s \in Seq(S)
    PROVE  Reverse(s) \in Seq(S) /\ Range(Reverse(s)) = Range(s)
<1>1. /\ Len(s) \in Nat /\ DOMAIN s = 1..Len(s)
      /\ \A i \in 1..Len(s) : s[i] \in S /\ Len(s) - i + 1 \in 1..Len(s)
  BY LenProperties, ElementOfSeq
<1>2. /\ Reverse(s) \in [1..Len(s) -> S]
      /\ DOMAIN Reverse(s) = 1..Len(s)
      /\ \A i \in 1..Len(s) : Reverse(s)[i] = s[Len(s) - i + 1]
  BY <1>1 DEF Reverse
<1>3. Reverse(s) \in Seq(S)
  BY <1>1, <1>2, SeqDef
<1>4. ASSUME NEW i \in 1..Len(s) PROVE s[i] = Reverse(s)[Len(s) - i + 1]
  <2>1. Len(s) - i + 1 \in 1..Len(s) /\ Len(s) - (Len(s) - i + 1) + 1 = i
    BY <1>1
  <2> QED BY <1>2, <2>1
<1>5. ASSUME NEW x \in Range(s) PROVE x \in Range(Reverse(s))
  <2>1. PICK i \in 1..Len(s) : x = s[i]
    BY <1>1 DEF Range
  <2>2. Len(s) - i + 1 \in DOMAIN Reverse(s) /\ x = Reverse(s)[Len(s) - i + 1]
    BY <1>1, <1>2, <1>4, <2>1
  <2> QED BY <2>2, Zenon DEF Range
<1>6. ASSUME NEW x \in Range(Reverse(s)) PROVE x \in Range(s)
  <2>1. PICK i \in 1..Len(s) : x = Reverse(s)[i]
    BY <1>2 DEF Range
  <2>2. Len(s) - i + 1 \in DOMAIN s /\ x = s[Len(s) - i + 1]
    BY <1>1, <1>2, <2>1
  <2> QED BY <2>2, Zenon DEF Range
<1> QED BY <1>3, <1>5, <1>6

\* Types of head and tail, and when the tail is empty.
LEMMA HeadTail ==
    ASSUME NEW S, NEW s \in Seq(S), s # <<>>
    PROVE  Head(s) \in S /\ Tail(s) \in Seq(S) /\ (Len(s) = 1 <=> Tail(s) = <<>>)
<1>1. Head(s) \in S /\ Tail(s) \in Seq(S) /\ Len(Tail(s)) = Len(s) - 1 /\ Len(s) \in Nat \ {0}
  BY HeadTailProperties, EmptySeq
<1>2. Tail(s) = <<>> <=> Len(Tail(s)) = 0
  BY <1>1, EmptySeq
<1> QED BY <1>1, <1>2

\* Sequences of one and two elements.
LEMMA ShortSeq ==
    ASSUME NEW S, NEW x \in S, NEW y \in S
    PROVE  <<x>> \in Seq(S) /\ <<x, y>> \in Seq(S)
OBVIOUS

\* Nothing is in the empty sequence.
LEMMA RangeEmpty == Range(<<>>) = {}
BY DEF Range

\* A sequence over S has its elements in S.
LEMMA RangeInSet ==
    ASSUME NEW S, NEW s \in Seq(S) PROVE Range(s) \subseteq S
BY LenProperties, ElementOfSeq DEF Range

\* A sequence is one over its own elements.
LEMMA RangeSeq ==
    ASSUME NEW S, NEW s \in Seq(S) PROVE s \in Seq(Range(s))
<1>1. Len(s) \in Nat /\ s \in [1..Len(s) -> Range(s)]
  BY LenProperties DEF Range
<1> QED BY <1>1, SeqDef

(***************************************************************************)
(* Layout                                                                   *)
(***************************************************************************)

\* What the targets of an installation are.
LEMMA TargetsAre ==
    ASSUME NEW l
    PROVE  /\ Targets(l) \in Seq(Range(Targets(l)))
           /\ Credentials(l) \in Seq(Range(Credentials(l)))
           /\ Range(Credentials(l)) = {Credential(l, n) : n \in Range(CREDENTIAL_NAMES)}
           /\ Range(Targets(l)) = Range(Credentials(l)) \cup {DropIn(l), EnvScript(l), Manifest(l)}
<1> DEFINE C == Credentials(l)
           W == <<DropIn(l), EnvScript(l), Manifest(l)>>
           S == Range(C) \cup {DropIn(l), EnvScript(l), Manifest(l)}
           n == Len(CREDENTIAL_NAMES)
<1>1. n \in Nat /\ DOMAIN CREDENTIAL_NAMES = 1..n
  BY BootstrapAssumptions, LenProperties
<1>2. DOMAIN C = 1..n /\ \A i \in 1..n : C[i] = Credential(l, CREDENTIAL_NAMES[i])
  BY <1>1 DEF Credentials
<1>3. Range(C) = {Credential(l, x) : x \in Range(CREDENTIAL_NAMES)}
  BY <1>1, <1>2 DEF Range
<1>4. C \in [1..n -> Range(C)]
  BY <1>2 DEF Range, Credentials
<1>5. C \in Seq(Range(C)) /\ Len(C) = n
  <2>1. C \in Seq(Range(C)) BY <1>1, <1>4, SeqDef
  <2>2. Len(C) \in Nat /\ 1..Len(C) = 1..n BY <1>2, <2>1, LenProperties
  <2> HIDE DEF C, n
  <2> QED BY <1>1, <2>1, <2>2
<1>6. C \in Seq(S) /\ W \in Seq(S) /\ Len(W) = 3
  BY <1>5, SeqMonotonic
<1>7. /\ Targets(l) \in Seq(S) /\ Len(Targets(l)) = n + 3
      /\ \A i \in 1..(n + 3) : Targets(l)[i] = IF i <= n THEN C[i] ELSE W[i - n]
  BY <1>5, <1>6, ConcatProperties DEF Targets
<1>8. Range(Targets(l)) = S
  <2> HIDE DEF C, n
  <2>1. DOMAIN Targets(l) = 1..(n + 3) BY <1>7, LenProperties
  <2>2. Range(Targets(l)) \subseteq S BY <1>7, RangeInSet
  <2>3. Range(C) \subseteq Range(Targets(l))
    BY <1>1, <1>2, <1>7, <2>1 DEF Range
  <2>4. /\ Targets(l)[n + 1] = DropIn(l) /\ Targets(l)[n + 2] = EnvScript(l)
        /\ Targets(l)[n + 3] = Manifest(l)
        /\ {n + 1, n + 2, n + 3} \subseteq 1..(n + 3)
    BY <1>1, <1>7
  <2> QED BY <2>1, <2>2, <2>3, <2>4 DEF Range
<1> QED BY <1>3, <1>5, <1>7, <1>8, RangeSeq

OwnFiles(l) == Range(Targets(l))
OwnDirs(l)  == Range(Directories(l)) \cup {CredentialRoot}

\* The directories of an installation.
LEMMA DirectoriesAre ==
    ASSUME NEW l
    PROVE  /\ Range(Directories(l)) = {CredentialDir(l), UnitDir(l), ManifestDir, ScriptDir}
           /\ Directories(l) \in Seq(OwnDirs(l))
<1>1. Range(Directories(l)) = {CredentialDir(l), UnitDir(l), ManifestDir, ScriptDir}
  BY DEF Directories, Range
<1> QED BY <1>1 DEF OwnDirs, Directories

\* An installation's paths are among those of the model.
LEMMA OwnPaths ==
    ASSUME NEW l \in Setups
    PROVE  /\ OwnFiles(l) \subseteq Files /\ OwnDirs(l) \subseteq Dirs
           /\ DropIn(l) = <<"drop_in", l.unit>> /\ DropIn(l) \in OwnFiles(l)
<1>1. OwnFiles(l) \subseteq Files
  BY DEF Files, OwnFiles
<1>2. OwnDirs(l) \subseteq Dirs
  BY DEF Dirs, OwnDirs
<1>3. DropIn(l) \in OwnFiles(l)
  BY TargetsAre DEF OwnFiles
<1> QED BY <1>1, <1>2, <1>3 DEF DropIn

(***************************************************************************)
(* Types                                                                    *)
(***************************************************************************)

ContentType(f) == {Missing} \cup IF f[1] = "credential" THEN 0..MaxOps ELSE Setups
Contents == {Missing} \cup (0..MaxOps) \cup Setups

Reports == {"none", "installed", "removed", "install failed", "remove failed", "crashed"}

\* The phases of each kind of work.
InPhase(r) ==
    /\ r.doing = "none" => r.at \in {"idle", "crashed"}
    /\ r.doing = "install" => r.at \in {"scan", "mkdir", "write", "replace", "reload"}
    /\ r.doing = "remove" => r.at \in {"unlink", "rmdir", "reload"}
    /\ r.doing = "rollback" => r.at \in {"undo_files", "rmdir", "undo_reload"}
    /\ r.doing = "restore" => r.at \in {"scan", "mkdir", "write", "replace", "undo_reload"}

Ats == {"idle", "crashed", "scan", "mkdir", "write", "replace", "reload", "unlink", "rmdir",
        "undo_files", "undo_reload"}
Doings == {"none", "install", "remove", "rollback", "restore"}
Snapshots == UNION {[F -> Contents] : F \in SUBSET Files}

Processes ==
    [at : Ats, doing : Doings, on : Setups \cup {Missing},
     todo : Seq(Files \cup Dirs), chain : Seq(Dirs), temp : Dirs \cup {Missing},
     madeFiles : Seq(Files), madeDirs : Seq(Dirs), reloading : BOOLEAN,
     snapshot : Snapshots, secret : 0..MaxOps, before : {"none", "absent", "installed"}]

\* A process treats only paths of the installation it works on.
OnItsOwn(r) ==
    /\ r.madeFiles \in Seq(OwnFiles(r.on))
    /\ r.madeDirs \in Seq(OwnDirs(r.on)) /\ r.chain \in Seq(OwnDirs(r.on))
    /\ r.at \in {"write", "replace", "undo_files", "unlink"} => r.todo \in Seq(OwnFiles(r.on))
    /\ r.at \in {"scan", "mkdir", "rmdir"} => r.todo \in Seq(OwnDirs(r.on))

ProcessOK(r) ==
    /\ InPhase(r)
    /\ r.doing = "none" <=> r.on = Missing
    /\ r.doing # "none" => OnItsOwn(r)
    /\ r.at = "mkdir" => r.chain # <<>>
    /\ r.at = "scan" \/ r.doing = "remove" => r.chain = <<>>
    /\ r.at = "replace" => r.todo # <<>>
    /\ r.temp # Missing => r.at \in {"replace", "crashed"}
    /\ r.doing \in {"remove", "restore"} =>
          \A f \in OwnFiles(r.on) : r.snapshot[f] \in ContentType(f)

DiskOK ==
    /\ files \in [Files -> Contents] /\ \A f \in Files : files[f] \in ContentType(f)
    /\ dirs \subseteq Dirs
    /\ loaded \in [Units -> Setups \cup {Missing}]
    /\ faults \in 0..MaxFaults
    /\ ops \in 0..MaxOps
    /\ report \in [Setups -> Reports]

ProcessesOK ==
    /\ admin \in [Admins -> Processes]
    /\ \A a \in Admins : ProcessOK(admin[a])

StateOK == DiskOK /\ ProcessesOK

\* A process at rest, or killed, is well formed.
LEMMA IdleOK ==
    /\ Idle \in Processes /\ ProcessOK(Idle) /\ Idle.on = Missing
    /\ \A d \in Dirs \cup {Missing} :
          LET r == [Idle EXCEPT !.at = "crashed", !.temp = d]
          IN  r \in Processes /\ ProcessOK(r) /\ r.on = Missing
<1>1. /\ Idle.at = "idle" /\ Idle.doing = "none" /\ Idle.on = Missing /\ Idle.todo = <<>>
      /\ Idle.chain = <<>> /\ Idle.temp = Missing /\ Idle.madeFiles = <<>>
      /\ Idle.madeDirs = <<>> /\ Idle.reloading = FALSE /\ Idle.snapshot = <<>>
      /\ Idle.secret = 0 /\ Idle.before = "none"
  BY DEF Idle
<1>2. <<>> \in [{} -> Contents]
  OBVIOUS
<1>3. Idle \in Processes
  <2>1. <<>> \in Snapshots
    BY <1>2 DEF Snapshots
  <2>2. 0 \in 0..MaxOps BY BootstrapAssumptions
  <2> QED BY <1>1, <2>1, <2>2 DEF Idle, Processes, Ats, Doings
<1>4. ProcessOK(Idle)
  BY <1>1 DEF ProcessOK, InPhase
<1>5. ASSUME NEW d \in Dirs \cup {Missing}
      PROVE  LET r == [Idle EXCEPT !.at = "crashed", !.temp = d]
             IN  r \in Processes /\ ProcessOK(r) /\ r.on = Missing
  <2> DEFINE r == [Idle EXCEPT !.at = "crashed", !.temp = d]
  <2>1. r \in Processes
    BY <1>3 DEF Processes, Ats
  <2>2. r.at = "crashed" /\ r.doing = "none" /\ r.on = Missing /\ r.chain = <<>>
    BY <1>1, <1>3 DEF Processes
  <2>3. ProcessOK(r)
    <3> HIDE DEF r
    <3> QED BY <2>2 DEF ProcessOK, InPhase
  <2> QED BY <2>1, <2>2, <2>3
<1> QED BY <1>1, <1>3, <1>4, <1>5

\* A process that moves on to a well-formed state, whatever the state of the others.
LEMMA SetOK ==
    ASSUME ProcessesOK, NEW a \in Admins, NEW r \in Processes, ProcessOK(r), Set(a, r)
    PROVE  ProcessesOK' /\ admin'[a] = r /\ \A b \in Admins \ {a} : admin'[b] = admin[b]
<1>1. /\ admin' \in [Admins -> Processes] /\ admin'[a] = r
      /\ \A b \in Admins \ {a} : admin'[b] = admin[b]
  BY DEF ProcessesOK, Set
<1>2. \A b \in Admins : ProcessOK(admin'[b])
  BY <1>1 DEF ProcessesOK
<1> QED BY <1>1, <1>2 DEF ProcessesOK

\* An exception takes a process at work to a rollback, a restoration or its end.
LEMMA RaiseOK ==
    ASSUME StateOK, NEW a \in Admins, NEW r \in Processes, ProcessOK(r),
           r.on = admin[a].on, r.on # Missing, Raise(a, r)
    PROVE  /\ ProcessesOK' /\ report' \in [Setups -> Reports]
           /\ \A b \in Admins \ {a} : admin'[b] = admin[b]
           /\ \/ /\ r.doing = "install" /\ report' = report
                 /\ admin'[a] = [r EXCEPT !.at = "undo_files", !.doing = "rollback",
                                          !.todo = Reverse(r.madeFiles), !.temp = Missing]
              \/ /\ r.doing = "remove" /\ report' = report
                 /\ admin'[a] = [r EXCEPT !.at = "scan", !.doing = "restore",
                                          !.todo = Directories(r.on), !.madeFiles = <<>>,
                                          !.madeDirs = <<>>]
              \/ /\ r.doing = "rollback" /\ admin'[a] = Idle
                 /\ report' = [report EXCEPT ![r.on] = "install failed"]
              \/ /\ r.doing = "restore" /\ admin'[a] = Idle
                 /\ report' = [report EXCEPT ![r.on] = "remove failed"]
<1> DEFINE back == [r EXCEPT !.at = "undo_files", !.doing = "rollback",
                             !.todo = Reverse(r.madeFiles), !.temp = Missing]
           again == [r EXCEPT !.at = "scan", !.doing = "restore", !.todo = Directories(r.on),
                              !.madeFiles = <<>>, !.madeDirs = <<>>]
<1>1. r.on \in Setups /\ OnItsOwn(r) /\ r.doing \in Doings \ {"none"}
  BY DEF Processes, ProcessOK
<1>2. CASE r.doing = "install"
  <2>1. Set(a, back) /\ report' = report
    BY <1>2 DEF Raise
  <2>2. Reverse(r.madeFiles) \in Seq(OwnFiles(r.on))
    BY <1>1, RangeReverse DEF OnItsOwn
  <2>3. OwnFiles(r.on) \subseteq Files \cup Dirs
    BY <1>1, OwnPaths
  <2>4. Reverse(r.madeFiles) \in Seq(Files \cup Dirs)
    BY <2>2, <2>3, SeqMonotonic
  <2>5. back \in Processes
    BY <2>4 DEF Processes, Ats, Doings
  <2>6. /\ back.at = "undo_files" /\ back.doing = "rollback" /\ back.on = r.on
        /\ back.todo = Reverse(r.madeFiles) /\ back.temp = Missing
        /\ back.madeFiles = r.madeFiles /\ back.madeDirs = r.madeDirs /\ back.chain = r.chain
    BY DEF Processes
  <2>7. ProcessOK(back)
    <3> HIDE DEF back
    <3> QED BY <1>1, <2>2, <2>6 DEF ProcessOK, OnItsOwn, InPhase
  <2> QED BY <1>2, <2>1, <2>5, <2>7, SetOK DEF StateOK, DiskOK
<1>3. CASE r.doing = "remove"
  <2>1. Set(a, again) /\ report' = report
    BY <1>3 DEF Raise
  <2>2. Directories(r.on) \in Seq(OwnDirs(r.on)) /\ Directories(r.on) \in Seq(Files \cup Dirs)
    BY <1>1, DirectoriesAre, OwnPaths, SeqMonotonic
  <2>3. again \in Processes
    <3>1. <<>> \in Seq(Files) /\ <<>> \in Seq(Dirs)
      BY EmptySeq
    <3> QED BY <2>2, <3>1 DEF Processes, Ats, Doings
  <2>4. /\ again.at = "scan" /\ again.doing = "restore" /\ again.on = r.on
        /\ again.todo = Directories(r.on) /\ again.temp = r.temp
        /\ again.madeFiles = <<>> /\ again.madeDirs = <<>> /\ again.chain = r.chain
        /\ again.snapshot = r.snapshot
    BY DEF Processes
  <2>5. ProcessOK(again)
    <3> HIDE DEF again
    <3> QED BY <1>1, <1>3, <2>2, <2>4 DEF ProcessOK, OnItsOwn, InPhase
  <2> QED BY <1>3, <2>1, <2>3, <2>5, SetOK DEF StateOK, DiskOK
<1>4. CASE r.doing \in {"rollback", "restore"}
  <2>1. /\ Set(a, Idle)
        /\ report' = [report EXCEPT ![r.on] = IF r.doing = "rollback" THEN "install failed"
                                              ELSE "remove failed"]
    BY <1>4 DEF Raise, Finish
  <2>2. report' \in [Setups -> Reports]
    BY <2>1 DEF StateOK, DiskOK, Reports
  <2> QED BY <1>4, <2>1, <2>2, IdleOK, SetOK DEF StateOK
<1> QED BY <1>1, <1>2, <1>3, <1>4 DEF Doings

\* Types are kept by starting an operation.
LEMMA StartTyped ==
    ASSUME StateOK, NEW a \in Admins, NEW l \in Setups, StartInstall(a, l) \/ StartRemove(a, l)
    PROVE  StateOK'
<1> USE BootstrapAssumptions
<1>1. DiskOK' /\ ops' \in 0..MaxOps /\ l # Missing
  BY DEF StateOK, DiskOK, StartInstall, StartRemove, Starts
<1>2. <<>> \in Seq(Files) /\ <<>> \in Seq(Dirs) /\ <<>> \in Seq(OwnFiles(l)) /\ <<>> \in Seq(OwnDirs(l))
  BY EmptySeq
<1>3. CASE StartInstall(a, l)
  <2> DEFINE r == [Idle EXCEPT !.at = "scan", !.doing = "install", !.on = l,
                               !.todo = Directories(l), !.secret = ops', !.before = "absent"]
  <2>1. Set(a, r) BY <1>3 DEF StartInstall
  <2>2. Directories(l) \in Seq(OwnDirs(l)) /\ Directories(l) \in Seq(Files \cup Dirs)
    BY DirectoriesAre, OwnPaths, SeqMonotonic
  <2>3. r \in Processes
    <3>1. Idle \in Processes BY IdleOK
    <3> QED BY <1>1, <2>2, <3>1 DEF Processes, Ats, Doings
  <2>4. /\ r.at = "scan" /\ r.doing = "install" /\ r.on = l /\ r.todo = Directories(l)
        /\ r.chain = <<>> /\ r.madeFiles = <<>> /\ r.madeDirs = <<>> /\ r.temp = Missing
    BY DEF Idle
  <2>5. ProcessOK(r)
    <3> HIDE DEF r
    <3> QED BY <1>1, <1>2, <2>2, <2>4 DEF ProcessOK, OnItsOwn, InPhase
  <2> QED BY <1>1, <2>1, <2>3, <2>5, SetOK DEF StateOK
<1>4. CASE StartRemove(a, l)
  <2> DEFINE s == [f \in Range(Targets(l)) |-> files[f]]
             r == [Idle EXCEPT !.at = "unlink", !.doing = "remove", !.on = l,
                               !.todo = Targets(l), !.before = "installed", !.snapshot = s]
  <2>1. Set(a, r) BY <1>4 DEF StartRemove
  <2>2. Targets(l) \in Seq(OwnFiles(l)) /\ Targets(l) \in Seq(Files \cup Dirs)
    BY TargetsAre, OwnPaths, SeqMonotonic DEF OwnFiles
  <2>3. \A f \in OwnFiles(l) : s[f] \in ContentType(f)
    BY OwnPaths DEF OwnFiles, StateOK, DiskOK
  <2>4. s \in Snapshots
    <3>1. OwnFiles(l) \in SUBSET Files BY OwnPaths
    <3>2. s \in [OwnFiles(l) -> Contents]
      BY <3>1 DEF OwnFiles, StateOK, DiskOK
    <3> QED BY <3>1, <3>2 DEF Snapshots
  <2>5. r \in Processes
    <3>1. Idle \in Processes BY IdleOK
    <3> HIDE DEF s
    <3> QED BY <2>2, <2>4, <3>1 DEF Processes, Ats, Doings
  <2>6. /\ r.at = "unlink" /\ r.doing = "remove" /\ r.on = l /\ r.todo = Targets(l)
        /\ r.chain = <<>> /\ r.madeFiles = <<>> /\ r.madeDirs = <<>> /\ r.temp = Missing
        /\ r.snapshot = s
    BY DEF Idle
  <2>7. ProcessOK(r)
    <3> HIDE DEF r, s
    <3> QED BY <1>1, <1>2, <2>2, <2>3, <2>6 DEF ProcessOK, OnItsOwn, InPhase
  <2> QED BY <1>1, <2>1, <2>5, <2>7, SetOK DEF StateOK
<1> QED BY <1>3, <1>4

\* Types are kept by listing the missing directories of a path.
LEMMA ScanTyped ==
    ASSUME StateOK, NEW a \in Admins, Scan(a)
    PROVE  StateOK'
<1> DEFINE r == admin[a]
           l == r.on
           missing == MissingUpTo(Head(r.todo))
           n == IF r.todo = <<>> THEN [r EXCEPT !.at = "write", !.todo = Targets(l)]
                ELSE [r EXCEPT !.at = IF missing = <<>> THEN "scan" ELSE "mkdir",
                               !.todo = Tail(r.todo), !.chain = missing]
<1>1. /\ r \in Processes /\ ProcessOK(r) /\ r.at = "scan" /\ r.doing \in {"install", "restore"}
      /\ l \in Setups /\ OnItsOwn(r) /\ r.todo \in Seq(OwnDirs(l)) /\ r.chain = <<>>
      /\ r.temp = Missing
  BY DEF Scan, StateOK, ProcessesOK, ProcessOK, OnItsOwn, InPhase, Processes, Doings
<1>2. Set(a, n) /\ DiskOK'
  BY DEF Scan, Goes, StateOK, DiskOK
<1>3. CASE r.todo = <<>>
  <2>1. Targets(l) \in Seq(OwnFiles(l)) /\ Targets(l) \in Seq(Files \cup Dirs)
    BY <1>1, TargetsAre, OwnPaths, SeqMonotonic DEF OwnFiles
  <2>2. n \in Processes
    BY <1>1, <1>3, <2>1 DEF Processes, Ats
  <2>3. /\ n.at = "write" /\ n.todo = Targets(l) /\ n.doing = r.doing /\ n.on = l
        /\ n.chain = r.chain /\ n.madeFiles = r.madeFiles /\ n.madeDirs = r.madeDirs
        /\ n.temp = r.temp /\ n.snapshot = r.snapshot
    BY <1>1, <1>3 DEF Processes
  <2>4. ProcessOK(n)
    <3> HIDE DEF n, r
    <3> QED BY <1>1, <2>1, <2>3 DEF ProcessOK, OnItsOwn, InPhase
  <2> QED BY <1>2, <2>2, <2>4, SetOK DEF StateOK
<1>4. CASE r.todo # <<>>
  <2> DEFINE d == Head(r.todo)
  <2>1. d \in OwnDirs(l) /\ Tail(r.todo) \in Seq(OwnDirs(l))
    BY <1>1, <1>4, HeadTailProperties
  <2>2. missing \in Seq(OwnDirs(l))
    <3>1. CredentialRoot \in OwnDirs(l) BY DEF OwnDirs
    <3>2. missing \in {<<>>, <<CredentialRoot, d>>, <<d>>}
      BY DEF MissingUpTo
    <3> HIDE DEF missing, d
    <3> QED BY <2>1, <3>1, <3>2, ShortSeq, EmptySeq
  <2>3. missing \in Seq(Dirs) /\ Tail(r.todo) \in Seq(Files \cup Dirs)
    <3>1. OwnDirs(l) \subseteq Dirs /\ OwnDirs(l) \subseteq Files \cup Dirs
      BY <1>1, OwnPaths
    <3> HIDE DEF missing, l
    <3> QED BY <2>1, <2>2, <3>1, SeqMonotonic
  <2>4. n \in Processes
    <3> HIDE DEF missing
    <3> QED BY <1>1, <1>4, <2>3 DEF Processes, Ats
  <2>5. /\ n.at = (IF missing = <<>> THEN "scan" ELSE "mkdir") /\ n.todo = Tail(r.todo)
        /\ n.doing = r.doing /\ n.on = l
        /\ n.chain = missing /\ n.madeFiles = r.madeFiles /\ n.madeDirs = r.madeDirs
        /\ n.temp = r.temp /\ n.snapshot = r.snapshot
    <3> HIDE DEF missing
    <3> QED BY <1>1, <1>4 DEF Processes
  <2>6. ProcessOK(n)
    <3> HIDE DEF n, r, missing
    <3> QED BY <1>1, <2>1, <2>2, <2>5 DEF ProcessOK, OnItsOwn, InPhase
  <2> QED BY <1>2, <2>4, <2>6, SetOK DEF StateOK
<1> QED BY <1>3, <1>4

\* A process that has made the next directory of its chain.
MadeOne(r) == [r EXCEPT !.chain = Tail(r.chain),
                        !.at = IF Len(r.chain) = 1 THEN "scan" ELSE "mkdir"]

\* It is well formed, and differs in its chain and its place only.
LEMMA MadeOneOK ==
    ASSUME NEW r \in Processes, ProcessOK(r), r.at = "mkdir"
    PROVE  /\ r.doing \in {"install", "restore"} /\ r.on \in Setups /\ r.on # Missing
           /\ OnItsOwn(r) /\ r.chain # <<>> /\ r.chain \in Seq(OwnDirs(r.on))
           /\ Head(r.chain) \in OwnDirs(r.on)
           /\ MadeOne(r) \in Processes /\ ProcessOK(MadeOne(r))
           /\ MadeOne(r).at = IF MadeOne(r).chain = <<>> THEN "scan" ELSE "mkdir"
           /\ MadeOne(r).chain = Tail(r.chain) /\ MadeOne(r).todo = r.todo
           /\ MadeOne(r).doing = r.doing /\ MadeOne(r).on = r.on /\ MadeOne(r).temp = r.temp
           /\ MadeOne(r).madeFiles = r.madeFiles /\ MadeOne(r).madeDirs = r.madeDirs
           /\ MadeOne(r).snapshot = r.snapshot /\ MadeOne(r).reloading = r.reloading
           /\ MadeOne(r).secret = r.secret /\ MadeOne(r).before = r.before
<1> DEFINE d == Head(r.chain)
           done == MadeOne(r)
<1>1. /\ r.doing \in {"install", "restore"} /\ r.on \in Setups /\ r.on # Missing
      /\ OnItsOwn(r) /\ r.todo \in Seq(OwnDirs(r.on)) /\ r.chain # <<>>
      /\ r.temp = Missing
  BY BootstrapAssumptions DEF ProcessOK, OnItsOwn, InPhase, Processes, Doings
<1>2. /\ r.chain \in Seq(OwnDirs(r.on)) /\ d \in OwnDirs(r.on)
      /\ Tail(r.chain) \in Seq(OwnDirs(r.on)) /\ Tail(r.chain) \in Seq(Dirs)
      /\ Len(r.chain) = 1 <=> Tail(r.chain) = <<>>
  <2>1. r.chain \in Seq(Dirs) BY DEF Processes
  <2>2. r.chain \in Seq(OwnDirs(r.on)) BY <1>1 DEF OnItsOwn
  <2> QED BY <1>1, <2>1, <2>2, HeadTail
<1>3. done \in Processes
  BY <1>1, <1>2 DEF Processes, Ats, MadeOne
<1>4. /\ done.at = (IF Len(r.chain) = 1 THEN "scan" ELSE "mkdir") /\ done.chain = Tail(r.chain)
      /\ done.todo = r.todo /\ done.doing = r.doing /\ done.on = r.on /\ done.temp = r.temp
      /\ done.madeFiles = r.madeFiles /\ done.madeDirs = r.madeDirs
      /\ done.snapshot = r.snapshot /\ done.reloading = r.reloading
      /\ done.secret = r.secret /\ done.before = r.before
  BY <1>1 DEF Processes, MadeOne
<1>5. ProcessOK(done)
  <2> HIDE DEF done
  <2> QED BY <1>1, <1>2, <1>4 DEF ProcessOK, OnItsOwn, InPhase
<1> HIDE DEF done, d
<1> QED BY <1>1, <1>2, <1>3, <1>4, <1>5 DEF done, d

\* Types are kept by making a directory.
LEMMA MkdirTyped ==
    ASSUME StateOK, NEW a \in Admins, Mkdir(a) \/ MkdirRaces(a)
    PROVE  StateOK'
<1> DEFINE r == admin[a]
           d == Head(r.chain)
           n == [MadeOne(r) EXCEPT !.madeDirs = Append(@, d)]
<1>1. r \in Processes /\ ProcessOK(r) /\ r.at = "mkdir"
  BY DEF Mkdir, MkdirRaces, StateOK, ProcessesOK
<1>2. d \in Dirs
  BY <1>1, MadeOneOK, OwnPaths
<1>3. CASE Mkdir(a) /\ Set(a, n) /\ UNCHANGED <<faults, report>>
  <2>1. Append(r.madeDirs, d) \in Seq(OwnDirs(r.on)) /\ Append(r.madeDirs, d) \in Seq(Dirs)
    <3>1. r.madeDirs \in Seq(Dirs) BY <1>1 DEF Processes
    <3>2. r.madeDirs \in Seq(OwnDirs(r.on)) /\ d \in OwnDirs(r.on)
      BY <1>1, MadeOneOK DEF OnItsOwn
    <3> HIDE DEF r, d
    <3> QED BY <1>2, <3>1, <3>2, AppendProperties
  <2>2. n \in Processes
    <3> HIDE DEF r, d
    <3> QED BY <1>1, <2>1, MadeOneOK DEF Processes
  <2>3. /\ n.at = MadeOne(r).at /\ n.chain = MadeOne(r).chain /\ n.todo = r.todo
        /\ n.doing = r.doing /\ n.on = r.on /\ n.temp = r.temp /\ n.madeFiles = r.madeFiles
        /\ n.madeDirs = Append(r.madeDirs, d) /\ n.snapshot = r.snapshot
    <3> HIDE DEF r, d
    <3> QED BY <1>1, MadeOneOK DEF Processes
  <2>4. ProcessOK(n)
    <3>1. /\ ProcessOK(MadeOne(r)) /\ MadeOne(r).doing = r.doing /\ MadeOne(r).on = r.on
          /\ MadeOne(r).todo = r.todo /\ MadeOne(r).temp = r.temp
          /\ MadeOne(r).madeFiles = r.madeFiles /\ MadeOne(r).snapshot = r.snapshot
      BY <1>1, MadeOneOK
    <3> HIDE DEF n, r, d
    <3> QED BY <2>1, <2>3, <3>1 DEF ProcessOK, OnItsOwn, InPhase
  <2>5. DiskOK'
    BY <1>2, <1>3 DEF Mkdir, StateOK, DiskOK
  <2> HIDE DEF n
  <2> QED BY <1>3, <2>2, <2>4, <2>5, SetOK DEF StateOK
<1>4. CASE Mkdir(a) /\ (Fault("error") \/ Fault("interrupt")) /\ Raise(a, MadeOne(r))
  <2>1. ProcessesOK' /\ report' \in [Setups -> Reports]
    <3>1. /\ MadeOne(r) \in Processes /\ ProcessOK(MadeOne(r))
          /\ MadeOne(r).on = r.on /\ r.on # Missing
      BY <1>1, MadeOneOK
    <3> QED BY <1>4, <3>1, RaiseOK
  <2>2. faults' \in 0..MaxFaults
    BY <1>4, BootstrapAssumptions DEF Fault, StateOK, DiskOK
  <2> QED BY <1>2, <1>4, <2>1, <2>2 DEF Mkdir, StateOK, DiskOK
<1>5. CASE MkdirRaces(a)
  <2>1. Raise(a, r) /\ r.on # Missing
    BY <1>1, <1>5, MadeOneOK DEF MkdirRaces
  <2>2. ProcessesOK' /\ report' \in [Setups -> Reports]
    BY <1>1, <2>1, RaiseOK
  <2> QED BY <1>5, <2>2 DEF MkdirRaces, StateOK, DiskOK
<1> QED BY <1>3, <1>4, <1>5 DEF Mkdir, Goes, MadeOne

\* Types are kept by the steps around writing a file.
LEMMA WriteTyped ==
    ASSUME StateOK, NEW a \in Admins, WriteTemp(a) \/ WriteRefused(a) \/ Written(a)
    PROVE  StateOK'
<1> DEFINE r == admin[a]
           f == Head(r.todo)
<1>1. /\ r \in Processes /\ ProcessOK(r) /\ r.at = "write" /\ r.doing \in {"install", "restore"}
      /\ r.on \in Setups /\ OnItsOwn(r) /\ r.todo \in Seq(OwnFiles(r.on)) /\ r.temp = Missing
      /\ r.on # Missing
  BY BootstrapAssumptions DEF WriteTemp, WriteRefused, Written, StateOK, ProcessesOK, ProcessOK,
     OnItsOwn, InPhase, Processes, Doings
<1>2. CASE WriteTemp(a)
  <2> DEFINE n == [r EXCEPT !.at = "replace", !.temp = ParentOf(f)]
  <2>1. Set(a, n) /\ DiskOK' /\ r.todo # <<>>
    BY <1>2 DEF WriteTemp, Goes, StateOK, DiskOK
  <2>2. ParentOf(f) \in Dirs
    BY <1>2 DEF WriteTemp, StateOK, DiskOK
  <2>3. n \in Processes
    <3> HIDE DEF f
    <3> QED BY <1>1, <2>2 DEF Processes, Ats
  <2>4. /\ n.at = "replace" /\ n.todo = r.todo /\ n.doing = r.doing /\ n.on = r.on
        /\ n.chain = r.chain /\ n.madeFiles = r.madeFiles /\ n.madeDirs = r.madeDirs
        /\ n.snapshot = r.snapshot
    BY <1>1 DEF Processes
  <2>5. ProcessOK(n)
    <3> HIDE DEF n, r
    <3> QED BY <1>1, <2>1, <2>4 DEF ProcessOK, OnItsOwn, InPhase
  <2> HIDE DEF n
  <2> QED BY <2>1, <2>3, <2>5, SetOK DEF StateOK
<1>3. CASE WriteRefused(a) /\ Set(a, [r EXCEPT !.todo = Tail(@)]) /\ report' = report
  <2> DEFINE n == [r EXCEPT !.todo = Tail(@)]
  <2>1. DiskOK' /\ r.todo # <<>>
    BY <1>3 DEF WriteRefused, StateOK, DiskOK
  <2>2. Tail(r.todo) \in Seq(OwnFiles(r.on)) /\ Tail(r.todo) \in Seq(Files \cup Dirs)
    BY <1>1, <2>1, HeadTailProperties DEF Processes
  <2>3. n \in Processes
    BY <1>1, <2>2 DEF Processes
  <2>4. /\ n.at = r.at /\ n.todo = Tail(r.todo) /\ n.doing = r.doing /\ n.on = r.on
        /\ n.chain = r.chain /\ n.madeFiles = r.madeFiles /\ n.madeDirs = r.madeDirs
        /\ n.snapshot = r.snapshot /\ n.temp = r.temp
    BY <1>1 DEF Processes
  <2>5. ProcessOK(n)
    <3> HIDE DEF n, r
    <3> QED BY <1>1, <2>2, <2>4 DEF ProcessOK, OnItsOwn, InPhase
  <2> QED BY <1>3, <2>1, <2>3, <2>5, SetOK DEF StateOK
<1>4. CASE WriteRefused(a) /\ Raise(a, r)
  <2>1. ProcessesOK' /\ report' \in [Setups -> Reports]
    BY <1>1, <1>4, RaiseOK
  <2> QED BY <1>4, <2>1 DEF WriteRefused, StateOK, DiskOK
<1>5. CASE Written(a)
  <2> DEFINE n == [r EXCEPT !.at = IF r.doing = "install" THEN "reload" ELSE "undo_reload",
                            !.reloading = TRUE]
  <2>1. Set(a, n) /\ DiskOK'
    BY <1>5 DEF Written, Goes, StateOK, DiskOK
  <2>2. n \in Processes
    BY <1>1 DEF Processes, Ats
  <2>3. /\ n.at = (IF r.doing = "install" THEN "reload" ELSE "undo_reload")
        /\ n.todo = r.todo /\ n.doing = r.doing /\ n.on = r.on
        /\ n.chain = r.chain /\ n.madeFiles = r.madeFiles /\ n.madeDirs = r.madeDirs
        /\ n.snapshot = r.snapshot /\ n.temp = r.temp
    BY <1>1 DEF Processes
  <2>4. ProcessOK(n)
    <3> HIDE DEF n, r
    <3> QED BY <1>1, <2>3 DEF ProcessOK, OnItsOwn, InPhase
  <2> QED BY <2>1, <2>2, <2>4, SetOK DEF StateOK
<1> QED BY <1>2, <1>3, <1>4, <1>5 DEF WriteRefused

\* A process that has put the next file in place.
WroteOne(r) == [r EXCEPT !.at = "write", !.todo = Tail(@), !.temp = Missing]

\* It is well formed, with one path less to treat.
LEMMA WroteOneOK ==
    ASSUME NEW r \in Processes, ProcessOK(r), r.at = "replace"
    PROVE  /\ r.doing \in {"install", "restore"} /\ r.on \in Setups /\ r.on # Missing
           /\ OnItsOwn(r) /\ r.todo # <<>> /\ r.todo \in Seq(OwnFiles(r.on))
           /\ Head(r.todo) \in OwnFiles(r.on)
           /\ WroteOne(r) \in Processes /\ ProcessOK(WroteOne(r))
           /\ WroteOne(r).at = "write" /\ WroteOne(r).todo = Tail(r.todo)
           /\ WroteOne(r).doing = r.doing /\ WroteOne(r).on = r.on
           /\ WroteOne(r).temp = Missing /\ WroteOne(r).chain = r.chain
           /\ WroteOne(r).madeFiles = r.madeFiles /\ WroteOne(r).madeDirs = r.madeDirs
           /\ WroteOne(r).snapshot = r.snapshot /\ WroteOne(r).reloading = r.reloading
           /\ WroteOne(r).secret = r.secret /\ WroteOne(r).before = r.before
<1> DEFINE f == Head(r.todo)
           done == WroteOne(r)
<1>1. /\ r.doing \in {"install", "restore"} /\ r.on \in Setups /\ r.on # Missing
      /\ OnItsOwn(r) /\ r.todo \in Seq(OwnFiles(r.on)) /\ r.todo # <<>>
  BY BootstrapAssumptions DEF ProcessOK, OnItsOwn, InPhase, Processes, Doings
<1>2. /\ f \in OwnFiles(r.on)
      /\ Tail(r.todo) \in Seq(OwnFiles(r.on)) /\ Tail(r.todo) \in Seq(Files \cup Dirs)
  <2>1. r.todo \in Seq(Files \cup Dirs) BY DEF Processes
  <2> QED BY <1>1, <2>1, HeadTail
<1>3. done \in Processes
  BY <1>1, <1>2 DEF Processes, Ats, WroteOne
<1>4. /\ done.at = "write" /\ done.todo = Tail(r.todo) /\ done.doing = r.doing /\ done.on = r.on
      /\ done.chain = r.chain /\ done.madeFiles = r.madeFiles /\ done.madeDirs = r.madeDirs
      /\ done.snapshot = r.snapshot /\ done.temp = Missing /\ done.reloading = r.reloading
      /\ done.secret = r.secret /\ done.before = r.before
  BY <1>1 DEF Processes, WroteOne
<1>5. ProcessOK(done)
  <2> HIDE DEF done
  <2> QED BY <1>1, <1>2, <1>4 DEF ProcessOK, OnItsOwn, InPhase
<1> HIDE DEF done, f
<1> QED BY <1>1, <1>2, <1>3, <1>4, <1>5 DEF done, f

\* Types are kept by putting a file in place.
LEMMA ReplaceTyped ==
    ASSUME StateOK, NEW a \in Admins, Replace(a)
    PROVE  StateOK'
<1> DEFINE r == admin[a]
           f == Head(r.todo)
           n == [WroteOne(r) EXCEPT !.madeFiles = Append(@, f)]
<1>1. /\ r \in Processes /\ ProcessOK(r) /\ r.at = "replace" /\ r.on \in Setups
      /\ f \in OwnFiles(r.on) /\ r.doing \in {"install", "restore"}
  BY WroteOneOK DEF Replace, StateOK, ProcessesOK
<1>2. f \in Files
  BY <1>1, OwnPaths
<1>3. ContentOf(a, f) \in ContentType(f) /\ ContentOf(a, f) \in Contents
  <2>1. r.secret \in 0..MaxOps BY <1>1 DEF Processes
  <2>2. r.doing = "restore" => r.snapshot[f] \in ContentType(f)
    BY <1>1 DEF ProcessOK
  <2> HIDE DEF f
  <2> QED BY <1>1, <1>2, <2>1, <2>2 DEF ContentOf, ContentType, Contents
<1>4. files' \in [Files -> Contents] /\ \A g \in Files : files'[g] \in ContentType(g)
  <2>1. files' = [files EXCEPT ![f] = ContentOf(a, f)]
    BY DEF Replace
  <2> HIDE DEF f
  <2> QED BY <1>2, <1>3, <2>1 DEF StateOK, DiskOK
<1>5. CASE Set(a, n) /\ UNCHANGED <<faults, report>>
  <2>1. Append(r.madeFiles, f) \in Seq(OwnFiles(r.on)) /\ Append(r.madeFiles, f) \in Seq(Files)
    <3>1. r.madeFiles \in Seq(Files) BY <1>1 DEF Processes
    <3>2. r.madeFiles \in Seq(OwnFiles(r.on)) BY <1>1, WroteOneOK DEF OnItsOwn
    <3> HIDE DEF r, f
    <3> QED BY <1>1, <1>2, <3>1, <3>2, AppendProperties
  <2>2. n \in Processes
    <3> HIDE DEF r, f
    <3> QED BY <1>1, <2>1, WroteOneOK DEF Processes
  <2>3. /\ n.at = "write" /\ n.chain = r.chain /\ n.todo = Tail(r.todo) /\ n.doing = r.doing
        /\ n.on = r.on /\ n.temp = Missing /\ n.madeFiles = Append(r.madeFiles, f)
        /\ n.madeDirs = r.madeDirs /\ n.snapshot = r.snapshot
    <3> HIDE DEF r, f
    <3> QED BY <1>1, WroteOneOK DEF Processes
  <2>4. ProcessOK(n)
    <3> HIDE DEF n, r, f
    <3> QED BY <1>1, <2>1, <2>3, WroteOneOK DEF ProcessOK, OnItsOwn, InPhase
  <2>5. DiskOK'
    BY <1>4, <1>5 DEF Replace, StateOK, DiskOK
  <2> HIDE DEF n
  <2> QED BY <1>5, <2>2, <2>4, <2>5, SetOK DEF StateOK
<1>6. CASE Fault("interrupt") /\ Raise(a, WroteOne(r))
  <2>1. ProcessesOK' /\ report' \in [Setups -> Reports]
    BY <1>1, <1>6, WroteOneOK, RaiseOK
  <2>2. faults' \in 0..MaxFaults
    BY <1>6, BootstrapAssumptions DEF Fault, StateOK, DiskOK
  <2> QED BY <1>4, <2>1, <2>2 DEF Replace, StateOK, DiskOK
<1> QED BY <1>5, <1>6 DEF Replace, Goes, WroteOne

\* What the manager loads from a well-typed disk.
LEMMA LoadedNowTyped ==
    ASSUME \A f \in Files : files[f] \in ContentType(f)
    PROVE  LoadedNow \in [Units -> Setups \cup {Missing}]
<1>1. ASSUME NEW u \in Units PROVE files[<<"drop_in", u>>] \in Setups \cup {Missing}
  <2>1. PICK l \in Setups : l.unit = u
    BY DEF Units
  <2>2. <<"drop_in", u>> \in Files /\ <<"drop_in", u>>[1] # "credential"
    BY <2>1, OwnPaths
  <2> QED BY <2>2 DEF ContentType
<1> QED BY <1>1 DEF LoadedNow

\* Types are kept by a reload of the service manager.
LEMMA ReloadTyped ==
    ASSUME StateOK, NEW a \in Admins, Reload(a) \/ UndoReload(a)
    PROVE  StateOK'
<1> DEFINE r == admin[a]
<1>1. /\ r \in Processes /\ ProcessOK(r) /\ r.at \in {"reload", "undo_reload"}
      /\ r.on \in Setups /\ r.on # Missing
  BY BootstrapAssumptions DEF Reload, UndoReload, StateOK, ProcessesOK, ProcessOK,
     InPhase, Processes, Doings
<1>2. loaded' \in [Units -> Setups \cup {Missing}]
  BY LoadedNowTyped DEF Reload, UndoReload, StateOK, DiskOK
<1>3. faults' \in 0..MaxFaults
  BY BootstrapAssumptions DEF Reload, UndoReload, Fault, StateOK, DiskOK
<1>4. CASE Raise(a, r)
  <2>1. ProcessesOK' /\ report' \in [Setups -> Reports]
    BY <1>1, <1>4, RaiseOK
  <2> QED BY <1>2, <1>3, <2>1 DEF Reload, UndoReload, StateOK, DiskOK
<1>5. CASE Finish(a, IF r.doing = "install" THEN "installed" ELSE "removed")
  <2>1. Set(a, Idle) /\ report' \in [Setups -> Reports]
    BY <1>1, <1>5 DEF Finish, StateOK, DiskOK, Reports
  <2>2. ProcessesOK'
    BY <2>1, IdleOK, SetOK DEF StateOK
  <2> QED BY <1>2, <1>3, <2>1, <2>2 DEF Reload, UndoReload, StateOK, DiskOK
<1> QED BY <1>4, <1>5 DEF Reload, UndoReload

\* Types are kept by removing a file.
LEMMA UnlinkTyped ==
    ASSUME StateOK, NEW a \in Admins, UndoFile(a) \/ Unlink(a)
    PROVE  StateOK'
<1> DEFINE r == admin[a]
           f == Head(r.todo)
           n == [r EXCEPT !.todo = Tail(@)]
<1>1. /\ r \in Processes /\ ProcessOK(r) /\ r.at \in {"undo_files", "unlink"}
      /\ r.on \in Setups /\ OnItsOwn(r) /\ r.todo \in Seq(OwnFiles(r.on)) /\ r.todo # <<>>
      /\ r.on # Missing
  BY BootstrapAssumptions DEF UndoFile, Unlink, StateOK, ProcessesOK, ProcessOK, OnItsOwn,
     InPhase, Processes, Doings
<1>2. /\ f \in OwnFiles(r.on) /\ f \in Files
      /\ Tail(r.todo) \in Seq(OwnFiles(r.on)) /\ Tail(r.todo) \in Seq(Files \cup Dirs)
  <2>1. r.todo \in Seq(Files \cup Dirs) BY <1>1 DEF Processes
  <2>2. OwnFiles(r.on) \subseteq Files BY <1>1, OwnPaths
  <2> HIDE DEF r
  <2> QED BY <1>1, <2>1, <2>2, HeadTail
<1>3. files' \in [Files -> Contents] /\ \A g \in Files : files'[g] \in ContentType(g)
  <2>1. files' = [files EXCEPT ![f] = Missing]
    BY DEF UndoFile, Unlink
  <2> HIDE DEF f
  <2> QED BY <2>1 DEF StateOK, DiskOK, Contents, ContentType
<1>4. CASE Set(a, n) /\ UNCHANGED <<faults, report>>
  <2>1. n \in Processes
    BY <1>1, <1>2 DEF Processes
  <2>2. /\ n.at = r.at /\ n.todo = Tail(r.todo) /\ n.doing = r.doing /\ n.on = r.on
        /\ n.chain = r.chain /\ n.madeFiles = r.madeFiles /\ n.madeDirs = r.madeDirs
        /\ n.snapshot = r.snapshot /\ n.temp = r.temp
    BY <1>1 DEF Processes
  <2>3. ProcessOK(n)
    <3> HIDE DEF n, r
    <3> QED BY <1>1, <1>2, <2>2 DEF ProcessOK, OnItsOwn, InPhase
  <2>4. DiskOK'
    BY <1>3, <1>4 DEF UndoFile, Unlink, StateOK, DiskOK
  <2> QED BY <1>4, <2>1, <2>3, <2>4, SetOK DEF StateOK
<1>5. CASE Raise(a, r) /\ (Fault("interrupt") \/ faults' = faults)
  <2>1. ProcessesOK' /\ report' \in [Setups -> Reports]
    BY <1>1, <1>5, RaiseOK
  <2>2. faults' \in 0..MaxFaults
    BY <1>5, BootstrapAssumptions DEF Fault, StateOK, DiskOK
  <2> QED BY <1>3, <2>1, <2>2 DEF UndoFile, Unlink, StateOK, DiskOK
<1> QED BY <1>4, <1>5 DEF UndoFile, Unlink, Goes

\* Types are kept by removing directories.
LEMMA RmdirTyped ==
    ASSUME StateOK, NEW a \in Admins, FilesGone(a) \/ Rmdir(a)
    PROVE  StateOK'
<1> DEFINE r == admin[a]
<1>1. /\ r \in Processes /\ ProcessOK(r) /\ r.on \in Setups /\ OnItsOwn(r) /\ r.on # Missing
      /\ r.temp = Missing
  BY BootstrapAssumptions DEF FilesGone, Rmdir, StateOK, ProcessesOK, ProcessOK, OnItsOwn,
     InPhase, Processes, Doings
<1>2. CASE FilesGone(a)
  <2> DEFINE t == IF r.doing = "rollback" THEN Reverse(r.madeDirs) ELSE Directories(r.on)
             n == [r EXCEPT !.at = "rmdir", !.todo = t]
  <2>1. Set(a, n) /\ DiskOK'
    BY <1>2 DEF FilesGone, Goes, StateOK, DiskOK
  <2>2. t \in Seq(OwnDirs(r.on)) /\ t \in Seq(Files \cup Dirs)
    <3>1. Reverse(r.madeDirs) \in Seq(OwnDirs(r.on)) BY <1>1, RangeReverse DEF OnItsOwn
    <3>2. Directories(r.on) \in Seq(OwnDirs(r.on)) BY DirectoriesAre
    <3>3. OwnDirs(r.on) \subseteq Files \cup Dirs BY <1>1, OwnPaths
    <3> HIDE DEF r
    <3> QED BY <3>1, <3>2, <3>3, SeqMonotonic
  <2>3. n \in Processes
    <3> HIDE DEF t
    <3> QED BY <1>1, <2>2 DEF Processes, Ats
  <2>4. /\ n.at = "rmdir" /\ n.todo = t /\ n.doing = r.doing /\ n.on = r.on
        /\ n.chain = r.chain /\ n.madeFiles = r.madeFiles /\ n.madeDirs = r.madeDirs
        /\ n.snapshot = r.snapshot /\ n.temp = r.temp
    <3> HIDE DEF t
    <3> QED BY <1>1 DEF Processes
  <2>5. ProcessOK(n)
    <3>1. r.doing \in {"remove", "rollback"}
      BY <1>1, <1>2 DEF FilesGone, ProcessOK, InPhase, Processes, Doings
    <3> HIDE DEF n, r, t
    <3> QED BY <1>1, <2>2, <2>4, <3>1 DEF ProcessOK, OnItsOwn, InPhase
  <2> QED BY <2>1, <2>3, <2>5, SetOK DEF StateOK
<1>3. CASE Rmdir(a)
  <2> DEFINE n == [r EXCEPT !.todo = Tail(@)]
  <2>1. /\ Set(a, n) /\ r.at = "rmdir" /\ r.todo # <<>> /\ DiskOK'
        /\ r.todo \in Seq(OwnDirs(r.on)) /\ r.todo \in Seq(Files \cup Dirs)
    <3>1. Set(a, n) /\ r.at = "rmdir" /\ r.todo # <<>>
      BY <1>3 DEF Rmdir
    <3>2. r.todo \in Seq(OwnDirs(r.on)) /\ r.todo \in Seq(Files \cup Dirs)
      BY <1>1, <3>1, BootstrapAssumptions DEF OnItsOwn, Processes
    <3>3. DiskOK'
      BY <1>3, BootstrapAssumptions DEF Rmdir, Fault, StateOK, DiskOK
    <3> QED BY <3>1, <3>2, <3>3
  <2>2. Tail(r.todo) \in Seq(OwnDirs(r.on)) /\ Tail(r.todo) \in Seq(Files \cup Dirs)
    <3> HIDE DEF r
    <3> QED BY <2>1, HeadTail
  <2>3. n \in Processes
    BY <1>1, <2>2 DEF Processes
  <2>4. /\ n.at = r.at /\ n.todo = Tail(r.todo) /\ n.doing = r.doing /\ n.on = r.on
        /\ n.chain = r.chain /\ n.madeFiles = r.madeFiles /\ n.madeDirs = r.madeDirs
        /\ n.snapshot = r.snapshot /\ n.temp = r.temp
    BY <1>1 DEF Processes
  <2>5. ProcessOK(n)
    <3> HIDE DEF n, r
    <3> QED BY <1>1, <2>1, <2>2, <2>4 DEF ProcessOK, OnItsOwn, InPhase
  <2> QED BY <2>1, <2>3, <2>5, SetOK DEF StateOK
<1> QED BY <1>2, <1>3

\* Types are kept by the step behind the last directory.
LEMMA DirsGoneTyped ==
    ASSUME StateOK, NEW a \in Admins, DirsGone(a)
    PROVE  StateOK'
<1> DEFINE r == admin[a]
<1>1. /\ r \in Processes /\ ProcessOK(r) /\ r.at = "rmdir" /\ r.doing \in {"remove", "rollback"}
      /\ r.on \in Setups /\ OnItsOwn(r) /\ r.on # Missing /\ r.temp = Missing
  BY BootstrapAssumptions DEF DirsGone, StateOK, ProcessesOK, ProcessOK, OnItsOwn,
     InPhase, Processes, Doings
<1>2. ASSUME NEW at \in {"reload", "undo_reload"}, r.doing = "remove" <=> at = "reload",
             Goes(a, [r EXCEPT !.at = at])
      PROVE  StateOK'
  <2> DEFINE n == [r EXCEPT !.at = at]
  <2>1. Set(a, n) /\ DiskOK'
    BY <1>2 DEF DirsGone, Goes, StateOK, DiskOK
  <2>2. n \in Processes
    BY <1>1 DEF Processes, Ats
  <2>3. /\ n.at = at /\ n.todo = r.todo /\ n.doing = r.doing /\ n.on = r.on
        /\ n.chain = r.chain /\ n.madeFiles = r.madeFiles /\ n.madeDirs = r.madeDirs
        /\ n.snapshot = r.snapshot /\ n.temp = r.temp
    BY <1>1 DEF Processes
  <2>4. ProcessOK(n)
    <3> HIDE DEF n, r
    <3> QED BY <1>1, <1>2, <2>3 DEF ProcessOK, OnItsOwn, InPhase
  <2> QED BY <2>1, <2>2, <2>4, SetOK DEF StateOK
<1>3. CASE Raise(a, r) /\ UNCHANGED faults
  <2>1. ProcessesOK' /\ report' \in [Setups -> Reports]
    BY <1>1, <1>3, RaiseOK
  <2> QED BY <1>3, <2>1 DEF DirsGone, StateOK, DiskOK
<1> QED BY <1>1, <1>2, <1>3 DEF DirsGone

\* Types are kept by a step that fails and by a crash.
LEMMA FailTyped ==
    ASSUME StateOK, NEW a \in Admins, StepFails(a) \/ Crash(a)
    PROVE  StateOK'
<1> DEFINE r == admin[a]
<1>1. /\ r \in Processes /\ ProcessOK(r) /\ r.on \in Setups /\ r.on # Missing
  BY BootstrapAssumptions DEF StepFails, Crash, StateOK, ProcessesOK, ProcessOK,
     InPhase, Processes, Doings
<1>2. faults' \in 0..MaxFaults
  BY BootstrapAssumptions DEF StepFails, Crash, Fault, StateOK, DiskOK
<1>3. CASE StepFails(a)
  <2>1. Raise(a, r) BY <1>3 DEF StepFails
  <2>2. ProcessesOK' /\ report' \in [Setups -> Reports]
    BY <1>1, <2>1, RaiseOK
  <2> QED BY <1>2, <1>3, <2>2 DEF StepFails, StateOK, DiskOK
<1>4. CASE Crash(a)
  <2> DEFINE n == [Idle EXCEPT !.at = "crashed", !.temp = r.temp]
  <2>1. Set(a, n) /\ report' \in [Setups -> Reports]
    BY <1>1, <1>4 DEF Crash, StateOK, DiskOK, Reports
  <2>2. n \in Processes /\ ProcessOK(n)
    <3>1. r.temp \in Dirs \cup {Missing} BY <1>1 DEF Processes
    <3> QED BY <3>1, IdleOK
  <2>3. ProcessesOK'
    <3> HIDE DEF n
    <3> QED BY <2>1, <2>2, SetOK DEF StateOK
  <2> QED BY <1>2, <1>4, <2>1, <2>3 DEF Crash, StateOK, DiskOK
<1> QED BY <1>3, <1>4

\* The initial states are well typed.
LEMMA InitTyped == Init => StateOK
<1> SUFFICES ASSUME Init PROVE StateOK
  OBVIOUS
<1> USE BootstrapAssumptions
<1>1. PICK there \in SUBSET Setups :
        /\ files = [f \in Files |->
                        IF \A l \in there : f \notin Range(Targets(l)) THEN Missing
                        ELSE IF f[1] = "credential" THEN 0
                        ELSE CHOOSE l \in there : f \in Range(Targets(l))]
        /\ dirs = UNION {Range(Directories(l)) \cup {CredentialRoot} : l \in there}
        /\ report = [l \in Setups |-> IF l \in there THEN "installed" ELSE "none"]
  BY DEF Init
<1>2. \A f \in Files : files[f] \in ContentType(f) /\ files[f] \in Contents
  <2> SUFFICES ASSUME NEW f \in Files PROVE files[f] \in ContentType(f) /\ files[f] \in Contents
    OBVIOUS
  <2>1. CASE \A l \in there : f \notin Range(Targets(l))
    BY <1>1, <2>1 DEF ContentType, Contents
  <2>2. CASE f[1] = "credential"
    BY <1>1, <2>2 DEF ContentType, Contents
  <2>3. CASE f[1] # "credential" /\ ~ \A l \in there : f \notin Range(Targets(l))
    <3>1. files[f] = CHOOSE l \in there : f \in Range(Targets(l))
      BY <1>1, <2>3
    <3>2. files[f] \in there
      BY <2>3, <3>1
    <3> QED BY <2>3, <3>2 DEF ContentType, Contents
  <2> QED BY <2>1, <2>2, <2>3
<1>3. files \in [Files -> Contents]
  BY <1>1, <1>2
<1>4. dirs \subseteq Dirs
  BY <1>1, OwnPaths DEF OwnDirs
<1>5. /\ faults = 0 /\ ops = 0 /\ loaded = LoadedNow /\ report \in [Setups -> Reports]
      /\ admin = [a \in Admins |-> Idle]
  BY <1>1 DEF Init, LoadedNow, Reports
<1>6. DiskOK
  <2>1. loaded \in [Units -> Setups \cup {Missing}]
    BY <1>2, <1>5, LoadedNowTyped
  <2> QED BY <1>2, <1>3, <1>4, <1>5, <2>1 DEF DiskOK
<1>7. ProcessesOK
  BY <1>5, IdleOK DEF ProcessesOK
<1> QED BY <1>6, <1>7 DEF StateOK

\* Every step keeps the types.
LEMMA NextTyped ==
    ASSUME StateOK, [Next]_vars
    PROVE  StateOK'
<1>1. CASE UNCHANGED vars
  BY <1>1 DEF vars, StateOK, DiskOK, ProcessesOK
<1>2. ASSUME NEW a \in Admins, Step(a) PROVE StateOK'
  BY <1>2, StartTyped, ScanTyped, MkdirTyped, WriteTyped, ReplaceTyped, ReloadTyped,
     UnlinkTyped, RmdirTyped, DirsGoneTyped, FailTyped DEF Step
<1> QED BY <1>1, <1>2 DEF Next

\* The types, with each process's phase matching what it does and its paths
\* those of the installation it works on, are inductive.
THEOREM TypesHold == Spec => []StateOK
BY InitTyped, NextTyped, PTL DEF Spec

\* Whatever fails, is interrupted or crashes, and however many administrators
\* are at work: files, directories and the processes' own records stay typed,
\* and a temporary file is open only while a file is being written.
THEOREM TypeCorrect == Spec => []TypeOK
<1>1. StateOK => TypeOK
  <2> SUFFICES ASSUME StateOK PROVE TypeOK
    OBVIOUS
  <2>1. ASSUME NEW a \in Admins
        PROVE  /\ DOMAIN admin[a] = DOMAIN Idle
               /\ admin[a].temp # Missing => admin[a].at \in {"replace", "crashed"}
               /\ Range(admin[a].todo) \subseteq Files \cup Dirs
    <3>1. admin[a] \in Processes /\ ProcessOK(admin[a])
      BY DEF StateOK, ProcessesOK
    <3>2. DOMAIN admin[a] = DOMAIN Idle
      BY <3>1 DEF Processes, Idle
    <3>3. admin[a].todo \in Seq(Files \cup Dirs)
      BY <3>1 DEF Processes
    <3> QED BY <3>1, <3>2, <3>3, RangeInSet DEF ProcessOK
  <2> QED BY <2>1 DEF StateOK, DiskOK, TypeOK, ContentType, Reports
<1> QED BY <1>1, TypesHold, PTL

(***************************************************************************)
(* Each step stays within one installation                                  *)
(***************************************************************************)

\* A step of a changes files and directories of l, and what is said of l, only.
Within(a, l) ==
    /\ admin[a].on \in {l, Missing} /\ admin'[a].on \in {l, Missing}
    /\ \A b \in Admins \ {a} : admin'[b] = admin[b]
    /\ \A f \in Files \ OwnFiles(l) : files'[f] = files[f]
    /\ \A d \in Dirs \ OwnDirs(l) : d \in dirs' <=> d \in dirs
    /\ \A m \in Setups \ {l} : report'[m] = report[m]

\* What an exception does to the record and the report of a process.
LEMMA RaiseWithin ==
    ASSUME StateOK, NEW a \in Admins, NEW r \in Processes, ProcessOK(r),
           r.on = admin[a].on, r.on \in Setups, Raise(a, r)
    PROVE  /\ admin'[a].on \in {r.on, Missing}
           /\ \A b \in Admins \ {a} : admin'[b] = admin[b]
           /\ \A m \in Setups \ {r.on} : report'[m] = report[m]
<1>1. r.on # Missing BY BootstrapAssumptions
<1>2. report \in [Setups -> Reports] BY DEF StateOK, DiskOK
<1>3. Idle.on = Missing BY DEF Idle
<1>4. /\ [r EXCEPT !.at = "undo_files", !.doing = "rollback", !.todo = Reverse(r.madeFiles),
                  !.temp = Missing].on = r.on
      /\ [r EXCEPT !.at = "scan", !.doing = "restore", !.todo = Directories(r.on),
                  !.madeFiles = <<>>, !.madeDirs = <<>>].on = r.on
  BY DEF Processes
<1>5. /\ admin'[a].on \in {r.on, Missing}
      /\ \/ report' = report
         \/ \E says : report' = [report EXCEPT ![r.on] = says]
      /\ \A b \in Admins \ {a} : admin'[b] = admin[b]
  BY <1>1, <1>3, <1>4, RaiseOK
<1> QED BY <1>2, <1>5

\* A step of one process leaves the records of the others.
LEMMA SetWithin ==
    ASSUME ProcessesOK, NEW a \in Admins, NEW r, Set(a, r)
    PROVE  admin'[a] = r /\ \A b \in Admins \ {a} : admin'[b] = admin[b]
BY DEF ProcessesOK, Set

\* Every step stays within the paths and the report of one installation.
LEMMA StepWithin ==
    ASSUME StateOK, NEW a \in Admins, Step(a)
    PROVE  \E l \in Setups :
              /\ Within(a, l)
              /\ admin[a].on = Missing => (TakeTurns => ~Busy(l)) /\ admin'[a].on = l
<1> DEFINE r == admin[a]
           l == r.on
<1>1. /\ r \in Processes /\ ProcessOK(r) /\ files \in [Files -> Contents] /\ dirs \subseteq Dirs
      /\ report \in [Setups -> Reports]
  BY DEF StateOK, DiskOK, ProcessesOK
<1>2. ASSUME NEW m \in Setups, StartInstall(a, m) \/ StartRemove(a, m)
      PROVE  Within(a, m) /\ (TakeTurns => ~Busy(m)) /\ admin'[a].on = m
  <2>1. PICK n : Set(a, n) /\ n.on = m
    <3>1. Idle \in Processes BY IdleOK
    <3>2. CASE StartInstall(a, m)
      <4> DEFINE n == [Idle EXCEPT !.at = "scan", !.doing = "install", !.on = m,
                                   !.todo = Directories(m), !.secret = ops', !.before = "absent"]
      <4>1. Set(a, n) BY <3>2 DEF StartInstall
      <4>2. n.on = m BY <3>1 DEF Processes
      <4> QED BY <4>1, <4>2
    <3>3. CASE StartRemove(a, m)
      <4> DEFINE n == [Idle EXCEPT !.at = "unlink", !.doing = "remove", !.on = m,
                           !.todo = Targets(m), !.before = "installed",
                           !.snapshot = [f \in Range(Targets(m)) |-> files[f]]]
      <4>1. Set(a, n) BY <3>3 DEF StartRemove
      <4>2. n.on = m BY <3>1 DEF Processes
      <4> QED BY <4>1, <4>2
    <3> QED BY <1>2, <3>2, <3>3
  <2>2. r.at = "idle" /\ r.on = Missing
    BY <1>1, <1>2 DEF StartInstall, StartRemove, Starts, ProcessOK, InPhase, Processes, Doings
  <2>3. UNCHANGED <<files, dirs, report>> /\ (TakeTurns => ~Busy(m))
    BY <1>2 DEF StartInstall, StartRemove, Starts
  <2>4. admin'[a].on = m /\ \A b \in Admins \ {a} : admin'[b] = admin[b]
    BY <2>1, SetWithin DEF StateOK
  <2> QED BY <2>2, <2>3, <2>4 DEF Within
<1>3. ASSUME r.at \notin {"idle", "crashed"} PROVE l \in Setups /\ l # Missing /\ OnItsOwn(r)
  BY <1>1, <1>3, BootstrapAssumptions DEF ProcessOK, InPhase, Processes, Doings
<1>4. ASSUME l \in Setups, UNCHANGED <<files, dirs>>,
             \/ Raise(a, r)
             \/ \E n : Set(a, n) /\ n.on \in {l, Missing} /\ \A m \in Setups \ {l} : report'[m] = report[m]
      PROVE  Within(a, l)
  BY <1>1, <1>4, RaiseWithin, SetWithin DEF Within, StateOK
<1>5. CASE Scan(a) \/ WriteTemp(a) \/ WriteRefused(a) \/ Written(a) \/ FilesGone(a)
        \/ DirsGone(a) \/ StepFails(a) \/ MkdirRaces(a) \/ Reload(a) \/ UndoReload(a)
  <2>1. l \in Setups /\ l # Missing
    BY <1>3, <1>5 DEF Scan, WriteTemp, WriteRefused, Written, FilesGone, DirsGone, StepFails,
                      MkdirRaces, Reload, UndoReload
  <2>2. UNCHANGED <<files, dirs>>
    BY <1>5 DEF Scan, WriteTemp, WriteRefused, Written, FilesGone, DirsGone, StepFails,
                MkdirRaces, Reload, UndoReload
  <2>3. \/ Raise(a, r)
        \/ \E n : Set(a, n) /\ n.on \in {l, Missing} /\ \A m \in Setups \ {l} : report'[m] = report[m]
    <3>1. Idle.on = Missing BY DEF Idle
    <3>2. CASE Reload(a)
      BY <1>1, <2>1, <3>1, <3>2 DEF Reload, Finish
    <3>3. CASE ~Reload(a)
      BY <1>1, <1>5, <3>3 DEF Scan, WriteTemp, WriteRefused, Written, FilesGone, DirsGone,
         StepFails, MkdirRaces, UndoReload, Goes, Processes
    <3> QED BY <3>2, <3>3
  <2> QED BY <1>4, <2>1, <2>2, <2>3
<1>6. CASE Crash(a)
  <2> DEFINE n == [Idle EXCEPT !.at = "crashed", !.temp = r.temp]
  <2>1. l \in Setups
    BY <1>3, <1>6 DEF Crash
  <2>2. n.on = Missing
    BY DEF Idle
  <2>3. Set(a, n) /\ UNCHANGED <<files, dirs>> /\ \A m \in Setups \ {l} : report'[m] = report[m]
    BY <1>1, <1>6, <2>1 DEF Crash
  <2> HIDE DEF n
  <2> QED BY <1>3, <1>4, <1>6, <2>1, <2>2, <2>3 DEF Crash
<1>7. CASE Mkdir(a)
  <2> DEFINE d == Head(r.chain)
             n == [MadeOne(r) EXCEPT !.madeDirs = Append(@, d)]
  <2>1. /\ l \in Setups /\ l # Missing /\ d \in OwnDirs(l) /\ MadeOne(r).on = l
        /\ MadeOne(r) \in Processes /\ ProcessOK(MadeOne(r))
    BY <1>1, <1>7, MadeOneOK DEF Mkdir
  <2>2. dirs' = dirs \cup {d} /\ files' = files
    BY <1>7 DEF Mkdir
  <2>3. CASE Set(a, n) /\ UNCHANGED <<faults, report>>
    <3>1. n.on = l
      <4> HIDE DEF r
      <4> QED BY <2>1 DEF Processes
    <3> HIDE DEF n
    <3> QED BY <2>1, <2>2, <2>3, <3>1, SetWithin DEF Within, StateOK
  <2>4. CASE Raise(a, MadeOne(r))
    <3> QED BY <2>1, <2>2, <2>4, RaiseWithin DEF Within
  <2> QED BY <1>7, <2>1, <2>3, <2>4 DEF Mkdir, Goes, MadeOne
<1>8. CASE Replace(a)
  <2> DEFINE f == Head(r.todo)
             n == [WroteOne(r) EXCEPT !.madeFiles = Append(@, f)]
  <2>1. /\ l \in Setups /\ l # Missing /\ f \in OwnFiles(l) /\ WroteOne(r).on = l
        /\ WroteOne(r) \in Processes /\ ProcessOK(WroteOne(r))
    BY <1>1, <1>8, WroteOneOK DEF Replace
  <2>2. dirs' = dirs /\ \A g \in Files \ OwnFiles(l) : files'[g] = files[g]
    BY <1>1, <1>8, <2>1 DEF Replace
  <2>3. CASE Set(a, n) /\ UNCHANGED <<faults, report>>
    <3>1. n.on = l
      <4> HIDE DEF r
      <4> QED BY <2>1 DEF Processes
    <3> HIDE DEF n
    <3> QED BY <2>1, <2>2, <2>3, <3>1, SetWithin DEF Within, StateOK
  <2>4. CASE Raise(a, WroteOne(r))
    <3> QED BY <2>1, <2>2, <2>4, RaiseWithin DEF Within
  <2> QED BY <1>8, <2>1, <2>3, <2>4 DEF Replace, Goes, WroteOne
<1>9. CASE UndoFile(a) \/ Unlink(a) \/ Rmdir(a)
  <2> DEFINE p == Head(r.todo)
             n == [r EXCEPT !.todo = Tail(@)]
  <2>1. l \in Setups /\ l # Missing /\ OnItsOwn(r)
    BY <1>3, <1>9 DEF UndoFile, Unlink, Rmdir
  <2>2. /\ Rmdir(a) => p \in OwnDirs(l)
        /\ UndoFile(a) \/ Unlink(a) => p \in OwnFiles(l)
    BY <1>9, <2>1, HeadTail DEF UndoFile, Unlink, Rmdir, OnItsOwn
  <2>3. /\ \A g \in Files \ OwnFiles(l) : files'[g] = files[g]
        /\ \A d \in Dirs \ OwnDirs(l) : d \in dirs' <=> d \in dirs
    BY <1>1, <1>9, <2>2 DEF UndoFile, Unlink, Rmdir
  <2>4. (Set(a, n) /\ report' = report) \/ Raise(a, r)
    BY <1>9 DEF UndoFile, Unlink, Rmdir, Goes
  <2>5. n.on = l
    BY <1>1 DEF Processes
  <2> HIDE DEF n
  <2> QED BY <1>1, <2>1, <2>3, <2>4, <2>5, RaiseWithin, SetWithin DEF Within, StateOK
<1> QED BY <1>2, <1>5, <1>6, <1>7, <1>8, <1>9 DEF Step

(***************************************************************************)
(* Installations that share no path                                         *)
(***************************************************************************)

\* No two installations share a profile or a unit.
Separate == \A l, m \in Setups : l # m => l.profile # m.profile /\ l.unit # m.unit

\* Installations that share no profile and no unit share no file.
LEMMA LayoutsApart ==
    ASSUME Separate, NEW l \in Setups, NEW m \in Setups, l # m
    PROVE  OwnFiles(l) \cap OwnFiles(m) = {} /\ CredentialDir(m) \notin OwnDirs(l)
<1>1. l.profile # m.profile /\ l.unit # m.unit
  BY DEF Separate
<1>2. ASSUME NEW f \in OwnFiles(l) PROVE f \notin OwnFiles(m)
  <2>1. \/ \E x \in Range(CREDENTIAL_NAMES) : f = <<"credential", l.profile, x>>
        \/ f \in {<<"drop_in", l.unit>>, <<"env_script", l.profile>>, <<"manifest", l.profile>>}
    BY TargetsAre DEF OwnFiles, Credential, DropIn, EnvScript, Manifest
  <2>2. OwnFiles(m) = {<<"credential", m.profile, x>> : x \in Range(CREDENTIAL_NAMES)}
          \cup {<<"drop_in", m.unit>>, <<"env_script", m.profile>>, <<"manifest", m.profile>>}
    BY TargetsAre DEF OwnFiles, Credential, DropIn, EnvScript, Manifest
  <2>3. ASSUME NEW x \in Range(CREDENTIAL_NAMES), NEW y \in Range(CREDENTIAL_NAMES)
        PROVE  <<"credential", l.profile, x>> # <<"credential", m.profile, y>>
    BY <1>1
  <2>4. ASSUME NEW x, NEW y, NEW z, NEW s, s # "credential"
        PROVE  <<"credential", x, y>> # <<s, z>>
    <3>1. <<"credential", x, y>>[1] # <<s, z>>[1] BY <2>4
    <3> QED BY <3>1
  <2>5. ASSUME NEW x, NEW y, NEW s, NEW t, s # t \/ x # y
        PROVE  <<s, x>> # <<t, y>>
    <3>1. <<s, x>>[1] # <<t, y>>[1] \/ <<s, x>>[2] # <<t, y>>[2] BY <2>5
    <3> QED BY <3>1
  <2> QED BY <1>1, <2>1, <2>2, <2>3, <2>4, <2>5
<1>3. CredentialDir(m) \notin OwnDirs(l)
  <2>1. OwnDirs(l) = {<<"credential_dir", l.profile>>, <<"unit_dir", l.unit>>, <<"manifest_dir">>,
                      <<"script_dir">>, <<"credential_root">>}
    BY DirectoriesAre DEF OwnDirs, CredentialDir, UnitDir, ManifestDir, ScriptDir, CredentialRoot
  <2>2. <<"credential_dir", m.profile>>[1] = "credential_dir"
        /\ <<"credential_dir", m.profile>>[2] = m.profile
    OBVIOUS
  <2> QED BY <1>1, <2>1, <2>2 DEF CredentialDir
<1> QED BY <1>2, <1>3

\* What the file f of l holds when l is installed.
Right(l, f, content) == IF f[1] = "credential" THEN content # Missing ELSE content = l

\* l is installed on a disk with the given files and directories.
InstalledIn(l, F, D) ==
    CredentialDir(l) \in D /\ \A f \in OwnFiles(l) : Right(l, f, F[f])

\* The code's test for an exact installation, file by file.
LEMMA InstalledIsRight ==
    ASSUME NEW l \in Setups
    PROVE  /\ IsInstalled(l) <=> InstalledIn(l, files, dirs)
           /\ IsInstalled(l)' <=> InstalledIn(l, files', dirs')
<1>1. /\ OwnFiles(l) = Range(Credentials(l)) \cup {DropIn(l), EnvScript(l), Manifest(l)}
      /\ \A f \in Range(Credentials(l)) : f[1] = "credential"
      /\ \A f \in {DropIn(l), EnvScript(l), Manifest(l)} : f[1] # "credential"
  <2>1. \A f \in Range(Credentials(l)) : f[1] = "credential"
    BY TargetsAre DEF Credential
  <2>2. \A f \in {DropIn(l), EnvScript(l), Manifest(l)} : f[1] # "credential"
    BY DEF DropIn, EnvScript, Manifest
  <2> QED BY <2>1, <2>2, TargetsAre DEF OwnFiles
<1>2. IsInstalled(l) <=> InstalledIn(l, files, dirs)
  BY <1>1 DEF IsInstalled, InstalledIn, Right, Present
<1>3. IsInstalled(l)' <=> InstalledIn(l, files', dirs')
  BY <1>1 DEF IsInstalled, InstalledIn, Right, Present
<1> QED BY <1>2, <1>3

(***************************************************************************)
(* What a process has achieved                                              *)
(***************************************************************************)

\* The directory of the credentials exists, or is still to be made.
DirectoryClaim(r, D) ==
    r.doing \in {"install", "restore"} =>
        /\ r.at \in {"scan", "mkdir"} =>
              CredentialDir(r.on) \in D \cup Range(r.todo) \cup Range(r.chain)
        /\ r.at \in {"write", "replace", "reload", "undo_reload"} => CredentialDir(r.on) \in D

\* The files no longer to be written have what they should have.
WrittenClaim(r, F) ==
    r.doing \in {"install", "restore"} /\ r.at \in {"write", "replace", "reload", "undo_reload"} =>
        /\ r.at \in {"reload", "undo_reload"} => r.todo = <<>>
        /\ \A f \in OwnFiles(r.on) \ Range(r.todo) :
              IF r.doing = "install" THEN Right(r.on, f, F[f]) ELSE F[f] = r.snapshot[f]

\* The snapshot is of an installation, and no file has anything else.
SnapshotClaim(r, F) ==
    r.doing \in {"remove", "restore"} =>
        \A f \in OwnFiles(r.on) :
            Right(r.on, f, r.snapshot[f]) /\ F[f] \in {Missing, r.snapshot[f]}

Claim(r, F, D) == DirectoryClaim(r, D) /\ WrittenClaim(r, F) /\ SnapshotClaim(r, F)

\* An operation that ends and reports success has installed.
EndsWell(a) ==
    \A l \in Setups :
        admin[a].on = l /\ admin'[a].on = Missing /\ report'[l] = "installed" =>
            InstalledIn(l, files', dirs')

\* A process that neither installs nor removes claims nothing.
LEMMA NoClaim ==
    ASSUME NEW r, r.doing \notin {"install", "restore", "remove"}, NEW F, NEW D
    PROVE  Claim(r, F, D)
BY DEF Claim, DirectoryClaim, WrittenClaim, SnapshotClaim

\* A claim survives what happens to the files of others.
LEMMA ClaimStable ==
    ASSUME NEW r, NEW F, NEW D, NEW F2, NEW D2, Claim(r, F, D),
           \A f \in OwnFiles(r.on) : F2[f] = F[f],
           CredentialDir(r.on) \in D => CredentialDir(r.on) \in D2
    PROVE  Claim(r, F2, D2)
BY DEF Claim, DirectoryClaim, WrittenClaim, SnapshotClaim

\* A handler inherits the snapshot of the operation that failed.
LEMMA RaiseClaim ==
    ASSUME StateOK, NEW a \in Admins, NEW r \in Processes, ProcessOK(r),
           r.on = admin[a].on, r.on \in Setups, NEW F, NEW D,
           SnapshotClaim(r, F), Raise(a, r)
    PROVE  /\ Claim(admin'[a], F, D)
           /\ admin'[a].on = Missing => report'[r.on] # "installed"
<1> DEFINE back == [r EXCEPT !.at = "undo_files", !.doing = "rollback",
                             !.todo = Reverse(r.madeFiles), !.temp = Missing]
           again == [r EXCEPT !.at = "scan", !.doing = "restore", !.todo = Directories(r.on),
                              !.madeFiles = <<>>, !.madeDirs = <<>>]
<1>1. /\ r.on # Missing /\ report \in [Setups -> Reports]
      /\ Idle.doing = "none" /\ Idle.on = Missing
  BY BootstrapAssumptions DEF StateOK, DiskOK, Idle
<1>2. CASE r.doing = "install" /\ admin'[a] = back
  <2>1. back.doing = "rollback" /\ back.on = r.on
    BY DEF Processes
  <2> HIDE DEF back
  <2> QED BY <1>1, <1>2, <2>1, NoClaim
<1>3. CASE r.doing = "remove" /\ admin'[a] = again
  <2>1. /\ again.doing = "restore" /\ again.on = r.on /\ again.at = "scan"
        /\ again.todo = Directories(r.on) /\ again.snapshot = r.snapshot
    BY DEF Processes
  <2>2. CredentialDir(r.on) \in Range(Directories(r.on))
    BY DirectoriesAre
  <2>3. Claim(again, F, D)
    <3> HIDE DEF again
    <3> QED BY <1>3, <2>1, <2>2 DEF Claim, DirectoryClaim, WrittenClaim, SnapshotClaim
  <2> QED BY <1>1, <1>3, <2>1, <2>3
<1>4. CASE /\ admin'[a] = Idle
           /\ \E says \in {"install failed", "remove failed"} :
                 report' = [report EXCEPT ![r.on] = says]
  BY <1>1, <1>4, NoClaim
<1> QED BY <1>1, <1>2, <1>3, <1>4, RaiseOK

\* An operation starts with its claim.
LEMMA StartClaim ==
    ASSUME StateOK, NEW a \in Admins, NEW l \in Setups, StartInstall(a, l) \/ StartRemove(a, l)
    PROVE  Claim(admin'[a], files', dirs') /\ EndsWell(a)
<1>1. /\ Idle \in Processes /\ l # Missing
      /\ UNCHANGED <<files, dirs, report>>
  BY IdleOK, BootstrapAssumptions DEF StartInstall, StartRemove, Starts
<1>2. CASE StartInstall(a, l)
  <2> DEFINE n == [Idle EXCEPT !.at = "scan", !.doing = "install", !.on = l,
                               !.todo = Directories(l), !.secret = ops', !.before = "absent"]
  <2>1. admin'[a] = n
    BY <1>2 DEF StartInstall, Set, StateOK, ProcessesOK
  <2>2. n.at = "scan" /\ n.doing = "install" /\ n.on = l /\ n.todo = Directories(l)
    BY <1>1 DEF Processes
  <2>3. CredentialDir(l) \in Range(Directories(l))
    BY DirectoriesAre
  <2> HIDE DEF n
  <2> QED BY <1>1, <2>1, <2>2, <2>3
          DEF Claim, DirectoryClaim, WrittenClaim, SnapshotClaim, EndsWell
<1>3. CASE StartRemove(a, l)
  <2> DEFINE s == [f \in Range(Targets(l)) |-> files[f]]
             n == [Idle EXCEPT !.at = "unlink", !.doing = "remove", !.on = l,
                               !.todo = Targets(l), !.before = "installed", !.snapshot = s]
  <2>1. admin'[a] = n
    BY <1>3 DEF StartRemove, Set, StateOK, ProcessesOK
  <2>2. n.at = "unlink" /\ n.doing = "remove" /\ n.on = l /\ n.snapshot = s
    BY <1>1 DEF Processes
  <2>3. \A f \in OwnFiles(l) : s[f] = files[f] /\ Right(l, f, files[f])
    BY <1>3, InstalledIsRight DEF StartRemove, InstalledIn, OwnFiles
  <2> HIDE DEF n, s
  <2> QED BY <1>1, <2>1, <2>2, <2>3
          DEF Claim, DirectoryClaim, WrittenClaim, SnapshotClaim, EndsWell
<1> QED BY <1>2, <1>3

\* The claim is kept while directories are made.
LEMMA DirectoryStepClaim ==
    ASSUME StateOK, NEW a \in Admins, Claim(admin[a], files, dirs),
           Scan(a) \/ Mkdir(a) \/ MkdirRaces(a)
    PROVE  Claim(admin'[a], files', dirs') /\ EndsWell(a)
<1> DEFINE r == admin[a]
           l == r.on
           c == CredentialDir(l)
<1>1. /\ r \in Processes /\ ProcessOK(r) /\ r.at \in {"scan", "mkdir"}
      /\ r.doing \in {"install", "restore"} /\ l \in Setups /\ l # Missing /\ OnItsOwn(r)
      /\ r.todo \in Seq(OwnDirs(l))
      /\ files' = files /\ dirs \subseteq dirs'
  BY BootstrapAssumptions DEF Scan, Mkdir, MkdirRaces, StateOK, ProcessesOK, ProcessOK,
     InPhase, Processes, Doings, OnItsOwn
<1>2. c \in dirs \cup Range(r.todo) \cup Range(r.chain)
  BY <1>1 DEF Claim, DirectoryClaim
<1>3. SnapshotClaim(r, files')
  BY <1>1 DEF Claim
<1>4. CASE Scan(a) /\ r.todo = <<>>
  <2> DEFINE n == [r EXCEPT !.at = "write", !.todo = Targets(l)]
  <2>1. admin'[a] = n
    BY <1>4 DEF Scan, Goes, Set, StateOK, ProcessesOK
  <2>2. /\ n.at = "write" /\ n.todo = Targets(l) /\ n.doing = r.doing /\ n.on = l
        /\ n.snapshot = r.snapshot
    BY <1>1 DEF Processes
  <2>3. c \in dirs'
    <3>1. r.chain = <<>> BY <1>1, <1>4 DEF Scan, ProcessOK
    <3> QED BY <1>1, <1>2, <1>4, <3>1, RangeEmpty
  <2> HIDE DEF n, r
  <2> QED BY <1>1, <1>3, <2>1, <2>2, <2>3
          DEF Claim, DirectoryClaim, WrittenClaim, SnapshotClaim, EndsWell, OwnFiles, r
<1>5. CASE Scan(a) /\ r.todo # <<>>
  <2> DEFINE d == Head(r.todo)
             missing == MissingUpTo(d)
             n == [r EXCEPT !.at = IF missing = <<>> THEN "scan" ELSE "mkdir",
                            !.todo = Tail(r.todo), !.chain = missing]
  <2>1. admin'[a] = n
    BY <1>5 DEF Scan, Goes, Set, StateOK, ProcessesOK
  <2>2. /\ n.at \in {"scan", "mkdir"} /\ n.todo = Tail(r.todo) /\ n.doing = r.doing /\ n.on = l
        /\ n.snapshot = r.snapshot /\ n.chain = missing
    <3> HIDE DEF missing
    <3> QED BY <1>1 DEF Processes
  <2>3. d \in dirs \cup Range(missing)
    <3>1. d \in Range(<<d>>) /\ d \in Range(<<CredentialRoot, d>>)
      BY DEF Range
    <3> HIDE DEF d
    <3> QED BY <3>1 DEF MissingUpTo
  <2>4. Range(r.todo) = {d} \cup Range(Tail(r.todo)) /\ r.chain = <<>>
    BY <1>1, <1>5, RangeSplit DEF Scan, ProcessOK
  <2>5. c \in dirs' \cup Range(n.todo) \cup Range(n.chain)
    <3> HIDE DEF missing, d, n, r
    <3> QED BY <1>1, <1>2, <2>2, <2>3, <2>4, RangeEmpty
  <2> HIDE DEF n, r
  <2> QED BY <1>1, <1>3, <2>1, <2>2, <2>5
          DEF Claim, DirectoryClaim, WrittenClaim, SnapshotClaim, EndsWell, r
<1>6. CASE Mkdir(a)
  <2> DEFINE d == Head(r.chain)
             n == [MadeOne(r) EXCEPT !.madeDirs = Append(@, d)]
  <2>1. /\ MadeOne(r) \in Processes /\ ProcessOK(MadeOne(r)) /\ r.at = "mkdir"
        /\ MadeOne(r).at \in {"scan", "mkdir"} /\ MadeOne(r).chain = Tail(r.chain)
        /\ MadeOne(r).todo = r.todo /\ MadeOne(r).doing = r.doing /\ MadeOne(r).on = l
        /\ MadeOne(r).snapshot = r.snapshot
        /\ Range(r.chain) = {d} \cup Range(Tail(r.chain))
    BY <1>1, <1>6, MadeOneOK, RangeSplit DEF Mkdir
  <2>2. dirs' = dirs \cup {d}
    BY <1>6 DEF Mkdir
  <2>3. CASE Set(a, n) /\ UNCHANGED <<faults, report>>
    <3>1. /\ n.at \in {"scan", "mkdir"} /\ n.chain = Tail(r.chain) /\ n.todo = r.todo
          /\ n.doing = r.doing /\ n.on = l /\ n.snapshot = r.snapshot
      <4> HIDE DEF r, d
      <4> QED BY <2>1 DEF Processes
    <3>2. admin'[a] = n
      BY <2>3 DEF Set, StateOK, ProcessesOK
    <3>3. c \in dirs' \cup Range(n.todo) \cup Range(n.chain)
      <4> HIDE DEF d, n, r
      <4> QED BY <1>2, <2>1, <2>2, <3>1
    <3> HIDE DEF n, r
    <3> QED BY <1>1, <1>3, <3>1, <3>2, <3>3
            DEF Claim, DirectoryClaim, WrittenClaim, SnapshotClaim, EndsWell, r
  <2>4. CASE Raise(a, MadeOne(r))
    <3>1. SnapshotClaim(MadeOne(r), files')
      BY <1>3, <2>1 DEF SnapshotClaim
    <3>2. Claim(admin'[a], files', dirs') /\ (admin'[a].on = Missing => report'[l] # "installed")
      BY <1>1, <2>1, <2>4, <3>1, RaiseClaim
    <3> QED BY <3>2 DEF EndsWell
  <2> QED BY <1>6, <2>3, <2>4 DEF Mkdir, Goes, MadeOne
<1>7. CASE MkdirRaces(a)
  <2>1. Claim(admin'[a], files', dirs') /\ (admin'[a].on = Missing => report'[l] # "installed")
    BY <1>1, <1>3, <1>7, RaiseClaim DEF MkdirRaces
  <2> QED BY <2>1 DEF EndsWell
<1> QED BY <1>4, <1>5, <1>6, <1>7

\* The claim is kept by the steps around writing a file.
LEMMA WriteStepClaim ==
    ASSUME StateOK, NEW a \in Admins, Claim(admin[a], files, dirs),
           WriteTemp(a) \/ WriteRefused(a) \/ Written(a)
    PROVE  Claim(admin'[a], files', dirs') /\ EndsWell(a)
<1> DEFINE r == admin[a]
           f == Head(r.todo)
           l == r.on
<1>1. /\ r \in Processes /\ ProcessOK(r) /\ r.at = "write" /\ r.doing \in {"install", "restore"}
      /\ l \in Setups /\ l # Missing /\ r.todo \in Seq(OwnFiles(l))
      /\ files' = files /\ dirs' = dirs
  BY BootstrapAssumptions DEF WriteTemp, WriteRefused, Written, StateOK, ProcessesOK, ProcessOK,
     InPhase, Processes, Doings, OnItsOwn
<1>2. /\ CredentialDir(l) \in dirs' /\ SnapshotClaim(r, files')
      /\ \A g \in OwnFiles(l) \ Range(r.todo) :
            IF r.doing = "install" THEN Right(l, g, files'[g]) ELSE files'[g] = r.snapshot[g]
  BY <1>1 DEF Claim, DirectoryClaim, WrittenClaim
<1>3. CASE WriteTemp(a)
  <2> DEFINE n == [r EXCEPT !.at = "replace", !.temp = ParentOf(f)]
  <2>1. admin'[a] = n
    BY <1>3 DEF WriteTemp, Goes, Set, StateOK, ProcessesOK
  <2>2. /\ n.at = "replace" /\ n.todo = r.todo /\ n.doing = r.doing /\ n.on = l
        /\ n.snapshot = r.snapshot
    BY <1>1 DEF Processes
  <2> HIDE DEF n, r
  <2> QED BY <1>1, <1>2, <2>1, <2>2
          DEF Claim, DirectoryClaim, WrittenClaim, SnapshotClaim, EndsWell, r
<1>4. CASE WriteRefused(a) /\ r.doing = "restore" /\ Present(f)
  <2> DEFINE n == [r EXCEPT !.todo = Tail(@)]
  <2>1. admin'[a] = n
    BY <1>4 DEF WriteRefused, Set, StateOK, ProcessesOK
  <2>2. /\ n.at = "write" /\ n.todo = Tail(r.todo) /\ n.doing = r.doing /\ n.on = l
        /\ n.snapshot = r.snapshot
    BY <1>1 DEF Processes
  <2>3. r.todo # <<>> BY <1>4 DEF WriteRefused
  <2>4. f \in OwnFiles(l) /\ Range(r.todo) = {f} \cup Range(Tail(r.todo))
    BY <1>1, <2>3, HeadTail, RangeSplit
  <2>5. files'[f] = r.snapshot[f]
    BY <1>1, <1>2, <1>4, <2>4 DEF SnapshotClaim, Present
  <2> HIDE DEF n, r, f
  <2> QED BY <1>1, <1>2, <1>4, <2>1, <2>2, <2>4, <2>5
          DEF Claim, DirectoryClaim, WrittenClaim, SnapshotClaim, EndsWell, r
<1>5. CASE WriteRefused(a) /\ Raise(a, r)
  <2>1. Claim(admin'[a], files', dirs') /\ (admin'[a].on = Missing => report'[l] # "installed")
    BY <1>1, <1>2, <1>5, RaiseClaim
  <2> QED BY <2>1 DEF EndsWell
<1>6. CASE Written(a)
  <2> DEFINE n == [r EXCEPT !.at = IF r.doing = "install" THEN "reload" ELSE "undo_reload",
                            !.reloading = TRUE]
  <2>1. admin'[a] = n /\ r.todo = <<>>
    BY <1>6 DEF Written, Goes, Set, StateOK, ProcessesOK
  <2>2. /\ n.at \in {"reload", "undo_reload"} /\ n.todo = r.todo /\ n.doing = r.doing /\ n.on = l
        /\ n.snapshot = r.snapshot
    BY <1>1 DEF Processes
  <2> HIDE DEF n, r
  <2> QED BY <1>1, <1>2, <2>1, <2>2
          DEF Claim, DirectoryClaim, WrittenClaim, SnapshotClaim, EndsWell, r
<1> QED BY <1>3, <1>4, <1>5, <1>6 DEF WriteRefused

\* The claim is kept by putting a file in place.
LEMMA ReplaceStepClaim ==
    ASSUME StateOK, NEW a \in Admins, Claim(admin[a], files, dirs), Replace(a)
    PROVE  Claim(admin'[a], files', dirs') /\ EndsWell(a)
<1> DEFINE r == admin[a]
           f == Head(r.todo)
           l == r.on
           n == [WroteOne(r) EXCEPT !.madeFiles = Append(@, f)]
<1>1. /\ r \in Processes /\ ProcessOK(r) /\ r.at = "replace" /\ r.doing \in {"install", "restore"}
      /\ l \in Setups /\ l # Missing /\ f \in OwnFiles(l) /\ f \in Files
      /\ Range(r.todo) = {f} \cup Range(Tail(r.todo)) /\ r.secret \in 0..MaxOps
  <2>1. r \in Processes /\ ProcessOK(r) /\ r.at = "replace"
    BY DEF Replace, StateOK, ProcessesOK
  <2>2. r.secret \in 0..MaxOps BY <2>1 DEF Processes
  <2> QED BY <2>1, <2>2, WroteOneOK, OwnPaths, RangeSplit
<1>2. /\ files'[f] = ContentOf(a, f) /\ \A g \in OwnFiles(l) \ {f} : files'[g] = files[g]
      /\ dirs' = dirs
  <2>1. files' = [files EXCEPT ![f] = ContentOf(a, f)] /\ dirs' = dirs /\ DOMAIN files = Files
    BY DEF Replace, StateOK, DiskOK
  <2>2. OwnFiles(l) \subseteq Files BY <1>1, OwnPaths
  <2> HIDE DEF f, l
  <2> QED BY <1>1, <2>1, <2>2
<1>3. /\ CredentialDir(l) \in dirs' /\ SnapshotClaim(r, files)
      /\ \A g \in OwnFiles(l) \ Range(r.todo) :
            IF r.doing = "install" THEN Right(l, g, files[g]) ELSE files[g] = r.snapshot[g]
  BY <1>1, <1>2 DEF Claim, DirectoryClaim, WrittenClaim
<1>4. IF r.doing = "install" THEN Right(l, f, files'[f]) ELSE files'[f] = r.snapshot[f]
  BY <1>1, <1>2, BootstrapAssumptions DEF ContentOf, Right
<1>5. SnapshotClaim(r, files')
  <2> HIDE DEF f, r
  <2> QED BY <1>1, <1>2, <1>3, <1>4 DEF SnapshotClaim
<1>6. /\ WroteOne(r) \in Processes /\ ProcessOK(WroteOne(r)) /\ WroteOne(r).at = "write"
      /\ WroteOne(r).todo = Tail(r.todo) /\ WroteOne(r).doing = r.doing /\ WroteOne(r).on = l
      /\ WroteOne(r).snapshot = r.snapshot
  BY <1>1, WroteOneOK
<1>7. CASE Set(a, n) /\ UNCHANGED <<faults, report>>
  <2>1. /\ n.at = "write" /\ n.todo = Tail(r.todo) /\ n.doing = r.doing /\ n.on = l
        /\ n.snapshot = r.snapshot
    <3> HIDE DEF r, f
    <3> QED BY <1>6 DEF Processes
  <2>2. admin'[a] = n
    BY <1>7 DEF Set, StateOK, ProcessesOK
  <2> HIDE DEF n, r, f
  <2> QED BY <1>1, <1>2, <1>3, <1>4, <1>5, <2>1, <2>2
          DEF Claim, DirectoryClaim, WrittenClaim, SnapshotClaim, EndsWell, r
<1>8. CASE Raise(a, WroteOne(r))
  <2>1. SnapshotClaim(WroteOne(r), files')
    BY <1>5, <1>6 DEF SnapshotClaim
  <2>2. Claim(admin'[a], files', dirs') /\ (admin'[a].on = Missing => report'[l] # "installed")
    BY <1>1, <1>6, <1>8, <2>1, RaiseClaim
  <2> QED BY <2>2 DEF EndsWell
<1> QED BY <1>7, <1>8 DEF Replace, Goes, WroteOne

\* The claim is kept by a reload, and install ends installed.
LEMMA ReloadStepClaim ==
    ASSUME StateOK, NEW a \in Admins, Claim(admin[a], files, dirs), Reload(a) \/ UndoReload(a)
    PROVE  Claim(admin'[a], files', dirs') /\ EndsWell(a)
<1> DEFINE r == admin[a]
           l == r.on
<1>1. /\ r \in Processes /\ ProcessOK(r) /\ r.at \in {"reload", "undo_reload"}
      /\ l \in Setups /\ l # Missing /\ files' = files /\ dirs' = dirs
  BY BootstrapAssumptions DEF Reload, UndoReload, StateOK, ProcessesOK, ProcessOK,
     InPhase, Processes, Doings
<1>2. CASE Raise(a, r)
  <2>1. SnapshotClaim(r, files') BY <1>1 DEF Claim
  <2>2. Claim(admin'[a], files', dirs') /\ (admin'[a].on = Missing => report'[l] # "installed")
    BY <1>1, <1>2, <2>1, RaiseClaim
  <2> QED BY <2>2 DEF EndsWell
<1>3. CASE Reload(a) /\ Finish(a, IF r.doing = "install" THEN "installed" ELSE "removed")
  <2>1. admin'[a] = Idle /\ report'[l] = IF r.doing = "install" THEN "installed" ELSE "removed"
    BY <1>1, <1>3 DEF Finish, Set, StateOK, ProcessesOK, DiskOK
  <2>2. Claim(admin'[a], files', dirs')
    BY <2>1, NoClaim DEF Idle
  <2>3. r.doing = "install" => InstalledIn(l, files', dirs')
    <3>1. r.doing = "install" /\ r.at = "reload" =>
            /\ CredentialDir(l) \in dirs
            /\ \A f \in OwnFiles(l) \ Range(<<>>) : Right(l, f, files[f])
      BY DEF Claim, DirectoryClaim, WrittenClaim
    <3>2. r.at = "reload" BY <1>3 DEF Reload
    <3> QED BY <1>1, <3>1, <3>2, RangeEmpty DEF InstalledIn
  <2> QED BY <2>1, <2>2, <2>3 DEF EndsWell
<1> QED BY <1>2, <1>3 DEF Reload, UndoReload

\* The claim is kept while files and directories are removed.
LEMMA RemovalStepClaim ==
    ASSUME StateOK, NEW a \in Admins, Claim(admin[a], files, dirs),
           UndoFile(a) \/ Unlink(a) \/ FilesGone(a) \/ Rmdir(a) \/ DirsGone(a)
    PROVE  Claim(admin'[a], files', dirs') /\ EndsWell(a)
<1> DEFINE r == admin[a]
           l == r.on
<1>1. /\ r \in Processes /\ ProcessOK(r) /\ r.doing \in {"remove", "rollback"}
      /\ l \in Setups /\ l # Missing /\ report \in [Setups -> Reports]
  BY BootstrapAssumptions DEF UndoFile, Unlink, FilesGone, Rmdir, DirsGone, StateOK, ProcessesOK,
     ProcessOK, InPhase, Processes, Doings, DiskOK
<1>2. \A f \in Files : files'[f] \in {Missing, files[f]}
  BY DEF UndoFile, Unlink, FilesGone, Rmdir, DirsGone, StateOK, DiskOK
<1>3. SnapshotClaim(r, files')
  <2>1. OwnFiles(l) \subseteq Files BY <1>1, OwnPaths
  <2>2. SnapshotClaim(r, files) BY DEF Claim
  <2> QED BY <1>1, <1>2, <2>1, <2>2 DEF SnapshotClaim
<1>4. \/ Raise(a, r)
      \/ \E n : /\ admin'[a] = n /\ n.doing = r.doing /\ n.on = l /\ n.snapshot = r.snapshot
  <2>1. CASE FilesGone(a)
    <3> DEFINE n == [r EXCEPT !.at = "rmdir",
                              !.todo = IF r.doing = "rollback" THEN Reverse(r.madeDirs)
                                       ELSE Directories(r.on)]
    <3>1. admin'[a] = n BY <2>1 DEF FilesGone, Goes, Set, StateOK, ProcessesOK
    <3>2. n.doing = r.doing /\ n.on = l /\ n.snapshot = r.snapshot BY <1>1 DEF Processes
    <3> QED BY <3>1, <3>2
  <2>2. CASE UndoFile(a) \/ Unlink(a) \/ Rmdir(a)
    <3> DEFINE n == [r EXCEPT !.todo = Tail(@)]
    <3>1. Raise(a, r) \/ admin'[a] = n
      BY <2>2 DEF UndoFile, Unlink, Rmdir, Goes, Set, StateOK, ProcessesOK
    <3>2. n.doing = r.doing /\ n.on = l /\ n.snapshot = r.snapshot BY <1>1 DEF Processes
    <3> QED BY <3>1, <3>2
  <2>3. CASE DirsGone(a)
    <3>1. Raise(a, r) \/ \E at \in {"reload", "undo_reload"} : admin'[a] = [r EXCEPT !.at = at]
      BY <2>3 DEF DirsGone, Goes, Set, StateOK, ProcessesOK
    <3>2. \A at : LET n == [r EXCEPT !.at = at]
                  IN  n.doing = r.doing /\ n.on = l /\ n.snapshot = r.snapshot
      BY <1>1 DEF Processes
    <3> QED BY <3>1, <3>2
  <2> QED BY <2>1, <2>2, <2>3
<1>5. CASE Raise(a, r)
  <2>1. Claim(admin'[a], files', dirs') /\ (admin'[a].on = Missing => report'[l] # "installed")
    BY <1>1, <1>3, <1>5, RaiseClaim
  <2> QED BY <2>1 DEF EndsWell
<1>6. CASE \E n : /\ admin'[a] = n /\ n.doing = r.doing /\ n.on = l /\ n.snapshot = r.snapshot
  <2> HIDE DEF r
  <2> QED BY <1>1, <1>3, <1>6
          DEF Claim, DirectoryClaim, WrittenClaim, SnapshotClaim, EndsWell, r
<1> QED BY <1>4, <1>5, <1>6

\* The claim is kept by a step that fails and by a crash.
LEMMA FailStepClaim ==
    ASSUME StateOK, NEW a \in Admins, Claim(admin[a], files, dirs), StepFails(a) \/ Crash(a)
    PROVE  Claim(admin'[a], files', dirs') /\ EndsWell(a)
<1> DEFINE r == admin[a]
           l == r.on
<1>1. /\ r \in Processes /\ ProcessOK(r) /\ l \in Setups /\ l # Missing
      /\ files' = files /\ dirs' = dirs
  BY BootstrapAssumptions DEF StepFails, Crash, StateOK, ProcessesOK, ProcessOK,
     InPhase, Processes, Doings
<1>2. CASE StepFails(a)
  <2>1. SnapshotClaim(r, files') BY <1>1 DEF Claim
  <2>2. Claim(admin'[a], files', dirs') /\ (admin'[a].on = Missing => report'[l] # "installed")
    BY <1>1, <1>2, <2>1, RaiseClaim DEF StepFails
  <2> QED BY <2>2 DEF EndsWell
<1>3. CASE Crash(a)
  <2> DEFINE n == [Idle EXCEPT !.at = "crashed", !.temp = r.temp]
  <2>1. admin'[a] = n /\ report'[l] = "crashed"
    BY <1>1, <1>3 DEF Crash, Set, StateOK, ProcessesOK, DiskOK
  <2>2. n.doing = "none"
    BY DEF Idle
  <2> HIDE DEF n
  <2> QED BY <2>1, <2>2, NoClaim DEF EndsWell
<1> QED BY <1>2, <1>3

(***************************************************************************)
(* Siblings and restored content                                            *)
(***************************************************************************)

\* No two processes work on one installation.
Apart ==
    \A a, b \in Admins : a # b /\ admin[a].on # Missing => admin[b].on # admin[a].on

Claims == \A a \in Admins : Claim(admin[a], files, dirs)

SiblingInv == Apart /\ Claims /\ SiblingsUntouched

\* When administrators take turns, no two come to work on one installation.
LEMMA ApartKept ==
    ASSUME StateOK, TakeTurns, Apart, NEW a \in Admins, NEW l \in Setups, Within(a, l),
           admin[a].on = Missing => (TakeTurns => ~Busy(l)) /\ admin'[a].on = l
    PROVE  Apart'
<1>1. ASSUME NEW b \in Admins \ {a}, admin'[a].on # Missing PROVE admin[b].on # admin'[a].on
  <2>1. admin'[a].on = l BY <1>1 DEF Within
  <2>2. CASE admin[a].on = Missing
    BY <2>1, <2>2 DEF Busy
  <2>3. CASE admin[a].on = l
    BY <1>1, <2>1, <2>3 DEF Apart
  <2> QED BY <2>2, <2>3 DEF Within
<1>2. ASSUME NEW b \in Admins, NEW c \in Admins, b # c, admin'[b].on # Missing
      PROVE  admin'[c].on # admin'[b].on
  <2>1. CASE b # a /\ c # a
    BY <1>2, <2>1 DEF Apart, Within
  <2>2. CASE b = a
    BY <1>1, <1>2, <2>2 DEF Within
  <2>3. CASE c = a /\ b # a
    BY <1>1, <1>2, <2>3 DEF Within
  <2> QED BY <2>1, <2>2, <2>3
<1> QED BY <1>2 DEF Apart

\* A step on l leaves a sibling as it is.
LEMMA SiblingKept ==
    ASSUME StateOK, Separate, NEW a \in Admins, NEW l \in Setups, Within(a, l),
           NEW m \in Setups, m # l
    PROVE  /\ \A f \in OwnFiles(m) : files'[f] = files[f]
           /\ CredentialDir(m) \in dirs' <=> CredentialDir(m) \in dirs
           /\ Busy(m)' <=> Busy(m)
           /\ report'[m] = report[m]
           /\ IsInstalled(m)' <=> IsInstalled(m)
           /\ AnyTarget(m)' <=> AnyTarget(m)
<1>1. /\ OwnFiles(m) \subseteq Files /\ CredentialDir(m) \in Dirs /\ l # Missing /\ m # Missing
      /\ OwnFiles(l) \cap OwnFiles(m) = {} /\ CredentialDir(m) \notin OwnDirs(l)
  <2>1. CredentialDir(m) \in OwnDirs(m) BY DirectoriesAre DEF OwnDirs
  <2> QED BY <2>1, OwnPaths, LayoutsApart, BootstrapAssumptions
<1>2. /\ \A f \in OwnFiles(m) : files'[f] = files[f]
      /\ CredentialDir(m) \in dirs' <=> CredentialDir(m) \in dirs
  BY <1>1 DEF Within
<1>3. Busy(m)' <=> Busy(m)
  <2>1. admin[a].on # m /\ admin'[a].on # m
    BY <1>1 DEF Within
  <2>2. \A b \in Admins : admin'[b].on = m <=> admin[b].on = m
    BY <2>1 DEF Within
  <2> QED BY <2>2 DEF Busy
<1>4. IsInstalled(m)' <=> IsInstalled(m)
  BY <1>2, InstalledIsRight DEF InstalledIn
<1>5. AnyTarget(m)' <=> AnyTarget(m)
  BY <1>2 DEF AnyTarget, Present, OwnFiles
<1> QED BY <1>2, <1>3, <1>4, <1>5 DEF Within

\* A step of one process keeps the claims of the others.
LEMMA ClaimsKept ==
    ASSUME StateOK, Separate, Apart, Claims, NEW a \in Admins, NEW l \in Setups, Within(a, l),
           Claim(admin'[a], files', dirs'), admin[a].on # Missing \/ ~Busy(l)
    PROVE  Claims'
<1>1. ASSUME NEW b \in Admins \ {a} PROVE Claim(admin[b], files', dirs')
  <2>1. admin[b] \in Processes /\ ProcessOK(admin[b]) /\ Claim(admin[b], files, dirs)
    BY DEF StateOK, ProcessesOK, Claims
  <2>2. CASE admin[b].on = Missing
    <3>1. admin[b].doing = "none" BY <2>1, <2>2 DEF ProcessOK
    <3> QED BY <3>1, NoClaim
  <2>3. CASE admin[b].on # Missing
    <3>1. admin[b].on \in Setups \ {l}
      BY <2>1, <2>3 DEF Processes, Apart, Within, Busy
    <3>2. /\ \A f \in OwnFiles(admin[b].on) : files'[f] = files[f]
          /\ CredentialDir(admin[b].on) \in dirs => CredentialDir(admin[b].on) \in dirs'
      BY <3>1, SiblingKept
    <3> QED BY <2>1, <3>2, ClaimStable
  <2> QED BY <2>2, <2>3
<1> QED BY <1>1 DEF Claims, Within

\* Every step of a process keeps its claim.
LEMMA StepClaim ==
    ASSUME StateOK, Claims, NEW a \in Admins, Step(a)
    PROVE  Claim(admin'[a], files', dirs') /\ EndsWell(a)
<1>1. Claim(admin[a], files, dirs) BY DEF Claims
<1> QED BY <1>1, StartClaim, DirectoryStepClaim, WriteStepClaim, ReplaceStepClaim,
           ReloadStepClaim, RemovalStepClaim, FailStepClaim DEF Step

\* Every step keeps the siblings whole.
LEMMA SiblingStep ==
    ASSUME Separate, TakeTurns, StateOK, SiblingInv, NEW a \in Admins, Step(a)
    PROVE  SiblingInv'
<1>1. PICK l \in Setups :
          /\ Within(a, l)
          /\ admin[a].on = Missing => (TakeTurns => ~Busy(l)) /\ admin'[a].on = l
  BY StepWithin
<1>2. Claim(admin'[a], files', dirs') /\ EndsWell(a)
  BY StepClaim DEF SiblingInv
<1>3. Apart'
  BY <1>1, ApartKept DEF SiblingInv
<1>4. Claims'
  BY <1>1, <1>2, ClaimsKept DEF SiblingInv
<1>5. ASSUME NEW m \in Setups, report'[m] = "installed", ~Busy(m)'
      PROVE  IsInstalled(m)'
  <2>1. CASE m # l
    BY <1>1, <1>5, <2>1, SiblingKept DEF SiblingInv, SiblingsUntouched
  <2>2. CASE m = l
    <3>1. admin'[a].on # l BY <1>5, <2>2 DEF Busy
    <3>2. admin'[a].on = Missing /\ admin[a].on = l
      BY <1>1, <3>1 DEF Within
    <3> QED BY <1>2, <1>5, <2>2, <3>2, InstalledIsRight DEF EndsWell
  <2> QED BY <2>1, <2>2
<1> QED BY <1>3, <1>4, <1>5 DEF SiblingInv, SiblingsUntouched

\* The installations there at the beginning are whole.
LEMMA SiblingInit == Init => SiblingInv
<1> SUFFICES ASSUME Init PROVE SiblingInv
  OBVIOUS
<1>1. PICK there \in SUBSET Setups :
        /\ \A l, m \in there : l # m => Range(Targets(l)) \cap Range(Targets(m)) = {}
        /\ files = [f \in Files |->
                        IF \A l \in there : f \notin Range(Targets(l)) THEN Missing
                        ELSE IF f[1] = "credential" THEN 0
                        ELSE CHOOSE l \in there : f \in Range(Targets(l))]
        /\ dirs = UNION {Range(Directories(l)) \cup {CredentialRoot} : l \in there}
        /\ report = [l \in Setups |-> IF l \in there THEN "installed" ELSE "none"]
  BY DEF Init
<1>2. \A a \in Admins : admin[a].on = Missing /\ admin[a].doing = "none"
  BY DEF Init, Idle
<1>3. ASSUME NEW l \in there PROVE InstalledIn(l, files, dirs)
  <2>1. CredentialDir(l) \in dirs
    BY <1>1, DirectoriesAre
  <2>2. ASSUME NEW f \in OwnFiles(l) PROVE Right(l, f, files[f])
    <3>1. f \in Files /\ ~ \A m \in there : f \notin Range(Targets(m))
      BY OwnPaths DEF OwnFiles
    <3>2. CASE f[1] = "credential"
      BY <1>1, <3>1, <3>2, BootstrapAssumptions DEF Right
    <3>3. CASE f[1] # "credential"
      <4>1. \A m \in there : f \in Range(Targets(m)) <=> m = l
        BY <1>1 DEF OwnFiles
      <4>2. (CHOOSE m \in there : f \in Range(Targets(m))) = l
        BY <4>1
      <4> QED BY <1>1, <3>1, <3>3, <4>2 DEF Right
    <3> QED BY <3>2, <3>3
  <2> QED BY <2>1, <2>2 DEF InstalledIn
<1>4. SiblingsUntouched
  BY <1>1, <1>3, InstalledIsRight DEF SiblingsUntouched
<1> QED BY <1>2, <1>4, NoClaim DEF SiblingInv, Apart, Claims

\* The inductive invariant behind the siblings: no two processes on one
\* installation, every process keeps its claim, and what was reported installed is.
THEOREM SiblingInvariant ==
    ASSUME Separate, TakeTurns
    PROVE  Spec => []SiblingInv
<1>1. StateOK /\ SiblingInv /\ [Next]_vars => SiblingInv'
  <2> SUFFICES ASSUME StateOK, SiblingInv, [Next]_vars PROVE SiblingInv'
    OBVIOUS
  <2>1. CASE UNCHANGED vars
    BY <2>1 DEF vars, SiblingInv, Apart, Claims, SiblingsUntouched, Busy, IsInstalled, Present
  <2> QED BY <2>1, SiblingStep DEF Next
<1> QED BY <1>1, SiblingInit, TypesHold, PTL DEF Spec

\* An installation stays whole while operations on others succeed, fail, are
\* interrupted or crash, at the same time or later.
THEOREM SiblingsStayWhole ==
    ASSUME Separate, TakeTurns
    PROVE  Spec => []SiblingsUntouched
<1>1. SiblingInv => SiblingsUntouched
  BY DEF SiblingInv
<1> QED BY <1>1, SiblingInvariant, PTL

\* A remove that fails, in whatever way and next to whatever operations on
\* siblings, restores the secrets the installation had.
THEOREM RestorationIsExact ==
    ASSUME Separate, TakeTurns
    PROVE  Spec => []RestoresContent
<1>1. SiblingInv => RestoresContent
  BY RangeEmpty DEF SiblingInv, Claims, Claim, WrittenClaim, RestoresContent, OwnFiles
<1> QED BY <1>1, SiblingInvariant, PTL
=============================================================================
