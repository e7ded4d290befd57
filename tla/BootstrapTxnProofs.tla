-------------------------- MODULE BootstrapTxnProofs --------------------------
(***************************************************************************)
(* More theorems about Bootstrap, for installations that share no path and  *)
(* are worked on by one administrator at a time:                            *)
(*   - no file that exists is overwritten, whatever fails;                  *)
(*   - without faults, operations are all or nothing;                       *)
(*   - without faults, or with one administrator and one failing step,      *)
(*     Bootstrap implements the transactions of BootstrapTxn;               *)
(*   - with one administrator and one failing step, the service manager     *)
(*     has loaded the drop-ins on disk when no operation is under way.      *)
(***************************************************************************)
EXTENDS BootstrapProofs

(***************************************************************************)
(* Layout                                                                   *)
(***************************************************************************)

\* Without repetitions the head is not in the tail.
LEMMA InjectiveTail ==
    ASSUME NEW S, NEW s \in Seq(S), s # <<>>, IsInjective(s)
    PROVE  IsInjective(Tail(s)) /\ Head(s) \notin Range(Tail(s))
<1>1. /\ Len(s) \in Nat \ {0} /\ Len(Tail(s)) = Len(s) - 1
      /\ \A i \in 1..Len(Tail(s)) : Tail(s)[i] = s[i + 1]
      /\ DOMAIN s = 1..Len(s) /\ DOMAIN Tail(s) = 1..Len(Tail(s)) /\ Head(s) = s[1]
  BY EmptySeq, HeadTailProperties, LenProperties
<1>2. \A i \in 1..Len(Tail(s)) : i + 1 \in 1..Len(s) /\ i + 1 # 1
  BY <1>1
<1>3. Head(s) \notin Range(Tail(s))
  BY <1>1, <1>2 DEF IsInjective, Range
<1>4. ASSUME NEW i \in 1..Len(Tail(s)), NEW j \in 1..Len(Tail(s)), Tail(s)[i] = Tail(s)[j]
      PROVE  i = j
  <2>1. s[i + 1] = s[j + 1] BY <1>1, <1>4
  <2>2. i + 1 = j + 1 BY <1>1, <1>2, <2>1 DEF IsInjective
  <2> QED BY <2>2
<1> QED BY <1>1, <1>3, <1>4 DEF IsInjective

\* No path is listed twice among the targets of an installation.
LEMMA TargetsInjective ==
    ASSUME NEW l PROVE IsInjective(Targets(l))
<1> DEFINE C == Credentials(l)
           W == <<DropIn(l), EnvScript(l), Manifest(l)>>
           n == Len(CREDENTIAL_NAMES)
           S == OwnFiles(l)
<1>1. /\ n \in Nat /\ DOMAIN CREDENTIAL_NAMES = 1..n
      /\ \A i, j \in 1..n : CREDENTIAL_NAMES[i] = CREDENTIAL_NAMES[j] => i = j
  BY BootstrapAssumptions, LenProperties DEF IsInjective
<1>2. DOMAIN C = 1..n /\ \A i \in 1..n : C[i] = <<"credential", l.profile, CREDENTIAL_NAMES[i]>>
  BY <1>1 DEF Credentials, Credential
<1>3. C \in Seq(S) /\ W \in Seq(S) /\ Len(W) = 3
  <2>1. C \in Seq(Range(C)) /\ Range(C) \subseteq S /\ {DropIn(l), EnvScript(l), Manifest(l)} \subseteq S
    BY TargetsAre DEF OwnFiles
  <2> QED BY <2>1, SeqMonotonic
<1>4. Len(C) = n
  <2>1. Len(C) \in Nat /\ 1..Len(C) = 1..n BY <1>2, <1>3, LenProperties
  <2> HIDE DEF C, n
  <2> QED BY <1>1, <2>1
<1>5. /\ DOMAIN Targets(l) = 1..(n + 3)
      /\ \A i \in 1..(n + 3) : Targets(l)[i] = IF i <= n THEN C[i] ELSE W[i - n]
  <2> HIDE DEF C, W, n, S
  <2> QED BY <1>3, <1>4, ConcatProperties, LenProperties DEF Targets, C, W
<1>6. W[1][1] = "drop_in" /\ W[2][1] = "env_script" /\ W[3][1] = "manifest"
  BY DEF DropIn, EnvScript, Manifest
<1>7. \A i \in 1..n : C[i][1] = "credential" /\ C[i][3] = CREDENTIAL_NAMES[i]
  BY <1>2
<1>8. ASSUME NEW i \in 1..(n + 3), NEW j \in 1..(n + 3), Targets(l)[i] = Targets(l)[j]
      PROVE  i = j
  <2> HIDE DEF C, W, n
  <2>1. CASE i <= n /\ j <= n
    <3>1. i \in 1..n /\ j \in 1..n BY <1>1, <2>1
    <3> QED BY <1>1, <1>5, <1>7, <1>8, <2>1, <3>1
  <2>2. ASSUME NEW k \in 1..(n + 3), k <= n PROVE k \in 1..n /\ Targets(l)[k][1] = "credential"
    BY <1>1, <1>5, <1>7, <2>2
  <2>3. ASSUME NEW k \in 1..(n + 3), ~(k <= n)
        PROVE  /\ k - n \in {1, 2, 3}
               /\ Targets(l)[k][1] = IF k - n = 1 THEN "drop_in"
                                     ELSE IF k - n = 2 THEN "env_script" ELSE "manifest"
    <3>1. k - n \in {1, 2, 3} BY <1>1, <2>3
    <3>2. Targets(l)[k] = W[k - n] BY <1>5, <2>3
    <3> QED BY <1>6, <3>1, <3>2
  <2>4. CASE ~(i <= n) /\ ~(j <= n)
    <3>1. i - n = j - n BY <1>8, <2>3, <2>4
    <3> QED BY <1>1, <3>1
  <2> QED BY <1>8, <2>1, <2>2, <2>3, <2>4
<1> QED BY <1>5, <1>8 DEF IsInjective

\* The directory of each file of an installation is one it sets up.
LEMMA ParentIsOwn ==
    ASSUME NEW l, NEW f \in OwnFiles(l)
    PROVE  ParentOf(f) \in Range(Directories(l))
<1>1. Range(Directories(l)) =
        {<<"credential_dir", l.profile>>, <<"unit_dir", l.unit>>, ManifestDir, ScriptDir}
  BY DirectoriesAre DEF CredentialDir, UnitDir
<1>2. CASE \E x \in Range(CREDENTIAL_NAMES) : f = <<"credential", l.profile, x>>
  <2>1. f[1] = "credential" /\ f[2] = l.profile BY <1>2
  <2> QED BY <1>1, <2>1 DEF ParentOf
<1>3. CASE f \in {<<"drop_in", l.unit>>, <<"env_script", l.profile>>, <<"manifest", l.profile>>}
  <2>1. CASE f = <<"drop_in", l.unit>>
    <3>1. f[1] = "drop_in" /\ f[2] = l.unit BY <2>1
    <3> QED BY <1>1, <3>1 DEF ParentOf
  <2>2. CASE f = <<"env_script", l.profile>>
    <3>1. f[1] = "env_script" BY <2>2
    <3> QED BY <1>1, <3>1 DEF ParentOf
  <2>3. CASE f = <<"manifest", l.profile>>
    <3>1. f[1] = "manifest" BY <2>3
    <3> QED BY <1>1, <3>1 DEF ParentOf
  <2> QED BY <1>3, <2>1, <2>2, <2>3
<1>4. \/ \E x \in Range(CREDENTIAL_NAMES) : f = <<"credential", l.profile, x>>
      \/ f \in {<<"drop_in", l.unit>>, <<"env_script", l.profile>>, <<"manifest", l.profile>>}
  BY TargetsAre DEF OwnFiles, Credential, DropIn, EnvScript, Manifest
<1> QED BY <1>2, <1>3, <1>4

(***************************************************************************)
(* What a process has left to do                                            *)
(***************************************************************************)

\* One administrator, and at most one step that fails.
Alone ==
    /\ \E a \in Admins : Admins = {a}
    /\ FaultKinds \subseteq {"error"} /\ MaxFaults <= 1

\* With n faults so far, nothing has happened that setup or remove cannot undo.
Gentle(n) == n = 0 \/ Alone

\* No file is to be treated twice; remove has taken away what it no longer lists.
RemovedClaim(r, F) ==
    /\ r.at \in {"write", "replace", "unlink"} => IsInjective(r.todo)
    /\ r.doing = "remove" /\ r.at = "unlink" =>
          \A f \in OwnFiles(r.on) : F[f] # Missing <=> f \in Range(r.todo)
    /\ r.doing = "remove" /\ r.at \in {"rmdir", "reload"} =>
          \A f \in OwnFiles(r.on) : F[f] = Missing

\* What install has written it has recorded, and rollback removes what is recorded.
RecordedClaim(r, F) ==
    /\ r.doing = "install" /\ r.at \in {"scan", "mkdir"} =>
          \A f \in OwnFiles(r.on) : F[f] = Missing
    /\ r.doing = "install" /\ r.at \in {"write", "replace", "reload"} =>
          \A f \in OwnFiles(r.on) :
              F[f] # Missing => f \in Range(r.madeFiles) /\ f \notin Range(r.todo)
    /\ r.doing = "rollback" /\ r.at = "undo_files" =>
          \A f \in OwnFiles(r.on) : F[f] # Missing => f \in Range(r.todo)
    /\ r.doing = "rollback" /\ r.at \in {"rmdir", "undo_reload"} =>
          \A f \in OwnFiles(r.on) : F[f] = Missing

\* The next directory of a chain can be made.
ChainReady(c, D) ==
    \E d : /\ d \notin D
           /\ \/ c = <<d>> /\ (d[1] = "credential_dir" => CredentialRoot \in D)
              \/ c = <<CredentialRoot, d>> /\ d[1] = "credential_dir" /\ CredentialRoot \notin D

\* Files are written only when their directories exist.
ReadyClaim(r, D) ==
    r.doing \in {"install", "restore"} =>
        /\ r.at \in {"scan", "mkdir"} =>
              Range(Directories(r.on)) \subseteq D \cup Range(r.todo) \cup Range(r.chain)
        /\ r.at = "mkdir" => ChainReady(r.chain, D)
        /\ r.at \in {"write", "replace"} => Range(Directories(r.on)) \subseteq D

\* A handler is at work only after a fault.
HandlerClaim(r, n) ==
    /\ r.doing = "restore" => n # 0
    /\ Alone => (r.doing = "rollback" => n # 0) /\ r.at # "crashed"

Progress(r, F, D, n) ==
    /\ RemovedClaim(r, F) /\ HandlerClaim(r, n)
    /\ Gentle(n) => RecordedClaim(r, F)
    /\ Alone => ReadyClaim(r, D)

\* An operation that ends leaves its installation whole or absent, as reported.
EndsWhole(a) ==
    \A l \in Setups :
        admin[a].on = l /\ admin'[a].on = Missing /\ Gentle(faults') =>
            IF report'[l] \in {"installed", "remove failed"} THEN InstalledIn(l, files', dirs')
            ELSE \A f \in OwnFiles(l) : files'[f] = Missing

\* A fault is counted, and a single administrator meets one, an error.
LEMMA FaultCounts ==
    ASSUME StateOK
    PROVE  /\ faults \in Nat
           /\ \A kind : Fault(kind) => /\ faults' = faults + 1 /\ faults' # 0
                                       /\ Alone => faults = 0 /\ kind = "error"
<1>1. faults \in Nat /\ MaxFaults \in Nat
  BY BootstrapAssumptions DEF StateOK, DiskOK
<1>2. ASSUME NEW kind, Fault(kind) PROVE faults' = faults + 1 /\ faults' # 0
  BY <1>1, <1>2 DEF Fault
<1>3. ASSUME NEW kind, Fault(kind), Alone PROVE faults = 0 /\ kind = "error"
  <2>1. kind \in FaultKinds /\ faults < MaxFaults BY <1>3 DEF Fault
  <2>2. FaultKinds \subseteq {"error"} /\ MaxFaults <= 1 BY <1>3 DEF Alone
  <2> QED BY <1>1, <2>1, <2>2
<1> QED BY <1>1, <1>2, <1>3

\* An exception hands over what the handler needs.
LEMMA RaiseProgress ==
    ASSUME StateOK, NEW a \in Admins, NEW r \in Processes, ProcessOK(r),
           r.on = admin[a].on, r.on \in Setups, NEW F, NEW D, NEW n, Raise(a, r),
           r.doing = "remove" => n # 0,
           r.doing = "install" =>
              /\ Alone => n # 0
              /\ Gentle(n) => \A f \in OwnFiles(r.on) : F[f] # Missing => f \in Range(r.madeFiles)
    PROVE  /\ Progress(admin'[a], F, D, n)
           /\ r.doing \in {"install", "remove"} => admin'[a].on # Missing
           /\ r.doing = "rollback" => report'[r.on] = "install failed"
           /\ r.doing = "restore" => report'[r.on] = "remove failed"
<1> DEFINE back == [r EXCEPT !.at = "undo_files", !.doing = "rollback",
                             !.todo = Reverse(r.madeFiles), !.temp = Missing]
           again == [r EXCEPT !.at = "scan", !.doing = "restore", !.todo = Directories(r.on),
                              !.madeFiles = <<>>, !.madeDirs = <<>>]
<1>1. /\ r.on # Missing /\ report \in [Setups -> Reports] /\ OnItsOwn(r)
      /\ Idle.doing = "none" /\ Idle.on = Missing /\ Idle.at = "idle"
  BY BootstrapAssumptions DEF StateOK, DiskOK, Idle, ProcessOK
<1>2. CASE r.doing = "install" /\ admin'[a] = back
  <2>1. /\ back.doing = "rollback" /\ back.on = r.on /\ back.at = "undo_files"
        /\ back.todo = Reverse(r.madeFiles)
    BY DEF Processes
  <2>2. Range(Reverse(r.madeFiles)) = Range(r.madeFiles)
    BY <1>1, RangeReverse DEF OnItsOwn
  <2>3. Progress(back, F, D, n)
    <3> HIDE DEF back
    <3> QED BY <1>2, <2>1, <2>2
            DEF Progress, RemovedClaim, RecordedClaim, ReadyClaim, HandlerClaim
  <2> QED BY <1>1, <1>2, <2>1, <2>3
<1>3. CASE r.doing = "remove" /\ admin'[a] = again
  <2>1. /\ again.doing = "restore" /\ again.on = r.on /\ again.at = "scan"
        /\ again.todo = Directories(r.on)
    BY DEF Processes
  <2>2. Progress(again, F, D, n)
    <3> HIDE DEF again
    <3> QED BY <1>3, <2>1 DEF Progress, RemovedClaim, RecordedClaim, ReadyClaim, HandlerClaim
  <2> QED BY <1>1, <1>3, <2>1, <2>2
<1>4. ASSUME admin'[a] = Idle PROVE Progress(admin'[a], F, D, n)
  BY <1>1, <1>4 DEF Progress, RemovedClaim, RecordedClaim, ReadyClaim, HandlerClaim
<1> QED BY <1>1, <1>2, <1>3, <1>4, RaiseOK

\* A step that is raised ends an operation only out of a handler.
LEMMA RaiseEnds ==
    ASSUME StateOK, NEW a \in Admins, NEW r \in Processes, ProcessOK(r),
           r.on = admin[a].on, r.on \in Setups, Raise(a, r),
           r.doing \in {"install", "remove"} => admin'[a].on # Missing,
           r.doing = "rollback" => report'[r.on] = "install failed",
           r.doing = "restore" => report'[r.on] = "remove failed",
           r.doing = "rollback" /\ Gentle(faults') => \A f \in OwnFiles(r.on) : files'[f] = Missing,
           r.doing = "restore" /\ Gentle(faults') => InstalledIn(r.on, files', dirs')
    PROVE  EndsWhole(a)
<1>1. r.doing \in {"install", "remove", "rollback", "restore"}
  BY BootstrapAssumptions DEF ProcessOK, Processes, Doings
<1> QED BY <1>1 DEF EndsWhole

\* With faults counted, a handler that fails once more is beyond what is promised,
\* and so is every interrupt and crash.
LEMMA BeyondPromise ==
    ASSUME StateOK, NEW r, HandlerClaim(r, faults), NEW kind, Fault(kind),
           r.doing \in {"rollback", "restore"} \/ kind # "error"
    PROVE  ~Gentle(faults')
BY FaultCounts DEF Gentle, HandlerClaim

\* What can be undone after a step could be before.
LEMMA GentleBefore ==
    ASSUME StateOK, Gentle(faults'), faults' = faults \/ \E kind : Fault(kind)
    PROVE  Gentle(faults)
BY FaultCounts DEF Gentle

(***************************************************************************)
(* Each step keeps what a process has left to do                            *)
(***************************************************************************)

\* An operation starts with everything still to do.
LEMMA StartProgress ==
    ASSUME StateOK, NEW a \in Admins, NEW l \in Setups, StartInstall(a, l) \/ StartRemove(a, l)
    PROVE  Progress(admin'[a], files', dirs', faults') /\ EndsWhole(a)
<1>1. /\ Idle \in Processes /\ l # Missing /\ UNCHANGED <<files, dirs, report, faults>>
  BY IdleOK, BootstrapAssumptions DEF StartInstall, StartRemove, Starts
<1>2. CASE StartInstall(a, l)
  <2> DEFINE n == [Idle EXCEPT !.at = "scan", !.doing = "install", !.on = l,
                               !.todo = Directories(l), !.secret = ops', !.before = "absent"]
  <2>1. admin'[a] = n
    BY <1>2 DEF StartInstall, Set, StateOK, ProcessesOK
  <2>2. n.at = "scan" /\ n.doing = "install" /\ n.on = l /\ n.todo = Directories(l)
    BY <1>1 DEF Processes
  <2>3. \A f \in OwnFiles(l) : files'[f] = Missing
    BY <1>1, <1>2 DEF StartInstall, AnyTarget, Present, OwnFiles
  <2> HIDE DEF n
  <2> QED BY <1>1, <2>1, <2>2, <2>3
          DEF Progress, RemovedClaim, RecordedClaim, ReadyClaim, HandlerClaim, EndsWhole
<1>3. CASE StartRemove(a, l)
  <2> DEFINE n == [Idle EXCEPT !.at = "unlink", !.doing = "remove", !.on = l,
                               !.todo = Targets(l), !.before = "installed",
                               !.snapshot = [f \in Range(Targets(l)) |-> files[f]]]
  <2>1. admin'[a] = n
    BY <1>3 DEF StartRemove, Set, StateOK, ProcessesOK
  <2>2. n.at = "unlink" /\ n.doing = "remove" /\ n.on = l /\ n.todo = Targets(l)
    BY <1>1 DEF Processes
  <2>3. \A f \in OwnFiles(l) : files'[f] # Missing
    BY <1>1, <1>3, InstalledIsRight DEF StartRemove, InstalledIn, Right
  <2>4. IsInjective(Targets(l)) BY TargetsInjective
  <2> HIDE DEF n
  <2> QED BY <1>1, <2>1, <2>2, <2>3, <2>4
          DEF Progress, RemovedClaim, RecordedClaim, ReadyClaim, HandlerClaim, EndsWhole, OwnFiles
<1> QED BY <1>2, <1>3

\* Listing missing directories loses none of them.
LEMMA ScanProgress ==
    ASSUME StateOK, NEW a \in Admins, Progress(admin[a], files, dirs, faults), Scan(a)
    PROVE  Progress(admin'[a], files', dirs', faults') /\ EndsWhole(a)
<1> DEFINE r == admin[a]
           l == r.on
<1>1. /\ r \in Processes /\ ProcessOK(r) /\ r.at = "scan" /\ r.chain = <<>>
      /\ r.doing \in {"install", "restore"} /\ l \in Setups /\ l # Missing
      /\ r.todo \in Seq(OwnDirs(l)) /\ UNCHANGED <<files, dirs, faults>>
  BY BootstrapAssumptions DEF Scan, Goes, StateOK, ProcessesOK, ProcessOK,
     InPhase, Processes, Doings, OnItsOwn
<1>2. /\ HandlerClaim(r, faults)
      /\ Gentle(faults) /\ r.doing = "install" => \A f \in OwnFiles(l) : files[f] = Missing
      /\ Alone => Range(Directories(l)) \subseteq dirs \cup Range(r.todo)
  BY <1>1, RangeEmpty DEF Progress, RecordedClaim, ReadyClaim
<1>3. CASE r.todo = <<>>
  <2> DEFINE n == [r EXCEPT !.at = "write", !.todo = Targets(l)]
  <2>1. admin'[a] = n
    BY <1>3 DEF Scan, Goes, Set, StateOK, ProcessesOK
  <2>2. n.at = "write" /\ n.todo = Targets(l) /\ n.doing = r.doing /\ n.on = l
    BY <1>1 DEF Processes
  <2>3. IsInjective(Targets(l)) BY TargetsInjective
  <2> HIDE DEF n, r
  <2> QED BY <1>1, <1>2, <1>3, <2>1, <2>2, <2>3, RangeEmpty
          DEF Progress, RemovedClaim, RecordedClaim, ReadyClaim, HandlerClaim, EndsWhole, r
<1>4. CASE r.todo # <<>>
  <2> DEFINE d == Head(r.todo)
             missing == MissingUpTo(d)
             n == [r EXCEPT !.at = IF missing = <<>> THEN "scan" ELSE "mkdir",
                            !.todo = Tail(r.todo), !.chain = missing]
  <2>1. admin'[a] = n
    BY <1>4 DEF Scan, Goes, Set, StateOK, ProcessesOK
  <2>2. /\ n.at = (IF missing = <<>> THEN "scan" ELSE "mkdir") /\ n.todo = Tail(r.todo)
        /\ n.doing = r.doing /\ n.on = l /\ n.chain = missing
    <3> HIDE DEF missing
    <3> QED BY <1>1 DEF Processes
  <2>3. d \in dirs \cup Range(missing)
    <3>1. d \in Range(<<d>>) /\ d \in Range(<<CredentialRoot, d>>)
      BY DEF Range
    <3> HIDE DEF d
    <3> QED BY <3>1 DEF MissingUpTo
  <2>4. missing # <<>> => ChainReady(missing, dirs)
    <3> HIDE DEF d
    <3> QED BY DEF MissingUpTo, ChainReady
  <2>5. Range(r.todo) = {d} \cup Range(Tail(r.todo))
    BY <1>1, <1>4, RangeSplit
  <2> HIDE DEF n, r, missing, d
  <2> QED BY <1>1, <1>2, <2>1, <2>2, <2>3, <2>4, <2>5
          DEF Progress, RemovedClaim, RecordedClaim, ReadyClaim, HandlerClaim, EndsWhole, r
<1> QED BY <1>3, <1>4

\* A path or a directory is not as a process expects it: another has been at work.
InTheWay(a) ==
    \/ MkdirRaces(a)
    \/ /\ WriteRefused(a)
       /\ ~(admin[a].doing = "restore" /\ Present(Head(admin[a].todo)))

\* Nobody is in the way of a single administrator.
LEMMA NobodyInTheWay ==
    ASSUME StateOK, Alone, NEW a \in Admins, Progress(admin[a], files, dirs, faults)
    PROVE  ~InTheWay(a)
<1> DEFINE r == admin[a]
           l == r.on
<1>1. r \in Processes /\ ProcessOK(r) /\ RecordedClaim(r, files) /\ ReadyClaim(r, dirs)
  BY DEF StateOK, ProcessesOK, Progress, Gentle
<1>2. ASSUME MkdirRaces(a) PROVE FALSE
  <2>1. ChainReady(r.chain, dirs)
    BY <1>1, <1>2 DEF MkdirRaces, ProcessOK, InPhase, Processes, Doings, ReadyClaim
  <2>2. PICK e : /\ e \notin dirs
                 /\ \/ r.chain = <<e>> /\ (e[1] = "credential_dir" => CredentialRoot \in dirs)
                    \/ r.chain = <<CredentialRoot, e>> /\ CredentialRoot \notin dirs
    BY <2>1 DEF ChainReady
  <2>3. Head(<<e>>) = e /\ Head(<<CredentialRoot, e>>) = CredentialRoot
        /\ CredentialRoot[1] # "credential_dir"
    BY DEF CredentialRoot
  <2> QED BY <1>2, <2>2, <2>3 DEF MkdirRaces
<1>3. ASSUME WriteRefused(a), ~(r.doing = "restore" /\ Present(Head(r.todo))) PROVE FALSE
  <2> DEFINE f == Head(r.todo)
  <2>1. /\ r.at = "write" /\ r.todo # <<>> /\ (Present(f) \/ ParentOf(f) \notin dirs)
        /\ r.doing \in {"install", "restore"} /\ r.todo \in Seq(OwnFiles(l))
    BY <1>1, <1>3 DEF WriteRefused, ProcessOK, InPhase, OnItsOwn, Processes, Doings
  <2>2. f \in OwnFiles(l) /\ f \in Range(r.todo)
    BY <2>1, HeadTail, RangeSplit
  <2>3. ParentOf(f) \in dirs
    BY <1>1, <2>1, <2>2, ParentIsOwn DEF ReadyClaim
  <2>4. r.doing = "install" /\ files[f] # Missing
    BY <1>3, <2>1, <2>3 DEF Present
  <2> QED BY <1>1, <2>1, <2>2, <2>4 DEF RecordedClaim
<1> QED BY <1>2, <1>3 DEF InTheWay

\* Making a directory leaves the rest to do; a failure is handed over.
LEMMA MkdirProgress ==
    ASSUME StateOK, NEW a \in Admins, Progress(admin[a], files, dirs, faults),
           Mkdir(a) \/ MkdirRaces(a)
    PROVE  Progress(admin'[a], files', dirs', faults') /\ EndsWhole(a)
<1> DEFINE r == admin[a]
           l == r.on
           d == Head(r.chain)
           n == [MadeOne(r) EXCEPT !.madeDirs = Append(@, d)]
<1>1. /\ r \in Processes /\ ProcessOK(r) /\ r.at = "mkdir" /\ r.chain # <<>>
      /\ r.doing \in {"install", "restore"} /\ l \in Setups /\ l # Missing
      /\ files' = files
  BY BootstrapAssumptions DEF Mkdir, MkdirRaces, StateOK, ProcessesOK, ProcessOK,
     InPhase, Processes, Doings
<1>2. /\ HandlerClaim(r, faults)
      /\ Gentle(faults) /\ r.doing = "install" => \A f \in OwnFiles(l) : files[f] = Missing
      /\ Alone => /\ Range(Directories(l)) \subseteq dirs \cup Range(r.todo) \cup Range(r.chain)
                  /\ ChainReady(r.chain, dirs)
  BY <1>1 DEF Progress, RecordedClaim, ReadyClaim
<1>3. /\ MadeOne(r) \in Processes /\ ProcessOK(MadeOne(r))
      /\ MadeOne(r).at = (IF MadeOne(r).chain = <<>> THEN "scan" ELSE "mkdir")
      /\ MadeOne(r).chain = Tail(r.chain) /\ MadeOne(r).todo = r.todo
      /\ MadeOne(r).doing = r.doing /\ MadeOne(r).on = l
      /\ MadeOne(r).madeFiles = r.madeFiles
      /\ Range(r.chain) = {d} \cup Range(Tail(r.chain))
  BY <1>1, MadeOneOK, RangeSplit
<1>4. CASE Mkdir(a) /\ Set(a, n) /\ UNCHANGED <<faults, report>>
  <2>1. admin'[a] = n /\ dirs' = dirs \cup {d}
    BY <1>4 DEF Mkdir, Set, StateOK, ProcessesOK
  <2>2. /\ n.at = (IF n.chain = <<>> THEN "scan" ELSE "mkdir") /\ n.chain = Tail(r.chain)
        /\ n.todo = r.todo /\ n.doing = r.doing /\ n.on = l
    <3> HIDE DEF r, d
    <3> QED BY <1>3 DEF Processes
  <2>3. Alone /\ Tail(r.chain) # <<>> => ChainReady(Tail(r.chain), dirs')
    <3> SUFFICES ASSUME Alone, Tail(r.chain) # <<>> PROVE ChainReady(Tail(r.chain), dirs')
      OBVIOUS
    <3>1. PICK e : /\ e \notin dirs
                   /\ \/ r.chain = <<e>>
                      \/ r.chain = <<CredentialRoot, e>> /\ e[1] = "credential_dir"
      BY <1>2 DEF ChainReady
    <3>2. Tail(<<e>>) = <<>> /\ Head(<<CredentialRoot, e>>) = CredentialRoot
          /\ Tail(<<CredentialRoot, e>>) = <<e>>
      OBVIOUS
    <3>3. r.chain = <<CredentialRoot, e>> /\ e[1] = "credential_dir"
      BY <3>1, <3>2
    <3>4. e # CredentialRoot
      BY <3>3 DEF CredentialRoot
    <3>5. e \notin dirs' /\ CredentialRoot \in dirs' /\ Tail(r.chain) = <<e>>
      BY <2>1, <3>1, <3>2, <3>3, <3>4
    <3> QED BY <3>5 DEF ChainReady
  <2> HIDE DEF n, r, d
  <2> QED BY <1>1, <1>2, <1>3, <1>4, <2>1, <2>2, <2>3
          DEF Progress, RemovedClaim, RecordedClaim, ReadyClaim, HandlerClaim, EndsWhole, r
<1>5. CASE Mkdir(a) /\ (Fault("error") \/ Fault("interrupt")) /\ Raise(a, MadeOne(r))
  <2>1. faults' # 0 /\ (r.doing = "restore" => ~Gentle(faults')) /\ (Gentle(faults') => Gentle(faults))
    BY <1>2, <1>5, FaultCounts, BeyondPromise, GentleBefore
  <2>2. /\ Progress(admin'[a], files', dirs', faults')
        /\ r.doing = "install" => admin'[a].on # Missing
        /\ r.doing = "restore" => report'[l] = "remove failed"
    <3> DEFINE done == MadeOne(r)
    <3>1. /\ done \in Processes /\ ProcessOK(done) /\ done.on = admin[a].on /\ done.on \in Setups
          /\ Raise(a, done) /\ done.doing = r.doing /\ done.doing # "remove"
      BY <1>1, <1>3, <1>5
    <3>2. done.doing = "install" /\ Gentle(faults') =>
             \A f \in OwnFiles(done.on) :
                 files'[f] # Missing => f \in Range(done.madeFiles)
      BY <1>1, <1>2, <1>3, <2>1
    <3> HIDE DEF done, r
    <3> QED BY <1>1, <2>1, <3>1, <3>2, RaiseProgress DEF r
  <2> HIDE DEF r
  <2> QED BY <1>1, <1>3, <1>5, <2>1, <2>2, RaiseEnds DEF r
<1>6. CASE MkdirRaces(a)
  <2>1. faults' = faults /\ Raise(a, r)
    BY <1>6 DEF MkdirRaces
  <2>2. ~Alone
    BY <1>6, NobodyInTheWay DEF InTheWay
  <2>3. Gentle(faults) => faults = 0 /\ r.doing = "install"
    BY <1>1, <1>2, <2>2 DEF Gentle, HandlerClaim
  <2>4. /\ Progress(admin'[a], files', dirs', faults')
        /\ r.doing = "install" => admin'[a].on # Missing
        /\ r.doing = "restore" => report'[l] = "remove failed"
    <3> HIDE DEF r
    <3> QED BY <1>1, <1>2, <2>1, <2>2, <2>3, RaiseProgress DEF r
  <2> HIDE DEF r
  <2> QED BY <1>1, <2>1, <2>3, <2>4, RaiseEnds DEF r
<1> QED BY <1>4, <1>5, <1>6 DEF Mkdir, Goes, MadeOne

\* The steps around writing a file leave the rest to do.
LEMMA WriteProgress ==
    ASSUME StateOK, NEW a \in Admins, Claim(admin[a], files, dirs),
           Progress(admin[a], files, dirs, faults),
           WriteTemp(a) \/ WriteRefused(a) \/ Written(a)
    PROVE  Progress(admin'[a], files', dirs', faults') /\ EndsWhole(a)
<1> DEFINE r == admin[a]
           f == Head(r.todo)
           l == r.on
<1>1. /\ r \in Processes /\ ProcessOK(r) /\ r.at = "write" /\ r.doing \in {"install", "restore"}
      /\ l \in Setups /\ l # Missing /\ r.todo \in Seq(OwnFiles(l))
      /\ UNCHANGED <<files, dirs, faults>>
  BY BootstrapAssumptions DEF WriteTemp, WriteRefused, Written, Goes, StateOK, ProcessesOK,
     ProcessOK, InPhase, Processes, Doings, OnItsOwn
<1>2. /\ HandlerClaim(r, faults) /\ IsInjective(r.todo)
      /\ Gentle(faults) /\ r.doing = "install" =>
            \A g \in OwnFiles(l) :
                files[g] # Missing => g \in Range(r.madeFiles) /\ g \notin Range(r.todo)
      /\ Alone => Range(Directories(l)) \subseteq dirs
  BY <1>1 DEF Progress, RemovedClaim, RecordedClaim, ReadyClaim
<1>3. r.todo # <<>> =>
         /\ f \in OwnFiles(l) /\ Range(r.todo) = {f} \cup Range(Tail(r.todo))
         /\ IsInjective(Tail(r.todo))
  BY <1>1, <1>2, HeadTail, RangeSplit, InjectiveTail
<1>4. CASE WriteTemp(a)
  <2> DEFINE n == [r EXCEPT !.at = "replace", !.temp = ParentOf(f)]
  <2>1. admin'[a] = n
    BY <1>4 DEF WriteTemp, Goes, Set, StateOK, ProcessesOK
  <2>2. /\ n.at = "replace" /\ n.todo = r.todo /\ n.doing = r.doing /\ n.on = l
        /\ n.madeFiles = r.madeFiles
    BY <1>1 DEF Processes
  <2> HIDE DEF n, r
  <2> QED BY <1>1, <1>2, <2>1, <2>2
          DEF Progress, RemovedClaim, RecordedClaim, ReadyClaim, HandlerClaim, EndsWhole, r
<1>5. CASE WriteRefused(a) /\ r.doing = "restore" /\ Present(f)
  <2> DEFINE n == [r EXCEPT !.todo = Tail(@)]
  <2>1. admin'[a] = n /\ r.todo # <<>>
    BY <1>5 DEF WriteRefused, Set, StateOK, ProcessesOK
  <2>2. n.at = "write" /\ n.todo = Tail(r.todo) /\ n.doing = r.doing /\ n.on = l
    BY <1>1 DEF Processes
  <2> HIDE DEF n, r, f
  <2> QED BY <1>1, <1>2, <1>3, <1>5, <2>1, <2>2
          DEF Progress, RemovedClaim, RecordedClaim, ReadyClaim, HandlerClaim, EndsWhole, r
<1>6. CASE WriteRefused(a) /\ ~(r.doing = "restore" /\ Present(f))
  <2>1. Raise(a, r) /\ r.todo # <<>> /\ (Present(f) \/ ParentOf(f) \notin dirs)
    BY <1>6 DEF WriteRefused
  <2>2. f \in OwnFiles(l) /\ f \in Range(r.todo)
    BY <1>3, <2>1
  <2>3. ~Alone
    BY <1>6, NobodyInTheWay DEF InTheWay
  <2>4. Gentle(faults) => faults = 0 /\ r.doing = "install"
    BY <1>1, <1>2, <2>3 DEF Gentle, HandlerClaim
  <2>5. /\ Progress(admin'[a], files', dirs', faults')
        /\ r.doing = "install" => admin'[a].on # Missing
        /\ r.doing = "restore" => report'[l] = "remove failed"
    <3> HIDE DEF r
    <3> QED BY <1>1, <1>2, <2>1, <2>3, <2>4, RaiseProgress DEF r
  <2> HIDE DEF r
  <2> QED BY <1>1, <2>1, <2>4, <2>5, RaiseEnds DEF r
<1>7. CASE Written(a)
  <2> DEFINE n == [r EXCEPT !.at = IF r.doing = "install" THEN "reload" ELSE "undo_reload",
                            !.reloading = TRUE]
  <2>1. admin'[a] = n
    BY <1>7 DEF Written, Goes, Set, StateOK, ProcessesOK
  <2>2. /\ n.at = (IF r.doing = "install" THEN "reload" ELSE "undo_reload")
        /\ n.todo = r.todo /\ n.doing = r.doing /\ n.on = l /\ n.madeFiles = r.madeFiles
    BY <1>1 DEF Processes
  <2> HIDE DEF n, r
  <2> QED BY <1>1, <1>2, <2>1, <2>2
          DEF Progress, RemovedClaim, RecordedClaim, ReadyClaim, HandlerClaim, EndsWhole, r
<1> QED BY <1>4, <1>5, <1>6, <1>7

\* A file in place is recorded, and no longer to be written.
LEMMA ReplaceProgress ==
    ASSUME StateOK, NEW a \in Admins, Progress(admin[a], files, dirs, faults), Replace(a)
    PROVE  Progress(admin'[a], files', dirs', faults') /\ EndsWhole(a)
<1> DEFINE r == admin[a]
           f == Head(r.todo)
           l == r.on
           n == [WroteOne(r) EXCEPT !.madeFiles = Append(@, f)]
<1>1. /\ r \in Processes /\ ProcessOK(r) /\ r.at = "replace" /\ r.doing \in {"install", "restore"}
      /\ l \in Setups /\ l # Missing /\ f \in OwnFiles(l) /\ r.madeFiles \in Seq(OwnFiles(l))
      /\ r.todo \in Seq(OwnFiles(l)) /\ r.todo # <<>>
  <2>1. r \in Processes /\ ProcessOK(r) /\ r.at = "replace"
    BY DEF Replace, StateOK, ProcessesOK
  <2> QED BY <2>1, WroteOneOK DEF OnItsOwn
<1>2. /\ HandlerClaim(r, faults) /\ IsInjective(r.todo)
      /\ Gentle(faults) /\ r.doing = "install" =>
            \A g \in OwnFiles(l) :
                files[g] # Missing => g \in Range(r.madeFiles) /\ g \notin Range(r.todo)
      /\ Alone => Range(Directories(l)) \subseteq dirs
  BY <1>1 DEF Progress, RemovedClaim, RecordedClaim, ReadyClaim
<1>3. /\ Range(r.todo) = {f} \cup Range(Tail(r.todo)) /\ f \notin Range(Tail(r.todo))
      /\ IsInjective(Tail(r.todo)) /\ Range(Append(r.madeFiles, f)) = Range(r.madeFiles) \cup {f}
  BY <1>1, <1>2, RangeSplit, InjectiveTail, RangeAppend
<1>4. dirs' = dirs /\ \A g \in OwnFiles(l) \ {f} : files'[g] = files[g]
  <2>1. files' = [files EXCEPT ![f] = ContentOf(a, f)] /\ dirs' = dirs /\ DOMAIN files = Files
    BY DEF Replace, StateOK, DiskOK
  <2>2. OwnFiles(l) \subseteq Files BY <1>1, OwnPaths
  <2> HIDE DEF f, l
  <2> QED BY <1>1, <2>1, <2>2
<1>5. /\ WroteOne(r) \in Processes /\ ProcessOK(WroteOne(r)) /\ WroteOne(r).at = "write"
      /\ WroteOne(r).todo = Tail(r.todo) /\ WroteOne(r).doing = r.doing /\ WroteOne(r).on = l
      /\ WroteOne(r).madeFiles = r.madeFiles
  BY <1>1, WroteOneOK
<1>6. CASE Set(a, n) /\ UNCHANGED <<faults, report>>
  <2>1. /\ n.at = "write" /\ n.todo = Tail(r.todo) /\ n.doing = r.doing /\ n.on = l
        /\ n.madeFiles = Append(r.madeFiles, f)
    <3> HIDE DEF r, f
    <3> QED BY <1>5 DEF Processes
  <2>2. admin'[a] = n
    BY <1>6 DEF Set, StateOK, ProcessesOK
  <2> HIDE DEF n, r, f
  <2> QED BY <1>1, <1>2, <1>3, <1>4, <1>6, <2>1, <2>2
          DEF Progress, RemovedClaim, RecordedClaim, ReadyClaim, HandlerClaim, EndsWhole, r
<1>7. CASE Fault("interrupt") /\ Raise(a, WroteOne(r))
  <2>1. faults' # 0 /\ ~Gentle(faults') /\ ~Alone
    BY <1>2, <1>7, FaultCounts, BeyondPromise DEF Gentle
  <2> DEFINE done == WroteOne(r)
  <2>2. /\ done \in Processes /\ ProcessOK(done) /\ done.on = admin[a].on /\ done.on \in Setups
        /\ Raise(a, done) /\ done.doing = r.doing /\ done.doing \notin {"remove", "rollback"}
    BY <1>1, <1>5, <1>7
  <2> HIDE DEF done, r
  <2>3. /\ Progress(admin'[a], files', dirs', faults')
        /\ done.doing = "install" => admin'[a].on # Missing
        /\ done.doing = "restore" => report'[done.on] = "remove failed"
    BY <2>1, <2>2, RaiseProgress
  <2> QED BY <2>1, <2>2, <2>3, RaiseEnds
<1> QED BY <1>6, <1>7 DEF Replace, Goes, WroteOne

\* A reload ends an operation that is complete, or hands over.
LEMMA ReloadProgress ==
    ASSUME StateOK, NEW a \in Admins, Claim(admin[a], files, dirs),
           Progress(admin[a], files, dirs, faults), Reload(a) \/ UndoReload(a)
    PROVE  Progress(admin'[a], files', dirs', faults') /\ EndsWhole(a)
<1> DEFINE r == admin[a]
           l == r.on
<1>1. /\ r \in Processes /\ ProcessOK(r) /\ r.at \in {"reload", "undo_reload"}
      /\ r.doing \in (IF r.at = "reload" THEN {"install", "remove"} ELSE {"rollback", "restore"})
      /\ l \in Setups /\ l # Missing /\ files' = files /\ dirs' = dirs
  BY BootstrapAssumptions DEF Reload, UndoReload, StateOK, ProcessesOK, ProcessOK,
     InPhase, Processes, Doings
<1>2. /\ HandlerClaim(r, faults)
      /\ r.doing = "remove" => \A f \in OwnFiles(l) : files[f] = Missing
      /\ Gentle(faults) /\ r.doing = "install" =>
            \A f \in OwnFiles(l) : files[f] # Missing => f \in Range(r.madeFiles)
      /\ Gentle(faults) /\ r.doing = "rollback" => \A f \in OwnFiles(l) : files[f] = Missing
  BY <1>1 DEF Progress, RemovedClaim, RecordedClaim
<1>3. r.doing = "restore" => InstalledIn(l, files', dirs')
  BY <1>1, RangeEmpty DEF Claim, DirectoryClaim, WrittenClaim, SnapshotClaim, InstalledIn
<1>4. faults' = faults \/ \E kind : Fault(kind)
  BY DEF Reload, UndoReload
<1>5. CASE Raise(a, r) /\ (r.at = "reload" => Fault("error") \/ Fault("interrupt"))
  <2>1. (Gentle(faults') => Gentle(faults)) /\ (r.at = "reload" => faults' # 0)
    BY <1>4, <1>5, GentleBefore, FaultCounts
  <2>2. /\ Progress(admin'[a], files', dirs', faults')
        /\ r.doing \in {"install", "remove"} => admin'[a].on # Missing
        /\ r.doing = "rollback" => report'[l] = "install failed"
        /\ r.doing = "restore" => report'[l] = "remove failed"
    <3>1. /\ r.doing = "remove" => faults' # 0
          /\ r.doing = "install" =>
                /\ Alone => faults' # 0
                /\ Gentle(faults') =>
                      \A f \in OwnFiles(l) : files'[f] # Missing => f \in Range(r.madeFiles)
      BY <1>1, <1>2, <2>1
    <3>2. r \in Processes /\ ProcessOK(r) /\ r.on = admin[a].on /\ r.on \in Setups /\ Raise(a, r)
      BY <1>1, <1>5
    <3> HIDE DEF r
    <3> QED BY <3>1, <3>2, RaiseProgress
  <2> HIDE DEF r
  <2> QED BY <1>1, <1>2, <1>3, <1>5, <2>1, <2>2, RaiseEnds DEF r
<1>6. CASE Reload(a) /\ UNCHANGED faults
           /\ Finish(a, IF r.doing = "install" THEN "installed" ELSE "removed")
  <2>1. admin'[a] = Idle /\ report'[l] = IF r.doing = "install" THEN "installed" ELSE "removed"
    BY <1>1, <1>6 DEF Finish, Set, StateOK, ProcessesOK, DiskOK
  <2>2. Progress(Idle, files', dirs', faults')
    BY DEF Progress, RemovedClaim, RecordedClaim, ReadyClaim, HandlerClaim, Idle
  <2>3. r.doing = "install" => InstalledIn(l, files', dirs')
    <3>1. EndsWell(a) BY <1>6, ReloadStepClaim
    <3> QED BY <1>1, <2>1, <3>1 DEF EndsWell, Idle
  <2>4. r.doing \in {"install", "remove"}
    BY <1>1, <1>6 DEF Reload
  <2> QED BY <1>1, <1>2, <2>1, <2>2, <2>3, <2>4 DEF EndsWhole
<1> QED BY <1>1, <1>5, <1>6 DEF Reload, UndoReload

\* A file that is removed is no longer to be removed; none is missed.
LEMMA UnlinkProgress ==
    ASSUME StateOK, NEW a \in Admins, Progress(admin[a], files, dirs, faults),
           UndoFile(a) \/ Unlink(a)
    PROVE  Progress(admin'[a], files', dirs', faults') /\ EndsWhole(a)
<1> DEFINE r == admin[a]
           f == Head(r.todo)
           l == r.on
           n == [r EXCEPT !.todo = Tail(@)]
<1>1. /\ r \in Processes /\ ProcessOK(r) /\ r.todo # <<>>
      /\ \/ r.at = "undo_files" /\ r.doing = "rollback"
         \/ r.at = "unlink" /\ r.doing = "remove"
      /\ l \in Setups /\ l # Missing /\ r.todo \in Seq(OwnFiles(l))
  BY BootstrapAssumptions DEF UndoFile, Unlink, StateOK, ProcessesOK, ProcessOK, OnItsOwn,
     InPhase, Processes, Doings
<1>2. /\ HandlerClaim(r, faults)
      /\ r.doing = "remove" => /\ IsInjective(r.todo)
                               /\ \A g \in OwnFiles(l) : files[g] # Missing <=> g \in Range(r.todo)
      /\ Gentle(faults) /\ r.doing = "rollback" =>
            \A g \in OwnFiles(l) : files[g] # Missing => g \in Range(r.todo)
  BY <1>1 DEF Progress, RemovedClaim, RecordedClaim
<1>3. /\ f \in OwnFiles(l) /\ Range(r.todo) = {f} \cup Range(Tail(r.todo))
      /\ r.doing = "remove" => IsInjective(Tail(r.todo)) /\ f \notin Range(Tail(r.todo))
  BY <1>1, <1>2, HeadTail, RangeSplit, InjectiveTail
<1>4. files'[f] = Missing /\ dirs' = dirs /\ \A g \in OwnFiles(l) \ {f} : files'[g] = files[g]
  <2>1. files' = [files EXCEPT ![f] = Missing] /\ dirs' = dirs /\ DOMAIN files = Files
    BY DEF UndoFile, Unlink, StateOK, DiskOK
  <2>2. OwnFiles(l) \subseteq Files BY <1>1, OwnPaths
  <2> HIDE DEF f, l
  <2> QED BY <1>3, <2>1, <2>2
<1>5. CASE Set(a, n) /\ UNCHANGED <<faults, report>>
  <2>1. n.at = r.at /\ n.todo = Tail(r.todo) /\ n.doing = r.doing /\ n.on = l
    BY <1>1 DEF Processes
  <2>2. admin'[a] = n
    BY <1>5 DEF Set, StateOK, ProcessesOK
  <2> HIDE DEF n, r, f
  <2> QED BY <1>1, <1>2, <1>3, <1>4, <1>5, <2>1, <2>2
          DEF Progress, RemovedClaim, RecordedClaim, ReadyClaim, HandlerClaim, EndsWhole, r
<1>6. CASE Fault("interrupt") /\ Raise(a, r)
  <2>1. faults' # 0 /\ ~Gentle(faults') /\ ~Alone
    BY <1>2, <1>6, FaultCounts, BeyondPromise DEF Gentle
  <2>2. /\ r \in Processes /\ ProcessOK(r) /\ r.on = admin[a].on /\ r.on \in Setups
        /\ Raise(a, r) /\ r.doing \in {"remove", "rollback"}
    BY <1>1, <1>6
  <2> HIDE DEF r
  <2>3. /\ Progress(admin'[a], files', dirs', faults')
        /\ r.doing = "remove" => admin'[a].on # Missing
        /\ r.doing = "rollback" => report'[r.on] = "install failed"
    BY <2>1, <2>2, RaiseProgress
  <2> QED BY <2>1, <2>2, <2>3, RaiseEnds
<1>7. ASSUME Unlink(a) PROVE Present(f)
  BY <1>1, <1>2, <1>3, <1>7 DEF Unlink, Present
<1> QED BY <1>5, <1>6, <1>7 DEF UndoFile, Unlink, Goes

\* While directories are removed no file is there.
LEMMA RmdirProgress ==
    ASSUME StateOK, NEW a \in Admins, Progress(admin[a], files, dirs, faults),
           FilesGone(a) \/ Rmdir(a) \/ DirsGone(a)
    PROVE  Progress(admin'[a], files', dirs', faults') /\ EndsWhole(a)
<1> DEFINE r == admin[a]
           l == r.on
<1>1. /\ r \in Processes /\ ProcessOK(r) /\ r.doing \in {"rollback", "remove"}
      /\ r.at \in {"undo_files", "unlink", "rmdir"}
      /\ r.at = "undo_files" => r.doing = "rollback"
      /\ r.at = "unlink" => r.doing = "remove"
      /\ l \in Setups /\ l # Missing /\ files' = files
      /\ r.at # "rmdir" => r.todo = <<>>
  BY BootstrapAssumptions DEF FilesGone, Rmdir, DirsGone, StateOK, ProcessesOK, ProcessOK,
     InPhase, Processes, Doings
<1>2. faults' = faults \/ Fault("error")
  BY DEF FilesGone, Rmdir, DirsGone, Goes
<1>3. /\ HandlerClaim(r, faults)
      /\ r.doing = "remove" => \A g \in OwnFiles(l) : files[g] = Missing
      /\ Gentle(faults') /\ r.doing = "rollback" => \A g \in OwnFiles(l) : files[g] = Missing
  <2>1. Gentle(faults') => Gentle(faults) BY <1>2, GentleBefore
  <2> QED BY <1>1, <2>1, RangeEmpty DEF Progress, RemovedClaim, RecordedClaim
<1>4. faults = 0 \/ faults' # 0
  BY <1>2, FaultCounts
<1>5. ASSUME NEW n, admin'[a] = n, n.at \in {"rmdir", "reload", "undo_reload"},
             n.doing = r.doing, n.on = l
      PROVE  Progress(admin'[a], files', dirs', faults') /\ EndsWhole(a)
  <2> HIDE DEF r
  <2> QED BY <1>1, <1>3, <1>4, <1>5
          DEF Progress, RemovedClaim, RecordedClaim, ReadyClaim, HandlerClaim, EndsWhole, r
<1>6. CASE FilesGone(a)
  <2> DEFINE n == [r EXCEPT !.at = "rmdir",
                            !.todo = IF r.doing = "rollback" THEN Reverse(r.madeDirs)
                                     ELSE Directories(r.on)]
  <2>1. admin'[a] = n BY <1>6 DEF FilesGone, Goes, Set, StateOK, ProcessesOK
  <2>2. n.at = "rmdir" /\ n.doing = r.doing /\ n.on = l BY <1>1 DEF Processes
  <2> HIDE DEF n, r
  <2> QED BY <1>5, <2>1, <2>2
<1>7. CASE Rmdir(a)
  <2> DEFINE n == [r EXCEPT !.todo = Tail(@)]
  <2>1. admin'[a] = n /\ r.at = "rmdir" BY <1>7 DEF Rmdir, Set, StateOK, ProcessesOK
  <2>2. n.at = "rmdir" /\ n.doing = r.doing /\ n.on = l BY <1>1, <2>1 DEF Processes
  <2> HIDE DEF n, r
  <2> QED BY <1>5, <2>1, <2>2
<1>8. ASSUME NEW at \in {"reload", "undo_reload"}, Set(a, [r EXCEPT !.at = at])
      PROVE  Progress(admin'[a], files', dirs', faults') /\ EndsWhole(a)
  <2> DEFINE n == [r EXCEPT !.at = at]
  <2>1. admin'[a] = n BY <1>8 DEF Set, StateOK, ProcessesOK
  <2>2. n.at = at /\ n.doing = r.doing /\ n.on = l BY <1>1 DEF Processes
  <2> HIDE DEF n, r
  <2> QED BY <1>5, <1>8, <2>1, <2>2
<1>9. CASE Raise(a, r) /\ r.doing = "rollback"
  <2>1. /\ r \in Processes /\ ProcessOK(r) /\ r.on = admin[a].on /\ r.on \in Setups /\ Raise(a, r)
        /\ r.doing = "rollback"
        /\ Gentle(faults') => \A g \in OwnFiles(r.on) : files'[g] = Missing
    BY <1>1, <1>3, <1>9
  <2> HIDE DEF r
  <2>2. Progress(admin'[a], files', dirs', faults') /\ report'[r.on] = "install failed"
    BY <2>1, RaiseProgress
  <2> QED BY <2>1, <2>2, RaiseEnds
<1> QED BY <1>1, <1>6, <1>7, <1>8, <1>9 DEF DirsGone, Goes

\* A step that fails hands over what the handler needs.
LEMMA FailProgress ==
    ASSUME StateOK, NEW a \in Admins, Progress(admin[a], files, dirs, faults),
           StepFails(a) \/ Crash(a)
    PROVE  Progress(admin'[a], files', dirs', faults') /\ EndsWhole(a)
<1> DEFINE r == admin[a]
           l == r.on
<1>1. /\ r \in Processes /\ ProcessOK(r) /\ l \in Setups /\ l # Missing
      /\ files' = files /\ dirs' = dirs
  BY BootstrapAssumptions DEF StepFails, Crash, StateOK, ProcessesOK, ProcessOK,
     InPhase, Processes, Doings
<1>2. HandlerClaim(r, faults) /\ (Gentle(faults) => RecordedClaim(r, files))
  BY DEF Progress
<1>3. CASE StepFails(a)
  <2>1. /\ faults' # 0 /\ (Gentle(faults') => Gentle(faults))
        /\ r.doing \in {"rollback", "restore"} => ~Gentle(faults')
    BY <1>2, <1>3, FaultCounts, GentleBefore, BeyondPromise DEF StepFails
  <2>2. Gentle(faults') /\ r.doing = "install" =>
           \A f \in OwnFiles(l) : files'[f] # Missing => f \in Range(r.madeFiles)
    BY <1>1, <1>2, <2>1 DEF RecordedClaim, ProcessOK, InPhase
  <2>3. r \in Processes /\ ProcessOK(r) /\ r.on = admin[a].on /\ r.on \in Setups /\ Raise(a, r)
    BY <1>1, <1>3 DEF StepFails
  <2> HIDE DEF r
  <2>4. /\ Progress(admin'[a], files', dirs', faults')
        /\ r.doing \in {"install", "remove"} => admin'[a].on # Missing
        /\ r.doing = "rollback" => report'[r.on] = "install failed"
        /\ r.doing = "restore" => report'[r.on] = "remove failed"
    BY <2>1, <2>2, <2>3, RaiseProgress
  <2> QED BY <2>1, <2>3, <2>4, RaiseEnds
<1>4. CASE Crash(a)
  <2> DEFINE n == [Idle EXCEPT !.at = "crashed", !.temp = r.temp]
  <2>1. admin'[a] = n
    BY <1>4 DEF Crash, Set, StateOK, ProcessesOK
  <2>2. n.doing = "none" /\ n.at = "crashed"
    BY DEF Idle
  <2>3. ~Alone /\ ~Gentle(faults')
    BY <1>2, <1>4, FaultCounts, BeyondPromise DEF Crash, Gentle
  <2> HIDE DEF n
  <2> QED BY <2>1, <2>2, <2>3
          DEF Progress, RemovedClaim, RecordedClaim, ReadyClaim, HandlerClaim, EndsWhole
<1> QED BY <1>3, <1>4

(***************************************************************************)
(* All or nothing                                                           *)
(***************************************************************************)

Progresses == \A a \in Admins : Progress(admin[a], files, dirs, faults)

\* An installation nobody works on is whole or absent, as was reported of it.
SettledWhole ==
    Gentle(faults) =>
        \A l \in Setups : ~Busy(l) =>
            IF report[l] \in {"installed", "remove failed"} THEN IsInstalled(l) ELSE ~AnyTarget(l)

TxnInv == SiblingInv /\ Progresses /\ SettledWhole

\* Faults are counted one by one.
LEMMA StepFaults ==
    ASSUME NEW a \in Admins, Step(a)
    PROVE  faults' = faults \/ \E kind : Fault(kind)
BY DEF Step, StartInstall, StartRemove, Starts, Scan, Mkdir, MkdirRaces, WriteTemp, WriteRefused,
   Replace, Written, Reload, UndoReload, UndoFile, Unlink, FilesGone, Rmdir, DirsGone,
   StepFails, Crash, Goes

\* Every step of a process leaves the rest to do, and ends whole or absent.
LEMMA StepProgress ==
    ASSUME StateOK, Claims, Progresses, NEW a \in Admins, Step(a)
    PROVE  Progress(admin'[a], files', dirs', faults') /\ EndsWhole(a)
<1>1. Claim(admin[a], files, dirs) /\ Progress(admin[a], files, dirs, faults)
  BY DEF Claims, Progresses
<1> QED BY <1>1, StartProgress, ScanProgress, MkdirProgress, WriteProgress, ReplaceProgress,
           ReloadProgress, UnlinkProgress, RmdirProgress, FailProgress DEF Step

\* A step of one process takes nothing from what another has to do.
LEMMA OthersProgress ==
    ASSUME StateOK, Separate, Apart, Progresses, NEW a \in Admins, Step(a),
           NEW l \in Setups, Within(a, l), admin[a].on # Missing \/ ~Busy(l),
           NEW b \in Admins \ {a}
    PROVE  Progress(admin'[b], files', dirs', faults')
<1> DEFINE r == admin[b]
<1>1. /\ r \in Processes /\ ProcessOK(r) /\ Progress(r, files, dirs, faults) /\ admin'[b] = r
  BY DEF StateOK, ProcessesOK, Progresses, Within
<1>2. ~Alone
  BY DEF Alone
<1>3. (Gentle(faults') => Gentle(faults)) /\ (faults # 0 => faults' # 0)
  BY StepFaults, GentleBefore, FaultCounts
<1>4. CASE r.on = Missing
  <2>1. r.doing = "none" /\ r.at \in {"idle", "crashed"}
    BY <1>1, <1>4 DEF ProcessOK, InPhase
  <2> HIDE DEF r
  <2> QED BY <1>1, <1>2, <2>1 DEF Progress, RemovedClaim, RecordedClaim, ReadyClaim, HandlerClaim
<1>5. CASE r.on # Missing
  <2>1. r.on \in Setups \ {l}
    BY <1>1, <1>5 DEF Processes, Apart, Within, Busy
  <2>2. \A f \in OwnFiles(r.on) : files'[f] = files[f]
    BY <2>1, SiblingKept
  <2> HIDE DEF r
  <2> QED BY <1>1, <1>2, <1>3, <2>2
          DEF Progress, RemovedClaim, RecordedClaim, ReadyClaim, HandlerClaim
<1> QED BY <1>4, <1>5

\* Every step keeps the invariant.
LEMMA TxnStep ==
    ASSUME Separate, TakeTurns, StateOK, TxnInv, NEW a \in Admins, Step(a)
    PROVE  TxnInv'
<1>1. PICK l \in Setups :
          /\ Within(a, l)
          /\ admin[a].on = Missing => (TakeTurns => ~Busy(l)) /\ admin'[a].on = l
  BY StepWithin
<1>2. SiblingInv /\ Apart /\ Claims /\ Progresses /\ SettledWhole
  BY DEF TxnInv, SiblingInv
<1>3. Progress(admin'[a], files', dirs', faults') /\ EndsWhole(a)
  BY <1>2, StepProgress
<1>4. Progresses'
  <2>1. ASSUME NEW b \in Admins \ {a} PROVE Progress(admin'[b], files', dirs', faults')
    BY <1>1, <1>2, <2>1, OthersProgress
  <2> QED BY <1>3, <2>1 DEF Progresses
<1>5. ASSUME Gentle(faults'), NEW m \in Setups, ~Busy(m)'
      PROVE  IF report'[m] \in {"installed", "remove failed"} THEN IsInstalled(m)' ELSE ~AnyTarget(m)'
  <2>1. CASE m # l
    <3>1. Gentle(faults) BY <1>5, StepFaults, GentleBefore
    <3> QED BY <1>1, <1>2, <1>5, <2>1, <3>1, SiblingKept DEF SettledWhole
  <2>2. CASE m = l
    <3>1. admin'[a].on = Missing /\ admin[a].on = l
      BY <1>1, <1>5, <2>2 DEF Within, Busy
    <3>2. AnyTarget(l)' <=> \E f \in OwnFiles(l) : files'[f] # Missing
      BY DEF AnyTarget, Present, OwnFiles
    <3> QED BY <1>3, <1>5, <2>2, <3>1, <3>2, InstalledIsRight DEF EndsWhole
  <2> QED BY <2>1, <2>2
<1>6. SiblingInv'
  BY <1>2, SiblingStep
<1> QED BY <1>4, <1>5, <1>6 DEF TxnInv, SettledWhole, Gentle

\* At the beginning every installation is whole or absent.
LEMMA TxnInit ==
    ASSUME Separate PROVE Init => TxnInv
<1> SUFFICES ASSUME Init PROVE TxnInv
  OBVIOUS
<1>1. PICK there \in SUBSET Setups :
        /\ files = [f \in Files |->
                        IF \A l \in there : f \notin Range(Targets(l)) THEN Missing
                        ELSE IF f[1] = "credential" THEN 0
                        ELSE CHOOSE l \in there : f \in Range(Targets(l))]
        /\ report = [l \in Setups |-> IF l \in there THEN "installed" ELSE "none"]
  BY DEF Init
<1>2. /\ \A a \in Admins : admin[a].doing = "none" /\ admin[a].at = "idle" /\ admin[a].on = Missing
      /\ \A l \in Setups : ~Busy(l)
  BY BootstrapAssumptions DEF Init, Idle, Busy
<1>3. SiblingInv
  BY SiblingInit
<1>4. ASSUME NEW l \in Setups \ there PROVE ~AnyTarget(l)
  <2>1. ASSUME NEW f \in OwnFiles(l) PROVE files[f] = Missing
    <3>1. f \in Files /\ \A m \in there : f \notin OwnFiles(m)
      BY OwnPaths, LayoutsApart
    <3> QED BY <1>1, <3>1 DEF OwnFiles
  <2> QED BY <2>1 DEF AnyTarget, Present, OwnFiles
<1>5. SettledWhole
  BY <1>1, <1>2, <1>3, <1>4 DEF SettledWhole, SiblingInv, SiblingsUntouched
<1>6. Progresses
  BY <1>2 DEF Progresses, Progress, RemovedClaim, RecordedClaim, ReadyClaim, HandlerClaim
<1> QED BY <1>3, <1>5, <1>6 DEF TxnInv

\* The inductive invariant behind all-or-nothing: every process still has to do
\* what its installation lacks, and one nobody works on is whole or absent.
THEOREM TxnInvariant ==
    ASSUME Separate, TakeTurns
    PROVE  Spec => []TxnInv
<1>1. StateOK /\ TxnInv /\ [Next]_vars => TxnInv'
  <2> SUFFICES ASSUME StateOK, TxnInv, [Next]_vars PROVE TxnInv'
    OBVIOUS
  <2>1. CASE UNCHANGED vars
    BY <2>1 DEF vars, TxnInv, SiblingInv, Apart, Claims, SiblingsUntouched, Busy, IsInstalled,
       Present, Progresses, SettledWhole, AnyTarget
  <2> QED BY <2>1, TxnStep DEF Next
<1> QED BY <1>1, TxnInit, TypesHold, PTL DEF Spec

\* As long as no step fails by itself each operation is all or nothing, however
\* many administrators get in each other's way on shared directories.
THEOREM AllOrNothing ==
    ASSUME Separate, TakeTurns
    PROVE  Spec => []WholeWithoutFaults
<1>1. TxnInv => WholeWithoutFaults
  BY DEF TxnInv, SettledWhole, Gentle, WholeWithoutFaults
<1> QED BY <1>1, TxnInvariant, PTL

(***************************************************************************)
(* How operations go on and end                                             *)
(***************************************************************************)

\* n is what a process at r goes on with: the same operation, or its handler.
Continues(r, n) ==
    /\ n.on = r.on /\ n.before = r.before
    /\ \/ n.doing = r.doing
       \/ r.doing = "install" /\ n.doing = "rollback"
       \/ r.doing = "remove" /\ n.doing = "restore"
    /\ r.reloading => n.reloading
    /\ n.doing = "install" /\ n.at = "reload" => n.reloading

\* What each kind of work reports at its end.
Says(doing, says) ==
    \/ doing = "install" /\ says = "installed"
    \/ doing = "remove" /\ says = "removed"
    \/ doing = "rollback" /\ says = "install failed"
    \/ doing = "restore" /\ says = "remove failed"

\* The step that ends an operation.
LastStep(a) ==
    \/ Reload(a) \/ UndoReload(a)
    \/ DirsGone(a) /\ admin[a].doing = "rollback" /\ ~admin[a].reloading
    \/ admin[a].doing \in {"rollback", "restore"} /\ (InTheWay(a) \/ \E kind : Fault(kind))

Ends(a) ==
    /\ admin'[a] = Idle /\ LastStep(a)
    /\ \E says : /\ Says(admin[a].doing, says)
                 /\ report' = [report EXCEPT ![admin[a].on] = says]

Outcome(a) ==
    \/ /\ Continues(admin[a], admin'[a]) /\ report' = report
       /\ admin'[a].at = "replace" => WriteTemp(a)
    \/ Ends(a)

\* An exception in an operation goes on in its handler, one in a handler ends it.
LEMMA RaiseOutcome ==
    ASSUME StateOK, NEW a \in Admins, NEW r \in Processes, ProcessOK(r), r.on = admin[a].on,
           r.on # Missing, r.doing = admin[a].doing, r.before = admin[a].before,
           r.reloading = admin[a].reloading, Raise(a, r),
           r.doing \in {"rollback", "restore"} => LastStep(a)
    PROVE  Outcome(a)
<1> DEFINE back == [r EXCEPT !.at = "undo_files", !.doing = "rollback",
                             !.todo = Reverse(r.madeFiles), !.temp = Missing]
           again == [r EXCEPT !.at = "scan", !.doing = "restore", !.todo = Directories(r.on),
                              !.madeFiles = <<>>, !.madeDirs = <<>>]
<1>1. /\ back.on = r.on /\ back.before = r.before /\ back.doing = "rollback"
      /\ back.reloading = r.reloading /\ back.at = "undo_files"
  BY DEF Processes
<1>2. /\ again.on = r.on /\ again.before = r.before /\ again.doing = "restore"
      /\ again.reloading = r.reloading /\ again.at = "scan"
  BY DEF Processes
<1>3. CASE r.doing = "install" /\ report' = report /\ admin'[a] = back
  <2> HIDE DEF back
  <2> QED BY <1>1, <1>3 DEF Outcome, Continues
<1>4. CASE r.doing = "remove" /\ report' = report /\ admin'[a] = again
  <2> HIDE DEF again
  <2> QED BY <1>2, <1>4 DEF Outcome, Continues
<1>5. CASE /\ r.doing \in {"rollback", "restore"} /\ admin'[a] = Idle
           /\ report' = [report EXCEPT ![r.on] = IF r.doing = "rollback" THEN "install failed"
                                                 ELSE "remove failed"]
  BY <1>5 DEF Outcome, Ends, Says
<1> QED BY <1>3, <1>4, <1>5, RaiseOK

\* A process that works on an installation and is not killed goes on or ends.
LEMMA StepOutcome ==
    ASSUME StateOK, NEW a \in Admins, admin[a].on # Missing, Step(a)
    PROVE  Outcome(a) \/ Crash(a)
<1> DEFINE r == admin[a]
           l == r.on
<1>1. /\ r \in Processes /\ ProcessOK(r) /\ r.at \notin {"idle", "crashed"}
      /\ \A m \in Setups : ~StartInstall(a, m) /\ ~StartRemove(a, m)
  BY DEF StateOK, ProcessesOK, ProcessOK, InPhase, Processes, Doings, StartInstall, StartRemove, Starts
<1>2. ASSUME Raise(a, r), r.doing \in {"rollback", "restore"} => LastStep(a) PROVE Outcome(a)
  <2>1. /\ r \in Processes /\ ProcessOK(r) /\ r.on = admin[a].on /\ r.on # Missing
        /\ r.doing = admin[a].doing /\ r.before = admin[a].before
        /\ r.reloading = admin[a].reloading /\ Raise(a, r)
        /\ r.doing \in {"rollback", "restore"} => LastStep(a)
    BY <1>1, <1>2
  <2> HIDE DEF r
  <2> QED BY <2>1, RaiseOutcome
<1>3. ASSUME NEW n, Set(a, n), report' = report, n.on = l, n.before = r.before,
             n.doing = r.doing, r.reloading => n.reloading,
             n.doing = "install" /\ n.at = "reload" => n.reloading,
             n.at = "replace" => WriteTemp(a)
      PROVE  Outcome(a)
  <2>1. admin'[a] = n BY <1>3 DEF Set, StateOK, ProcessesOK
  <2> QED BY <1>3, <2>1 DEF Outcome, Continues
<1>4. CASE Scan(a)
  <2> DEFINE missing == MissingUpTo(Head(r.todo))
             n == IF r.todo = <<>> THEN [r EXCEPT !.at = "write", !.todo = Targets(l)]
                  ELSE [r EXCEPT !.at = IF missing = <<>> THEN "scan" ELSE "mkdir",
                                 !.todo = Tail(r.todo), !.chain = missing]
  <2>1. Set(a, n) /\ report' = report BY <1>4 DEF Scan, Goes
  <2>2. /\ n.on = l /\ n.before = r.before /\ n.doing = r.doing /\ n.reloading = r.reloading
        /\ n.at \notin {"reload", "replace"}
    <3> HIDE DEF missing
    <3> QED BY <1>1 DEF Processes
  <2> HIDE DEF n, r
  <2> QED BY <1>3, <2>1, <2>2
<1>5. CASE Mkdir(a)
  <2> DEFINE d == Head(r.chain)
             n == [MadeOne(r) EXCEPT !.madeDirs = Append(@, d)]
             done == MadeOne(r)
  <2>1. /\ done \in Processes /\ ProcessOK(done) /\ done.on = l /\ done.doing = r.doing
        /\ done.before = r.before /\ done.reloading = r.reloading
        /\ done.at \notin {"reload", "replace"}
    BY <1>1, <1>5, MadeOneOK DEF Mkdir
  <2>2. CASE Set(a, n) /\ report' = report
    <3>1. /\ n.on = l /\ n.before = r.before /\ n.doing = r.doing /\ n.reloading = r.reloading
          /\ n.at \notin {"reload", "replace"}
      <4> HIDE DEF r, d
      <4> QED BY <2>1 DEF Processes
    <3> HIDE DEF n, r
    <3> QED BY <1>3, <2>2, <3>1
  <2>3. CASE Raise(a, done) /\ \E kind : Fault(kind)
    <3>1. /\ done.on = admin[a].on /\ done.on # Missing /\ done.doing = admin[a].doing
          /\ done.before = admin[a].before /\ done.reloading = admin[a].reloading
          /\ done.doing \in {"rollback", "restore"} => LastStep(a)
      BY <2>1, <2>3 DEF LastStep
    <3> HIDE DEF done, r
    <3> QED BY <2>1, <2>3, <3>1, RaiseOutcome
  <2> QED BY <1>5, <2>2, <2>3 DEF Mkdir, Goes, MadeOne
<1>6. CASE Replace(a)
  <2> DEFINE f == Head(r.todo)
             n == [WroteOne(r) EXCEPT !.madeFiles = Append(@, f)]
             done == WroteOne(r)
  <2>1. /\ done \in Processes /\ ProcessOK(done) /\ done.on = l /\ done.doing = r.doing
        /\ done.before = r.before /\ done.reloading = r.reloading
        /\ done.at \notin {"reload", "replace"}
    BY <1>1, <1>6, WroteOneOK DEF Replace
  <2>2. CASE Set(a, n) /\ report' = report
    <3>1. /\ n.on = l /\ n.before = r.before /\ n.doing = r.doing /\ n.reloading = r.reloading
          /\ n.at \notin {"reload", "replace"}
      <4> HIDE DEF r, f
      <4> QED BY <2>1 DEF Processes
    <3> HIDE DEF n, r
    <3> QED BY <1>3, <2>2, <3>1
  <2>3. CASE Raise(a, done) /\ \E kind : Fault(kind)
    <3>1. /\ done.on = admin[a].on /\ done.on # Missing /\ done.doing = admin[a].doing
          /\ done.before = admin[a].before /\ done.reloading = admin[a].reloading
          /\ done.doing \in {"rollback", "restore"} => LastStep(a)
      BY <2>1, <2>3 DEF LastStep
    <3> HIDE DEF done, r
    <3> QED BY <2>1, <2>3, <3>1, RaiseOutcome
  <2> QED BY <1>6, <2>2, <2>3 DEF Replace, Goes, WroteOne
<1>7. CASE WriteTemp(a)
  <2> DEFINE n == [r EXCEPT !.at = "replace", !.temp = ParentOf(Head(r.todo))]
  <2>1. Set(a, n) /\ report' = report BY <1>7 DEF WriteTemp, Goes
  <2>2. /\ n.on = l /\ n.before = r.before /\ n.doing = r.doing /\ n.reloading = r.reloading
        /\ n.at # "reload"
    BY <1>1 DEF Processes
  <2> HIDE DEF n, r
  <2> QED BY <1>3, <1>7, <2>1, <2>2
<1>8. CASE Written(a)
  <2> DEFINE n == [r EXCEPT !.at = IF r.doing = "install" THEN "reload" ELSE "undo_reload",
                            !.reloading = TRUE]
  <2>1. Set(a, n) /\ report' = report BY <1>8 DEF Written, Goes
  <2>2. /\ n.on = l /\ n.before = r.before /\ n.doing = r.doing /\ n.reloading = TRUE
        /\ n.at # "replace"
    BY <1>1 DEF Processes
  <2> HIDE DEF n, r
  <2> QED BY <1>3, <2>1, <2>2
<1>9. CASE UndoFile(a) \/ Unlink(a) \/ Rmdir(a) \/ WriteRefused(a)
  <2> DEFINE n == [r EXCEPT !.todo = Tail(@)]
  <2>1. \/ Set(a, n) /\ report' = report
        \/ Raise(a, r) /\ (r.doing \in {"rollback", "restore"} => LastStep(a))
    <3>1. CASE Unlink(a)
      <4>1. r.doing = "remove" BY <1>1, <3>1 DEF Unlink, ProcessOK, InPhase, Processes, Doings
      <4> QED BY <3>1, <4>1 DEF Unlink, Goes
    <3>2. CASE UndoFile(a) \/ Rmdir(a)
      BY <3>2 DEF UndoFile, Rmdir, Goes, LastStep
    <3>3. CASE WriteRefused(a)
      BY <3>3 DEF WriteRefused, LastStep, InTheWay
    <3> QED BY <1>9, <3>1, <3>2, <3>3
  <2>2. /\ n.on = l /\ n.before = r.before /\ n.doing = r.doing /\ n.reloading = r.reloading
        /\ n.at = r.at /\ r.at \notin {"reload", "replace"}
    BY <1>1, <1>9 DEF Processes, UndoFile, Unlink, Rmdir, WriteRefused
  <2> HIDE DEF n, r
  <2> QED BY <1>2, <1>3, <2>1, <2>2
<1>10. CASE FilesGone(a)
  <2> DEFINE n == [r EXCEPT !.at = "rmdir",
                            !.todo = IF r.doing = "rollback" THEN Reverse(r.madeDirs)
                                     ELSE Directories(r.on)]
  <2>1. Set(a, n) /\ report' = report BY <1>10 DEF FilesGone, Goes
  <2>2. /\ n.on = l /\ n.before = r.before /\ n.doing = r.doing /\ n.reloading = r.reloading
        /\ n.at \notin {"reload", "replace"}
    BY <1>1 DEF Processes
  <2> HIDE DEF n, r
  <2> QED BY <1>3, <2>1, <2>2
<1>11. CASE DirsGone(a)
  <2>1. \/ Raise(a, r) /\ (r.doing \in {"rollback", "restore"} => LastStep(a))
        \/ \E at \in {"reload", "undo_reload"} : Set(a, [r EXCEPT !.at = at]) /\ report' = report
    <3>1. r.doing \in {"remove", "rollback"}
      BY <1>1, <1>11 DEF DirsGone, ProcessOK, InPhase, Processes, Doings
    <3> QED BY <1>11, <3>1 DEF DirsGone, Goes, LastStep
  <2>2. r.doing # "install"
    BY <1>1, <1>11 DEF DirsGone, ProcessOK, InPhase
  <2>3. ASSUME NEW at \in {"reload", "undo_reload"}, Set(a, [r EXCEPT !.at = at]), report' = report PROVE Outcome(a)
    <3> DEFINE n == [r EXCEPT !.at = at]
    <3>1. /\ n.on = l /\ n.before = r.before /\ n.doing = r.doing /\ n.reloading = r.reloading
          /\ n.at = at
      BY <1>1 DEF Processes
    <3>2. Set(a, n) /\ report' = report BY <2>3
    <3> HIDE DEF n, r
    <3> QED BY <1>3, <2>2, <3>1, <3>2
  <2> QED BY <1>2, <2>1, <2>3
<1>12. CASE Reload(a)
  <2>1. CASE Finish(a, IF r.doing = "install" THEN "installed" ELSE "removed")
    <3>1. r.doing \in {"install", "remove"}
      BY <1>1, <1>12 DEF Reload, ProcessOK, InPhase, Processes, Doings
    <3>2. admin'[a] = Idle BY <2>1 DEF Finish, Set, StateOK, ProcessesOK
    <3> QED BY <1>12, <2>1, <3>1, <3>2 DEF Finish, Outcome, Ends, Says, LastStep
  <2> QED BY <1>2, <1>12, <2>1 DEF Reload, LastStep
<1>13. CASE MkdirRaces(a) \/ UndoReload(a) \/ StepFails(a)
  <2>1. r.doing \in {"rollback", "restore"} => LastStep(a)
    BY <1>13 DEF StepFails, LastStep, InTheWay
  <2> QED BY <1>2, <1>13, <2>1 DEF MkdirRaces, UndoReload, StepFails
<1> QED BY <1>1, <1>4, <1>5, <1>6, <1>7, <1>8, <1>9, <1>10, <1>11, <1>12, <1>13 DEF Step

(***************************************************************************)
(* Transactions                                                             *)
(***************************************************************************)

\* Either every step works, or there is one administrator and one step fails.
Calm == MaxFaults = 0 \/ Alone

\* A process remembers the state its operation began in.
BeforeInv ==
    \A a \in Admins :
        /\ admin[a].doing \in {"install", "rollback"} => admin[a].before = "absent"
        /\ admin[a].doing \in {"remove", "restore"} => admin[a].before = "installed"

\* A process that starts an operation.
LEMMA StartOutcome ==
    ASSUME StateOK, NEW a \in Admins, NEW l \in Setups, StartInstall(a, l) \/ StartRemove(a, l)
    PROVE  /\ ~admin'[a].reloading /\ admin'[a].on = l /\ admin[a].on = Missing
           /\ admin[a].at = "idle" /\ admin'[a].at \in {"scan", "unlink"}
           /\ UNCHANGED <<files, dirs, loaded, report>>
           /\ StartInstall(a, l) => admin'[a].doing = "install" /\ admin'[a].before = "absent"
           /\ StartRemove(a, l) => admin'[a].doing = "remove" /\ admin'[a].before = "installed"
<1>1. /\ Idle \in Processes /\ Idle.reloading = FALSE /\ UNCHANGED <<files, dirs, loaded, report>>
      /\ admin[a].at = "idle" /\ admin[a] \in Processes /\ ProcessOK(admin[a])
  BY IdleOK DEF Idle, StartInstall, StartRemove, Starts, StateOK, ProcessesOK
<1>2. admin[a].on = Missing
  BY <1>1 DEF ProcessOK, InPhase, Processes, Doings
<1>3. CASE StartInstall(a, l)
  <2> DEFINE n == [Idle EXCEPT !.at = "scan", !.doing = "install", !.on = l,
                               !.todo = Directories(l), !.secret = ops', !.before = "absent"]
  <2>1. admin'[a] = n
    BY <1>3 DEF StartInstall, Set, StateOK, ProcessesOK
  <2>2. /\ n.at = "scan" /\ n.doing = "install" /\ n.on = l /\ n.before = "absent"
        /\ n.reloading = FALSE
    BY <1>1 DEF Processes
  <2>3. ~StartRemove(a, l)
    BY <1>3, InstalledIsRight, TargetsAre, BootstrapAssumptions
       DEF StartInstall, StartRemove, AnyTarget, Present, IsInstalled
  <2> HIDE DEF n
  <2> QED BY <1>1, <1>2, <2>1, <2>2, <2>3
<1>4. CASE StartRemove(a, l)
  <2> DEFINE n == [Idle EXCEPT !.at = "unlink", !.doing = "remove", !.on = l,
                               !.todo = Targets(l), !.before = "installed",
                               !.snapshot = [f \in Range(Targets(l)) |-> files[f]]]
  <2>1. admin'[a] = n
    BY <1>4 DEF StartRemove, Set, StateOK, ProcessesOK
  <2>2. /\ n.at = "unlink" /\ n.doing = "remove" /\ n.on = l /\ n.before = "installed"
        /\ n.reloading = FALSE
    BY <1>1 DEF Processes
  <2>3. ~StartInstall(a, l)
    BY <1>4, InstalledIsRight, TargetsAre, BootstrapAssumptions
       DEF StartInstall, StartRemove, AnyTarget, Present, IsInstalled
  <2> HIDE DEF n
  <2> QED BY <1>1, <1>2, <2>1, <2>2, <2>3
<1> QED BY <1>3, <1>4

\* A process at rest starts an operation or does nothing.
LEMMA AtRest ==
    ASSUME StateOK, NEW a \in Admins, admin[a].on = Missing, Step(a)
    PROVE  \E l \in Setups : StartInstall(a, l) \/ StartRemove(a, l)
<1>1. admin[a].at \in {"idle", "crashed"}
  BY DEF StateOK, ProcessesOK, ProcessOK, InPhase
<1> QED BY <1>1 DEF Step, Scan, Mkdir, MkdirRaces, WriteTemp, WriteRefused, Replace, Written,
   Reload, UndoReload, UndoFile, Unlink, FilesGone, Rmdir, DirsGone, StepFails, Crash

\* What the process that works on l will have seen is what a caller sees of l.
LEMMA OnlyOne ==
    ASSUME NEW A, NEW a \in Admins, NEW l, A[a].on = l, \A b \in Admins \ {a} : A[b].on # l
    PROVE  (CHOOSE r \in {A[b] : b \in Admins} : r.on = l) = A[a]
<1>1. \A r \in {A[b] : b \in Admins} : r.on = l <=> r = A[a]
  OBVIOUS
<1> QED BY <1>1

\* What a caller sees of an installation is what its process remembers.
LEMMA SettledIs ==
    ASSUME Apart, NEW l \in Setups
    PROVE  /\ \A a \in Admins : admin[a].on = l => Settled(l) = admin[a].before
           /\ ~Busy(l) => Settled(l) = Status(l)
<1>1. ASSUME NEW a \in Admins, admin[a].on = l PROVE Settled(l) = admin[a].before
  <2>1. Busy(l) /\ \A b \in Admins \ {a} : admin[b].on # l
    BY <1>1, BootstrapAssumptions DEF Busy, Apart
  <2> QED BY <1>1, <2>1, OnlyOne DEF Settled
<1> QED BY <1>1 DEF Settled

\* The same behind a step.
LEMMA SettledWillBe ==
    ASSUME Apart', NEW l \in Setups
    PROVE  /\ \A a \in Admins : admin'[a].on = l => Settled(l)' = admin'[a].before
           /\ ~Busy(l)' => Settled(l)' = Status(l)'
<1>1. ASSUME NEW a \in Admins, admin'[a].on = l PROVE Settled(l)' = admin'[a].before
  <2>1. Busy(l)' /\ \A b \in Admins \ {a} : admin'[b].on # l
    BY <1>1, BootstrapAssumptions DEF Busy, Apart
  <2> QED BY <1>1, <2>1, OnlyOne DEF Settled
<1> QED BY <1>1 DEF Settled

\* Whole and absent exclude each other.
LEMMA StatusIs ==
    ASSUME NEW l \in Setups
    PROVE  /\ IsInstalled(l) => AnyTarget(l) /\ Status(l) = "installed"
           /\ ~AnyTarget(l) => Status(l) = "absent"
           /\ IsInstalled(l)' => AnyTarget(l)' /\ Status(l)' = "installed"
           /\ ~AnyTarget(l)' => Status(l)' = "absent"
<1>1. DropIn(l) \in Range(Targets(l)) /\ l # Missing
  BY TargetsAre, BootstrapAssumptions
<1>2. IsInstalled(l) => AnyTarget(l)
  BY <1>1 DEF IsInstalled, AnyTarget, Present
<1>3. IsInstalled(l)' => AnyTarget(l)'
  BY <1>1 DEF IsInstalled, AnyTarget, Present
<1> QED BY <1>2, <1>3 DEF Status

\* Every step keeps what a process remembers of the beginning.
LEMMA BeforeStep ==
    ASSUME StateOK, BeforeInv, NEW a \in Admins, Step(a)
    PROVE  BeforeInv'
<1>1. PICK l \in Setups : Within(a, l)
  BY StepWithin
<1>2. CASE admin[a].on = Missing
  <2>1. PICK m \in Setups : StartInstall(a, m) \/ StartRemove(a, m)
    BY <1>2, AtRest
  <2>2. \/ admin'[a].doing = "install" /\ admin'[a].before = "absent"
        \/ admin'[a].doing = "remove" /\ admin'[a].before = "installed"
    BY <2>1, StartOutcome
  <2> QED BY <1>1, <2>2 DEF BeforeInv, Within
<1>3. CASE admin[a].on # Missing /\ Outcome(a)
  <2>1. Idle.doing = "none" BY DEF Idle
  <2> QED BY <1>1, <1>3, <2>1 DEF Outcome, Continues, Ends, BeforeInv, Within
<1>4. CASE Crash(a)
  <2>1. admin'[a].doing = "none"
    <3> DEFINE n == [Idle EXCEPT !.at = "crashed", !.temp = admin[a].temp]
    <3>1. admin'[a] = n BY <1>4 DEF Crash, Set, StateOK, ProcessesOK
    <3>2. n.doing = "none" BY DEF Idle
    <3> QED BY <3>1, <3>2
  <2> QED BY <1>1, <2>1 DEF BeforeInv, Within
<1> QED BY <1>2, <1>3, <1>4, StepOutcome

\* A step on one installation changes nothing a caller sees of another.
LEMMA OthersSettled ==
    ASSUME StateOK, Separate, Apart, Apart', NEW a \in Admins, NEW l \in Setups, Within(a, l),
           NEW m \in Setups \ {l}
    PROVE  Settled(m)' = Settled(m)
<1>1. CASE Busy(m)
  <2>1. PICK b \in Admins : admin[b].on = m
    BY <1>1 DEF Busy
  <2>2. b # a /\ admin'[b] = admin[b]
    BY <2>1, BootstrapAssumptions DEF Within
  <2> QED BY <2>1, <2>2, SettledIs, SettledWillBe
<1>2. CASE ~Busy(m)
  <2>1. ~Busy(m)' /\ (IsInstalled(m)' <=> IsInstalled(m)) /\ (AnyTarget(m)' <=> AnyTarget(m))
    BY <1>2, SiblingKept
  <2> QED BY <1>2, <2>1, SettledIs, SettledWillBe DEF Status
<1> QED BY <1>1, <1>2

\* In calm conditions nothing happens that cannot be undone.
LEMMA AlwaysGentle ==
    ASSUME Calm
    PROVE  (StateOK => Gentle(faults)) /\ (StateOK' => Gentle(faults'))
BY BootstrapAssumptions DEF Calm, Gentle, StateOK, DiskOK

\* Each step is a step of the transactions, or none a caller sees.
LEMMA StepKeepsTransactions ==
    ASSUME Separate, TakeTurns, Calm, StateOK, StateOK', TxnInv, TxnInv', BeforeInv,
           NEW a \in Admins, Step(a)
    PROVE  Txn!TxnNext \/ UNCHANGED Txn!txnVars
<1>1. PICK l \in Setups :
          /\ Within(a, l)
          /\ admin[a].on = Missing => (TakeTurns => ~Busy(l)) /\ admin'[a].on = l
  BY StepWithin
<1>2. /\ Apart /\ Apart' /\ Progresses /\ SettledWhole /\ Gentle(faults) /\ Gentle(faults')
      /\ Claims /\ l # Missing /\ report \in [Setups -> Reports] /\ report' \in [Setups -> Reports]
  BY AlwaysGentle, BootstrapAssumptions DEF TxnInv, SiblingInv, StateOK, DiskOK
<1>3. \A m \in Setups \ {l} :
         /\ Settled(m)' = Settled(m) /\ (Busy(m)' <=> Busy(m)) /\ report'[m] = report[m]
  BY <1>1, <1>2, OthersSettled, SiblingKept
<1>4. CASE admin[a].on = Missing
  <2>1. PICK m \in Setups : StartInstall(a, m) \/ StartRemove(a, m)
    BY <1>4, AtRest
  <2>2. /\ admin'[a].on = l /\ m = l /\ ~Busy(l) /\ Busy(l)'
        /\ UNCHANGED <<files, dirs, report>>
        /\ StartInstall(a, l) => admin'[a].before = "absent"
        /\ StartRemove(a, l) => admin'[a].before = "installed"
    BY <1>1, <1>4, <2>1, StartOutcome DEF Busy
  <2>3. Settled(l) = Status(l) /\ Settled(l)' = admin'[a].before
    BY <1>2, <2>2, SettledIs, SettledWillBe
  <2>4. Settled(l)' = Settled(l)
    BY <2>1, <2>2, <2>3, StatusIs DEF StartInstall, StartRemove
  <2>5. Txn!Begin(l)
    BY <1>3, <2>2, <2>4 DEF Txn!Begin
  <2> QED BY <2>5 DEF Txn!TxnNext
<1>5. CASE admin[a].on = l /\ Continues(admin[a], admin'[a]) /\ report' = report
  <2>1. admin'[a].on = l /\ admin'[a].before = admin[a].before /\ Busy(l) /\ Busy(l)'
    BY <1>5 DEF Continues, Busy
  <2>2. Settled(l)' = Settled(l)
    BY <1>2, <1>5, <2>1, SettledIs, SettledWillBe
  <2> QED BY <1>3, <1>5, <2>1, <2>2 DEF Txn!txnVars
<1>6. CASE admin[a].on = l /\ Ends(a)
  <2>1. PICK says : Says(admin[a].doing, says) /\ report' = [report EXCEPT ![l] = says]
    BY <1>6 DEF Ends
  <2>2. admin'[a].on = Missing /\ report'[l] = says
    BY <1>2, <1>6, <2>1 DEF Ends, Idle
  <2>3. Busy(l) /\ ~Busy(l)'
    <3>1. \A b \in Admins \ {a} : admin'[b].on # l
      BY <1>1, <1>2, <1>6 DEF Apart, Within
    <3> QED BY <1>2, <1>6, <2>2, <3>1 DEF Busy
  <2>4. Settled(l) = admin[a].before /\ Settled(l)' = Status(l)'
    BY <1>2, <1>6, <2>3, SettledIs, SettledWillBe
  <2>5. IF says \in {"installed", "remove failed"} THEN IsInstalled(l)' ELSE ~AnyTarget(l)'
    BY <1>2, <2>2, <2>3 DEF TxnInv, SettledWhole
  <2>6. Settled(l)' = IF says \in {"installed", "remove failed"} THEN "installed" ELSE "absent"
    BY <2>4, <2>5, StatusIs
  <2>7. Txn!End(l, Settled(l), Settled(l)', says)
    BY <1>3, <2>1, <2>3 DEF Txn!End
  <2>8. Txn!Installed(l) \/ Txn!Removed(l) \/ Txn!InstallFailed(l) \/ Txn!RemoveFailed(l)
    BY <2>1, <2>4, <2>6, <2>7
       DEF BeforeInv, Says, Txn!Installed, Txn!Removed, Txn!InstallFailed, Txn!RemoveFailed
  <2> QED BY <2>8 DEF Txn!TxnNext
<1>7. ~Crash(a)
  <2>1. HandlerClaim(admin[a], faults)
    BY <1>2 DEF Progresses, Progress
  <2> QED BY <1>2, <2>1, BeyondPromise DEF Crash
<1> QED BY <1>1, <1>4, <1>5, <1>6, <1>7, StepOutcome DEF Outcome, Within

\* The beginning is one of the transactions.
LEMMA TransactionsStart ==
    ASSUME Separate, Init
    PROVE  Txn!TxnInit /\ BeforeInv
<1>1. /\ \A a \in Admins : admin[a].doing = "none" /\ admin[a].on = Missing
      /\ \A l \in Setups : ~Busy(l)
  BY BootstrapAssumptions DEF Init, Idle, Busy
<1>2. report \in [Setups -> {"none", "installed"}]
  BY DEF Init
<1>3. TxnInv /\ Gentle(faults)
  BY TxnInit DEF Init, Gentle
<1>4. ASSUME NEW l \in Setups PROVE Settled(l) \in {"absent", "installed"}
  BY <1>1, <1>3, StatusIs DEF Settled, TxnInv, SettledWhole
<1> QED BY <1>1, <1>2, <1>4 DEF Txn!TxnInit, BeforeInv

\* "Install one profile transactionally": setup and remove of installations that
\* share no path reach their goal or leave the installation as it was, when every
\* step works, or when there is one administrator and one step fails.
THEOREM BootstrapIsTransactional ==
    ASSUME Separate, TakeTurns, Calm
    PROVE  Spec => IsTransactional
<1>1. Init => Txn!TxnInit /\ BeforeInv
  BY TransactionsStart
<1>2. StateOK /\ BeforeInv /\ [Next]_vars => BeforeInv'
  BY BeforeStep DEF Next, vars, BeforeInv
<1>3. StateOK /\ StateOK' /\ TxnInv /\ TxnInv' /\ BeforeInv /\ [Next]_vars => [Txn!TxnNext]_(Txn!txnVars)
  <2> SUFFICES ASSUME StateOK, StateOK', TxnInv, TxnInv', BeforeInv, [Next]_vars
               PROVE  Txn!TxnNext \/ UNCHANGED Txn!txnVars
    OBVIOUS
  <2>1. CASE UNCHANGED vars
    BY <2>1 DEF vars, Txn!txnVars, Settled, Status, Busy, IsInstalled, AnyTarget, Present
  <2> QED BY <2>1, StepKeepsTransactions DEF Next
<1> QED BY <1>1, <1>2, <1>3, TypesHold, TxnInvariant, PTL DEF Spec, IsTransactional, Txn!TxnSpec

(***************************************************************************)
(* What exists is not overwritten                                           *)
(***************************************************************************)

\* A file is put in place only where there is none.
FreeInv == \A a \in Admins : admin[a].at = "replace" => files[Head(admin[a].todo)] = Missing

\* Files change by being put in place or by being unlinked.
LEMMA FilesChange ==
    ASSUME StateOK, NEW a \in Admins, Step(a), NEW f \in Files
    PROVE  \/ files'[f] = files[f]
           \/ UndoFile(a) \/ Unlink(a)
           \/ Replace(a) /\ f = Head(admin[a].todo)
<1>1. files \in [Files -> Contents]
  BY DEF StateOK, DiskOK
<1>2. CASE Replace(a)
  BY <1>1, <1>2 DEF Replace
<1>3. CASE UndoFile(a) \/ Unlink(a)
  BY <1>3
<1>4. CASE ~Replace(a) /\ ~UndoFile(a) /\ ~Unlink(a)
  <2>1. files' = files
    BY <1>4 DEF Step, StartInstall, StartRemove, Starts, Scan, Mkdir, MkdirRaces, WriteTemp,
       WriteRefused, Written, Reload, UndoReload, FilesGone, Rmdir, DirsGone, StepFails, Crash
  <2> QED BY <2>1
<1> QED BY <1>2, <1>3, <1>4

\* The path stays free between the check and the replacement.
LEMMA FreeStep ==
    ASSUME Separate, TakeTurns, StateOK, Apart, FreeInv, NEW a \in Admins, Step(a)
    PROVE  FreeInv'
<1>1. PICK l \in Setups :
          /\ Within(a, l)
          /\ admin[a].on = Missing => (TakeTurns => ~Busy(l)) /\ admin'[a].on = l
  BY StepWithin
<1>2. ASSUME admin'[a].at = "replace" PROVE files'[Head(admin'[a].todo)] = Missing
  <2>1. CASE admin[a].on = Missing
    <3>1. PICK m \in Setups : StartInstall(a, m) \/ StartRemove(a, m)
      BY <2>1, AtRest
    <3> QED BY <1>2, <3>1, StartOutcome
  <2>2. CASE Crash(a)
    <3> DEFINE n == [Idle EXCEPT !.at = "crashed", !.temp = admin[a].temp]
    <3>1. admin'[a] = n BY <2>2 DEF Crash, Set, StateOK, ProcessesOK
    <3>2. n.at = "crashed" BY DEF Idle
    <3> QED BY <1>2, <3>1, <3>2
  <2>3. CASE admin[a].on # Missing /\ Outcome(a)
    <3>1. WriteTemp(a)
      BY <1>2, <2>3 DEF Outcome, Ends, Idle
    <3> DEFINE r == admin[a]
               n == [r EXCEPT !.at = "replace", !.temp = ParentOf(Head(r.todo))]
    <3>2. admin'[a] = n /\ files' = files /\ ~Present(Head(r.todo))
      BY <3>1 DEF WriteTemp, Goes, Set, StateOK, ProcessesOK
    <3>3. n.todo = r.todo
      BY DEF StateOK, ProcessesOK, Processes
    <3> QED BY <3>2, <3>3 DEF Present
  <2> QED BY <2>1, <2>2, <2>3, StepOutcome
<1>3. ASSUME NEW b \in Admins \ {a}, admin'[b].at = "replace"
      PROVE  files'[Head(admin'[b].todo)] = Missing
  <2>1. /\ admin'[b] = admin[b] /\ admin[b] \in Processes /\ ProcessOK(admin[b])
        /\ files[Head(admin[b].todo)] = Missing
    BY <1>1, <1>3 DEF Within, StateOK, ProcessesOK, FreeInv
  <2>2. admin[b].on \in Setups /\ Head(admin[b].todo) \in OwnFiles(admin[b].on)
    BY <1>3, <2>1, WroteOneOK
  <2>3. admin[b].on # l
    BY <1>1, <2>2, BootstrapAssumptions DEF Apart, Within, Busy
  <2> QED BY <1>1, <2>1, <2>2, <2>3, SiblingKept
<1> QED BY <1>2, <1>3 DEF FreeInv

\* What a process at r writes to f when it installs.
Writes(r, f) == IF f[1] = "credential" THEN r.secret ELSE r.on

\* A file that install has recorded is as it wrote it, or gone; rollback has
\* recorded what it takes away.
RecordClaim(r, F) ==
    r.doing \in {"install", "rollback"} =>
        /\ \A f \in Range(r.madeFiles) : F[f] \in {Missing, Writes(r, f)}
        /\ r.at = "undo_files" => Range(r.todo) \subseteq Range(r.madeFiles)

RecordInv == \A a \in Admins : RecordClaim(admin[a], files)

\* An exception hands the record over to the rollback.
LEMMA RaiseRecord ==
    ASSUME StateOK, NEW a \in Admins, NEW r \in Processes, ProcessOK(r),
           r.on = admin[a].on, r.on # Missing, NEW F, RecordClaim(r, F), Raise(a, r)
    PROVE  RecordClaim(admin'[a], F)
<1> DEFINE back == [r EXCEPT !.at = "undo_files", !.doing = "rollback",
                             !.todo = Reverse(r.madeFiles), !.temp = Missing]
           again == [r EXCEPT !.at = "scan", !.doing = "restore", !.todo = Directories(r.on),
                              !.madeFiles = <<>>, !.madeDirs = <<>>]
<1>1. CASE r.doing = "install" /\ admin'[a] = back
  <2>1. /\ back.doing = "rollback" /\ back.todo = Reverse(r.madeFiles) /\ back.on = r.on
        /\ back.madeFiles = r.madeFiles /\ back.secret = r.secret
    BY DEF Processes
  <2>2. Range(Reverse(r.madeFiles)) = Range(r.madeFiles)
    BY RangeReverse DEF Processes
  <2> HIDE DEF back
  <2> QED BY <1>1, <2>1, <2>2 DEF RecordClaim, Writes
<1>2. CASE admin'[a] = again
  <2>1. again.doing = "restore" BY DEF Processes
  <2> HIDE DEF again
  <2> QED BY <1>2, <2>1 DEF RecordClaim
<1>3. CASE admin'[a] = Idle
  BY <1>3 DEF RecordClaim, Idle
<1> QED BY <1>1, <1>2, <1>3, RaiseOK

\* Writing a file and recording it.
LEMMA ReplaceRecord ==
    ASSUME StateOK, NEW a \in Admins, RecordClaim(admin[a], files), Replace(a)
    PROVE  RecordClaim(admin'[a], files')
<1> DEFINE r == admin[a]
           f == Head(r.todo)
           n == [WroteOne(r) EXCEPT !.madeFiles = Append(@, f)]
<1>1. /\ r \in Processes /\ ProcessOK(r) /\ r.at = "replace" /\ f \in OwnFiles(r.on)
      /\ r.on \in Setups /\ r.on # Missing /\ r.doing \in {"install", "restore"}
  <2>1. r \in Processes /\ ProcessOK(r) /\ r.at = "replace"
    BY DEF Replace, StateOK, ProcessesOK
  <2>2. r.doing \in {"install", "restore"}
    BY <2>1 DEF ProcessOK, InPhase, Processes, Doings
  <2> QED BY <2>1, <2>2, WroteOneOK, BootstrapAssumptions
<1>2. f \in Files /\ files' = [files EXCEPT ![f] = ContentOf(a, f)] /\ files \in [Files -> Contents]
  BY <1>1, OwnPaths DEF Replace, StateOK, DiskOK
<1>3. r.doing = "install" => ContentOf(a, f) = Writes(r, f)
  BY DEF ContentOf, Writes
<1>4. /\ WroteOne(r) \in Processes /\ ProcessOK(WroteOne(r)) /\ WroteOne(r).at = "write"
      /\ WroteOne(r).doing = r.doing /\ WroteOne(r).on = r.on
      /\ WroteOne(r).madeFiles = r.madeFiles /\ WroteOne(r).secret = r.secret
  BY <1>1, WroteOneOK DEF WroteOne, Processes
<1>5. r.madeFiles \in Seq(OwnFiles(r.on)) /\ OwnFiles(r.on) \subseteq Files
  BY <1>1, OwnPaths DEF ProcessOK, OnItsOwn
<1>6. ASSUME r.doing = "install", NEW g \in Range(r.madeFiles) \cup {f}
      PROVE  files'[g] \in {Missing, Writes(r, g)}
  <2>1. g \in Files BY <1>2, <1>5, RangeInSet
  <2> HIDE DEF f, r
  <2> QED BY <1>2, <1>3, <1>6, <2>1 DEF RecordClaim, r
<1>7. CASE admin'[a] = n
  <2>1. /\ n.at = "write" /\ n.doing = r.doing /\ n.on = r.on /\ n.secret = r.secret
        /\ n.madeFiles = Append(r.madeFiles, f)
    <3> HIDE DEF r, f
    <3> QED BY <1>4 DEF Processes
  <2>2. Range(Append(r.madeFiles, f)) = Range(r.madeFiles) \cup {f}
    BY <1>1, <1>5, RangeAppend
  <2> HIDE DEF n, r, f
  <2> QED BY <1>1, <1>6, <1>7, <2>1, <2>2 DEF RecordClaim, Writes
<1>8. CASE Raise(a, WroteOne(r))
  <2> DEFINE done == WroteOne(r)
  <2>1. /\ done \in Processes /\ ProcessOK(done) /\ done.on = admin[a].on /\ done.on # Missing
        /\ Raise(a, done)
    BY <1>1, <1>4, <1>8
  <2>2. RecordClaim(done, files')
    <3> HIDE DEF r, f
    <3> QED BY <1>1, <1>4, <1>6 DEF RecordClaim, Writes
  <2> HIDE DEF done
  <2> QED BY <2>1, <2>2, RaiseRecord
<1>9. Set(a, n) => admin'[a] = n
  BY DEF Set, StateOK, ProcessesOK
<1> QED BY <1>7, <1>8, <1>9 DEF Replace, Goes, WroteOne

\* Taking a file away again.
LEMMA UnlinkRecord ==
    ASSUME StateOK, NEW a \in Admins, RecordClaim(admin[a], files), UndoFile(a) \/ Unlink(a)
    PROVE  RecordClaim(admin'[a], files')
<1> DEFINE r == admin[a]
           f == Head(r.todo)
           n == [r EXCEPT !.todo = Tail(@)]
<1>1. /\ r \in Processes /\ ProcessOK(r) /\ r.todo # <<>> /\ r.on \in Setups /\ r.on # Missing
      /\ r.at \in {"undo_files", "unlink"} /\ r.todo \in Seq(OwnFiles(r.on))
      /\ r.madeFiles \in Seq(Files)
  BY BootstrapAssumptions DEF UndoFile, Unlink, StateOK, ProcessesOK, ProcessOK, OnItsOwn,
     InPhase, Processes, Doings
<1>2. files' = [files EXCEPT ![f] = Missing] /\ files \in [Files -> Contents]
  BY DEF UndoFile, Unlink, StateOK, DiskOK
<1>3. \A g \in Range(r.madeFiles) : files'[g] \in {Missing, files[g]}
  <2>1. Range(r.madeFiles) \subseteq Files BY <1>1, RangeInSet
  <2> HIDE DEF f, r
  <2> QED BY <1>2, <2>1
<1>4. RecordClaim(r, files')
  <2> HIDE DEF f, r
  <2> QED BY <1>3 DEF RecordClaim, r
<1>5. CASE admin'[a] = n
  <2>1. /\ n.at = r.at /\ n.doing = r.doing /\ n.on = r.on /\ n.secret = r.secret
        /\ n.madeFiles = r.madeFiles /\ n.todo = Tail(r.todo)
    BY <1>1 DEF Processes
  <2>2. Range(r.todo) = {f} \cup Range(Tail(r.todo))
    BY <1>1, RangeSplit
  <2> HIDE DEF n, r, f
  <2> QED BY <1>4, <1>5, <2>1, <2>2 DEF RecordClaim, Writes
<1>6. CASE Raise(a, r)
  <2>1. r.on = admin[a].on OBVIOUS
  <2> HIDE DEF r
  <2> QED BY <1>1, <1>4, <1>6, <2>1, RaiseRecord
<1>7. Set(a, n) => admin'[a] = n
  BY DEF Set, StateOK, ProcessesOK
<1> QED BY <1>5, <1>6, <1>7 DEF UndoFile, Unlink, Goes

\* The other steps of a process leave the record and the files alone.
LEMMA QuietRecord ==
    ASSUME StateOK, NEW a \in Admins, RecordClaim(admin[a], files), admin[a].on # Missing,
           Step(a), ~Replace(a), ~UndoFile(a), ~Unlink(a)
    PROVE  RecordClaim(admin'[a], files')
<1> DEFINE r == admin[a]
<1>1. r \in Processes /\ ProcessOK(r) /\ r.on = admin[a].on /\ r.on # Missing
  BY DEF StateOK, ProcessesOK
<1>2. files' = files
  BY DEF Step, StartInstall, StartRemove, Starts, Scan, Mkdir, MkdirRaces, WriteTemp,
     WriteRefused, Written, Reload, UndoReload, FilesGone, Rmdir, DirsGone, StepFails, Crash
<1>3. ASSUME NEW n, admin'[a] = n, n.doing = r.doing, n.on = r.on, n.secret = r.secret,
             n.madeFiles = r.madeFiles, n.at # "undo_files"
      PROVE  RecordClaim(admin'[a], files')
  <2> HIDE DEF r
  <2> QED BY <1>2, <1>3 DEF RecordClaim, Writes, r
<1>4. ASSUME Raise(a, r) PROVE RecordClaim(admin'[a], files')
  <2>1. RecordClaim(r, files') BY <1>2
  <2> HIDE DEF r
  <2> QED BY <1>1, <1>4, <2>1, RaiseRecord
<1>5. \A n : Set(a, n) => admin'[a] = n
  BY DEF Set, StateOK, ProcessesOK
<1>6. RecordClaim(Idle, files') /\ Idle.at # "undo_files" /\ Idle \in Processes
  BY IdleOK DEF RecordClaim, Idle
<1>7. r.at \notin {"idle", "crashed"}
  BY <1>1 DEF ProcessOK, InPhase, Processes, Doings
<1>8. CASE Scan(a)
  <2> DEFINE m == MissingUpTo(Head(r.todo))
             n == IF r.todo = <<>> THEN [r EXCEPT !.at = "write", !.todo = Targets(r.on)]
                  ELSE [r EXCEPT !.at = IF m = <<>> THEN "scan" ELSE "mkdir",
                                 !.todo = Tail(r.todo), !.chain = m]
  <2>1. admin'[a] = n BY <1>5, <1>8 DEF Scan, Goes
  <2>2. /\ n.doing = r.doing /\ n.on = r.on /\ n.secret = r.secret
        /\ n.madeFiles = r.madeFiles /\ n.at # "undo_files"
    BY <1>1 DEF Processes
  <2> HIDE DEF n, r
  <2> QED BY <1>3, <2>1, <2>2
<1>9. CASE Mkdir(a)
  <2> DEFINE d == Head(r.chain)
             m == MadeOne(r)
             n == [m EXCEPT !.madeDirs = Append(@, d)]
  <2>1. /\ m.doing = r.doing /\ m.on = r.on /\ m.secret = r.secret /\ m \in Processes
        /\ m.madeFiles = r.madeFiles /\ m.at # "undo_files" /\ ProcessOK(m)
    BY <1>1, <1>9, MadeOneOK DEF Mkdir, MadeOne, Processes
  <2>2. /\ n.doing = r.doing /\ n.on = r.on /\ n.secret = r.secret
        /\ n.madeFiles = r.madeFiles /\ n.at # "undo_files"
    <3> HIDE DEF m, r
    <3> QED BY <2>1 DEF Processes
  <2>3. CASE admin'[a] = n
    <3> HIDE DEF n, r
    <3> QED BY <1>3, <2>2, <2>3
  <2>4. CASE Raise(a, m)
    <3>1. RecordClaim(m, files')
      <4> HIDE DEF m, r
      <4> QED BY <1>2, <2>1 DEF RecordClaim, Writes, r
    <3> HIDE DEF m
    <3> QED BY <1>1, <2>1, <2>4, <3>1, RaiseRecord
  <2> QED BY <1>5, <1>9, <2>3, <2>4 DEF Mkdir, Goes, MadeOne
<1>10. CASE WriteTemp(a)
  <2> DEFINE n == [r EXCEPT !.at = "replace", !.temp = ParentOf(Head(r.todo))]
  <2>1. admin'[a] = n BY <1>5, <1>10 DEF WriteTemp, Goes
  <2>2. /\ n.doing = r.doing /\ n.on = r.on /\ n.secret = r.secret
        /\ n.madeFiles = r.madeFiles /\ n.at # "undo_files"
    BY <1>1 DEF Processes
  <2> HIDE DEF n, r
  <2> QED BY <1>3, <2>1, <2>2
<1>11. CASE (WriteRefused(a) \/ Rmdir(a)) /\ ~Raise(a, r)
  <2> DEFINE n == [r EXCEPT !.todo = Tail(@)]
  <2>1. admin'[a] = n BY <1>5, <1>11 DEF WriteRefused, Rmdir
  <2>2. /\ n.doing = r.doing /\ n.on = r.on /\ n.secret = r.secret
        /\ n.madeFiles = r.madeFiles /\ n.at = r.at
    BY <1>1 DEF Processes
  <2>3. r.at # "undo_files"
    BY <1>11 DEF WriteRefused, Rmdir
  <2> HIDE DEF n, r
  <2> QED BY <1>3, <2>1, <2>2, <2>3
<1>12. CASE Written(a)
  <2> DEFINE n == [r EXCEPT !.at = IF r.doing = "install" THEN "reload" ELSE "undo_reload",
                            !.reloading = TRUE]
  <2>1. admin'[a] = n BY <1>5, <1>12 DEF Written, Goes
  <2>2. /\ n.doing = r.doing /\ n.on = r.on /\ n.secret = r.secret
        /\ n.madeFiles = r.madeFiles /\ n.at # "undo_files"
    BY <1>1 DEF Processes
  <2> HIDE DEF n, r
  <2> QED BY <1>3, <2>1, <2>2
<1>13. CASE FilesGone(a)
  <2> DEFINE n == [r EXCEPT !.at = "rmdir",
                            !.todo = IF r.doing = "rollback" THEN Reverse(r.madeDirs)
                                     ELSE Directories(r.on)]
  <2>1. admin'[a] = n BY <1>5, <1>13 DEF FilesGone, Goes
  <2>2. /\ n.doing = r.doing /\ n.on = r.on /\ n.secret = r.secret
        /\ n.madeFiles = r.madeFiles /\ n.at # "undo_files"
    BY <1>1 DEF Processes
  <2> HIDE DEF n, r
  <2> QED BY <1>3, <2>1, <2>2
<1>14. CASE DirsGone(a) /\ ~Raise(a, r)
  <2> DEFINE n == [r EXCEPT !.at = IF r.doing = "remove" THEN "reload" ELSE "undo_reload"]
  <2>1. admin'[a] = n BY <1>1, <1>5, <1>14 DEF DirsGone, Goes
  <2>2. /\ n.doing = r.doing /\ n.on = r.on /\ n.secret = r.secret
        /\ n.madeFiles = r.madeFiles /\ n.at # "undo_files"
    BY <1>1 DEF Processes
  <2> HIDE DEF n, r
  <2> QED BY <1>3, <2>1, <2>2
<1>15. CASE Reload(a) /\ ~Raise(a, r)
  <2>1. admin'[a] = Idle BY <1>5, <1>15 DEF Reload, Finish
  <2> QED BY <1>6, <2>1
<1>16. CASE Crash(a)
  <2> DEFINE n == [Idle EXCEPT !.at = "crashed", !.temp = r.temp]
  <2>1. admin'[a] = n BY <1>5, <1>16 DEF Crash
  <2>2. n.doing = "none" BY DEF Idle
  <2> HIDE DEF n
  <2> QED BY <2>1, <2>2 DEF RecordClaim
<1>17. MkdirRaces(a) \/ UndoReload(a) \/ StepFails(a) => Raise(a, r)
  BY DEF MkdirRaces, UndoReload, StepFails
<1>18. ~\E l \in Setups : StartInstall(a, l) \/ StartRemove(a, l)
  BY <1>7 DEF StartInstall, StartRemove, Starts
<1> HIDE DEF r
<1> QED BY <1>4, <1>8, <1>9, <1>10, <1>11, <1>12, <1>13, <1>14, <1>15, <1>16, <1>17, <1>18
        DEF Step

\* Every process keeps its record.
LEMMA RecordStep ==
    ASSUME Separate, TakeTurns, StateOK, Apart, RecordInv, NEW a \in Admins, Step(a)
    PROVE  RecordInv'
<1>1. PICK l \in Setups :
          /\ Within(a, l)
          /\ admin[a].on = Missing => (TakeTurns => ~Busy(l)) /\ admin'[a].on = l
  BY StepWithin
<1>2. RecordClaim(admin'[a], files')
  <2>1. CASE admin[a].on = Missing
    <3>1. PICK m \in Setups : StartInstall(a, m) \/ StartRemove(a, m)
      BY <2>1, AtRest
    <3>2. CASE StartInstall(a, m)
      <4> DEFINE n == [Idle EXCEPT !.at = "scan", !.doing = "install", !.on = m,
                                   !.todo = Directories(m), !.secret = ops', !.before = "absent"]
      <4>1. admin'[a] = n BY <3>2 DEF StartInstall, Set, StateOK, ProcessesOK
      <4>2. n.madeFiles = <<>> /\ n.at = "scan" BY DEF Idle
      <4> HIDE DEF n
      <4> QED BY <4>1, <4>2, RangeEmpty DEF RecordClaim
    <3>3. CASE StartRemove(a, m)
      <4> DEFINE n == [Idle EXCEPT !.at = "unlink", !.doing = "remove", !.on = m,
                           !.todo = Targets(m), !.before = "installed",
                           !.snapshot = [f \in Range(Targets(m)) |-> files[f]]]
      <4>1. admin'[a] = n BY <3>3 DEF StartRemove, Set, StateOK, ProcessesOK
      <4>2. n.doing = "remove" BY DEF Idle
      <4> HIDE DEF n
      <4> QED BY <4>1, <4>2 DEF RecordClaim
    <3> QED BY <3>1, <3>2, <3>3
  <2>2. RecordClaim(admin[a], files)
    BY DEF RecordInv
  <2> QED BY <2>1, <2>2, ReplaceRecord, UnlinkRecord, QuietRecord
<1>3. ASSUME NEW b \in Admins \ {a} PROVE RecordClaim(admin'[b], files')
  <2>1. /\ admin'[b] = admin[b] /\ admin[b] \in Processes /\ ProcessOK(admin[b])
        /\ RecordClaim(admin[b], files)
    BY <1>1 DEF Within, StateOK, ProcessesOK, RecordInv
  <2>2. CASE admin[b].doing = "none"
    BY <2>1, <2>2 DEF RecordClaim
  <2>3. CASE admin[b].doing # "none"
    <3>1. admin[b].on \in Setups /\ Range(admin[b].madeFiles) \subseteq OwnFiles(admin[b].on)
      BY <2>1, <2>3, RangeInSet DEF ProcessOK, OnItsOwn, Processes
    <3>2. admin[b].on # l
      BY <1>1, <3>1, BootstrapAssumptions DEF Apart, Within, Busy
    <3>3. \A f \in Range(admin[b].madeFiles) : files'[f] = files[f]
      BY <1>1, <3>1, <3>2, SiblingKept
    <3> QED BY <2>1, <3>3 DEF RecordClaim
  <2> QED BY <2>2, <2>3
<1> QED BY <1>2, <1>3 DEF RecordInv

\* The rest of a sequence is another sequence.
LEMMA TailIsAnother ==
    ASSUME NEW S, NEW q \in Seq(S), q # <<>>
    PROVE  Tail(q) # q
<1>1. Len(q) \in Nat /\ Len(Tail(q)) = Len(q) - 1
  BY HeadTailProperties, LenProperties
<1>2. ASSUME NEW m \in Nat PROVE m - 1 # m
  OBVIOUS
<1>3. Len(Tail(q)) # Len(q)
  BY <1>1, <1>2
<1>4. SUFFICES ASSUME Tail(q) = q PROVE FALSE
  OBVIOUS
<1> QED BY <1>3, <1>4, Zenon

\* A file goes away through its remove, or its writer's rollback.
LEMMA GoesAway ==
    ASSUME StateOK, StateOK', NEW a \in Admins, RecordClaim(admin[a], files),
           NEW f \in Files, files[f] # Missing, UndoFile(a) \/ Unlink(a), files'[f] # files[f]
    PROVE  files'[f] = Missing /\ TakesAway(a, f)
<1> DEFINE r == admin[a]
<1>1. /\ r \in Processes /\ ProcessOK(r) /\ r.todo # <<>> /\ r.on \in Setups
      /\ r.todo \in Seq(OwnFiles(r.on))
      /\ \/ r.at = "undo_files" /\ r.doing = "rollback"
         \/ r.at = "unlink" /\ r.doing = "remove"
  BY BootstrapAssumptions DEF UndoFile, Unlink, StateOK, ProcessesOK, ProcessOK, OnItsOwn,
     InPhase, Processes, Doings
<1>2. f = Head(r.todo) /\ files'[f] = Missing
  BY DEF UndoFile, Unlink, StateOK, DiskOK
<1>3. f \in OwnFiles(r.on) /\ f \in Range(r.todo)
  BY <1>1, <1>2, HeadTail, RangeSplit
<1>4. r.doing = "rollback" => f \in Range(r.madeFiles) /\ files[f] = ContentOf(a, f)
  BY <1>1, <1>3 DEF RecordClaim, Writes, ContentOf
<1>5. admin'[a] # admin[a]
  <2> DEFINE n == [r EXCEPT !.todo = Tail(@)]
  <2>1. CASE Set(a, n)
    <3>1. admin'[a] = n BY <2>1 DEF Set, StateOK, ProcessesOK
    <3>2. n.todo = Tail(r.todo) BY <1>1 DEF Processes
    <3>3. Tail(r.todo) # r.todo
      BY <1>1, TailIsAnother
    <3> QED BY <3>1, <3>2, <3>3
  <2>2. CASE Raise(a, r)
    <3>1. r.on = admin[a].on /\ r.on # Missing /\ Idle.doing = "none"
      BY <1>1, BootstrapAssumptions DEF Idle
    <3>2. [r EXCEPT !.at = "scan", !.doing = "restore", !.todo = Directories(r.on),
                    !.madeFiles = <<>>, !.madeDirs = <<>>].doing = "restore"
      BY <1>1 DEF Processes
    <3> HIDE DEF r
    <3> QED BY <1>1, <2>2, <3>1, <3>2, RaiseOK DEF r
  <2> QED BY <2>1, <2>2 DEF UndoFile, Unlink, Goes
<1> QED BY <1>1, <1>2, <1>3, <1>4, <1>5 DEF TakesAway, OwnFiles

\* Setup replaces no file that exists, and what goes away does so through a remove
\* of its installation or the rollback of the setup that wrote it, whatever fails or
\* crashes, as long as nobody works on one installation with another and
\* installations share no path.
THEOREM NothingIsOverwritten ==
    ASSUME Separate, TakeTurns
    PROVE  Spec => NeverOverwritten
<1>1. Init => FreeInv /\ RecordInv
  BY DEF Init, FreeInv, RecordInv, RecordClaim, Idle
<1>2. StateOK /\ SiblingInv /\ FreeInv /\ RecordInv /\ [Next]_vars => FreeInv' /\ RecordInv'
  <2> SUFFICES ASSUME StateOK, SiblingInv, FreeInv, RecordInv, [Next]_vars
               PROVE  FreeInv' /\ RecordInv'
    OBVIOUS
  <2>1. CASE UNCHANGED vars
    BY <2>1 DEF vars, FreeInv, RecordInv
  <2> QED BY <2>1, FreeStep, RecordStep DEF Next, SiblingInv
<1>3. StateOK /\ StateOK' /\ FreeInv /\ RecordInv /\ [Next]_vars =>
        [\A f \in Files : files[f] # Missing /\ files'[f] # files[f] =>
            files'[f] = Missing /\ \E a \in Admins : TakesAway(a, f)]_vars
  <2> SUFFICES ASSUME StateOK, StateOK', FreeInv, RecordInv, Next, NEW f \in Files,
                      files[f] # Missing, files'[f] # files[f]
               PROVE  files'[f] = Missing /\ \E a \in Admins : TakesAway(a, f)
    OBVIOUS
  <2>1. PICK a \in Admins : Step(a)
    BY DEF Next
  <2>2. ~(Replace(a) /\ f = Head(admin[a].todo))
    BY DEF Replace, FreeInv
  <2>3. UndoFile(a) \/ Unlink(a)
    BY <2>1, <2>2, FilesChange
  <2>4. RecordClaim(admin[a], files)
    BY DEF RecordInv
  <2> QED BY <2>3, <2>4, GoesAway
<1> QED BY <1>1, <1>2, <1>3, TypesHold, SiblingInvariant, PTL DEF Spec, NeverOverwritten

(***************************************************************************)
(* The service manager                                                      *)
(***************************************************************************)

\* The manager has loaded every drop-in but the one being worked on; that one it
\* has not loaded before install has got as far as reloading.
ManagerClaim(r) ==
    /\ r.on = Missing => loaded = LoadedNow
    /\ r.on # Missing =>
          \A x \in Units \ {r.on.unit} : loaded[x] = files[<<"drop_in", x>>]
    /\ r.doing \in {"install", "rollback"} /\ ~r.reloading => loaded[r.on.unit] = Missing
    /\ r.doing = "install" /\ r.at = "reload" => r.reloading

ManagerInv == \A a \in Admins : ManagerClaim(admin[a])

\* Only a reload changes what the manager has loaded.
LEMMA LoadedChange ==
    ASSUME NEW a \in Admins, Step(a)
    PROVE  \/ loaded' = loaded
           \/ (Reload(a) \/ UndoReload(a)) /\ loaded' = LoadedNow /\ files' = files
BY DEF Step, StartInstall, StartRemove, Starts, Scan, Mkdir, MkdirRaces, WriteTemp, WriteRefused,
   Replace, Written, Reload, UndoReload, UndoFile, Unlink, FilesGone, Rmdir, DirsGone,
   StepFails, Crash

\* The drop-in of another unit is none of an installation's files.
LEMMA OtherDropIns ==
    ASSUME NEW l \in Setups, NEW x \in Units \ {l.unit}
    PROVE  <<"drop_in", x>> \in Files \ OwnFiles(l)
<1>1. <<"drop_in", x>> \in Files
  <2>1. PICK m \in Setups : m.unit = x BY DEF Units
  <2> QED BY <2>1, OwnPaths
<1>2. ASSUME <<"drop_in", x>> \in OwnFiles(l) PROVE FALSE
  <2>1. \/ \E y \in Range(CREDENTIAL_NAMES) : <<"drop_in", x>> = <<"credential", l.profile, y>>
        \/ <<"drop_in", x>> \in {<<"drop_in", l.unit>>, <<"env_script", l.profile>>,
                                 <<"manifest", l.profile>>}
    <3>1. OwnFiles(l) = {<<"credential", l.profile, y>> : y \in Range(CREDENTIAL_NAMES)}
            \cup {<<"drop_in", l.unit>>, <<"env_script", l.profile>>, <<"manifest", l.profile>>}
      BY TargetsAre DEF OwnFiles, Credential, DropIn, EnvScript, Manifest
    <3> QED BY <1>2, <3>1
  <2>2. /\ <<"drop_in", x>>[1] = "drop_in" /\ <<"drop_in", x>>[2] = x
        /\ <<"drop_in", l.unit>>[2] = l.unit
        /\ <<"env_script", l.profile>>[1] = "env_script"
        /\ <<"manifest", l.profile>>[1] = "manifest"
        /\ \A y : <<"credential", l.profile, y>>[1] = "credential"
    OBVIOUS
  <2> QED BY <2>1, <2>2
<1> QED BY <1>1, <1>2

\* A single administrator's operation ends behind a reload, or needs none.
LEMMA EndsReloaded ==
    ASSUME StateOK, StateOK', Alone, NEW a \in Admins, NEW l \in Setups, admin[a].on = l,
           Progress(admin[a], files, dirs, faults), ManagerClaim(admin[a]), Step(a), Ends(a)
    PROVE  loaded' = LoadedNow'
<1> DEFINE r == admin[a]
<1>1. /\ r \in Processes /\ ProcessOK(r) /\ HandlerClaim(r, faults) /\ RecordedClaim(r, files)
      /\ loaded \in [Units -> Setups \cup {Missing}]
  BY DEF StateOK, DiskOK, ProcessesOK, Progress, Gentle
<1>2. r.doing \in {"rollback", "restore"} => \A kind : ~Fault(kind)
  BY <1>1, BeyondPromise DEF Gentle
<1>3. CASE Reload(a)
  BY <1>3 DEF Reload, LoadedNow
<1>4. CASE UndoReload(a)
  <2>1. r.doing \in {"rollback", "restore"}
    BY <1>1, <1>4 DEF UndoReload, ProcessOK, InPhase, Processes, Doings
  <2> QED BY <1>2, <1>4, <2>1 DEF UndoReload, LoadedNow
<1>5. CASE DirsGone(a) /\ r.doing = "rollback" /\ ~r.reloading
  <2>1. files' = files /\ loaded' = loaded /\ r.at = "rmdir"
    BY <1>5 DEF DirsGone
  <2>2. loaded[l.unit] = Missing /\ files[<<"drop_in", l.unit>>] = Missing
    BY <1>1, <1>5, <2>1, OwnPaths DEF ManagerClaim, RecordedClaim
  <2>3. \A x \in Units : loaded[x] = files[<<"drop_in", x>>]
    BY <2>2, BootstrapAssumptions DEF ManagerClaim
  <2> QED BY <1>1, <2>1, <2>3 DEF LoadedNow
<1> QED BY <1>2, <1>3, <1>4, <1>5, NobodyInTheWay DEF Ends, LastStep

\* Every step of a single administrator keeps what the manager has loaded.
LEMMA ManagerStep ==
    ASSUME Separate, TakeTurns, Alone, StateOK, StateOK', TxnInv, ManagerInv, NEW a \in Admins, Step(a)
    PROVE  ManagerClaim(admin[a])'
<1>1. PICK l \in Setups :
          /\ Within(a, l)
          /\ admin[a].on = Missing => (TakeTurns => ~Busy(l)) /\ admin'[a].on = l
  BY StepWithin
<1>2. /\ Progress(admin[a], files, dirs, faults) /\ ManagerClaim(admin[a]) /\ l # Missing
      /\ admin[a] \in Processes /\ ProcessOK(admin[a])
  BY BootstrapAssumptions DEF TxnInv, Progresses, ManagerInv, StateOK, ProcessesOK
<1>3. \A x \in Units \ {l.unit} : files'[<<"drop_in", x>>] = files[<<"drop_in", x>>]
  BY <1>1, OtherDropIns DEF Within
<1>4. l.unit \in Units
  BY DEF Units
<1>5. CASE admin[a].on = Missing
  <2>1. PICK m \in Setups : StartInstall(a, m) \/ StartRemove(a, m)
    BY <1>5, AtRest
  <2>2. /\ m = l /\ admin'[a].on = l /\ ~admin'[a].reloading /\ admin'[a].at # "reload"
        /\ UNCHANGED <<files, loaded>>
        /\ admin'[a].doing = "install" => StartInstall(a, l)
        /\ admin'[a].doing # "rollback"
    BY <1>1, <1>5, <2>1, StartOutcome
  <2>3. \A x \in Units : loaded[x] = files[<<"drop_in", x>>]
    BY <1>2, <1>5 DEF ManagerClaim, LoadedNow
  <2>4. StartInstall(a, l) => files[<<"drop_in", l.unit>>] = Missing
    BY OwnPaths DEF StartInstall, AnyTarget, Present, OwnFiles
  <2> QED BY <1>2, <1>4, <2>2, <2>3, <2>4 DEF ManagerClaim
<1>6. CASE admin[a].on = l /\ Continues(admin[a], admin'[a])
  <2>1. CASE loaded' = loaded
    BY <1>2, <1>3, <1>6, <2>1 DEF ManagerClaim, Continues
  <2>2. CASE (Reload(a) \/ UndoReload(a)) /\ loaded' = LoadedNow /\ files' = files
    <3>1. \A x \in Units : loaded'[x] = files'[<<"drop_in", x>>]
      BY <2>2 DEF LoadedNow
    <3>2. admin[a].doing = "install" => admin'[a].reloading
      BY <1>2, <1>6, <2>2 DEF Reload, UndoReload, ManagerClaim, Continues, ProcessOK, InPhase
    <3>3. UndoReload(a) => admin'[a].on = Missing
      <4>1. UndoReload(a) => Raise(a, admin[a]) /\ admin[a].doing \in {"rollback", "restore"}
        BY <1>2 DEF UndoReload, ProcessOK, InPhase, Processes, Doings
      <4>2. UndoReload(a) => Set(a, Idle)
        BY <4>1 DEF Raise, Finish
      <4> QED BY <4>2 DEF Set, Idle, StateOK, ProcessesOK
    <3>4. Reload(a) => admin[a].doing \in {"install", "remove"}
      BY <1>2 DEF Reload, ProcessOK, InPhase, Processes, Doings
    <3> QED BY <1>2, <1>6, <2>2, <3>1, <3>2, <3>3, <3>4 DEF ManagerClaim, Continues
  <2> QED BY <2>1, <2>2, LoadedChange
<1>7. CASE admin[a].on = l /\ Ends(a)
  <2>1. loaded' = LoadedNow'
    BY <1>2, <1>7, EndsReloaded
  <2>2. admin'[a].on = Missing /\ admin'[a].doing = "none"
    BY <1>7 DEF Ends, Idle
  <2> QED BY <2>1, <2>2 DEF ManagerClaim
<1>8. ~Crash(a)
  BY <1>2, BeyondPromise DEF Crash, Progress, Gentle
<1> QED BY <1>1, <1>5, <1>6, <1>7, <1>8, StepOutcome DEF Outcome, Within

\* When no operation is under way the manager has loaded the drop-ins on disk,
\* also behind an operation in which one step failed.
THEOREM ManagerIsUpToDate ==
    ASSUME Separate, TakeTurns, Alone
    PROVE  Spec => []ManagerAgrees
<1>1. Init => ManagerInv
  BY DEF Init, ManagerInv, ManagerClaim, LoadedNow, Idle
<1>2. StateOK /\ StateOK' /\ TxnInv /\ ManagerInv /\ [Next]_vars => ManagerInv'
  <2> SUFFICES ASSUME StateOK, StateOK', TxnInv, ManagerInv, [Next]_vars PROVE ManagerInv'
    OBVIOUS
  <2>1. CASE UNCHANGED vars
    BY <2>1 DEF vars, ManagerInv, ManagerClaim, LoadedNow
  <2>2. ASSUME NEW a \in Admins, Step(a) PROVE ManagerInv'
    <3>1. ManagerClaim(admin[a])' BY <2>2, ManagerStep
    <3>2. \A b \in Admins : b = a BY DEF Alone
    <3> QED BY <3>1, <3>2 DEF ManagerInv
  <2> QED BY <2>1, <2>2 DEF Next
<1>3. StateOK /\ ManagerInv => ManagerAgrees
  <2> SUFFICES ASSUME StateOK, ManagerInv, \A a \in Admins : admin[a].at = "idle"
               PROVE  loaded = LoadedNow
    BY DEF ManagerAgrees
  <2>1. PICK a : a \in Admins
    BY DEF Alone
  <2>2. admin[a].on = Missing
    BY <2>1 DEF StateOK, ProcessesOK, ProcessOK, InPhase, Processes, Doings
  <2> QED BY <2>1, <2>2 DEF ManagerInv, ManagerClaim
<1> QED BY <1>1, <1>2, <1>3, TypesHold, TxnInvariant, PTL DEF Spec

\* What the documentation promises of failures holds for one administrator and
\* one failing step: a failed setup leaves nothing on disk and nothing loaded, a
\* failed remove leaves the installation whole.
THEOREM OneFailureIsUndone ==
    ASSUME Separate, TakeTurns, Alone
    PROVE  Spec => [](FailedInstallLeavesNothing /\ FailedRemoveRestores /\ FailedInstallIsUnloaded)
<1>1. TxnInv => FailedInstallLeavesNothing /\ FailedRemoveRestores
  BY DEF TxnInv, SettledWhole, Gentle, FailedInstallLeavesNothing, FailedRemoveRestores
<1>2. StateOK /\ ManagerAgrees => FailedInstallIsUnloaded
  <2> SUFFICES ASSUME StateOK, ManagerAgrees, \A a \in Admins : admin[a].at = "idle",
                      NEW l \in Setups, ~AnyTarget(l)
               PROVE  loaded[l.unit] # l
    BY DEF FailedInstallIsUnloaded
  <2>1. DropIn(l) \in Range(Targets(l)) /\ l.unit \in Units
    BY TargetsAre DEF OwnFiles, Units
  <2>2. files[DropIn(l)] = Missing
    BY <2>1 DEF AnyTarget, Present
  <2>3. loaded[l.unit] = Missing
    BY <2>1, <2>2 DEF ManagerAgrees, LoadedNow, DropIn
  <2> QED BY <2>3, BootstrapAssumptions
<1> QED BY <1>1, <1>2, TypesHold, TxnInvariant, ManagerIsUpToDate, PTL
=============================================================================
