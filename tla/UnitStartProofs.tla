---------------------------- MODULE UnitStartProofs ----------------------------
(***************************************************************************)
(* How far the drop-in and the script do keep the services of a host apart, *)
(* for any services, names and credentials: what a service runs with is its *)
(* own, or of a service with the same runtime directory, and two services   *)
(* have the same only when the dashes of the name fall differently into     *)
(* unit and profile.                                                        *)
(***************************************************************************)
EXTENDS UnitStart, SequenceTheorems, TLAPS

\* Names are sequences of parts, and no two services have both names in common
\* (setup refuses to replace a drop-in or a script).
NamesOK ==
    /\ \E Parts : Unit \in [Services -> Seq(Parts)] /\ Profile \in [Services -> Seq(Parts)]
    /\ \A s, t \in Services : Unit[s] = Unit[t] /\ Profile[s] = Profile[t] => s = t

\* The services with the runtime directory of s.
Sharing(s) == {t \in Services : RuntimeDirectory(t) = RuntimeDirectory(s)}

\* Whose values the file and the environment of a service may hold.
SharedValues(s) == Sharing(s) \cup {"unset", "empty"}

LinesInv ==
    \A s \in Services, n \in CREDENTIAL_NAMES :
        lines[RuntimeDirectory(s)][n] \in SharedValues(s)

EnvironInv ==
    \A s \in Services, n \in CREDENTIAL_NAMES : environ[s][n] \in SharedValues(s)

\* Whose credentials a service runs with besides its own: those of services whose
\* profile has another number of dashes.
MixedOnlyByDashes ==
    \A s \in Services, n \in CREDENTIAL_NAMES :
        environ[s][n] \in {s, "unset", "empty"}
            \cup {t \in Sharing(s) : Len(Profile[t]) # Len(Profile[s])}

\* The state of the services keeps its types, for any services and names.
THEOREM UnitTypeCorrect == Spec => []TypeOK
<1>1. Init => TypeOK
  BY DEF Init, TypeOK, NoLines, Values
<1>2. TypeOK /\ [Next]_vars => TypeOK'
  <2> SUFFICES ASSUME TypeOK, [Next]_vars PROVE TypeOK'
    OBVIOUS
  <2> USE DEF TypeOK, RuntimeDirectories, Values, NoLines
  <2>1. CASE UNCHANGED vars
    BY <2>1 DEF vars
  <2>2. ASSUME NEW s \in Services, Start(s) PROVE TypeOK'
    BY <2>2 DEF Start
  <2>3. ASSUME NEW s \in Services, Truncate(s) PROVE TypeOK'
    BY <2>3 DEF Truncate
  <2>4. ASSUME NEW s \in Services, WriteLine(s) PROVE TypeOK'
    <3>1. PICK n \in left[s], v \in {s, "empty"} :
            /\ left' = [left EXCEPT ![s] = @ \ {n}]
            /\ lines' = [lines EXCEPT ![RuntimeDirectory(s)][n] = v]
      BY <2>4 DEF WriteLine
    <3>2. n \in CREDENTIAL_NAMES
      OBVIOUS
    <3>3. lines' \in [RuntimeDirectories -> [CREDENTIAL_NAMES -> Values]]
      BY <3>1, <3>2
    <3>4. left' \in [Services -> SUBSET CREDENTIAL_NAMES]
      BY <3>1
    <3> QED
      BY <2>4, <3>3, <3>4 DEF WriteLine
  <2>5. ASSUME NEW s \in Services, Load(s) PROVE TypeOK'
    BY <2>5 DEF Load
  <2>6. ASSUME NEW s \in Services, Stop(s) PROVE TypeOK'
    BY <2>6 DEF Stop
  <2> QED
    BY <2>1, <2>2, <2>3, <2>4, <2>5, <2>6 DEF Next
<1> QED
  BY <1>1, <1>2, PTL DEF Spec

\* Joined names are equal in the parts when the second parts are equally long.
LEMMA JoinedAlike ==
    ASSUME NEW S, NEW u \in Seq(S), NEW v \in Seq(S), NEW p \in Seq(S), NEW q \in Seq(S),
           u \o p = v \o q, Len(p) = Len(q)
    PROVE  u = v /\ p = q
<1>1. Len(u) \in Nat /\ Len(v) \in Nat /\ Len(p) \in Nat
  BY LenProperties
<1>2. Len(u) = Len(v)
  <2>1. Len(u \o p) = Len(u) + Len(p) /\ Len(v \o q) = Len(v) + Len(q)
    BY ConcatProperties
  <2> QED BY <1>1, <2>1
<1>3. ASSUME NEW i \in 1..Len(u) PROVE u[i] = v[i]
  <2>1. i <= Len(u) + Len(p) /\ i \in 1..(Len(u) + Len(p))
    BY <1>1
  <2>2. (u \o p)[i] = u[i] /\ (v \o q)[i] = v[i]
    BY <1>1, <1>2, <2>1, ConcatProperties
  <2> QED BY <2>2
<1>4. ASSUME NEW i \in 1..Len(p) PROVE p[i] = q[i]
  <2>1. /\ Len(u) + i \in 1..(Len(u) + Len(p)) /\ ~(Len(u) + i <= Len(u))
        /\ Len(u) + i - Len(u) = i
    BY <1>1
  <2>2. (u \o p)[Len(u) + i] = p[i] /\ (v \o q)[Len(u) + i] = q[i]
    BY <1>1, <1>2, <2>1, ConcatProperties
  <2> QED BY <2>2
<1> QED BY <1>2, <1>3, <1>4, SeqEqual

\* Services that share a directory have profiles with different numbers of dashes.
LEMMA SharingIsByDashes ==
    ASSUME NamesOK, NEW s \in Services, NEW t \in Sharing(s), t # s
    PROVE  Len(Profile[t]) # Len(Profile[s])
<1>1. PICK Parts : Unit \in [Services -> Seq(Parts)] /\ Profile \in [Services -> Seq(Parts)]
  BY DEF NamesOK
<1>2. t \in Services /\ Unit[t] \o Profile[t] = Unit[s] \o Profile[s]
  BY DEF Sharing, RuntimeDirectory
<1>3. SUFFICES ASSUME Len(Profile[t]) = Len(Profile[s]) PROVE FALSE
  OBVIOUS
<1>4. Unit[t] = Unit[s] /\ Profile[t] = Profile[s]
  <2>1. /\ Unit[t] \in Seq(Parts) /\ Unit[s] \in Seq(Parts)
        /\ Profile[t] \in Seq(Parts) /\ Profile[s] \in Seq(Parts)
    BY <1>1, <1>2
  <2> QED BY <1>2, <1>3, <2>1, JoinedAlike
<1> QED BY <1>2, <1>4 DEF NamesOK

\* A file holds values of the services that share its directory.
LEMMA LinesStep ==
    ASSUME TypeOK, LinesInv, EnvironInv, [Next]_vars
    PROVE  LinesInv' /\ EnvironInv'
<1> USE DEF TypeOK, RuntimeDirectories, NoLines, LinesInv, EnvironInv, SharedValues
<1>1. CASE UNCHANGED vars
  BY <1>1 DEF vars, Sharing, RuntimeDirectory
<1>2. ASSUME NEW s \in Services, Start(s) PROVE LinesInv' /\ EnvironInv'
  BY <1>2 DEF Start
<1>3. ASSUME NEW s \in Services, Truncate(s) PROVE LinesInv' /\ EnvironInv'
  BY <1>3 DEF Truncate
<1>4. ASSUME NEW s \in Services, WriteLine(s) PROVE LinesInv' /\ EnvironInv'
  <2>1. PICK n \in left[s], v \in {s, "empty"} :
          lines' = [lines EXCEPT ![RuntimeDirectory(s)][n] = v]
    BY <1>4 DEF WriteLine
  <2>2. ASSUME NEW t \in Services, NEW m \in CREDENTIAL_NAMES
        PROVE  lines'[RuntimeDirectory(t)][m] \in SharedValues(t)
    <3>1. CASE RuntimeDirectory(t) = RuntimeDirectory(s)
      <4>1. v \in SharedValues(t)
        BY <3>1 DEF Sharing
      <4> QED BY <2>1, <3>1, <4>1
    <3>2. CASE RuntimeDirectory(t) # RuntimeDirectory(s)
      BY <2>1, <3>2
    <3> QED BY <3>1, <3>2
  <2> QED BY <1>4, <2>2 DEF WriteLine
<1>5. ASSUME NEW s \in Services, Load(s) PROVE LinesInv' /\ EnvironInv'
  BY <1>5 DEF Load
<1>6. ASSUME NEW s \in Services, Stop(s) PROVE LinesInv' /\ EnvironInv'
  BY <1>6 DEF Stop
<1> QED BY <1>1, <1>2, <1>3, <1>4, <1>5, <1>6 DEF Next

\* However services start, stop and restart next to each other, one runs with its
\* own credentials, or with those of a service of the same runtime directory whose
\* profile has another number of dashes: services whose profiles have equally many
\* never mix.
THEOREM OnlyDashesMix ==
    ASSUME NamesOK
    PROVE  Spec => []MixedOnlyByDashes
<1>1. Init => LinesInv /\ EnvironInv
  <2> SUFFICES ASSUME Init, NEW s \in Services, NEW n \in CREDENTIAL_NAMES
               PROVE  lines[RuntimeDirectory(s)][n] = "unset" /\ environ[s][n] = "unset"
    BY DEF LinesInv, EnvironInv, SharedValues
  <2> QED BY DEF Init, NoLines, RuntimeDirectories
<1>2. TypeOK /\ LinesInv /\ EnvironInv /\ [Next]_vars => LinesInv' /\ EnvironInv'
  BY LinesStep
<1>3. EnvironInv => MixedOnlyByDashes
  BY SharingIsByDashes DEF EnvironInv, SharedValues, MixedOnlyByDashes
<1> QED BY <1>1, <1>2, <1>3, UnitTypeCorrect, PTL DEF Spec
=============================================================================
