------------------------------ MODULE UnitStart ------------------------------
(***************************************************************************)
(* How a service gets its bootstrap credentials when it starts, by the      *)
(* drop-in and the script that scripts/hermes_vaultwarden_bootstrap.py      *)
(* installs (render_drop_in, render_env_script): systemd creates the        *)
(* runtime directory, ExecStartPre runs the script, which truncates the     *)
(* file env in it and appends one line per credential, and EnvironmentFile  *)
(* loads the file for the service.  Several services of a host start, stop  *)
(* and restart next to each other, under the same account.                  *)
(***************************************************************************)
EXTENDS Sequences

CONSTANTS
    Services,           \* the services set up, each with a unit and a profile of its own
    Unit, Profile,      \* their names, as the parts between dashes
    CREDENTIAL_NAMES

VARIABLES
    state,      \* where each service stands
    left,       \* the credentials its script has still to write
    existing,   \* the runtime directories that exist
    lines,      \* in each directory's file: whose value a credential has
    environ     \* the same for the environment of each service

vars == <<state, left, existing, lines, environ>>

\* _runtime_directory_name: unit and profile, joined by a dash.
RuntimeDirectory(s) == Unit[s] \o Profile[s]

RuntimeDirectories == {RuntimeDirectory(s) : s \in Services}

\* For each credential the service whose value it is; a credential that cannot be
\* read leaves an empty value.
Values == Services \cup {"unset", "empty"}
NoLines == [n \in CREDENTIAL_NAMES |-> "unset"]

TypeOK ==
    /\ state \in [Services -> {"inactive", "prepared", "writing", "running"}]
    /\ left \in [Services -> SUBSET CREDENTIAL_NAMES]
    /\ existing \subseteq RuntimeDirectories
    /\ lines \in [RuntimeDirectories -> [CREDENTIAL_NAMES -> Values]]
    /\ environ \in [Services -> [CREDENTIAL_NAMES -> Values]]

Init ==
    /\ state = [s \in Services |-> "inactive"]
    /\ left = [s \in Services |-> {}]
    /\ existing = {}
    /\ lines = [d \in RuntimeDirectories |-> NoLines]
    /\ environ = [s \in Services |-> NoLines]

\* LoadCredentialEncrypted, RuntimeDirectory: a directory that exists is kept.
Start(s) ==
    /\ state[s] = "inactive"
    /\ state' = [state EXCEPT ![s] = "prepared"]
    /\ existing' = existing \cup {RuntimeDirectory(s)}
    /\ UNCHANGED <<left, lines, environ>>

\* The script empties the file.
Truncate(s) ==
    /\ state[s] = "prepared" /\ RuntimeDirectory(s) \in existing
    /\ state' = [state EXCEPT ![s] = "writing"]
    /\ left' = [left EXCEPT ![s] = CREDENTIAL_NAMES]
    /\ lines' = [lines EXCEPT ![RuntimeDirectory(s)] = NoLines]
    /\ UNCHANGED <<existing, environ>>

\* The script appends a line; set -e does not notice that cat fails inside the
\* argument of printf.
WriteLine(s) ==
    /\ state[s] = "writing" /\ RuntimeDirectory(s) \in existing
    /\ \E n \in left[s], v \in {s, "empty"} :
          /\ left' = [left EXCEPT ![s] = @ \ {n}]
          /\ lines' = [lines EXCEPT ![RuntimeDirectory(s)][n] = v]
    /\ UNCHANGED <<state, existing, environ>>

\* EnvironmentFile: a missing file is passed over.
Load(s) ==
    /\ state[s] = "writing" /\ left[s] = {}
    /\ state' = [state EXCEPT ![s] = "running"]
    /\ environ' = [environ EXCEPT ![s] =
          IF RuntimeDirectory(s) \in existing THEN lines[RuntimeDirectory(s)] ELSE NoLines]
    /\ UNCHANGED <<left, existing, lines>>

\* The script fails to write, or the service ends: systemd removes the directory.
Stop(s) ==
    /\ state[s] # "inactive"
    /\ state' = [state EXCEPT ![s] = "inactive"]
    /\ left' = [left EXCEPT ![s] = {}]
    /\ existing' = existing \ {RuntimeDirectory(s)}
    /\ lines' = [lines EXCEPT ![RuntimeDirectory(s)] = NoLines]
    /\ environ' = [environ EXCEPT ![s] = NoLines]

Next == \E s \in Services : Start(s) \/ Truncate(s) \/ WriteLine(s) \/ Load(s) \/ Stop(s)

Spec == Init /\ [][Next]_vars

(***************************************************************************)
(* Properties                                                               *)
(***************************************************************************)

\* A service runs with no other service's credentials: the runtime directory is
\* one that only its unit owns (docs/systemd-bootstrap.md:57), because unit and
\* profile make its name unique (hermes_vaultwarden_bootstrap.py:74-76).
OnlyOwnCredentials ==
    \A s \in Services, n \in CREDENTIAL_NAMES : environ[s][n] \in {s, "unset", "empty"}
=============================================================================
