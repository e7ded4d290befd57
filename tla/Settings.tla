------------------------------- MODULE Settings -------------------------------
(***************************************************************************)
(* The checks of the plugin's settings.  Each user of a CLI session makes   *)
(* its own, before the session: fetch and doctor through _validate_config,  *)
(* lookup and the fill tool with copies of parts of it.  A check fails with *)
(* a kind of error, and the first that fails decides.                       *)
(***************************************************************************)
EXTENDS Naturals, Sequences

CONSTANT Items      \* identifiers of vault items

Junk == "no UUID"

\* Settings as far as the checks tell them apart: server_url and whether it has a
\* part it must not have, the entries of the allowlist and the items bound in env
\* (Junk for an entry that is not well formed), and for the others whether the
\* value has its form: the digests, the names of the bootstrap variables, their
\* values in the environment, the path of the executable.
AllSettings ==
    [server : {"ok", "missing", "extra"},
     allowlist : SUBSET (Items \cup {Junk}), bound : SUBSET (Items \cup {Junk}),
     collection : BOOLEAN, digest : BOOLEAN, interpreter : BOOLEAN,
     names : BOOLEAN, credentials : BOOLEAN, binary : BOOLEAN]

Check(fails, kind) == [fails |-> fails, kind |-> kind]

\* No check fails.
Passes(checks) == \A k \in DOMAIN checks : ~checks[k].fails

\* The first check that fails is one of this kind.
FailsWith(checks, kind) ==
    \E k \in DOMAIN checks :
        /\ checks[k].fails /\ checks[k].kind = kind
        /\ \A j \in 1..(k - 1) : ~checks[j].fails

\* Variant: the collection is not looked at.
ConfigChecksAnyCollection(s) ==
    << Check(s.server = "missing", "NOT_CONFIGURED"),
       Check(s.server = "extra", "REF_INVALID"),
       Check(s.allowlist = {}, "NOT_CONFIGURED"),
       Check(Junk \in s.allowlist, "REF_INVALID"),
       Check(s.bound = {}, "NOT_CONFIGURED"),
       Check(~(s.bound \subseteq s.allowlist \ {Junk}), "REF_INVALID"),
       Check(~s.digest, "NOT_CONFIGURED"),
       Check(~s.interpreter, "REF_INVALID") >>

\* _validate_config.
ConfigChecks(s) ==
    << Check(s.server = "missing", "NOT_CONFIGURED"),
       Check(s.server = "extra", "REF_INVALID"),
       Check(~s.collection, "NOT_CONFIGURED"),
       Check(s.allowlist = {}, "NOT_CONFIGURED"),
       Check(Junk \in s.allowlist, "REF_INVALID"),
       Check(s.bound = {}, "NOT_CONFIGURED"),
       Check(~(s.bound \subseteq s.allowlist \ {Junk}), "REF_INVALID"),
       Check(~s.digest, "NOT_CONFIGURED"),
       Check(~s.interpreter, "REF_INVALID") >>

\* The bootstrap credentials and the executable's path; every user checks these.
BootstrapChecks(s) ==
    << Check(~s.names, "REF_INVALID"),
       Check(~s.credentials, "NOT_CONFIGURED"),
       Check(~s.binary, "BINARY_MISSING") >>

\* doctor, and fetch.
DoctorChecks(s) == ConfigChecks(s) \o BootstrapChecks(s)

\* lookup needs a server and the credentials; it reports no kind, a kind stands
\* for its failure.
LookupChecks(s) ==
    <<Check(s.server # "ok", "NOT_CONFIGURED")>> \o BootstrapChecks(s)

\* Variant: the allowlist is not looked at.
FillChecksAnyItem(s, item) ==
    << Check(~s.collection, "NOT_CONFIGURED"),
       Check(s.server # "ok", "NOT_CONFIGURED"),
       Check(~s.digest, "NOT_CONFIGURED") >> \o BootstrapChecks(s)

\* The fill tool, asked for an item.
FillChecks(s, item) ==
    << Check(item \notin s.allowlist \ {Junk}, "REF_INVALID"),
       Check(~s.collection, "NOT_CONFIGURED"),
       Check(s.server # "ok", "NOT_CONFIGURED"),
       Check(~s.digest, "NOT_CONFIGURED") >> \o BootstrapChecks(s)
=============================================================================
