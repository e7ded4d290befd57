------------------------------ MODULE MCClients ------------------------------
(* An instance of SessionClients for TLC. *)
EXTENDS SessionClients, TLC
CONSTANTS f, i, j
MCFills == {f}
MCItems == {i, j}
\* A name that is listed as it is, one that is listed like it, one that is not.
MCNames == {[kept |-> "a", dropped |-> ""], [kept |-> "a", dropped |-> "x"],
            [kept |-> "", dropped |-> "x"]}
Good == [server |-> "ok", allowlist |-> {i}, bound |-> {i}, collection |-> TRUE,
         digest |-> TRUE, interpreter |-> TRUE, names |-> TRUE, credentials |-> TRUE,
         binary |-> TRUE]
\* Good settings, and those with one thing wrong.
MCConfigs ==
    {Good} \cup {[Good EXCEPT !.server = s] : s \in {"missing", "extra"}}
    \cup {[Good EXCEPT !.allowlist = a] : a \in {{}, {j}, {i, Junk}}}
    \cup {[Good EXCEPT !.bound = b] : b \in {{}, {i, Junk}}}
    \cup {[Good EXCEPT ![x] = FALSE] :
            x \in {"collection", "digest", "interpreter", "names", "credentials", "binary"}}
=============================================================================
