----------------------------- MODULE PinnedStage -----------------------------
(***************************************************************************)
(* The bytes of the executable in a session: _open_verified_fd of           *)
(* vaultwarden_secret_source/__init__.py copies the configured file chunk   *)
(* by chunk while an upgrade may be writing it, hashes the copy, and only   *)
(* the copy is ever run.  The module adds the copy to the steps of          *)
(* BwSession.                                                               *)
(***************************************************************************)
EXTENDS BwSession

VARIABLE copy       \* for each chunk of the staged file, the build it is of

Builds == {"pinned", "other"}
Parts == 1..Chunks

StageTypeOK == copy \in [Parts -> Builds \cup {"none"}]

StageInit == copy = [k \in Parts |-> "none"]

\* Variant: the digest is taken of the file at binary_path, which may be another
\* build's when its chunks are read for that.
DigestMatchesSource == \A k \in Parts : \E b \in Builds : b = "pinned"

\* The digest of the copy is the configured one.
DigestMatches == \A k \in Parts : copy[k] = "pinned"

\* A chunk of the file is read, after whatever upgrades have written to it by
\* then, and written to the copy.
CopyChunk ==
    \E b \in Builds : copy' = [copy EXCEPT ![Chunks - left] = b]

\* What a step of the session does to the copy: while the executable is staged the
\* chunks are copied, and it is opened when the digest matches.
StageStep ==
    /\ IF pc = "io" /\ step = "stage" /\ pc' = "chunk"
       THEN CopyChunk ELSE copy' = copy
    /\ executable' # executable => DigestMatches

\* A process runs nothing but the pinned build, although the file may be written
\* to between any two of the reads and at any time after.
RunsPinnedBuild == child # "none" => \A k \in Parts : copy[k] = "pinned"
=============================================================================
