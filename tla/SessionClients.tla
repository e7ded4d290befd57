---------------------------- MODULE SessionClients ----------------------------
(***************************************************************************)
(* The other users of a CLI session, each a single call: _doctor and        *)
(* _lookup of vaultwarden_secret_source/__init__.py, and the handler of the *)
(* browser fill tool, handle_vaultwarden_browser_fill of browser_fill.py,   *)
(* which fetches one field (_fetch_single_field), leaves the session and    *)
(* then lets a conversation with the browser type the value (FillPromise).  *)
(***************************************************************************)
EXTENDS PinnedStage, Settings

CONSTANTS
    Fills,        \* the call of the fill tool
    Configs,      \* the settings the plugin may have been given
    Names,        \* names of custom fields
    MaxFields     \* bound: custom fields of an item

ASSUME ClientAssumptions ==
    /\ CliTimeout <= Budget
    /\ Configs \subseteq AllSettings
    /\ Names \subseteq [kept : STRING, dropped : STRING]
    /\ MaxFields \in Nat

VARIABLES
    settings,     \* the plugin's settings
    client,       \* who is called
    asked,        \* the item the fill tool is asked for, or Junk
    cache,        \* the CLI's local copy of the vault, or NoCache
    field,        \* the name of the field read for the fill tool, or NoName
    answer,       \* what the session has produced so far
    result,       \* what the fill tool has returned
    effect        \* what it has done to the page

clientVars == <<settings, client, asked, cache, field, answer>>
vars == <<callVars, sessionVars, copy, clientVars, result, effect>>

Clients == {"doctor", "lookup", "lookup in collection", "fill"}
Lookups == {"lookup", "lookup in collection"}

\* A name is divided into what sanitizing keeps, its first 200 printable characters,
\* and what it drops, the unprintable ones and the rest.
NoName == [kept |-> "", dropped |-> ""]

\* The vault as far as a client looks: lookup at how many collections with a
\* proper id match the search, the fill tool at whether the item is in the
\* configured collection and at its custom fields in order.
Fields == [name : Names, filled : BOOLEAN]
FieldLists == UNION {[1..k -> Fields] : k \in 0..MaxFields}
Vaults ==
    IF client = "fill"
    THEN [matches : {0}, member : BOOLEAN, fields : FieldLists]
    ELSE [matches : 0..2, member : {FALSE}, fields : {<<>>}]
NoCache == [matches |-> -1, member |-> FALSE, fields |-> <<>>]

Fill == INSTANCE FillPromise

TypeOK ==
    /\ SessionTypeOK({"collections", "items", "get"})
    /\ StageTypeOK
    /\ settings \in Configs
    /\ client \in Clients
    /\ asked \in Items \cup {Junk}
    /\ cache \in Vaults \cup {NoCache}
    /\ field \in Names \cup {NoName}
    /\ answer \in {"none", "ambiguous", "listed", "checked", "value"}
    /\ Fill!PromiseTypeOK

\* doctor has the time of one command.
Init ==
    /\ settings \in Configs
    /\ client \in Clients
    /\ asked \in IF client = "fill" THEN Items ELSE {Junk}
    /\ now = IF client = "doctor" THEN Budget - CliTimeout ELSE 0
    /\ SessionBegins
    /\ StageInit
    /\ cache = NoCache
    /\ field = NoName
    /\ answer = "none"
    /\ Fill!PromiseInit

(***************************************************************************)
(* Fields of an item                                                        *)
(***************************************************************************)

\* _safe_metadata_text.
SafeText(name) == [name EXCEPT !.dropped = ""]

\* Variant: a name that is not printable as it stands is not listed.
AvailableFieldsPrintable(fields) ==
    {fields[k].name : k \in {j \in DOMAIN fields :
                                fields[j].filled /\ fields[j].name = SafeText(fields[j].name)}}

\* _available_fields: the names lookup lists, sanitized; a name of which nothing is
\* kept is left out.
AvailableFields(fields) ==
    {SafeText(fields[k].name) : k \in {j \in DOMAIN fields : fields[j].filled}} \ {NoName}

\* _field_value: the first field of just that name decides, filled or not.
HasValue(fields, name) ==
    \E k \in DOMAIN fields :
        /\ fields[k].name = name /\ fields[k].filled
        /\ \A j \in 1..(k - 1) : fields[j].name # name

(***************************************************************************)
(* The session                                                              *)
(***************************************************************************)

Quiet == UNCHANGED <<clientVars, result, effect>>

\* The checks before the session.
Checks ==
    CASE client = "doctor" -> DoctorChecks(settings)
      [] client \in Lookups -> LookupChecks(settings)
      [] client = "fill" -> FillChecks(settings, asked)

\* The settings are refused, doctor's checks take too long, or the arguments are
\* refused: of the fill tool, also for want of a browser.
Refuse ==
    /\ pc = "start"
    /\ pc' = "done"
    /\ \/ \E k \in ErrorKinds : FailsWith(Checks, k) /\ error' = k
       \/ client = "doctor" /\ error' = "TIMEOUT"
       \/ client \in Lookups /\ error' = "REF_INVALID"
       \/ /\ client = "fill"
          /\ error' \in {"REF_INVALID", "BINARY_MISSING", "NOT_CONFIGURED", "INTERNAL"}
    /\ UNCHANGED <<callVars, step, left, env, dirs, executable>>
    /\ UNCHANGED copy /\ Quiet

\* doctor stops after the version.
DoctorStops == client = "doctor" /\ Succeeded("version")

\* The session begins when nothing is refused; a digest that is not well formed
\* matches no file.
PrepareSession ==
    /\ pc = "start" => Passes(Checks)
    /\ ~DoctorStops
    /\ Prepare /\ StageStep /\ Quiet
    /\ executable' # executable => settings.digest

\* The vault is whatever other clients have made of it when bw sync copies it.
CliSyncs ==
    /\ pc = "call" /\ step = "sync" /\ child = "running"
    /\ cache = NoCache
    /\ cache' \in Vaults
    /\ UNCHANGED <<callVars, sessionVars, copy, settings, client, asked, field, answer, result, effect>>

CliEnds == (ChildStep \/ CallCutShort) /\ UNCHANGED copy /\ Quiet

\* sync succeeds only when it has copied the vault.
RunsCommand ==
    /\ CallStep /\ UNCHANGED copy /\ Quiet
    /\ outcome' = "ok" /\ step = "sync" => cache # NoCache

\* The next command of a client; the executable is hashed again before it.
Ask(s) ==
    /\ pc = "data"
    /\ Advance(s)
    /\ UNCHANGED <<callVars, env, dirs, executable, error>>
    /\ UNCHANGED copy /\ Quiet

\* The session ends with answer a, about the field of that name if about one.
Conclude(a, name) ==
    /\ answer' = a
    /\ field' = name
    /\ error' = error
    /\ Leave
    /\ UNCHANGED <<copy, settings, client, asked, cache, result, effect>>

\* The session ends with an error of kind k.
Spoil(k) == Abort(k) /\ UNCHANGED copy /\ Quiet

(***************************************************************************)
(* doctor and lookup                                                        *)
(***************************************************************************)

\* The version is the required one, or another.
VersionChecked ==
    /\ DoctorStops
    /\ Conclude("checked", NoName) \/ Spoil("BINARY_MISSING")

AskCollections == client = "lookup in collection" /\ step = "sync" /\ Ask("collections")

\* Output that is no JSON list is an error; unless one collection is found, lookup
\* returns from inside the session.
CollectionsListed ==
    /\ Succeeded("collections")
    /\ \/ Spoil("INTERNAL")
       \/ cache.matches # 1 /\ Conclude("ambiguous", NoName)
       \/ /\ cache.matches = 1
          /\ pc' = "data"
          /\ UNCHANGED <<callVars, step, left, env, dirs, executable, error>>
          /\ UNCHANGED copy /\ Quiet

AskItems ==
    /\ client \in Lookups
    /\ client = "lookup in collection" => step = "collections"
    /\ Ask("items")

ItemsListed ==
    /\ Succeeded("items")
    /\ Conclude("listed", NoName) \/ Spoil("INTERNAL")

(***************************************************************************)
(* The field for the fill tool                                              *)
(***************************************************************************)

AskItem == client = "fill" /\ Ask("get")

\* Variant: the item's collection is not looked at.
ItemUsableAnywhere == TRUE

\* The item is in the configured collection.
ItemUsable == cache.member

\* The custom field the tool was asked for; the deadline is looked at before each.
FieldRead ==
    /\ Succeeded("get")
    /\ \/ Spoil("INTERNAL")
       \/ Spoil("REF_INVALID")
       \/ ItemUsable /\ Late /\ cache.fields # <<>> /\ Spoil("TIMEOUT")
       \/ /\ ItemUsable
          /\ Late => cache.fields = <<>>
          /\ \E name \in Names :
                IF HasValue(cache.fields, name)
                THEN Conclude("value", name) ELSE Spoil("EMPTY_VALUE")

(***************************************************************************)
(* Leaving                                                                  *)
(***************************************************************************)

CloseState == \E ok \in BOOLEAN : LeaveState(ok) /\ UNCHANGED copy /\ Quiet

\* Variant: the result of close is looked at only after an error.
MaskedAlways == error = "none"

\* lookup's early return: what the finally block assigns is not returned any more.
Masked == answer = "ambiguous" /\ error = "none"

\* executable.close(): a failure becomes the error of the call.
CloseStage ==
    /\ \E ok \in BOOLEAN :
          IF Masked
          THEN /\ pc = "leave_stage"
               /\ pc' = "done"
               /\ dirs' = IF ok THEN dirs \ {"stage"} ELSE dirs
               /\ UNCHANGED <<callVars, step, left, env, executable, error>>
          ELSE LeaveStage(ok)
    /\ UNCHANGED copy /\ Quiet

\* Variant: the value is used although the session has ended with an error.
HasFieldAnyway == pc = "done" /\ client = "fill" /\ answer = "value"

\* The session has given the fill tool a value.
HasField == pc = "done" /\ client = "fill" /\ answer = "value" /\ error = "none"

\* The conversation with the browser.
Converse(f) ==
    /\ HasField
    /\ \/ Fill!Touch(f) \/ Fill!Type(f)
       \/ Fill!Succeed(f) \/ Fill!Refuse(f) \/ Fill!Fail(f)
    /\ UNCHANGED <<callVars, sessionVars, copy, clientVars>>

\* Without a value the tool reports the error of the session.
ReportFailure(f) ==
    /\ pc = "done" /\ client = "fill" /\ ~HasField
    /\ Fill!Fail(f)
    /\ UNCHANGED <<callVars, sessionVars, copy, clientVars>>

Tick == SessionTick /\ UNCHANGED copy /\ Quiet

Client ==
    \/ Refuse \/ PrepareSession \/ RunsCommand
    \/ VersionChecked
    \/ AskCollections \/ CollectionsListed \/ AskItems \/ ItemsListed
    \/ AskItem \/ FieldRead
    \/ CloseState \/ CloseStage
    \/ \E f \in Fills : Converse(f) \/ ReportFailure(f)

Next == Client \/ CliEnds \/ CliSyncs \/ Tick

Spec == Init /\ [][Next]_vars

\* The thread runs and time passes; a conversation ends (CdpFill!FillEnds).
FairSpec ==
    /\ Spec /\ WF_vars(Client) /\ WF_vars(Tick)

(***************************************************************************)
(* Properties                                                               *)
(***************************************************************************)

\* A directory of the session that could not be removed is reported, also by a
\* call whose early return the finally block can no longer change: that one has
\* failed for another reason.
LeftoversReported ==
    pc = "done" /\ dirs # {} => error # "none" \/ answer = "ambiguous"

\* The page is touched only after the session is over with everything in order:
\* both directories are gone, the last CLI process is collected.
TypedAfterSession ==
    \A f \in Fills : effect[f] # "none" =>
        pc = "done" /\ error = "none" /\ dirs = {} /\ child = "reaped"

\* The fill tool keeps to the items fetch may read (browser_fill.py:20): in the
\* allowlist, and in the collection in the copy of the vault it read.
TypedWithinBoundary ==
    \A f \in Fills : effect[f] # "none" =>
        asked \in settings.allowlist /\ cache.member

\* A field the fill tool can type, lookup lists, under its sanitized name, although
\* the one goes by the first field of the raw name and the other by every filled
\* field; only a name of which sanitizing keeps nothing is typed and not listed.
FilledFieldsAreListed ==
    answer = "value" /\ field.kept # "" => SafeText(field) \in AvailableFields(cache.fields)

\* When doctor finds nothing wrong, neither lookup nor a fill of an allowlisted
\* item is refused for its settings, although each has checks of its own.
DoctorSpeaksForAll ==
    client = "doctor" /\ answer = "checked" =>
        /\ Passes(LookupChecks(settings))
        /\ \A i \in settings.allowlist : Passes(FillChecks(settings, i))

\* The session is over in time, doctor's within the time of one command.
EndsInTime == now > Slowest + 2 * CleanupTime => pc = "done"

\* Every call returns, whatever the CLI does.
Reports ==
    /\ <>(pc = "done")
    /\ \A f \in Fills : client = "fill" ~> result[f] # "none"
=============================================================================
