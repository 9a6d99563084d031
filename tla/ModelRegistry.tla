--------------------------- MODULE ModelRegistry ---------------------------
(***************************************************************************)
(* The model registry, its hot reload and the routing of requests.  The    *)
(* registry is built from the table in the source, a JSON file (or         *)
(* MODEL_REGISTRY_JSON when the file cannot be read) and EXTRA_MODELS.  A  *)
(* middleware looks at the file's modification time before every request   *)
(* and reloads it in place; the hook of a reload asks the upstream behind  *)
(* compat:* for its models.  A request is routed by what the registry says *)
(* when its handler runs, and sent later, after it has waited for its      *)
(* budget.                                                                 *)
(*                                                                         *)
(* A reload runs on the event loop without an await: no request moves      *)
(* while `step' is not "idle".  The file is somebody else's: it may change *)
(* between any two looks.  A model name is <<prefix, native name>>.        *)
(***************************************************************************)
EXTENDS Naturals

CONSTANTS
    Names,        \* the model names that occur
    Builtin,      \* _BUILTIN_REGISTRY: a function from names to entries
    Extra,        \* EXTRA_MODELS
    Contents,     \* what the registry file may hold
    EnvContent,   \* MODEL_REGISTRY_JSON
    EnvFilter,    \* MODEL_LIST_INCLUDE: the names its patterns match
    EnvBase,      \* OPENAI_COMPAT_BASE_URL, or None
    Offered,      \* Offered[b]: the models that the upstream at b lists
    Requests,
    Times,        \* the modification times that the file may have
    Epoch,        \* the time 0, which _registry_mtime starts with
    MaxWrites,    \* bound of the number of changes of the file
    Missing,      \* no readable file
    NotAnObject,  \* an entry that is no JSON object
    None

Template == <<"compat", "*">>
Kinds == {"chat", "embedding", "rerank"}

\* A content is [text, entries, include]; text says whether its bytes are a JSON
\* object ("json"), no UTF-8 ("undecodable"), as of a file that is half written,
\* or anything else ("other").  An entry is the object that merging it into the
\* table gives, [provider, kind, base], or NotAnObject; include is the set of
\* names that _include matches, or None.
Texts == {"json", "undecodable", "other"}

VARIABLES
    file, mtime,     \* the registry file
    up,              \* the process serves requests
    registry,        \* MODEL_REGISTRY
    filter,          \* MODEL_LIST_INCLUDE
    loaded,          \* _registry_mtime
    discovered,      \* _COMPAT_MODEL_IDS
    step, seen,      \* how far the running reload is, and the mtime it saw
    req,             \* what a request is doing, at which endpoint and as what
    writes,          \* number of changes of the file (history)
    built, builtFrom,  \* the content of the registry, and its change (history)
    filterFrom,      \* the change the filter is from (history)
    quiet,           \* the file has not changed since the last look (history)
    past,            \* the contents the file has had, with their times (history)
    reused,          \* it was given a time that it had had before (history)
    strayed,         \* another state of the file than that with the remembered
                     \* time was built from or left its filter (history)
    unhooked         \* the last reload ended before its hook (history)

fileVars == <<file, mtime, writes, past, reused>>
tableVars == <<registry, built, builtFrom>>
filterVars == <<filter, filterFrom>>
loadVars == <<loaded, strayed, unhooked>>
vars == <<fileVars, tableVars, filterVars, loadVars, up, discovered, step, seen, req, quiet>>

---------------------------------------------------------------------------
(* _build_registry.                                                        *)

Providers == {"vertex", "ollama", "foundry", "openai_compatible", "jetbrains"}

\* The validation of an entry; the provider of an entry with an unknown api
\* is none of these.
Valid(e) ==
    /\ e.provider \in Providers
    /\ e.provider \in {"ollama", "foundry", "openai_compatible"} => e.kind = "chat"
    /\ e.provider = "openai_compatible" => e.base # None

\* Names, Contents and Offered cover what occurs; the table in the source is
\* one that the validation accepts.
Bases == DOMAIN Offered \union {None}
Fits(entries) == DOMAIN entries \subseteq Names

ASSUME RegistryAssumption ==
    /\ Missing \notin Contents /\ EnvContent \in Contents
    /\ \A c \in Contents :
          /\ c.text \in Texts /\ Fits(c.entries) /\ c.include \in (SUBSET Names) \union {None}
          /\ \A m \in DOMAIN c.entries : c.entries[m] # NotAnObject => c.entries[m].base \in Bases
    /\ Fits(Builtin) /\ \A m \in DOMAIN Builtin : Valid(Builtin[m]) /\ Builtin[m].base \in Bases
    /\ Extra \subseteq Names /\ EnvFilter \subseteq Names /\ EnvBase \in Bases
    /\ \A b \in DOMAIN Offered : \A u \in Offered[b] : <<"compat", u>> \in Names
    /\ \A S \in SUBSET Names : S # None
    /\ MaxWrites \in Nat /\ Epoch \in Times

\* What open() finds: the file, or the environment's JSON.
Found == IF file = Missing THEN EnvContent ELSE file
FoundFrom == IF file = Missing THEN 0 ELSE writes

Build(c) ==
    [m \in DOMAIN c.entries \union DOMAIN Builtin \union Extra |->
        IF m \in DOMAIN c.entries THEN c.entries[m]
        ELSE IF m \in DOMAIN Builtin THEN Builtin[m]
        ELSE [provider |-> "vertex", kind |-> "embedding", base |-> None]]

Objects(c) == \A m \in DOMAIN c.entries : c.entries[m] # NotAnObject

\* A build that does not raise; the variant does not validate.
LoadableUnchecked(c) == c.text = "json" /\ Objects(c)
Loadable(c) ==
    /\ c.text = "json" /\ Objects(c)
    /\ \A m \in DOMAIN Build(c) : Valid(Build(c)[m])

\* The filters a build may leave behind.  _include is taken while the entries
\* are read: before any of them is validated, but perhaps after one that is no
\* object and ends the build.  (The variant leaves the filter to the second
\* read.)
FiltersUntouched(c) == {filter}
Filters(c) ==
    IF c.text # "json" \/ c.include = None THEN {filter}
    ELSE IF Objects(c) THEN {c.include}
    ELSE {filter, c.include}

---------------------------------------------------------------------------
(* The file, and the life of the process.                                  *)

Out == [at |-> "none"]

\* Types; and every entry in use has passed the validation of _build_registry.
TypeOK ==
    /\ file \in Contents \union {Missing}
    /\ mtime \in Times /\ loaded \in Times /\ seen \in Times
    /\ past \subseteq Contents \X Times
    /\ up \in BOOLEAN
    /\ DOMAIN registry \subseteq Names
    /\ \A m \in DOMAIN registry : Valid(registry[m])
    /\ filter \subseteq Names /\ discovered \subseteq Names
    /\ step \in {"idle", "build", "filter", "hook"}
    /\ \A r \in Requests : req[r].at \in {"none", "arrived", "passed", "routed", "sent"}
    /\ built \in Contents
    /\ writes \in 0..MaxWrites /\ builtFrom \in 0..writes /\ filterFrom \in 0..writes
    /\ quiet \in BOOLEAN /\ reused \in BOOLEAN /\ strayed \in BOOLEAN /\ unhooked \in BOOLEAN

\* The state of the file in its history; a file that is not there has no time.
AtTime(c, t) == IF c = Missing THEN {} ELSE {<<c, t>>}

Init ==
    /\ file \in Contents \union {Missing}
    /\ mtime \in Times
    /\ writes = 0 /\ past = AtTime(file, mtime) /\ reused = FALSE
    /\ up = FALSE
    /\ registry = Builtin /\ built = EnvContent /\ builtFrom = 0
    /\ filter = EnvFilter /\ filterFrom = 0
    /\ loaded = Epoch /\ strayed = FALSE /\ unhooked = FALSE
    /\ discovered = {}
    /\ step = "idle" /\ seen = Epoch /\ quiet = FALSE
    /\ req = [r \in Requests |-> Out]

\* Somebody replaces or removes the file.  The new content has any time: a file
\* that is moved or copied in may bring an old one, that of an earlier content
\* too, and two changes may fall into one tick of the file system's clock.
Write ==
    /\ writes < MaxWrites
    /\ file' \in (Contents \union {Missing}) \ {file}
    /\ IF file' = Missing THEN mtime' = mtime ELSE mtime' \in Times
    /\ writes' = writes + 1
    /\ past' = past \union AtTime(file', mtime')
    /\ reused' = (reused \/ (file' # Missing /\ \E p \in past : p[2] = mtime'))
    /\ quiet' = FALSE
    /\ UNCHANGED <<tableVars, filterVars, loadVars, up, discovered, step, seen, req>>

\* _openai_compatible_base_config: the template's base_url, else the
\* environment's.
Base(reg) ==
    IF Template \in DOMAIN reg /\ reg[Template].base # None
    THEN reg[Template].base ELSE EnvBase

\* What _discover_compat_models may leave of the ids d: those the upstream
\* lists, or d when there is no upstream or it does not answer.
Discoveries(reg, d) ==
    IF Base(reg) = None THEN {d}
    ELSE {d, {<<"compat", u>> : u \in Offered[Base(reg)]}}

\* The import of the module: MODEL_LIST_INCLUDE is assigned after the build and
\* is the environment's, whatever the file's _include.  A file that cannot be
\* loaded stops the start.
Start ==
    /\ ~up /\ Loadable(Found)
    /\ up' = TRUE
    /\ registry' = Build(Found) /\ built' = Found /\ builtFrom' = FoundFrom
    /\ discovered' \in Discoveries(Build(Found), {})
    /\ UNCHANGED <<fileVars, filterVars, loadVars, step, seen, req, quiet>>

\* The process ends; nothing of what it holds is kept.
Crash ==
    /\ up
    /\ up' = FALSE
    /\ registry' = Builtin /\ built' = EnvContent /\ builtFrom' = 0
    /\ filter' = EnvFilter /\ filterFrom' = 0
    /\ loaded' = Epoch /\ strayed' = FALSE /\ unhooked' = FALSE
    /\ discovered' = {}
    /\ step' = "idle" /\ seen' = Epoch /\ quiet' = FALSE
    /\ req' = [r \in Requests |-> Out]
    /\ UNCHANGED fileVars

---------------------------------------------------------------------------
(* _reload_registry_if_changed.                                            *)

Idle == up /\ step = "idle"
Move(r, from, to) == req[r].at = from /\ req' = [req EXCEPT ![r] = to]

\* The request whose middleware is about to look.
Arrive(r) ==
    /\ Idle /\ \A s \in Requests : req[s].at # "arrived"
    /\ Move(r, "none", [at |-> "arrived"])
    /\ UNCHANGED <<fileVars, tableVars, filterVars, loadVars, up, discovered, step, seen, quiet>>

Pass == \E r \in Requests : Move(r, "arrived", [at |-> "passed"])
Fail == \E r \in Requests : Move(r, "arrived", Out)
Return == step' = "idle" /\ seen' = Epoch

\* stat() fails, or the time is that of the registry and not 0.
Unchanged == file = Missing \/ (mtime = loaded /\ mtime # Epoch)

Look ==
    /\ Idle /\ \E r \in Requests : req[r].at = "arrived"
    /\ quiet' = TRUE
    /\ \/ Unchanged /\ Pass /\ UNCHANGED <<step, seen>>
       \/ ~Unchanged /\ step' = "build" /\ seen' = mtime /\ UNCHANGED req
    /\ UNCHANGED <<fileVars, tableVars, filterVars, loadVars, up, discovered>>

SetFilter ==
    \E f \in Filters(Found) :
        /\ filter' = f
        /\ filterFrom' = IF Found.text = "json" /\ f = Found.include THEN FoundFrom ELSE filterFrom

BuildStep ==
    /\ step = "build" /\ Loadable(Found)
    /\ SetFilter
    /\ registry' = Build(Found) /\ built' = Found /\ builtFrom' = FoundFrom
    /\ strayed' = ~quiet
    /\ step' = "filter"
    /\ UNCHANGED <<fileVars, up, loaded, unhooked, discovered, seen, req, quiet>>

\* A file that is refused leaves the registry as it was, but perhaps its filter.
\* A TypeError (an entry that is no object, a provider that is a list) is not
\* caught and fails the request.
RefuseStep ==
    /\ step = "build" /\ ~Loadable(Found)
    /\ SetFilter
    /\ strayed' = (strayed \/ filter' # filter)
    /\ Return
    /\ \/ Pass
       \/ Found.text = "json" /\ Fail
    /\ UNCHANGED <<fileVars, tableVars, up, loaded, unhooked, discovered, quiet>>

\* The UnicodeDecodeError of the second read, a ValueError but no
\* JSONDecodeError, is not caught: it fails the request before the hook.
SecondReadRaises ==
    /\ file # Missing /\ file.text = "undecodable"
    /\ Return /\ unhooked' = TRUE
    /\ Fail
    /\ UNCHANGED filterVars

SecondRead ==
    /\ file # Missing => file.text # "undecodable"
    /\ step' = "hook"
    /\ IF file # Missing /\ file.text = "json" /\ file.include # None
       THEN filter' = file.include /\ filterFrom' = writes
       ELSE UNCHANGED filterVars
    /\ UNCHANGED <<unhooked, seen, req>>

\* The time of the look becomes the registry's; then the second read of the
\* file, for its filter.  The variant takes the time after the build.
FilterStepAt(stamp) ==
    /\ step = "filter"
    /\ loaded' = stamp
    /\ strayed' = (strayed \/ ~quiet)
    /\ SecondRead \/ SecondReadRaises
    /\ UNCHANGED <<fileVars, tableVars, up, discovered, quiet>>

FilterStepLate == FilterStepAt(mtime)
FilterStep == FilterStepAt(seen)

\* _reload_compat_discovery: what was known before is forgotten first.  (The
\* variant keeps it until the upstream answers.)
RediscoverKeeping == discovered' \in Discoveries(registry, discovered)
Rediscover == discovered' \in Discoveries(registry, {})

Hook ==
    /\ step = "hook"
    /\ Return /\ unhooked' = FALSE
    /\ Rediscover
    /\ Pass
    /\ UNCHANGED <<fileVars, tableVars, filterVars, up, loaded, strayed, quiet>>

---------------------------------------------------------------------------
(* Routing.                                                                *)

Allowed == DOMAIN registry \union discovered
Listed == {m \in Allowed : m \in filter}          \* GET /v1/models

Dynamic(p, b) == [provider |-> p, kind |-> "chat", base |-> b]
Refused == [provider |-> None, kind |-> None, base |-> None]

\* _main_model_config, of an allowed name.
Config(m) ==
    IF m[1] = "compat" THEN Dynamic("openai_compatible", Base(registry)) ELSE registry[m]

\* The entry a request for model m at the endpoint of kind k is sent by.
Route(m, k) ==
    CASE k = "chat" /\ m[1] = "ollama" -> Dynamic("ollama", None)
      [] k = "chat" /\ m[1] = "compat" ->
            IF Base(registry) = None THEN Refused
            ELSE Dynamic("openai_compatible", Base(registry))
      [] k = "chat" /\ m[1] = "jetbrains" /\ m \notin Allowed -> Dynamic("jetbrains", None)
      [] OTHER -> IF m \in Allowed /\ Config(m).kind = k THEN Config(m) ELSE Refused

\* The handler, up to its first await.
Resolve(r) ==
    /\ Idle
    /\ \E m \in Names, k \in Kinds :
          Move(r, "passed",
               IF Route(m, k) = Refused THEN Out
               ELSE [at |-> "routed", model |-> m, kind |-> k, entry |-> Route(m, k)])
    /\ UNCHANGED <<fileVars, tableVars, filterVars, loadVars, up, discovered, step, seen, quiet>>

\* After its admission, the request is sent by the entry it was resolved to.
\* The variant asks the registry again.
SendBy(r, entry) ==
    /\ Idle
    /\ Move(r, "routed", [at |-> "sent", kind |-> req[r].kind, by |-> entry])
    /\ UNCHANGED <<fileVars, tableVars, filterVars, loadVars, up, discovered, step, seen, quiet>>

SendAnew(r) ==
    /\ req[r].at = "routed"
    /\ SendBy(r, IF req[r].model \in Allowed THEN Config(req[r].model) ELSE req[r].entry)
Send(r) == req[r].at = "routed" /\ SendBy(r, req[r].entry)

Finish(r) ==
    /\ Idle
    /\ Move(r, "sent", Out)
    /\ UNCHANGED <<fileVars, tableVars, filterVars, loadVars, up, discovered, step, seen, quiet>>

Next ==
    \/ Write \/ Start \/ Crash
    \/ Look \/ BuildStep \/ RefuseStep \/ FilterStep \/ Hook
    \/ \E r \in Requests : Arrive(r) \/ Resolve(r) \/ Send(r) \/ Finish(r)

Spec == Init /\ [][Next]_vars

---------------------------------------------------------------------------
(* Properties.                                                             *)

\* Between requests the file has not changed since the last look, and can be
\* loaded.
Settled ==
    /\ Idle /\ quiet /\ file # Missing /\ Loadable(file)
    /\ \A r \in Requests : req[r].at # "arrived"

\* The registry and the filter are those of the file.
Fresh ==
    /\ registry = Build(file)
    /\ file.include # None => filter = file.include

\* Two contents of the file had the same modification time.
Twice == \E p, q \in past : p[2] = q[2] /\ p[1] # q[1]

\* A look that the file has not changed since left the registry and the filter
\* of its content, however often the file changed between the stat, the build
\* and the second read of the reloads before, and whether its times grow or run
\* back - unless it bears a time for the second time, and either that was the
\* time of another content, or the reload that remembers this time, or a refused
\* one after it, has read something else meanwhile.
FreshWhenQuiet == Settled => Fresh \/ (reused /\ (Twice \/ strayed))

\* What the docstring of _reload_registry_if_changed promises without exception,
\* of a file whose every content has a time of its own: a file that has changed
\* is taken, without a restart.
ChangeIsTaken == Settled /\ ~Twice => Fresh

\* A reload reads the file twice and a refused file leaves its filter behind;
\* still the filter is never older than the registry it goes with, from the
\* first reload on that saw a time other than 0 - unless the file was gone when
\* the reload opened it and MODEL_REGISTRY_JSON, read in its place, was refused.
FilterNeverOlder ==
    (Idle /\ loaded # Epoch /\ built.include # None) =>
        \/ filterFrom >= builtFrom
        \/ filterFrom = 0 /\ ~Loadable(EnvContent)

\* Between requests, every compat model that GET /v1/models shows beyond the
\* registry's own is one that the upstream a chat request for it would be sent
\* to has listed, whatever the reloads changed about the upstream - unless the
\* last reload that took a registry found a file of no UTF-8 when it read for
\* the second time, and ended there.
ListedIsOffered ==
    Idle /\ ~unhooked => \A m \in Listed \ DOMAIN registry :
        /\ Route(m, "chat") # Refused
        /\ m[2] \in Offered[Route(m, "chat").base]

\* A request goes out by an entry of its endpoint's kind, and to a compatible
\* upstream only with a base URL, though the registry may have been reloaded
\* while it waited.
SentAsItsKind ==
    \A r \in Requests : req[r].at = "sent" =>
        /\ req[r].by.kind = req[r].kind
        /\ req[r].by.provider = "openai_compatible" => req[r].by.base # None

=============================================================================
