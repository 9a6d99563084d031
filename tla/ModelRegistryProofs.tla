------------------------ MODULE ModelRegistryProofs ------------------------
(***************************************************************************)
(* What ModelRegistry promises, for any contents of the file, any number   *)
(* of changes and any requests.                                            *)
(***************************************************************************)
EXTENDS ModelRegistry, TLAPS

---------------------------------------------------------------------------
(* The inductive invariant.                                                *)

\* What TypeOK does not say: an entry names a known upstream, and the names
\* that were discovered are those of compat models.
Types ==
    /\ TypeOK
    /\ req = [r \in Requests |-> req[r]]
    /\ \A m \in DOMAIN registry : registry[m].base \in Bases
    /\ \A m \in discovered : m[1] = "compat"

\* Every time that a reload remembers is one the file has had; so while no time
\* has come back, the file has rested if it still has the time of the look.
Stamps ==
    /\ file # Missing => <<file, mtime>> \in past
    /\ step # "idle" => \E p \in past : p[2] = seen
    /\ loaded # Epoch => \E p \in past : p[2] = loaded
    /\ step = "hook" => loaded = seen
    /\ ~up => ~quiet /\ step = "idle" /\ loaded = Epoch
    /\ quiet /\ step # "idle" => seen = mtime /\ file # Missing
    /\ ~reused /\ step # "idle" /\ file # Missing /\ seen = mtime => quiet
    /\ ~reused /\ step = "build" /\ loaded # Epoch => loaded # mtime

\* The registry and the filter are those of what was built.
Whole == /\ registry = Build(built)
         /\ built.include # None => filter = built.include

\* Unless something else was read, they are so and what was built had the time
\* that is remembered; a time that has not come back is that of the file.
ReadInv ==
    /\ step = "filter" => Whole /\ Loadable(built) /\ (~strayed => <<built, seen>> \in past)
    /\ step = "hook" /\ ~strayed => Whole /\ <<built, loaded>> \in past
    /\ up /\ step \in {"idle", "build"} /\ ~strayed /\ loaded # Epoch =>
          Whole /\ <<built, loaded>> \in past
    /\ step \in {"filter", "hook"} /\ quiet => built = file /\ ~strayed
    /\ ~reused /\ Idle /\ loaded = mtime /\ loaded # Epoch /\ file # Missing =>
          Whole /\ built = file

\* A look that nothing has followed has left the file's time or its content.
SettledInv == Settled => Fresh \/ (loaded = mtime /\ loaded # Epoch)

\* The filter of a registry that has been reloaded, or is about to be.
FilterInv ==
    (loaded # Epoch \/ step \in {"filter", "hook"}) /\ built.include # None =>
        \/ filterFrom >= builtFrom
        \/ filterFrom = 0 /\ ~Loadable(EnvContent)

\* What was discovered comes from the upstream that the registry names, except
\* between the exchange of the registry and the hook, and without a hook.
DiscoveryInv ==
    up /\ ~unhooked /\ step \in {"idle", "build"} => discovered \in Discoveries(registry, {})

\* An entry of kind k that can be sent to.
Usable(e, k) == e.kind = k /\ (e.provider = "openai_compatible" => e.base # None)

RoutedInv ==
    \A r \in Requests :
        /\ req[r].at = "routed" => Usable(req[r].entry, req[r].kind)
        /\ req[r].at = "sent" => Usable(req[r].by, req[r].kind)

IInv ==
    Types /\ Stamps /\ ReadInv /\ SettledInv /\ FilterInv /\ DiscoveryInv /\ RoutedInv

---------------------------------------------------------------------------
(* What a build and a discovery give.                                      *)

LEMMA FoundFacts ==
  ASSUME TypeOK
  PROVE  /\ Found \in Contents /\ FoundFrom \in 0..writes
         /\ Fits(Found.entries) /\ Found.include \in (SUBSET Names) \union {None}
BY RegistryAssumption DEF TypeOK, Found, FoundFrom

\* A build that does not raise gives entries of known names that can be sent to.
LEMMA BuildFacts ==
  ASSUME NEW c \in Contents, Loadable(c)
  PROVE  /\ DOMAIN Build(c) \subseteq Names
         /\ \A m \in DOMAIN Build(c) : Valid(Build(c)[m]) /\ Build(c)[m].base \in Bases
<1>1. DOMAIN Build(c) = DOMAIN c.entries \union DOMAIN Builtin \union Extra
  BY DEF Build
<1>2. \A m \in DOMAIN Build(c) : Build(c)[m].base \in Bases
  <2> SUFFICES ASSUME NEW m \in DOMAIN Build(c) PROVE Build(c)[m].base \in Bases
    OBVIOUS
  <2>1. CASE m \in DOMAIN c.entries
    BY <1>1, <2>1, RegistryAssumption DEF Build, Loadable, Objects
  <2>2. CASE m \notin DOMAIN c.entries /\ m \in DOMAIN Builtin
    BY <1>1, <2>2, RegistryAssumption DEF Build
  <2>3. CASE m \notin DOMAIN c.entries /\ m \notin DOMAIN Builtin
    BY <1>1, <2>3 DEF Build, Bases
  <2> QED
    BY <2>1, <2>2, <2>3
<1> QED
  BY <1>1, <1>2, RegistryAssumption DEF Fits, Loadable

\* The filters that reading a content may leave behind.
LEMMA FilterFacts ==
  ASSUME TypeOK, SetFilter
  PROVE  /\ filter' \in SUBSET Names /\ filterFrom' \in 0..writes
         /\ \/ filterFrom' = filterFrom \/ filterFrom' = FoundFrom
         /\ Loadable(Found) /\ Found.include # None => filter' = Found.include /\ filterFrom' = FoundFrom
<1>1. PICK f \in Filters(Found) :
        /\ filter' = f
        /\ filterFrom' = IF Found.text = "json" /\ f = Found.include THEN FoundFrom ELSE filterFrom
  BY DEF SetFilter
<1>2. f \in {filter, Found.include} /\ (f = Found.include /\ f # filter => Found.include # None)
  BY <1>1 DEF Filters
<1>3. f \in SUBSET Names
  BY <1>2, FoundFacts DEF TypeOK
<1>4. Loadable(Found) /\ Found.include # None => f = Found.include /\ Found.text = "json"
  BY <1>1 DEF Filters, Loadable
<1>5. filterFrom \in 0..writes
  BY DEF TypeOK
<1> QED
  BY <1>1, <1>3, <1>4, <1>5, FoundFacts

\* Discovered names are those of compat models.
LEMMA DiscoveryFacts ==
  ASSUME NEW reg, NEW d, Base(reg) \in Bases,
         d \subseteq Names, \A m \in d : m[1] = "compat",
         NEW e \in Discoveries(reg, d)
  PROVE  e \subseteq Names /\ \A m \in e : m[1] = "compat"
<1>1. CASE e = d
  BY <1>1
<1>2. CASE Base(reg) # None /\ e = {<<"compat", u>> : u \in Offered[Base(reg)]}
  <2>1. Base(reg) \in DOMAIN Offered
    BY <1>2 DEF Bases
  <2> QED
    BY <1>2, <2>1, RegistryAssumption
<1> QED
  BY <1>1, <1>2 DEF Discoveries

LEMMA BaseFacts ==
  ASSUME NEW reg, \A m \in DOMAIN reg : reg[m].base \in Bases
  PROVE  Base(reg) \in Bases
BY RegistryAssumption DEF Base

---------------------------------------------------------------------------
(* Every step keeps the types.                                             *)

LEMMA InitTypes == Init => Types /\ Stamps
<1> SUFFICES ASSUME Init PROVE Types /\ Stamps
  OBVIOUS
<1>1. /\ DOMAIN registry \subseteq Names
      /\ \A m \in DOMAIN registry : Valid(registry[m]) /\ registry[m].base \in Bases
  BY RegistryAssumption DEF Init, Fits
<1>2. filter \subseteq Names /\ discovered \subseteq Names /\ built \in Contents
  BY RegistryAssumption DEF Init
<1>3. req = [r \in Requests |-> req[r]] /\ \A r \in Requests : req[r].at = "none"
  BY DEF Init, Out
<1>4. MaxWrites \in Nat /\ Epoch \in Times
  BY RegistryAssumption
<1>5. /\ file \in Contents \union {Missing} /\ mtime \in Times /\ writes = 0
      /\ past = AtTime(file, mtime) /\ loaded = Epoch /\ seen = Epoch
      /\ up = FALSE /\ step = "idle" /\ builtFrom = 0 /\ filterFrom = 0 /\ discovered = {}
      /\ quiet = FALSE /\ reused = FALSE /\ strayed = FALSE /\ unhooked = FALSE
  BY DEF Init
<1>6. /\ writes \in 0..MaxWrites /\ builtFrom \in 0..writes /\ filterFrom \in 0..writes
  BY <1>4, <1>5
<1>7. past \subseteq Contents \X Times /\ (file # Missing => <<file, mtime>> \in past)
  BY <1>5 DEF AtTime
<1>8. TypeOK
  BY <1>1, <1>2, <1>3, <1>4, <1>5, <1>6, <1>7 DEF TypeOK
<1> QED
  BY <1>1, <1>3, <1>5, <1>7, <1>8 DEF Types, Stamps

\* A request that moves keeps the function.
LEMMA MoveFacts ==
  ASSUME Types, NEW r \in Requests, NEW from, NEW to, Move(r, from, to)
  PROVE  /\ req[r].at = from /\ req' = [s \in Requests |-> req'[s]]
         /\ req'[r] = to /\ \A s \in Requests \ {r} : req'[s] = req[s]
BY DEF Types, Move

\* What moves requests, and what the others do.
LEMMA TypesStep == Types /\ Stamps /\ [Next]_vars => Types'
<1> SUFFICES ASSUME Types, Stamps, [Next]_vars PROVE Types'
  OBVIOUS
<1> USE DEF fileVars, tableVars, filterVars, loadVars
<1> DEFINE ReqTypes == /\ req = [r \in Requests |-> req[r]]
                       /\ \A r \in Requests : req[r].at \in {"none", "arrived", "passed", "routed", "sent"}
<1>1. ReqTypes
  BY DEF Types, TypeOK
<1>2. ASSUME NEW r \in Requests, NEW from, NEW to, Move(r, from, to),
             to.at \in {"none", "arrived", "passed", "routed", "sent"}
      PROVE  ReqTypes'
  <2>1. /\ req' = [s \in Requests |-> req'[s]]
        /\ \A s \in Requests : req'[s] = to \/ req'[s] = req[s]
    BY <1>2, MoveFacts
  <2> QED
    BY <1>1, <1>2, <2>1
<1>3. Pass \/ Fail => ReqTypes'
  BY <1>2 DEF Pass, Fail, Out
<1>4. UNCHANGED req => ReqTypes'
  BY <1>1
<1> HIDE DEF ReqTypes
<1>5. CASE UNCHANGED vars
  BY <1>5, <1>4 DEF vars, Types, TypeOK, ReqTypes
<1>6. CASE Write
  <2>1. /\ mtime' \in Times /\ writes' \in 0..MaxWrites
        /\ file' \in Contents \union {Missing}
    BY <1>6, RegistryAssumption DEF Write, Types, TypeOK
  <2>6. quiet' \in BOOLEAN /\ reused' \in BOOLEAN
    BY <1>6 DEF Write
  <2>2. /\ writes \in Nat /\ writes' = writes + 1
        /\ builtFrom \in 0..writes /\ filterFrom \in 0..writes
    BY <1>6, RegistryAssumption DEF Write, Types, TypeOK
  <2>3. builtFrom \in 0..writes' /\ filterFrom \in 0..writes'
    BY <2>2
  <2>4. past' \subseteq Contents \X Times
    BY <1>6, <2>1 DEF Write, AtTime, Types, TypeOK
  <2>5. UNCHANGED <<registry, built, builtFrom, filter, filterFrom, loaded, strayed, unhooked,
                    up, discovered, step, seen, req>>
    BY <1>6 DEF Write
  <2> QED
    BY <2>1, <2>3, <2>4, <2>5, <2>6, <1>4 DEF Types, TypeOK, ReqTypes
<1>7. CASE Start
  <2>1. Found \in Contents /\ FoundFrom \in 0..writes
    BY FoundFacts DEF Types
  <2>2. /\ DOMAIN registry' \subseteq Names
        /\ \A m \in DOMAIN registry' : Valid(registry'[m]) /\ registry'[m].base \in Bases
    BY <1>7, <2>1, BuildFacts DEF Start
  <2>3. discovered' \subseteq Names /\ \A m \in discovered' : m[1] = "compat"
    BY <1>7, <2>2, BaseFacts, DiscoveryFacts DEF Start
  <2> QED
    BY <1>7, <2>1, <2>2, <2>3, <1>4, RegistryAssumption DEF Start, Types, TypeOK, ReqTypes
<1>8. CASE Crash
  <2>1. ReqTypes'
    BY <1>8 DEF Crash, ReqTypes, Out
  <2>2. /\ DOMAIN registry' \subseteq Names
        /\ \A m \in DOMAIN registry' : Valid(registry'[m]) /\ registry'[m].base \in Bases
    BY <1>8, RegistryAssumption DEF Crash, Fits
  <2>3. writes \in Nat /\ 0 \in 0..writes
    BY RegistryAssumption DEF Types, TypeOK
  <2>4. /\ UNCHANGED <<file, mtime, writes, past, reused>> /\ step' = "idle" /\ up' = FALSE
        /\ built' = EnvContent /\ builtFrom' = 0 /\ filter' = EnvFilter /\ filterFrom' = 0
        /\ loaded' = Epoch /\ seen' = Epoch /\ strayed' = FALSE /\ unhooked' = FALSE
        /\ discovered' = {} /\ quiet' = FALSE
    BY <1>8 DEF Crash
  <2> QED
    BY <2>1, <2>2, <2>3, <2>4, RegistryAssumption DEF Types, TypeOK, ReqTypes
<1>9. CASE Look
  BY <1>9, <1>3, <1>4 DEF Look, Types, TypeOK, ReqTypes
<1>10. CASE BuildStep
  <2>1. Found \in Contents /\ FoundFrom \in 0..writes
    BY FoundFacts DEF Types
  <2>2. /\ DOMAIN registry' \subseteq Names
        /\ \A m \in DOMAIN registry' : Valid(registry'[m]) /\ registry'[m].base \in Bases
    BY <1>10, <2>1, BuildFacts DEF BuildStep
  <2>3. filter' \in SUBSET Names /\ filterFrom' \in 0..writes
    BY <1>10, FilterFacts DEF BuildStep, Types
  <2> QED
    BY <1>10, <2>1, <2>2, <2>3, <1>4 DEF BuildStep, Types, TypeOK, ReqTypes
<1>11. CASE RefuseStep
  <2>1. filter' \in SUBSET Names /\ filterFrom' \in 0..writes
    BY <1>11, FilterFacts DEF RefuseStep, Types
  <2> QED
    BY <1>11, <2>1, <1>3, RegistryAssumption DEF RefuseStep, Return, Types, TypeOK, ReqTypes
<1>12. CASE FilterStep
  <2>1. filter' \in SUBSET Names /\ filterFrom' \in 0..writes
    BY <1>12, RegistryAssumption
       DEF FilterStep, FilterStepAt, SecondRead, SecondReadRaises, Types, TypeOK
  <2>2. ReqTypes' /\ step' \in {"idle", "hook"} /\ seen' \in Times /\ unhooked' \in BOOLEAN
    BY <1>12, <1>3, <1>4, RegistryAssumption
       DEF FilterStep, FilterStepAt, SecondRead, SecondReadRaises, Return, Types, TypeOK
  <2> QED
    BY <1>12, <2>1, <2>2 DEF FilterStep, FilterStepAt, Types, TypeOK, ReqTypes
<1>13. CASE Hook
  <2>1. Base(registry) \in Bases
    BY BaseFacts DEF Types
  <2>2. discovered' \subseteq Names /\ \A m \in discovered' : m[1] = "compat"
    BY <1>13, <2>1, DiscoveryFacts DEF Hook, Rediscover
  <2> QED
    BY <1>13, <2>2, <1>3, RegistryAssumption DEF Hook, Return, Types, TypeOK, ReqTypes
<1>14. ASSUME NEW r \in Requests, Arrive(r) \/ Resolve(r) \/ Send(r) \/ Finish(r)
       PROVE  Types'
  <2>1. ReqTypes'
    BY <1>2, <1>14 DEF Arrive, Resolve, Send, SendBy, Finish, Out
  <2>2. UNCHANGED <<file, mtime, writes, past, reused, registry, built, builtFrom, filter, filterFrom,
                    loaded, strayed, unhooked, up, discovered, step, seen, quiet>>
    BY <1>14 DEF Arrive, Resolve, Send, SendBy, Finish
  <2> QED
    BY <2>1, <2>2 DEF Types, TypeOK, ReqTypes
<1> QED
  BY <1>5, <1>6, <1>7, <1>8, <1>9, <1>10, <1>11, <1>12, <1>13, <1>14 DEF Next

---------------------------------------------------------------------------
(* Every step keeps the times, and with them the registry fresh.           *)

\* What only routes or moves a request.
Routing == \E r \in Requests : Arrive(r) \/ Resolve(r) \/ Send(r) \/ Finish(r)

LEMMA RoutingFrame ==
  ASSUME Routing
  PROVE  /\ Idle
         /\ UNCHANGED <<file, mtime, writes, past, reused, registry, built, builtFrom, filter,
                        filterFrom, loaded, strayed, unhooked, up, discovered, step, seen, quiet>>
BY DEF Routing, Arrive, Resolve, Send, SendBy, Finish, fileVars, tableVars, filterVars, loadVars

LEMMA NumberFacts ==
  ASSUME Types
  PROVE  writes \in Nat /\ builtFrom \in Nat /\ builtFrom <= writes /\ filterFrom \in Nat
BY RegistryAssumption DEF Types, TypeOK

LEMMA StampsStep == Types /\ Stamps /\ [Next]_vars => Stamps'
<1> SUFFICES ASSUME Types, Stamps, [Next]_vars PROVE Stamps'
  OBVIOUS
<1> USE DEF fileVars, tableVars, filterVars, loadVars
<1>1. CASE UNCHANGED vars
  BY <1>1 DEF vars, Stamps
<1>2. CASE Write
  <2>1. UNCHANGED <<step, seen, loaded, up>> /\ quiet' = FALSE
    BY <1>2 DEF Write
  <2>2. past \subseteq past' /\ (file' # Missing => <<file', mtime'>> \in past')
    BY <1>2 DEF Write, AtTime
  <2>3. \A t : (\E p \in past : p[2] = t) /\ file' # Missing /\ mtime' = t => reused'
    BY <1>2 DEF Write
  <2>4. /\ reused => reused'
        /\ file' = Missing => mtime' = mtime
        /\ reused' \in BOOLEAN
    BY <1>2 DEF Write
  <2>5. step # "idle" => (\E p \in past' : p[2] = seen) /\ (file' # Missing /\ seen = mtime' => reused')
    BY <2>2, <2>3 DEF Stamps
  <2>6. loaded # Epoch => (\E p \in past' : p[2] = loaded) /\ (file' # Missing /\ loaded = mtime' => reused')
    BY <2>2, <2>3 DEF Stamps
  <2> QED
    BY <2>1, <2>2, <2>4, <2>5, <2>6 DEF Stamps
<1>3. CASE Start
  BY <1>3 DEF Start, Stamps
<1>4. CASE Crash
  BY <1>4 DEF Crash, Stamps
<1>5. CASE Look
  <2>1. /\ UNCHANGED <<file, mtime, past, reused, loaded, up>> /\ quiet' = TRUE /\ up /\ step = "idle"
        /\ \/ UNCHANGED <<step, seen>>
           \/ ~Unchanged /\ step' = "build" /\ seen' = mtime
    BY <1>5 DEF Look, Idle
  <2>2. ~Unchanged => file # Missing /\ (loaded # mtime \/ loaded = Epoch) /\ \E p \in past : p[2] = mtime
    BY DEF Unchanged, Stamps
  <2> QED
    BY <2>1, <2>2 DEF Stamps
<1>6. CASE BuildStep
  BY <1>6 DEF BuildStep, Stamps
<1>7. CASE RefuseStep
  BY <1>7 DEF RefuseStep, Return, Stamps
<1>8. CASE FilterStep
  <2>1. /\ step = "filter" /\ step' \in {"idle", "hook"} /\ loaded' = seen
        /\ step' = "hook" => seen' = seen
        /\ UNCHANGED <<file, mtime, past, reused, up, quiet>>
    BY <1>8 DEF FilterStep, FilterStepAt, SecondRead, SecondReadRaises, Return
  <2> QED
    BY <2>1 DEF Stamps
<1>9. CASE Hook
  BY <1>9 DEF Hook, Return, Stamps
<1>10. CASE Routing
  BY <1>10, RoutingFrame DEF Stamps
<1> QED
  BY <1>1, <1>2, <1>3, <1>4, <1>5, <1>6, <1>7, <1>8, <1>9, <1>10 DEF Next, Routing

\* Only the step of a request from "passed" on leaves who has arrived alone.
LEMMA RoutingArrivals ==
  ASSUME Types, Routing, \A r \in Requests : req'[r].at # "arrived"
  PROVE  \A r \in Requests : req[r].at # "arrived"
<1> SUFFICES ASSUME NEW r \in Requests, req[r].at = "arrived" PROVE FALSE
  OBVIOUS
<1>1. PICK s \in Requests : Arrive(s) \/ Resolve(s) \/ Send(s) \/ Finish(s)
  BY DEF Routing
<1>2. PICK from \in {"none", "passed", "routed", "sent"} : \E to : Move(s, from, to)
  BY <1>1 DEF Arrive, Resolve, Send, SendBy, Finish
<1>3. r # s
  BY <1>2 DEF Move
<1>4. req'[r] = req[r]
  BY <1>2, <1>3, MoveFacts
<1> QED
  BY <1>4

\* Nothing that ReadInv speaks of changes but the step.
LEMMA ReadFrame ==
  ASSUME Types, ReadInv, UNCHANGED <<file, mtime, past, reused, registry, built, filter, loaded,
                                     strayed, up, quiet>>
  PROVE  /\ Whole' <=> Whole
         /\ (step' = step /\ seen' = seen) \/ (step = "idle" /\ step' \in {"idle", "build"})
              => ReadInv'
<1>1. Whole' <=> Whole
  BY DEF Whole, Build
<1> QED
  BY <1>1 DEF ReadInv, Loadable, Objects, Build, Valid, Idle

LEMMA ReadStep == Types /\ Stamps /\ ReadInv /\ [Next]_vars => ReadInv'
<1> SUFFICES ASSUME Types, Stamps, ReadInv, [Next]_vars PROVE ReadInv'
  OBVIOUS
<1> USE DEF fileVars, tableVars, filterVars, loadVars
<1>1. CASE UNCHANGED vars
  BY <1>1, ReadFrame DEF vars
<1>2. CASE Write
  <2>1. /\ UNCHANGED <<registry, built, filter, loaded, strayed, up, step, seen>>
        /\ past \subseteq past' /\ quiet' = FALSE
        /\ ~reused' => ~reused
    BY <1>2 DEF Write
  <2>2. ~reused' /\ loaded # Epoch /\ file' # Missing => loaded # mtime'
    BY <1>2 DEF Write, Stamps
  <2> QED
    BY <2>1, <2>2 DEF ReadInv, Whole, Build, Loadable, Objects, Valid, Idle
<1>3. CASE Start
  <2>1. loaded' = Epoch /\ step' = "idle"
    BY <1>3 DEF Start, Stamps
  <2> QED
    BY <2>1 DEF ReadInv, Idle
<1>4. CASE Crash
  BY <1>4 DEF Crash, ReadInv, Idle
<1>5. CASE Look
  <2>1. /\ UNCHANGED <<file, mtime, past, reused, registry, built, filter, loaded, strayed, up>>
        /\ step = "idle" /\ step' \in {"idle", "build"} /\ quiet' = TRUE
    BY <1>5 DEF Look, Idle
  <2>2. Whole' <=> Whole
    BY <2>1 DEF Whole, Build
  <2> QED
    BY <2>1, <2>2 DEF ReadInv, Idle
<1>6. CASE BuildStep
  <2>1. /\ step = "build" /\ step' = "filter" /\ Loadable(Found) /\ SetFilter
        /\ registry' = Build(Found) /\ built' = Found /\ strayed' = ~quiet
        /\ UNCHANGED <<file, mtime, past, reused, loaded, seen, up, quiet>>
    BY <1>6 DEF BuildStep
  <2>2. Whole' /\ Loadable(built)'
    <3>1. Loadable(Found) /\ (Found.include # None => filter' = Found.include)
      BY <2>1, FilterFacts DEF Types
    <3> QED
      BY <2>1, <3>1 DEF Whole, Build, Loadable, Objects, Valid
  <2>3. quiet => built' = file /\ <<file, seen>> \in past
    BY <2>1 DEF Stamps, Found
  <2> QED
    BY <2>1, <2>2, <2>3 DEF ReadInv, Idle
<1>7. CASE RefuseStep
  <2>1. /\ step = "build" /\ step' = "idle"
        /\ strayed' = (strayed \/ filter' # filter)
        /\ UNCHANGED <<file, mtime, past, reused, registry, built, loaded, up>>
    BY <1>7 DEF RefuseStep, Return
  <2>2. ~strayed' /\ Whole => Whole'
    BY <2>1 DEF Whole, Build
  <2>3. ~reused /\ loaded # Epoch => loaded # mtime
    BY <2>1 DEF Stamps
  <2> QED
    BY <2>1, <2>2, <2>3 DEF ReadInv, Idle
<1>8. CASE FilterStep
  <2>1. /\ step = "filter" /\ loaded' = seen /\ strayed' = (strayed \/ ~quiet)
        /\ UNCHANGED <<file, mtime, past, reused, registry, built, up, quiet>>
    BY <1>8 DEF FilterStep, FilterStepAt
  <2>2. quiet => built = file /\ ~strayed /\ Whole /\ Loadable(file) /\ <<built, seen>> \in past
    BY <2>1 DEF ReadInv
  <2>3. CASE SecondRead
    <3>1. step' = "hook" /\ filter' \in {filter, file.include}
          /\ (filter' # filter => file.include # None)
      BY <2>3 DEF SecondRead
    <3>2. quiet => Whole'
      BY <2>1, <2>2, <3>1 DEF Whole, Build
    <3> QED
      BY <2>1, <2>2, <3>1, <3>2 DEF ReadInv, Idle
  <2>4. CASE SecondReadRaises
    <3>1. step' = "idle" /\ file # Missing /\ ~Loadable(file)
      BY <2>4 DEF SecondReadRaises, Return, Loadable
    <3>2. ~quiet /\ strayed'
      BY <2>1, <2>2, <3>1 DEF Types, TypeOK
    <3>3. ~reused => seen # mtime
      BY <2>1, <3>1, <3>2 DEF Stamps
    <3> QED
      BY <2>1, <3>1, <3>2, <3>3 DEF ReadInv, Idle
  <2> QED
    BY <1>8, <2>3, <2>4 DEF FilterStep, FilterStepAt
<1>9. CASE Hook
  <2>1. /\ step = "hook" /\ step' = "idle"
        /\ UNCHANGED <<file, mtime, past, reused, registry, built, filter, loaded, strayed, up, quiet>>
    BY <1>9 DEF Hook, Return
  <2>2. ~reused /\ loaded = mtime /\ file # Missing => quiet
    BY <2>1 DEF Stamps
  <2> QED
    BY <2>1, <2>2, ReadFrame DEF ReadInv, Idle
<1>10. CASE Routing
  BY <1>10, RoutingFrame, ReadFrame
<1> QED
  BY <1>1, <1>2, <1>3, <1>4, <1>5, <1>6, <1>7, <1>8, <1>9, <1>10 DEF Next, Routing

LEMMA SettledStep == Types /\ Stamps /\ ReadInv /\ SettledInv /\ [Next]_vars => SettledInv'
<1> SUFFICES ASSUME Types, Stamps, ReadInv, SettledInv, [Next]_vars, Settled'
    PROVE  Fresh' \/ (loaded = mtime /\ loaded # Epoch)'
  BY DEF SettledInv
<1> USE DEF fileVars, tableVars, filterVars, loadVars
<1>1. UNCHANGED <<file, mtime, registry, filter, loaded>> /\ Settled
        => Fresh' \/ (loaded = mtime /\ loaded # Epoch)'
  BY DEF SettledInv, Fresh, Build
<1>2. CASE UNCHANGED vars
  BY <1>1, <1>2 DEF vars, Settled, Idle, Loadable, Objects, Build, Valid
<1>3. CASE Write \/ Start \/ Crash \/ BuildStep
  BY <1>3 DEF Write, Start, Crash, BuildStep, Settled, Idle, Stamps
<1>4. CASE Look
  BY <1>4 DEF Look, Unchanged, Settled, Idle
<1>5. CASE RefuseStep
  <2>1. step = "build" /\ ~Loadable(Found) /\ UNCHANGED <<file, quiet>>
    BY <1>5 DEF RefuseStep
  <2>2. quiet => Found = file
    BY <2>1 DEF Stamps, Found
  <2> QED
    BY <2>1, <2>2 DEF Settled, Loadable, Objects, Build, Valid
<1>6. CASE FilterStep
  <2>1. step = "filter" /\ UNCHANGED <<file, quiet>> /\ (SecondRead \/ SecondReadRaises)
    BY <1>6 DEF FilterStep, FilterStepAt
  <2>2. SecondReadRaises
    BY <2>1 DEF SecondRead, Settled, Idle
  <2> QED
    BY <2>1, <2>2 DEF SecondReadRaises, Settled, Loadable
<1>7. CASE Hook
  <2>1. step = "hook" /\ UNCHANGED <<file, registry, filter, built, quiet>> /\ quiet
    BY <1>7 DEF Hook, Settled
  <2>2. built = file /\ Whole
    BY <2>1 DEF ReadInv
  <2> QED
    BY <2>1, <2>2 DEF Whole, Fresh, Build
<1>8. CASE Routing
  <2>1. \A r \in Requests : req'[r].at # "arrived"
    BY DEF Settled
  <2>2. \A r \in Requests : req[r].at # "arrived"
    BY <1>8, <2>1, RoutingArrivals
  <2>3. UNCHANGED <<file, mtime, registry, filter, loaded, up, step, quiet>>
    BY <1>8, RoutingFrame
  <2>4. Loadable(file)' <=> Loadable(file)
    BY <2>3
  <2>5. Settled
    BY <2>2, <2>3, <2>4 DEF Settled, Idle
  <2> QED
    BY <1>1, <2>3, <2>5
<1> QED
  BY <1>2, <1>3, <1>4, <1>5, <1>6, <1>7, <1>8 DEF Next, Routing

---------------------------------------------------------------------------
(* Every step keeps the filter young, and the discovery true.              *)

LEMMA FilterStepKeeps == Types /\ Stamps /\ FilterInv /\ [Next]_vars => FilterInv'
<1> SUFFICES ASSUME Types, Stamps, FilterInv, [Next]_vars PROVE FilterInv'
  OBVIOUS
<1> USE NumberFacts DEF fileVars, tableVars, filterVars, loadVars
<1>1. UNCHANGED <<built, builtFrom, filterFrom, loaded>> /\ step' \in {step, "idle", "build"} => FilterInv'
  <2>1. Loadable(EnvContent)' <=> Loadable(EnvContent)
    OBVIOUS
  <2> QED
    BY <2>1 DEF FilterInv
<1>2. CASE UNCHANGED vars
  BY <1>1, <1>2 DEF vars
<1>3. CASE Write \/ Look \/ Hook
  BY <1>1, <1>3 DEF Write, Look, Hook, Return
<1>4. CASE Start \/ Crash
  BY <1>4 DEF Start, Crash, FilterInv, Stamps
<1>5. CASE BuildStep
  <2>1. /\ SetFilter /\ Loadable(Found) /\ built' = Found /\ builtFrom' = FoundFrom
    BY <1>5 DEF BuildStep
  <2>2. FoundFrom \in Nat /\ (built'.include # None => filterFrom' = FoundFrom)
    BY <2>1, FoundFacts, FilterFacts DEF Types
  <2> QED
    BY <2>1, <2>2 DEF FilterInv
<1>6. CASE RefuseStep
  <2>1. SetFilter /\ ~Loadable(Found) /\ step' = "idle" /\ UNCHANGED <<built, builtFrom, loaded>>
    BY <1>6 DEF RefuseStep, Return
  <2>2. filterFrom' = filterFrom \/ filterFrom' = FoundFrom
    BY <2>1, FilterFacts DEF Types
  <2>3. FoundFrom >= builtFrom \/ (FoundFrom = 0 /\ Found = EnvContent)
    BY DEF Found, FoundFrom
  <2> QED
    BY <2>1, <2>2, <2>3 DEF FilterInv, Loadable
<1>7. CASE FilterStep
  <2>1. /\ step = "filter" /\ UNCHANGED <<built, builtFrom>>
        /\ filterFrom' = filterFrom \/ filterFrom' = writes
    BY <1>7 DEF FilterStep, FilterStepAt, SecondRead, SecondReadRaises
  <2> QED
    BY <2>1 DEF FilterInv, Loadable
<1>8. CASE Routing
  BY <1>1, <1>8, RoutingFrame
<1> QED
  BY <1>2, <1>3, <1>4, <1>5, <1>6, <1>7, <1>8 DEF Next, Routing

LEMMA DiscoveryStep == Types /\ Stamps /\ DiscoveryInv /\ [Next]_vars => DiscoveryInv'
<1> SUFFICES ASSUME Types, Stamps, DiscoveryInv, [Next]_vars PROVE DiscoveryInv'
  OBVIOUS
<1> USE DEF fileVars, tableVars, filterVars, loadVars
<1>1. ASSUME UNCHANGED <<registry, discovered, up, unhooked>>,
             step \in {"idle", "build"} \/ step' \in {"filter", "hook"}
      PROVE  DiscoveryInv'
  BY <1>1 DEF DiscoveryInv, Discoveries, Base
<1>2. CASE UNCHANGED vars
  BY <1>1, <1>2 DEF vars, Types, TypeOK
<1>3. CASE Write
  BY <1>1, <1>3 DEF Write, Types, TypeOK
<1>4. CASE Look \/ RefuseStep
  BY <1>1, <1>4 DEF Look, Idle, RefuseStep
<1>5. CASE Start
  BY <1>5 DEF Start, DiscoveryInv, Discoveries, Base
<1>6. CASE Crash \/ BuildStep
  BY <1>6 DEF Crash, BuildStep, DiscoveryInv
<1>7. CASE FilterStep
  BY <1>7 DEF FilterStep, FilterStepAt, SecondRead, SecondReadRaises, DiscoveryInv
<1>8. CASE Hook
  BY <1>8 DEF Hook, Rediscover, DiscoveryInv, Discoveries, Base
<1>9. CASE Routing
  BY <1>1, <1>9, RoutingFrame DEF Idle
<1> QED
  BY <1>2, <1>3, <1>4, <1>5, <1>6, <1>7, <1>8, <1>9 DEF Next, Routing

---------------------------------------------------------------------------
(* Routing.                                                                *)

\* Whoever is allowed beside the registry is a compat model.
LEMMA ConfigFacts ==
  ASSUME Types, NEW m \in Allowed, m[1] # "compat"
  PROVE  m \in DOMAIN registry /\ Config(m) = registry[m] /\ Valid(registry[m])
BY DEF Types, TypeOK, Allowed, Config

\* A request that is not refused has an entry of its kind that can be sent to.
LEMMA RouteFacts ==
  ASSUME Types, NEW m \in Names, NEW k \in Kinds, Route(m, k) # Refused
  PROVE  Usable(Route(m, k), k)
<1>1. CASE k = "chat" /\ m[1] = "ollama"
  <2>1. Route(m, k) = Dynamic("ollama", None)
    BY <1>1 DEF Route
  <2> QED
    BY <1>1, <2>1 DEF Dynamic, Usable
<1>2. CASE k = "chat" /\ m[1] = "compat"
  <2>1. Route(m, k) = IF Base(registry) = None THEN Refused ELSE Dynamic("openai_compatible", Base(registry))
    BY <1>2 DEF Route
  <2> QED
    BY <1>2, <2>1 DEF Dynamic, Usable
<1>3. CASE k = "chat" /\ m[1] = "jetbrains" /\ m \notin Allowed
  <2>1. Route(m, k) = Dynamic("jetbrains", None)
    BY <1>3 DEF Route
  <2> QED
    BY <1>3, <2>1 DEF Dynamic, Usable
<1>4. CASE /\ ~(k = "chat" /\ m[1] = "ollama") /\ ~(k = "chat" /\ m[1] = "compat")
           /\ ~(k = "chat" /\ m[1] = "jetbrains" /\ m \notin Allowed)
  <2>1. Route(m, k) = IF m \in Allowed /\ Config(m).kind = k THEN Config(m) ELSE Refused
    BY <1>4 DEF Route
  <2>2. m \in Allowed /\ Config(m).kind = k /\ Route(m, k) = Config(m)
    BY <2>1
  <2>3. CASE m[1] = "compat"
    BY <1>4, <2>2, <2>3 DEF Config, Dynamic
  <2>4. CASE m[1] # "compat"
    BY <2>2, <2>4, ConfigFacts DEF Valid, Usable
  <2> QED
    BY <2>3, <2>4
<1> QED
  BY <1>1, <1>2, <1>3, <1>4

LEMMA RoutedStep == Types /\ RoutedInv /\ [Next]_vars => RoutedInv'
<1> SUFFICES ASSUME Types, RoutedInv, [Next]_vars PROVE RoutedInv'
  OBVIOUS
<1> DEFINE Good(e) == /\ e.at = "routed" => Usable(e.entry, e.kind)
                      /\ e.at = "sent" => Usable(e.by, e.kind)
<1>1. \A r \in Requests : Good(req[r])
  BY DEF RoutedInv
<1>2. ASSUME NEW r \in Requests, NEW from, NEW to, Move(r, from, to), Good(to)
      PROVE  RoutedInv'
  <2>1. \A s \in Requests : Good(req'[s])
    BY <1>1, <1>2, MoveFacts
  <2> QED
    BY <2>1 DEF RoutedInv, Usable
<1>3. UNCHANGED req => RoutedInv'
  BY DEF RoutedInv, Usable
<1>4. Pass \/ Fail => RoutedInv'
  <2>1. Good([at |-> "passed"]) /\ Good(Out)
    BY DEF Out
  <2> QED
    BY <2>1, <1>2 DEF Pass, Fail
<1>5. CASE UNCHANGED vars \/ Write \/ Start \/ BuildStep
  BY <1>3, <1>5 DEF vars, Write, Start, BuildStep
<1>6. CASE Crash
  BY <1>6 DEF Crash, Out, RoutedInv
<1>7. CASE Look \/ RefuseStep \/ FilterStep \/ Hook
  BY <1>3, <1>4, <1>7
     DEF Look, RefuseStep, FilterStep, FilterStepAt, SecondRead, SecondReadRaises, Hook
<1>8. ASSUME NEW r \in Requests, Arrive(r) \/ Finish(r)
      PROVE  RoutedInv'
  <2>1. Good([at |-> "arrived"]) /\ Good(Out)
    BY DEF Out
  <2> QED
    BY <2>1, <1>2, <1>8 DEF Arrive, Finish
<1>9. ASSUME NEW r \in Requests, Resolve(r)
      PROVE  RoutedInv'
  <2>1. PICK m \in Names, k \in Kinds :
          Move(r, "passed",
               IF Route(m, k) = Refused THEN Out
               ELSE [at |-> "routed", model |-> m, kind |-> k, entry |-> Route(m, k)])
    BY <1>9 DEF Resolve
  <2>2. CASE Route(m, k) = Refused
    <3>1. Good(Out)
      BY DEF Out
    <3> QED
      BY <2>1, <2>2, <3>1, <1>2
  <2>3. CASE Route(m, k) # Refused
    <3>1. Good([at |-> "routed", model |-> m, kind |-> k, entry |-> Route(m, k)])
      BY <2>3, RouteFacts
    <3> QED
      BY <2>1, <2>3, <3>1, <1>2
  <2> QED
    BY <2>2, <2>3
<1>10. ASSUME NEW r \in Requests, Send(r)
       PROVE  RoutedInv'
  <2>1. /\ req[r].at = "routed"
        /\ Move(r, "routed", [at |-> "sent", kind |-> req[r].kind, by |-> req[r].entry])
    BY <1>10 DEF Send, SendBy
  <2>2. Good([at |-> "sent", kind |-> req[r].kind, by |-> req[r].entry])
    BY <2>1, <1>1
  <2> QED
    BY <2>1, <2>2, <1>2
<1> QED
  BY <1>5, <1>6, <1>7, <1>8, <1>9, <1>10 DEF Next

---------------------------------------------------------------------------
(* The theorems.                                                           *)

LEMMA InitInv == Init => IInv
<1> SUFFICES ASSUME Init PROVE IInv
  OBVIOUS
<1>1. Types /\ Stamps
  BY InitTypes
<1>2. loaded = Epoch /\ step = "idle" /\ up = FALSE
  BY DEF Init
<1>3. RoutedInv
  BY DEF Init, Out, RoutedInv
<1> QED
  BY <1>1, <1>2, <1>3 DEF IInv, ReadInv, SettledInv, Settled, Idle, FilterInv, DiscoveryInv

LEMMA Invariance == Spec => []IInv
<1>1. IInv /\ [Next]_vars => IInv'
  BY TypesStep, StampsStep, ReadStep, SettledStep, FilterStepKeeps, DiscoveryStep, RoutedStep DEF IInv
<1> QED
  BY InitInv, <1>1, PTL DEF Spec

\* Every variable keeps its type; in particular every entry in use has passed
\* the validation of _build_registry.
THEOREM SpecTypeOK == Spec => []TypeOK
<1>1. IInv => TypeOK
  BY DEF IInv, Types
<1> QED
  BY <1>1, Invariance, PTL

\* When the file has rested since the last look, the registry and the filter are
\* the file's, whatever changed between the stat, the build and the second read of
\* _reload_registry_if_changed - unless the file's time had been there before, with
\* another content or before something else was read.
THEOREM QuietIsFresh == Spec => []FreshWhenQuiet
<1>1. ASSUME IInv, Settled, ~Fresh
      PROVE  reused /\ (Twice \/ strayed)
  <2>1. loaded = mtime /\ loaded # Epoch /\ Idle /\ file # Missing
    BY <1>1 DEF IInv, SettledInv, Settled
  <2>2. Whole /\ built = file => FALSE
    BY <1>1 DEF Whole, Fresh
  <2>3. reused
    BY <1>1, <2>1, <2>2 DEF IInv, ReadInv
  <2>4. ~strayed => Whole /\ <<built, mtime>> \in past
    BY <1>1, <2>1 DEF IInv, ReadInv, Idle
  <2>5. <<file, mtime>> \in past
    BY <1>1, <2>1 DEF IInv, Stamps
  <2> QED
    BY <2>2, <2>3, <2>4, <2>5 DEF Twice
<1>2. IInv => FreshWhenQuiet
  BY <1>1 DEF FreshWhenQuiet
<1> QED
  BY <1>2, Invariance, PTL

\* Whatever the double read of the file and a refused content leave behind, the
\* filter is not older than the registry that was reloaded.
THEOREM FilterIsNotOlder == Spec => []FilterNeverOlder
<1>1. IInv => FilterNeverOlder
  BY DEF IInv, FilterInv, FilterNeverOlder
<1> QED
  BY <1>1, Invariance, PTL

\* A compat model that GET /v1/models lists beyond the registry is one that the
\* upstream which a request for it goes to has listed (_discover_compat_models),
\* unless the last reload ended before its hook.
THEOREM ListedModelsAreOffered == Spec => []ListedIsOffered
<1>1. ASSUME IInv, Idle, ~unhooked, NEW m \in Listed \ DOMAIN registry
      PROVE  Route(m, "chat") # Refused /\ m[2] \in Offered[Route(m, "chat").base]
  <2>1. m \in discovered /\ discovered \in Discoveries(registry, {})
    BY <1>1 DEF IInv, DiscoveryInv, Idle, Listed, Allowed
  <2>2. PICK u \in Offered[Base(registry)] : m = <<"compat", u>> /\ Base(registry) # None
    BY <2>1 DEF Discoveries
  <2>3. Route(m, "chat") = Dynamic("openai_compatible", Base(registry))
    BY <2>2 DEF Route
  <2> QED
    BY <2>2, <2>3 DEF Dynamic, Refused
<1>2. IInv => ListedIsOffered
  BY <1>1 DEF ListedIsOffered
<1> QED
  BY <1>2, Invariance, PTL

\* A request is sent by an entry of its kind, with a base URL where one is
\* needed, though the registry may have been reloaded while it waited for its
\* admission (_resolve_chat_model and the handlers after it).
THEOREM RequestsGoOutAsTheirKind == Spec => []SentAsItsKind
<1>1. IInv => SentAsItsKind
  BY DEF IInv, RoutedInv, Usable, SentAsItsKind
<1> QED
  BY <1>1, Invariance, PTL

=============================================================================
