---------------------------- MODULE AdblockEngine ----------------------------
(***************************************************************************)
(* The life of the filter engine (adblock/service.js, with the build host  *)
(* engine-build-host.js and the refresh that settings-store.js asks for):  *)
(* serialized rebuilds, each a chain of awaits between which the settings  *)
(* and the lists on disk may change; the cache of serialized engines; and  *)
(* the hold that keeps the first requests waiting for the first engine.    *)
(*                                                                         *)
(* An engine is what was compiled into it: the digest of each category's   *)
(* list.  Time is counted in ticks while a hold is open.                   *)
(***************************************************************************)
EXTENDS Naturals, FiniteSets

CONSTANTS
  Categories,  \* filter-list categories, each with a setting of its own
  Digests,     \* digests of list files
  Requests,    \* engine consumers: requests and scriptlet lookups
  Hold,        \* FIRST_ENGINE_HOLD_MS in ticks
  Caching,     \* whether there is a cache directory: TRUE, FALSE or either
  MaxQueue     \* refreshes waiting for the build under way (a bound)

None == "none"
ASSUME EngineAssumption == None \notin Digests /\ Hold \in Nat /\ Caching \subseteq BOOLEAN
ASSUME QueueAssumption == MaxQueue \in Nat \ {0}

Lists == [Categories -> Digests \cup {None}]
NoEngine == [c \in Categories |-> None]
NoCache == [enabled |-> {}, lists |-> NoEngine, engine |-> NoEngine]

VARIABLES
  caching,  \* cacheDir is set
  enabled,  \* cachedSettings: the enabled categories
  on,       \* cachedSettings.adblockEnabled
  lists,    \* what the layered directories serve for each category
  queued,   \* refreshes behind the one under way on refreshChain
  build,    \* the rebuildEngineOnce() under way: where it is, what it captured
  engine,   \* what the engine in use was compiled from; NoEngine if null
  cache,    \* the serialized engine on disk, under its identity
  hold,     \* engineWait: whether it is open, its budget, how long it has been open
  left,     \* holdBudgetLeftMs
  request,  \* what became of each consumer
  settled,  \* how the last build ended, and what it could not read (history)
  waited    \* ticks of holding since an engine last landed (history)

settings == <<enabled, on>>
configuration == <<caching, settings>>
holding == <<hold, left, request, waited>>
vars == <<configuration, lists, queued, build, engine, cache, holding, settled>>

Idle == [pc |-> "idle", snapshot |-> {}, enabled |-> {}, lists |-> NoEngine, compiled |-> NoEngine]
Build == [pc : {"idle", "resolve", "lookup", "compile", "wedged", "write"}, snapshot : SUBSET Categories,
          enabled : SUBSET Categories, lists : Lists, compiled : Lists]
NoHold == [open |-> FALSE, budget |-> 0, for |-> 0]

-----------------------------------------------------------------------------
(* Holding the first requests                                              *)

\* Fault: every build holds for the whole time.
BudgetPerBuild == Hold

\* What is left of the budget that all engine-less stretches share.
Budget == left

\* holdUntilEngine(), unless an engine is there or nothing is to be built.
OpenHold(chosen) ==
  /\ hold' = IF engine = NoEngine /\ chosen # {} /\ Budget > 0
             THEN [open |-> TRUE, budget |-> Budget, for |-> 0] ELSE hold
  /\ UNCHANGED <<left, request, waited>>

\* What a hold that is released early has used up.
Spent == hold.for

Held == {r \in Requests : request[r] = "held"}

\* A consumer that asks the engine e.
Answer(e) == IF on /\ e # NoEngine THEN "filtered" ELSE "unfiltered"

\* Fault: consumers go on waiting when a build ends without an engine.
ReleaseOnLanding(e) ==
  /\ hold' = NoHold
  /\ left' = IF e # NoEngine THEN Hold
             ELSE IF hold.open THEN hold.budget - Spent ELSE left
  /\ waited' = IF e # NoEngine THEN 0 ELSE waited
  /\ request' = [r \in Requests |-> IF r \in Held /\ e # NoEngine THEN Answer(e) ELSE request[r]]

\* The build is over and leaves the engine e: the hold it may have opened is
\* released, and a landed engine refills the budget.
Release(e) ==
  /\ hold' = NoHold
  /\ left' = IF e # NoEngine THEN Hold
             ELSE IF hold.open THEN hold.budget - Spent ELSE left
  /\ waited' = IF e # NoEngine THEN 0 ELSE waited
  /\ request' = [r \in Requests |-> IF r \in Held THEN Answer(e) ELSE request[r]]

Tick ==
  /\ hold.open /\ hold.for < hold.budget
  /\ hold' = [hold EXCEPT !.for = @ + 1]
  /\ waited' = waited + 1
  /\ UNCHANGED <<configuration, lists, queued, build, engine, cache, left, request, settled>>

\* release(true): the budget ran out; the build goes on without holding anyone.
HoldTimeout ==
  /\ hold.open /\ hold.for = hold.budget
  /\ hold' = NoHold /\ left' = 0
  /\ request' = [r \in Requests |-> IF r \in Held THEN Answer(engine) ELSE request[r]]
  /\ UNCHANGED <<configuration, lists, queued, build, engine, cache, waited, settled>>

\* pendingFirstEngine(), adblockRequestForDispatch()
Request(r) ==
  /\ request[r] = "new"
  /\ request' = [request EXCEPT ![r] =
       IF engine = NoEngine /\ hold.open /\ on THEN "held" ELSE Answer(engine)]
  /\ UNCHANGED <<configuration, lists, queued, build, engine, cache, hold, left, waited, settled>>

-----------------------------------------------------------------------------
(* Who asks for a rebuild                                                  *)

\* Fault: a change that comes while a rebuild is under way leaves it at that.
SaveSettingsCoalesced(E, o) ==
  /\ <<E, o>> # settings /\ queued < MaxQueue
  /\ enabled' = E /\ on' = o
  /\ queued' = IF build = Idle THEN queued + 1 ELSE queued
  /\ UNCHANGED <<caching, lists, build, engine, cache, holding, settled>>

\* saveSettings() with a changed adblock setting.
SaveSettings(E, o) ==
  /\ <<E, o>> # settings /\ queued < MaxQueue
  /\ enabled' = E /\ on' = o
  /\ queued' = queued + 1
  /\ UNCHANGED <<caching, lists, build, engine, cache, holding, settled>>

\* An update is promoted, or rolled back, and the engine refreshed.
ListsChange(l) ==
  /\ l # lists /\ queued < MaxQueue
  /\ lists' = l
  /\ queued' = queued + 1
  /\ UNCHANGED <<configuration, build, engine, cache, holding, settled>>

\* The process ends and starts again; installAdblockInterception() refreshes.
Restart ==
  /\ queued' = 1 /\ build' = Idle /\ engine' = NoEngine
  /\ hold' = NoHold /\ left' = Hold /\ waited' = 0
  /\ request' = [r \in Requests |-> "new"]
  /\ settled' = [as |-> "none", skipped |-> {}]
  /\ UNCHANGED <<configuration, lists, cache>>

-----------------------------------------------------------------------------
(* rebuildEngineOnce()                                                     *)

\* The build ends as "well" or "failed", with the engine e in use.
End(e, how, skipped) ==
  /\ engine' = e /\ build' = Idle
  /\ settled' = [as |-> how, skipped |-> skipped]

Begin ==
  /\ build = Idle /\ queued > 0
  /\ queued' = queued - 1
  /\ build' = [Idle EXCEPT !.pc = "resolve", !.snapshot = enabled]
  /\ UNCHANGED <<configuration, lists, engine, cache, holding, settled>>

\* resolveArtifacts() is done; the categories are read from the settings again.
Resolve ==
  /\ build.pc = "resolve"
  /\ IF lists = NoEngine THEN End(NoEngine, "well", {})
     ELSE /\ build' = [build EXCEPT !.pc = "lookup", !.enabled = enabled, !.lists = lists]
          /\ UNCHANGED <<engine, settled>>
  /\ UNCHANGED <<configuration, lists, queued, cache, holding>>

\* The lists that are compiled: those of the settings the build began with.
Chosen == {c \in build.snapshot : build.lists[c] # None}

\* engineIdentity() of the enabled categories matches the cache file's name.
Hit ==
  /\ caching /\ cache # NoCache
  /\ cache.enabled = build.enabled
  /\ \A c \in build.enabled : cache.lists[c] = build.lists[c]

Lookup ==
  /\ build.pc = "lookup"
  /\ IF Hit THEN /\ End(cache.engine, "well", {})
                 /\ left' = Hold /\ waited' = 0
                 /\ UNCHANGED <<hold, request>>
     ELSE /\ build' = [build EXCEPT !.pc = "compile"]
          /\ OpenHold(Chosen)
          /\ UNCHANGED <<engine, settled>>
  /\ UNCHANGED <<configuration, lists, queued, cache>>

\* The worker has read the files as they are now, except those it cannot read.
Compile(skipped) ==
  LET compiled == [c \in Categories |-> IF c \in Chosen \ skipped THEN lists[c] ELSE None]
  IN  /\ build.pc = "compile"
      /\ skipped \subseteq Chosen
      /\ Release(compiled)
      /\ IF caching /\ compiled # NoEngine
         THEN /\ engine' = compiled
              /\ build' = [build EXCEPT !.pc = "write", !.compiled = compiled]
              /\ settled' = [as |-> "well", skipped |-> skipped]
         ELSE End(compiled, "well", skipped)
      /\ UNCHANGED <<configuration, lists, queued, cache>>

\* The worker is stuck in a parse loop and answers nothing more.
Wedge ==
  /\ build.pc = "compile"
  /\ build' = [build EXCEPT !.pc = "wedged"]
  /\ UNCHANGED <<configuration, lists, queued, engine, cache, holding, settled>>

\* Fault: a build whose worker answers nothing is waited for.
BuildFailsWithoutDeadline ==
  /\ build.pc = "compile"
  /\ Release(engine)
  /\ End(engine, "failed", {})
  /\ UNCHANGED <<configuration, lists, queued, cache>>

\* The parse threw, or the deadline passed and the worker was terminated.
BuildFails ==
  /\ build.pc \in {"compile", "wedged"}
  /\ Release(engine)
  /\ End(engine, "failed", {})
  /\ UNCHANGED <<configuration, lists, queued, cache>>

\* The cache file of a build: its name is the identity, its content the engine.
File == [enabled |-> build.enabled,
         lists |-> [c \in Categories |-> IF c \in build.enabled THEN build.lists[c] ELSE None],
         engine |-> build.compiled]

\* writeEngineCache() prunes the other files first, and may fail before or after.
Write ==
  /\ build.pc = "write"
  /\ cache' \in {cache, NoCache, File} /\ build' = Idle
  /\ UNCHANGED <<configuration, lists, queued, engine, holding, settled>>

-----------------------------------------------------------------------------
Init ==
  /\ caching \in Caching /\ enabled \in SUBSET Categories /\ on = TRUE
  /\ lists \in Lists
  /\ queued = 1 /\ build = Idle /\ engine = NoEngine /\ cache = NoCache
  /\ hold = NoHold /\ left = Hold /\ waited = 0
  /\ request = [r \in Requests |-> "new"]
  /\ settled = [as |-> "none", skipped |-> {}]

\* The build under way, which a deadline of its worker brings to an end, and
\* the timer of the hold.
Progress ==
  \/ Begin \/ Resolve \/ Lookup
  \/ (\E skipped \in SUBSET Categories : Compile(skipped)) \/ BuildFails
  \/ Write \/ HoldTimeout

Next ==
  \/ Progress \/ Wedge \/ Tick
  \/ \E r \in Requests : Request(r)
  \/ \E E \in SUBSET Categories, o \in BOOLEAN : SaveSettings(E, o)
  \/ \E l \in Lists : ListsChange(l)
  \/ Restart

Spec == Init /\ [][Next]_vars /\ WF_vars(Progress)

-----------------------------------------------------------------------------
(* Properties                                                              *)

\* Types.
TypeOK ==
  /\ caching \in BOOLEAN /\ enabled \subseteq Categories /\ on \in BOOLEAN /\ lists \in Lists
  /\ queued \in 0..MaxQueue /\ build \in Build /\ engine \in Lists
  /\ cache \in [enabled : SUBSET Categories, lists : Lists, engine : Lists]
  /\ hold \in [open : BOOLEAN, budget : 0..Hold, for : 0..Hold] /\ left \in 0..Hold
  /\ request \in [Requests -> {"new", "held", "filtered", "unfiltered"}]
  /\ settled \in [as : {"none", "well", "failed"}, skipped : SUBSET Categories] /\ waited \in Nat

\* However many builds end without an engine, pages are held for no longer
\* than one hold between two engines.
HoldIsBounded == waited <= Hold

\* The last caller wins: when all refreshes are done and the last went well,
\* the engine is the enabled lists as they are on disk, but for unreadable ones.
\* It holds where nothing is cached.
AtRest == build = Idle /\ queued = 0 /\ settled.as = "well"
SettledEngineIsCurrent ==
  AtRest /\ ~caching => engine = [c \in Categories |->
                        IF c \in enabled \ settled.skipped THEN lists[c] ELSE None]

\* With the cache as well, at the least no list of a category that has been switched off since.
SettledBlocksOnlyEnabled == AtRest => \A c \in Categories \ enabled : engine[c] = None

\* Every rebuild ends, even one whose worker hangs, so those behind it run.
RebuildsEnd == build # Idle ~> build = Idle

\* Every consumer that is held is let go.
HeldAreReleased == \A r \in Requests : request[r] = "held" ~> request[r] # "held"
=============================================================================
