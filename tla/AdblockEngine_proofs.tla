------------------------ MODULE AdblockEngine_proofs ------------------------
(***************************************************************************)
(* Proofs about AdblockEngine, for any categories, lists, consumers, hold  *)
(* and number of refreshes.                                                *)
(***************************************************************************)
EXTENDS AdblockEngine, TLAPS

Compiling == {"compile", "wedged"}
Captured == {"lookup", "compile", "wedged", "write"}

\* What is held of the shared budget: a hold that is open has used for of it.
Accounted ==
  /\ hold.for <= hold.budget
  /\ hold.open => waited + hold.budget = Hold + hold.for
  /\ ~hold.open => waited + left = Hold

\* Consumers are held only while a hold is open, and a hold is open only while a
\* first engine is compiled.
HeldWhileCompiling ==
  /\ hold.open => build.pc \in Compiling
  /\ Held # {} => hold.open

\* A change that a build has not seen has a refresh waiting behind the build.
SeenOrQueued ==
  queued = 0 =>
    /\ build.pc # "idle" => build.snapshot = enabled
    /\ build.pc \in Captured => build.lists = lists

Inv ==
  /\ TypeOK /\ Accounted /\ HeldWhileCompiling /\ SeenOrQueued
  /\ build.pc = "idle" => build = Idle
  /\ build.pc = "write" => caching
  /\ SettledEngineIsCurrent

-----------------------------------------------------------------------------
(* The invariant                                                           *)

\* The values everything starts from.
LEMMA Basics ==
  /\ NoEngine \in Lists /\ Idle \in Build /\ Idle.pc = "idle"
  /\ NoHold \in [open : BOOLEAN, budget : 0..Hold, for : 0..Hold] /\ ~NoHold.open
  /\ NoHold.for <= NoHold.budget
  /\ NoCache \in [enabled : SUBSET Categories, lists : Lists, engine : Lists]
  /\ Hold \in Nat /\ MaxQueue \in Nat \ {0} /\ None \notin Digests
<1>1. NoEngine \in Lists BY DEF NoEngine, Lists
<1>2. Idle \in Build /\ Idle.pc = "idle" BY <1>1 DEF Idle, Build
<1>3. /\ NoHold \in [open : BOOLEAN, budget : 0..Hold, for : 0..Hold] /\ ~NoHold.open
      /\ NoHold.for <= NoHold.budget
  BY EngineAssumption DEF NoHold
<1>4. NoCache \in [enabled : SUBSET Categories, lists : Lists, engine : Lists]
  BY <1>1 DEF NoCache
<1> QED BY <1>1, <1>2, <1>3, <1>4, EngineAssumption, QueueAssumption

\* Nothing is built, nobody is held and the whole budget is left.
LEMMA InitInv == Init => Inv
<1> SUFFICES ASSUME Init PROVE Inv OBVIOUS
<1>1. TypeOK
  <2>1. caching \in BOOLEAN /\ enabled \subseteq Categories /\ on \in BOOLEAN /\ lists \in Lists
    BY EngineAssumption DEF Init
  <2>2. queued \in 0..MaxQueue /\ left \in 0..Hold /\ waited \in Nat BY Basics DEF Init
  <2>3. /\ build \in Build /\ engine \in Lists
        /\ cache \in [enabled : SUBSET Categories, lists : Lists, engine : Lists]
        /\ hold \in [open : BOOLEAN, budget : 0..Hold, for : 0..Hold]
    BY Basics DEF Init
  <2>4. /\ request \in [Requests -> {"new", "held", "filtered", "unfiltered"}]
        /\ settled \in [as : {"none", "well", "failed"}, skipped : SUBSET Categories]
    BY DEF Init
  <2> QED BY <2>1, <2>2, <2>3, <2>4 DEF TypeOK
<1>2. Accounted BY Basics DEF Init, Accounted
<1>3. HeldWhileCompiling BY Basics DEF Init, HeldWhileCompiling, Held
<1>4. build = Idle /\ build.pc = "idle" /\ queued = 1 BY Basics DEF Init
<1>5. SeenOrQueued /\ SettledEngineIsCurrent BY <1>4 DEF SeenOrQueued, SettledEngineIsCurrent, AtRest
<1> QED BY <1>1, <1>2, <1>3, <1>4, <1>5 DEF Inv

\* A tick of an open hold.
LEMMA TickInv == ASSUME Inv, Tick PROVE Inv'
<1>1. /\ hold.open /\ hold.for < hold.budget /\ hold' = [hold EXCEPT !.for = hold.for + 1]
      /\ waited' = waited + 1
      /\ UNCHANGED <<configuration, lists, queued, build, engine, cache, left, request, settled>>
  BY DEF Tick
<1>2. /\ hold \in [open : BOOLEAN, budget : 0..Hold, for : 0..Hold] /\ waited \in Nat
      /\ waited + hold.budget = Hold + hold.for
  BY <1>1 DEF Inv, TypeOK, Accounted
<1>3. /\ hold'.open = hold.open /\ hold'.budget = hold.budget /\ hold'.for = hold.for + 1
      /\ DOMAIN hold' = DOMAIN hold
  BY <1>1, <1>2
<1>4. hold.for + 1 \in 0..Hold /\ hold.for + 1 <= hold.budget /\ waited + 1 \in Nat
      /\ waited + 1 + hold.budget = Hold + (hold.for + 1)
  <2>1. hold.for \in Nat /\ hold.budget \in Nat /\ hold.budget <= Hold BY <1>2, Basics
  <2> QED BY <2>1, <1>1, <1>2, Basics
<1>5. hold' \in [open : BOOLEAN, budget : 0..Hold, for : 0..Hold] BY <1>1, <1>2, <1>4
<1>6. TypeOK' BY <1>1, <1>4, <1>5 DEF Inv, TypeOK, configuration, settings
<1>7. Accounted' BY <1>1, <1>3, <1>4 DEF Accounted
<1>8. HeldWhileCompiling' BY <1>1, <1>3 DEF Inv, HeldWhileCompiling, Held
<1>9. /\ SeenOrQueued' /\ SettledEngineIsCurrent' /\ (build.pc = "idle" => build = Idle)'
      /\ (build.pc = "write" => caching)'
  BY <1>1 DEF Inv, SeenOrQueued, SettledEngineIsCurrent, AtRest, configuration, settings
<1> QED BY <1>6, <1>7, <1>8, <1>9 DEF Inv
HoldType == hold \in [open : BOOLEAN, budget : 0..Hold, for : 0..Hold] /\ left \in 0..Hold
            /\ waited \in Nat
RequestType == request \in [Requests -> {"new", "held", "filtered", "unfiltered"}]

\* What a consumer gets is an answer.
LEMMA AnswerType == \A e : Answer(e) \in {"filtered", "unfiltered"}
BY DEF Answer

\* Releasing a hold accounts for what it has used and leaves nobody waiting.
LEMMA ReleaseHolds ==
  ASSUME Inv, NEW e, Release(e)
  PROVE  HoldType' /\ RequestType' /\ Accounted' /\ ~hold'.open /\ Held' = {}
<1>1. /\ hold' = NoHold
      /\ left' = IF e # NoEngine THEN Hold
                 ELSE IF hold.open THEN hold.budget - hold.for ELSE left
      /\ waited' = IF e # NoEngine THEN 0 ELSE waited
      /\ request' = [r \in Requests |-> IF r \in Held THEN Answer(e) ELSE request[r]]
  BY DEF Release, Spent
<1>2. /\ hold \in [open : BOOLEAN, budget : 0..Hold, for : 0..Hold] /\ left \in 0..Hold
      /\ waited \in Nat /\ Accounted
      /\ request \in [Requests -> {"new", "held", "filtered", "unfiltered"}]
  BY DEF Inv, TypeOK
<1>3. ~hold'.open /\ hold'.for <= hold'.budget
      /\ hold' \in [open : BOOLEAN, budget : 0..Hold, for : 0..Hold]
  BY <1>1, Basics
<1>4. left' \in 0..Hold /\ waited' \in Nat /\ waited' + left' = Hold
  <2>1. hold.for \in Nat /\ hold.budget \in Nat /\ hold.budget <= Hold /\ hold.for <= hold.budget
    BY <1>2, Basics DEF Accounted
  <2>2. (hold.open => waited + hold.budget = Hold + hold.for) /\ (~hold.open => waited + left = Hold)
    BY <1>2 DEF Accounted
  <2> QED BY <2>1, <2>2, <1>1, <1>2, Basics
<1>5. RequestType' /\ Held' = {}
  <2>1. \A r \in Requests : request'[r] \in {"new", "filtered", "unfiltered"}
    BY <1>1, <1>2, AnswerType DEF Held
  <2>2. request' \in [Requests -> {"new", "held", "filtered", "unfiltered"}]
    BY <1>1, <1>2, AnswerType
  <2> QED BY <2>1, <2>2 DEF RequestType, Held
<1> QED BY <1>3, <1>4, <1>5 DEF HoldType, Accounted

\* What the rest of the service is like, when the steps of a hold leave it alone.
LEMMA RestKept ==
  ASSUME Inv, UNCHANGED <<configuration, lists, queued, build, engine, cache, settled>>
  PROVE  /\ HoldType' /\ RequestType' => TypeOK'
         /\ SeenOrQueued' /\ SettledEngineIsCurrent' /\ (build.pc = "idle" => build = Idle)'
         /\ (build.pc = "write" => caching)'
BY DEF Inv, TypeOK, HoldType, RequestType, SeenOrQueued, SettledEngineIsCurrent, AtRest,
       configuration, settings

\* The budget of a hold runs out.
LEMMA HoldTimeoutInv == ASSUME Inv, HoldTimeout PROVE Inv'
<1>1. /\ hold.open /\ hold.for = hold.budget /\ hold' = NoHold /\ left' = 0
      /\ request' = [r \in Requests |-> IF r \in Held THEN Answer(engine) ELSE request[r]]
      /\ waited' = waited
      /\ UNCHANGED <<configuration, lists, queued, build, engine, cache, settled>>
  BY DEF HoldTimeout
<1>2. /\ hold \in [open : BOOLEAN, budget : 0..Hold, for : 0..Hold] /\ waited \in Nat
      /\ request \in [Requests -> {"new", "held", "filtered", "unfiltered"}]
      /\ waited + hold.budget = Hold + hold.for
  BY <1>1 DEF Inv, TypeOK, Accounted
<1>3. ~hold'.open /\ hold'.for <= hold'.budget
      /\ hold' \in [open : BOOLEAN, budget : 0..Hold, for : 0..Hold]
  BY <1>1, Basics
<1>4. waited = Hold
  <2>1. hold.for \in Nat /\ hold.budget \in Nat BY <1>2, Basics
  <2> QED BY <2>1, <1>1, <1>2, Basics
<1>5. HoldType' /\ Accounted' BY <1>1, <1>2, <1>3, <1>4, Basics DEF HoldType, Accounted
<1>6. RequestType' /\ Held' = {}
  <2>1. \A r \in Requests : request'[r] \in {"new", "filtered", "unfiltered"}
    BY <1>1, <1>2, AnswerType DEF Held
  <2>2. request' \in [Requests -> {"new", "held", "filtered", "unfiltered"}]
    BY <1>1, <1>2, AnswerType
  <2> QED BY <2>1, <2>2 DEF RequestType, Held
<1>7. HeldWhileCompiling' BY <1>3, <1>6 DEF HeldWhileCompiling
<1> QED BY <1>1, <1>5, <1>6, <1>7, RestKept DEF Inv

\* A consumer asks for the engine.
LEMMA RequestInv == ASSUME Inv, NEW r \in Requests, Request(r) PROVE Inv'
<1>1. /\ request' = [request EXCEPT ![r] =
           IF engine = NoEngine /\ hold.open /\ on THEN "held" ELSE Answer(engine)]
      /\ UNCHANGED <<hold, left, waited>>
      /\ UNCHANGED <<configuration, lists, queued, build, engine, cache, settled>>
  BY DEF Request
<1>2. request \in [Requests -> {"new", "held", "filtered", "unfiltered"}] BY DEF Inv, TypeOK
<1>3. RequestType' BY <1>1, <1>2, AnswerType DEF RequestType
<1>4. HoldType' /\ Accounted' BY <1>1 DEF Inv, TypeOK, HoldType, Accounted
<1>5. Held' # {} => hold.open
  <2>1. \A q \in Requests : request'[q] = "held" => request[q] = "held" \/ hold.open
    BY <1>1, <1>2, AnswerType
  <2> QED BY <2>1 DEF Inv, HeldWhileCompiling, Held
<1>6. HeldWhileCompiling' BY <1>1, <1>5 DEF Inv, HeldWhileCompiling
<1> QED BY <1>1, <1>3, <1>4, <1>6, RestKept DEF Inv
\* The hold stays as it is, and the build it belongs to goes on.
LEMMA HoldKept ==
  ASSUME Inv, UNCHANGED holding, build.pc \in Compiling => build'.pc \in Compiling
  PROVE  HoldType' /\ RequestType' /\ Accounted' /\ HeldWhileCompiling'
BY DEF Inv, TypeOK, holding, HoldType, RequestType, Accounted, HeldWhileCompiling, Held

\* A change of what is to be blocked has a refresh of its own.
LEMMA ChangeInv ==
  ASSUME Inv, queued < MaxQueue, queued' = queued + 1, enabled' \in SUBSET Categories,
         on' \in BOOLEAN, lists' \in Lists,
         UNCHANGED <<caching, build, engine, cache, holding, settled>>
  PROVE  Inv'
<1>1. queued' \in 0..MaxQueue /\ queued' # 0
  <2>1. queued \in 0..MaxQueue BY DEF Inv, TypeOK
  <2> QED BY <2>1, Basics
<1>2. HoldType' /\ RequestType' /\ Accounted' /\ HeldWhileCompiling' BY HoldKept
<1>3. TypeOK' BY <1>1, <1>2 DEF Inv, TypeOK, HoldType, RequestType
<1>4. SeenOrQueued' /\ SettledEngineIsCurrent' BY <1>1 DEF SeenOrQueued, SettledEngineIsCurrent, AtRest
<1>5. (build.pc = "idle" => build = Idle)' /\ (build.pc = "write" => caching)' BY DEF Inv
<1> QED BY <1>2, <1>3, <1>4, <1>5 DEF Inv

\* The settings are saved.
LEMMA SaveSettingsInv ==
  ASSUME Inv, NEW E \in SUBSET Categories, NEW o \in BOOLEAN, SaveSettings(E, o) PROVE Inv'
<1>1. /\ queued < MaxQueue /\ enabled' = E /\ on' = o /\ queued' = queued + 1
      /\ UNCHANGED <<caching, lists, build, engine, cache, holding, settled>>
  BY DEF SaveSettings
<1>2. lists' \in Lists BY <1>1 DEF Inv, TypeOK
<1> QED BY <1>1, <1>2, ChangeInv

\* The lists on disk change.
LEMMA ListsChangeInv == ASSUME Inv, NEW l \in Lists, ListsChange(l) PROVE Inv'
<1>1. /\ queued < MaxQueue /\ lists' = l /\ queued' = queued + 1
      /\ UNCHANGED <<caching, build, engine, cache, holding, settled>>
      /\ enabled' = enabled /\ on' = on
  BY DEF ListsChange, configuration, settings
<1>2. enabled' \in SUBSET Categories /\ on' \in BOOLEAN BY <1>1 DEF Inv, TypeOK
<1> QED BY <1>1, <1>2, ChangeInv

\* A new process starts as the first did, with what is on disk.
LEMMA RestartInv == ASSUME Inv, Restart PROVE Inv'
<1>1. /\ queued' = 1 /\ build' = Idle /\ engine' = NoEngine
      /\ hold' = NoHold /\ left' = Hold /\ waited' = 0
      /\ request' = [r \in Requests |-> "new"]
      /\ settled' = [as |-> "none", skipped |-> {}]
      /\ UNCHANGED <<caching, enabled, on, lists, cache>>
  BY DEF Restart, configuration, settings
<1>2. HoldType' /\ Accounted' BY <1>1, Basics DEF HoldType, Accounted
<1>3. RequestType' /\ HeldWhileCompiling' BY <1>1, Basics DEF RequestType, HeldWhileCompiling, Held
<1>4. queued' \in 0..MaxQueue BY <1>1, Basics
<1>5. TypeOK'
  <2>1. build' \in Build /\ engine' \in Lists BY <1>1, Basics
  <2>2. settled' \in [as : {"none", "well", "failed"}, skipped : SUBSET Categories] BY <1>1
  <2> QED BY <1>1, <1>2, <1>3, <1>4, <2>1, <2>2 DEF Inv, TypeOK, HoldType, RequestType
<1>6. SeenOrQueued' /\ SettledEngineIsCurrent' /\ (build.pc = "idle" => build = Idle)'
      /\ (build.pc = "write" => caching)'
  BY <1>1, Basics DEF SeenOrQueued, SettledEngineIsCurrent, AtRest
<1> QED BY <1>2, <1>3, <1>5, <1>6 DEF Inv

-----------------------------------------------------------------------------
(* The steps of a build                                                    *)

\* A build starts with the settings as they are.
LEMMA BeginInv == ASSUME Inv, Begin PROVE Inv'
<1>1. /\ build = Idle /\ queued > 0 /\ queued' = queued - 1
      /\ build' = [Idle EXCEPT !.pc = "resolve", !.snapshot = enabled]
      /\ UNCHANGED holding
      /\ UNCHANGED <<caching, enabled, on, lists, engine, cache, settled>>
  BY DEF Begin, configuration, settings
<1>2. /\ build' \in Build /\ build'.pc = "resolve" /\ build'.snapshot = enabled
  BY <1>1, Basics DEF Idle, Build, Inv, TypeOK
<1>3. HoldType' /\ RequestType' /\ Accounted' /\ HeldWhileCompiling'
  BY <1>1, <1>2, Basics, HoldKept DEF Compiling
<1>4. queued' \in 0..MaxQueue
  <2>1. queued \in 0..MaxQueue BY DEF Inv, TypeOK
  <2> QED BY <2>1, <1>1, Basics
<1>5. TypeOK' BY <1>1, <1>2, <1>3, <1>4 DEF Inv, TypeOK, HoldType, RequestType
<1>6. SeenOrQueued' BY <1>1, <1>2 DEF SeenOrQueued, Captured
<1>7. SettledEngineIsCurrent' BY <1>2, Basics DEF SettledEngineIsCurrent, AtRest
<1> QED BY <1>2, <1>3, <1>5, <1>6, <1>7 DEF Inv

\* A build that ends leaves an engine that is current, if nothing waits behind it.
LEMMA EndInv ==
  ASSUME Inv, NEW e \in Lists, NEW how \in {"well", "failed"}, NEW skipped \in SUBSET Categories,
         End(e, how, skipped), UNCHANGED <<configuration, lists, queued, cache>>,
         HoldType', RequestType', Accounted', HeldWhileCompiling',
         queued = 0 /\ ~caching /\ how = "well" =>
           e = [c \in Categories |-> IF c \in enabled \ skipped THEN lists[c] ELSE None]
  PROVE  Inv'
<1>1. /\ engine' = e /\ build' = Idle /\ build'.pc = "idle"
      /\ settled' = [as |-> how, skipped |-> skipped]
      /\ UNCHANGED <<caching, enabled, on, lists, queued, cache>>
  BY Basics DEF End, configuration, settings
<1>2. TypeOK'
  <2>1. build' \in Build BY <1>1, Basics
  <2>2. settled' \in [as : {"none", "well", "failed"}, skipped : SUBSET Categories] BY <1>1
  <2> QED BY <1>1, <2>1, <2>2 DEF Inv, TypeOK, HoldType, RequestType
<1>3. SeenOrQueued' BY <1>1 DEF SeenOrQueued, Captured
<1>4. settled'.as = how /\ settled'.skipped = skipped BY <1>1
<1>5. SettledEngineIsCurrent' BY <1>1, <1>4 DEF SettledEngineIsCurrent, AtRest
<1> QED BY <1>1, <1>2, <1>3, <1>5 DEF Inv
\* A build that goes on has captured what it says it has.
LEMMA GoesOnInv ==
  ASSUME Inv, build' \in Build, build'.pc # "idle", build'.pc = "write" => caching,
         UNCHANGED <<configuration, lists, queued, cache>>, engine' \in Lists,
         settled' \in [as : {"none", "well", "failed"}, skipped : SUBSET Categories],
         HoldType', RequestType', Accounted', HeldWhileCompiling',
         build'.snapshot = build.snapshot, build.pc # "idle",
         build'.pc \in Captured /\ queued = 0 => build'.lists = lists
  PROVE  Inv'
<1>1. UNCHANGED <<caching, enabled, on, lists, queued, cache>> BY DEF configuration, settings
<1>2. TypeOK' BY <1>1 DEF Inv, TypeOK, HoldType, RequestType
<1>3. SeenOrQueued' BY <1>1 DEF Inv, SeenOrQueued
<1>4. build' # Idle BY Basics
<1>5. SettledEngineIsCurrent' BY <1>4 DEF SettledEngineIsCurrent, AtRest
<1> QED BY <1>1, <1>2, <1>3, <1>5 DEF Inv

\* The lists are resolved; there may be none.
LEMMA ResolveInv == ASSUME Inv, Resolve PROVE Inv'
<1>1. build.pc = "resolve" /\ UNCHANGED <<configuration, lists, queued, cache>> /\ UNCHANGED holding
  BY DEF Resolve
<1>2. CASE lists = NoEngine
  <2>1. End(NoEngine, "well", {}) BY <1>2 DEF Resolve
  <2>2. build'.pc = "idle" BY <2>1, Basics DEF End
  <2>3. HoldType' /\ RequestType' /\ Accounted' /\ HeldWhileCompiling'
    BY <1>1, HoldKept DEF Compiling
  <2>4. NoEngine = [c \in Categories |-> IF c \in enabled \ {} THEN lists[c] ELSE None]
    BY <1>2 DEF NoEngine
  <2> HIDE DEF End
  <2> QED BY <1>1, <2>1, <2>3, <2>4, Basics, EndInv
<1>3. CASE lists # NoEngine
  <2>1. /\ build' = [build EXCEPT !.pc = "lookup", !.enabled = enabled, !.lists = lists]
        /\ UNCHANGED <<engine, settled>>
    BY <1>3 DEF Resolve
  <2>2. build \in Build /\ enabled \subseteq Categories /\ lists \in Lists BY DEF Inv, TypeOK
  <2>3. /\ build' \in Build /\ build'.pc = "lookup" /\ build'.snapshot = build.snapshot
        /\ build'.lists = lists
    BY <2>1, <2>2 DEF Build
  <2>4. HoldType' /\ RequestType' /\ Accounted' /\ HeldWhileCompiling'
    BY <1>1, HoldKept DEF Compiling
  <2>5. engine' \in Lists /\ settled' \in [as : {"none", "well", "failed"}, skipped : SUBSET Categories]
    BY <2>1 DEF Inv, TypeOK
  <2> QED BY <1>1, <2>3, <2>4, <2>5, GoesOnInv
<1> QED BY <1>2, <1>3

\* The cache has the engine, or the lists are compiled and consumers may be held.
LEMMA LookupInv == ASSUME Inv, Lookup PROVE Inv'
<1>1. build.pc = "lookup" /\ UNCHANGED <<configuration, lists, queued, cache>> BY DEF Lookup
<1>2. ~hold.open /\ Held = {} BY <1>1 DEF Inv, HeldWhileCompiling, Compiling
<1>3. CASE Hit
  <2>1. /\ End(cache.engine, "well", {}) /\ left' = Hold /\ waited' = 0
        /\ UNCHANGED <<hold, request>>
    BY <1>3 DEF Lookup
  <2>2. HoldType' /\ RequestType' BY <2>1, Basics DEF Inv, TypeOK, HoldType, RequestType
  <2>3. Accounted' /\ HeldWhileCompiling'
    BY <1>2, <2>1, Basics DEF Inv, Accounted, HeldWhileCompiling, Held
  <2>4. cache.engine \in Lists BY DEF Inv, TypeOK
  <2>5. caching BY <1>3 DEF Hit
  <2> QED BY <1>1, <2>1, <2>2, <2>3, <2>4, <2>5, EndInv
<1>4. CASE ~Hit
  <2>1. /\ build' = [build EXCEPT !.pc = "compile"] /\ OpenHold(Chosen)
        /\ UNCHANGED <<engine, settled>>
    BY <1>4 DEF Lookup
  <2>2. build \in Build BY DEF Inv, TypeOK
  <2>3. /\ build' \in Build /\ build'.pc = "compile" /\ build'.snapshot = build.snapshot
        /\ build'.lists = build.lists
    BY <2>1, <2>2 DEF Build
  <2>4. /\ hold' = [open |-> TRUE, budget |-> left, for |-> 0] \/ hold' = hold
        /\ UNCHANGED <<left, request, waited>>
    BY <2>1 DEF OpenHold, Budget
  <2>5. /\ hold \in [open : BOOLEAN, budget : 0..Hold, for : 0..Hold] /\ left \in 0..Hold
        /\ hold.for <= hold.budget /\ waited + left = Hold /\ waited \in Nat
    BY <1>2 DEF Inv, TypeOK, Accounted
  <2>6. hold' \in [open : BOOLEAN, budget : 0..Hold, for : 0..Hold]
    <3>1. 0 \in 0..Hold BY Basics
    <3>2. [open |-> TRUE, budget |-> left, for |-> 0]
            \in [open : BOOLEAN, budget : 0..Hold, for : 0..Hold]
      BY <3>1, <2>5
    <3> QED BY <3>2, <2>4, <2>5
  <2>7. HoldType' /\ RequestType' BY <2>4, <2>6 DEF Inv, TypeOK, HoldType, RequestType
  <2>8. Accounted'
    <3>1. left \in Nat /\ Hold \in Nat BY <2>5, Basics
    <3>2. CASE hold' = hold BY <1>2, <2>4, <2>5, <3>2 DEF Accounted
    <3>3. CASE hold' = [open |-> TRUE, budget |-> left, for |-> 0]
      <4>1. hold'.open /\ hold'.budget = left /\ hold'.for = 0 BY <3>3
      <4> QED BY <4>1, <2>4, <2>5, <3>1 DEF Accounted
    <3> QED BY <2>4, <3>2, <3>3
  <2>9. HeldWhileCompiling' BY <1>2, <2>3, <2>4 DEF HeldWhileCompiling, Held, Compiling
  <2>10. engine' \in Lists /\ settled' \in [as : {"none", "well", "failed"}, skipped : SUBSET Categories]
    BY <2>1 DEF Inv, TypeOK
  <2>11. queued = 0 => build.lists = lists BY <1>1 DEF Inv, SeenOrQueued, Captured
  <2> QED BY <1>1, <2>3, <2>7, <2>8, <2>9, <2>10, <2>11, GoesOnInv
<1> QED BY <1>3, <1>4
\* The lists are compiled: as they are when the worker reads them.
LEMMA CompileInv == ASSUME Inv, NEW skipped \in SUBSET Categories, Compile(skipped) PROVE Inv'
<1> DEFINE compiled == [c \in Categories |-> IF c \in Chosen \ skipped THEN lists[c] ELSE None]
<1>1. /\ build.pc = "compile" /\ Release(compiled)
      /\ UNCHANGED <<configuration, lists, queued, cache>>
      /\ \/ caching /\ engine' = compiled /\ build' = [build EXCEPT !.pc = "write", !.compiled = compiled]
            /\ settled' = [as |-> "well", skipped |-> skipped]
         \/ End(compiled, "well", skipped)
  BY DEF Compile
<1>2. compiled \in Lists
  <2>1. lists \in Lists BY DEF Inv, TypeOK
  <2> QED BY <2>1 DEF Lists
<1>3. queued = 0 => compiled = [c \in Categories |-> IF c \in enabled \ skipped THEN lists[c] ELSE None]
  <2> SUFFICES ASSUME queued = 0
               PROVE  \A c \in Categories : compiled[c] =
                        IF c \in enabled \ skipped THEN lists[c] ELSE None
    OBVIOUS
  <2>1. build.snapshot = enabled /\ build.lists = lists
    BY <1>1 DEF Inv, SeenOrQueued, Captured
  <2> QED BY <2>1 DEF Chosen, Inv, TypeOK
<1> HIDE DEF compiled
<1>4. HoldType' /\ RequestType' /\ Accounted' /\ ~hold'.open /\ Held' = {}
  BY <1>1, ReleaseHolds
<1>5. HeldWhileCompiling' BY <1>4 DEF HeldWhileCompiling
<1>6. ASSUME End(compiled, "well", skipped) PROVE Inv'
  BY <1>1, <1>2, <1>3, <1>4, <1>5, <1>6, EndInv
<1>7. ASSUME caching, engine' = compiled,
             build' = [build EXCEPT !.pc = "write", !.compiled = compiled],
             settled' = [as |-> "well", skipped |-> skipped]
      PROVE  Inv'
  <2>1. build \in Build BY DEF Inv, TypeOK
  <2>2. /\ build' \in Build /\ build'.pc = "write" /\ build'.snapshot = build.snapshot
        /\ build'.lists = build.lists
    BY <1>2, <1>7, <2>1 DEF Build
  <2>3. settled' \in [as : {"none", "well", "failed"}, skipped : SUBSET Categories] BY <1>7
  <2>4. queued = 0 => build.lists = lists BY <1>1 DEF Inv, SeenOrQueued, Captured
  <2> QED BY <1>1, <1>2, <1>4, <1>5, <1>7, <2>2, <2>3, <2>4, GoesOnInv
<1> QED BY <1>1, <1>6, <1>7

\* The worker hangs.
LEMMA WedgeInv == ASSUME Inv, Wedge PROVE Inv'
<1>1. /\ build.pc = "compile" /\ build' = [build EXCEPT !.pc = "wedged"]
      /\ UNCHANGED <<configuration, lists, queued, cache>> /\ UNCHANGED <<engine, settled>>
      /\ UNCHANGED holding
  BY DEF Wedge
<1>2. build \in Build BY DEF Inv, TypeOK
<1>3. /\ build' \in Build /\ build'.pc = "wedged" /\ build'.snapshot = build.snapshot
      /\ build'.lists = build.lists
  BY <1>1, <1>2 DEF Build
<1>4. HoldType' /\ RequestType' /\ Accounted' /\ HeldWhileCompiling'
  BY <1>1, <1>3, HoldKept DEF Compiling
<1>5. engine' \in Lists /\ settled' \in [as : {"none", "well", "failed"}, skipped : SUBSET Categories]
  BY <1>1 DEF Inv, TypeOK
<1>6. queued = 0 => build.lists = lists BY <1>1 DEF Inv, SeenOrQueued, Captured
<1> QED BY <1>1, <1>3, <1>4, <1>5, <1>6, GoesOnInv

\* The build fails and the engine stays in use.
LEMMA BuildFailsInv == ASSUME Inv, BuildFails PROVE Inv'
<1>1. /\ Release(engine) /\ End(engine, "failed", {})
      /\ UNCHANGED <<configuration, lists, queued, cache>>
  BY DEF BuildFails
<1>2. HoldType' /\ RequestType' /\ Accounted' /\ ~hold'.open /\ Held' = {}
  BY <1>1, ReleaseHolds
<1>3. HeldWhileCompiling' BY <1>2 DEF HeldWhileCompiling
<1>4. engine \in Lists BY DEF Inv, TypeOK
<1> QED BY <1>1, <1>2, <1>3, <1>4, EndInv

\* The compiled engine is cached, or not.
LEMMA WriteInv == ASSUME Inv, Write PROVE Inv'
<1>1. /\ build.pc = "write" /\ cache' \in {cache, NoCache, File} /\ build' = Idle
      /\ UNCHANGED <<caching, enabled, on, lists, queued, engine, settled>> /\ UNCHANGED holding
  BY DEF Write, configuration, settings
<1>2. caching' /\ build' \in Build /\ build'.pc = "idle" BY <1>1, Basics DEF Inv
<1>3. HoldType' /\ RequestType' /\ Accounted' /\ HeldWhileCompiling'
  BY <1>1, HoldKept DEF Compiling
<1>4. cache' \in [enabled : SUBSET Categories, lists : Lists, engine : Lists]
  <2>1. build \in Build BY DEF Inv, TypeOK
  <2>2. /\ build.enabled \in SUBSET Categories /\ build.compiled \in Lists /\ build.lists \in Lists
    BY <2>1 DEF Build
  <2>3. [c \in Categories |-> IF c \in build.enabled THEN build.lists[c] ELSE None] \in Lists
    BY <2>2 DEF Lists
  <2>4. File \in [enabled : SUBSET Categories, lists : Lists, engine : Lists]
    BY <2>2, <2>3 DEF File
  <2> QED BY <1>1, <2>4, Basics DEF Inv, TypeOK
<1>5. TypeOK' BY <1>1, <1>2, <1>3, <1>4 DEF Inv, TypeOK, HoldType, RequestType
<1>6. SeenOrQueued' BY <1>2 DEF SeenOrQueued, Captured
<1>7. SettledEngineIsCurrent' BY <1>2 DEF SettledEngineIsCurrent
<1> QED BY <1>1, <1>2, <1>3, <1>5, <1>6, <1>7 DEF Inv

-----------------------------------------------------------------------------
(* Theorems                                                                *)

\* Every step keeps the invariant.
LEMMA NextInv == Inv /\ [Next]_vars => Inv'
<1> SUFFICES ASSUME Inv, [Next]_vars PROVE Inv' OBVIOUS
<1>1. CASE Begin BY <1>1, BeginInv
<1>2. CASE Resolve BY <1>2, ResolveInv
<1>3. CASE Lookup BY <1>3, LookupInv
<1>4. CASE \E skipped \in SUBSET Categories : Compile(skipped) BY <1>4, CompileInv
<1>5. CASE BuildFails BY <1>5, BuildFailsInv
<1>6. CASE Write BY <1>6, WriteInv
<1>7. CASE HoldTimeout BY <1>7, HoldTimeoutInv
<1>8. CASE Wedge BY <1>8, WedgeInv
<1>9. CASE Tick BY <1>9, TickInv
<1>10. CASE \E r \in Requests : Request(r) BY <1>10, RequestInv
<1>11. CASE \E E \in SUBSET Categories, o \in BOOLEAN : SaveSettings(E, o)
  BY <1>11, SaveSettingsInv
<1>12. CASE \E l \in Lists : ListsChange(l) BY <1>12, ListsChangeInv
<1>13. CASE Restart BY <1>13, RestartInv
<1>14. CASE UNCHANGED vars
  <2>1. /\ UNCHANGED <<configuration, lists, queued, build, engine, cache, settled>>
        /\ UNCHANGED holding
    BY <1>14 DEF vars
  <2>2. HoldType' /\ RequestType' /\ Accounted' /\ HeldWhileCompiling' BY <2>1, HoldKept
  <2> QED BY <2>1, <2>2, RestKept DEF Inv
<1> QED
  BY <1>1, <1>2, <1>3, <1>4, <1>5, <1>6, <1>7, <1>8, <1>9, <1>10, <1>11, <1>12, <1>13, <1>14
  DEF Next, Progress

\* The invariant holds throughout.
LEMMA InvHolds == Spec => []Inv
BY InitInv, NextInv, PTL DEF Spec

\* The service, its build, its cache and its holds are always of their types.
THEOREM TypeCorrect == Spec => []TypeOK
<1>1. Inv => TypeOK BY DEF Inv
<1> QED BY <1>1, InvHolds, PTL

\* However many builds end without an engine and however their holds are cut short,
\* pages are held for no longer than one hold between two engines.
THEOREM HoldBounded == Spec => []HoldIsBounded
<1>1. Inv => HoldIsBounded
  <2> SUFFICES ASSUME Inv PROVE waited <= Hold BY DEF HoldIsBounded
  <2>1. /\ hold \in [open : BOOLEAN, budget : 0..Hold, for : 0..Hold] /\ left \in 0..Hold
        /\ waited \in Nat /\ Accounted
    BY DEF Inv, TypeOK
  <2>2. hold.for \in Nat /\ hold.budget \in Nat /\ left \in Nat /\ Hold \in Nat BY <2>1, Basics
  <2> QED BY <2>1, <2>2 DEF Accounted
<1> QED BY <1>1, InvHolds, PTL

\* Without a cache, and whatever changes came during which of the builds, the engine
\* in use when all refreshes are done and the last went well is the enabled lists as
\* they are on disk, but for those that could not be read.
THEOREM SettledIsCurrent == Spec => []SettledEngineIsCurrent
<1>1. Inv => SettledEngineIsCurrent BY DEF Inv
<1> QED BY <1>1, InvHolds, PTL

\* A consumer waits only while a hold is open, and a hold is open only while a first
\* engine is being compiled: no way out of a build leaves anyone waiting.
THEOREM NobodyForgotten == Spec => []HeldWhileCompiling
<1>1. Inv => HeldWhileCompiling BY DEF Inv
<1> QED BY <1>1, InvHolds, PTL
=============================================================================
