----------------------- MODULE HnsForwarding_proofs -----------------------
(***************************************************************************)
(* Proofs about HnsForwarding, for any number of generations and restarts: *)
(* whatever dies, times out or is refused, and the browser's own crashes   *)
(* included, nothing stale is served, and starts, stops, leases, custody   *)
(* and its journal together implement ResolverPromise.                     *)
(***************************************************************************)
EXTENDS HnsForwarding, TLAPS

\* A generation is current exactly while the resolver starts or runs; then the
\* user wants it, the network is watched, and nothing is being torn down, has
\* failed for good or blocks the next start.
Current == gen # 0 <=> status \in {"starting", "running"}

CurrentIsSound ==
  /\ gen # 0 => wanted /\ monitor = "on" /\ ~permanent /\ ~blocked /\ recovery = "none" /\ teardown = {}
  /\ recovery # "none" => status = "stopping"
  /\ status \in {"stopped", "error"} /\ ~blocked => teardown = {}
  /\ network => monitor = "on"

\* Generations are numbered in their order; nothing of a later one is there.
Numbered ==
  /\ gen <= last /\ owner <= last
  /\ \A g \in Gens : last < g => starts[g] = "none" /\ activations[g] = "none" /\ helper[g] = "none"

\* The helper is spawned once, and before the resolver; custody is of the helper
\* that is held; a journal that is closed leaves nobody unaccounted for, and
\* while a helper is held it is only it and its resolver that can be.
Held ==
  /\ custody = "none" <=> owner = 0
  /\ owner # 0 => helper[owner] # "none"
  /\ owner # 0 /\ owner = gen => helper[owner] = "live"
  /\ \A g \in Gens : native[g] = "dead" => helper[g] = "dead"
  /\ \A g \in Gens : native[g] # "none" => helper[g] # "none"
  /\ \A g \in Gens : Unaccounted(g) => journal = "pending" /\ (owner = 0 \/ owner = g)

\* A helper is about to be spawned only where all before are accounted for.
SpawnsAlone ==
  \A g \in Gens :
    /\ starts[g] \in {"rebuild", "transport"} => helper[g] = "none"
    /\ starts[g] = "transport" /\ g = gen => journal = "closed"

\* A current generation is published, or about to be, only in custody; a lease
\* that was missed since leaves it invalid.
Authorized ==
  /\ published => authority.published
  /\ authority.missed => authority.published /\ ~Valid(authority)
  /\ gen # 0 /\ (authority.published \/ activations[gen] = "pause") => owner = gen /\ custody = "captured"

\* What the guard passes is the intent, as it was committed last.
Guarded == guardAllowed => guardRoute = upstream

Inv == TypeOK /\ Current /\ CurrentIsSound /\ Numbered /\ Held /\ SpawnsAlone /\ Authorized /\ Guarded

-----------------------------------------------------------------------------
(* Types                                                                   *)

\* The types of what an invalidation may change.
CoreTypes ==
  /\ status \in {"stopped", "starting", "running", "stopping", "error"}
  /\ gen \in 0..MaxGen /\ pendingStart \in BOOLEAN /\ permanent \in BOOLEAN
  /\ recovery \in {"none", "plain", "fatal"} /\ teardown \subseteq Parts \cup {"failed"}
  /\ authority \in [leases : SUBSET Leases, published : BOOLEAN, retired : BOOLEAN, missed : BOOLEAN]
  /\ published \in BOOLEAN /\ localReady \in BOOLEAN /\ activating \in BOOLEAN
  /\ upstream \in 0..MaxGen /\ updating \in BOOLEAN
  /\ guardRoute \in 0..MaxGen /\ guardAllowed \in BOOLEAN

\* The numbers and records that everything starts from.
LEMMA Basics ==
  /\ MaxGen \in Nat \ {0} /\ MaxRestarts \in Nat /\ 0 \in 0..MaxGen /\ 0 \in 0..MaxRestarts
  /\ Gens \subseteq 0..MaxGen /\ 0 \notin Gens
  /\ \A n \in 0..MaxGen : n # 0 => n \in Gens
  /\ \A n \in 0..MaxGen : n < MaxGen => n + 1 \in Gens
  /\ NoAuthority \in [leases : SUBSET Leases, published : BOOLEAN, retired : BOOLEAN, missed : BOOLEAN]
  /\ NewAuthority \in [leases : SUBSET Leases, published : BOOLEAN, retired : BOOLEAN, missed : BOOLEAN]
  /\ ~NoAuthority.published /\ ~NoAuthority.missed /\ ~Valid(NoAuthority)
  /\ ~NewAuthority.published /\ ~NewAuthority.missed /\ ~Valid(NewAuthority)
<1>1. /\ MaxGen \in Nat \ {0} /\ MaxRestarts \in Nat /\ 0 \in 0..MaxGen /\ 0 \in 0..MaxRestarts
      /\ Gens \subseteq 0..MaxGen /\ 0 \notin Gens
      /\ \A n \in 0..MaxGen : n # 0 => n \in Gens
      /\ \A n \in 0..MaxGen : n < MaxGen => n + 1 \in Gens
  BY HnsAssumption DEF Gens
<1>2. /\ NoAuthority \in [leases : SUBSET Leases, published : BOOLEAN, retired : BOOLEAN, missed : BOOLEAN]
      /\ NewAuthority \in [leases : SUBSET Leases, published : BOOLEAN, retired : BOOLEAN, missed : BOOLEAN]
  BY DEF NoAuthority, NewAuthority
<1>3. /\ ~NoAuthority.published /\ ~NoAuthority.missed /\ ~Valid(NoAuthority)
      /\ ~NewAuthority.published /\ ~NewAuthority.missed /\ ~Valid(NewAuthority)
  BY DEF NoAuthority, NewAuthority, Valid, Leases
<1> QED BY <1>1, <1>2, <1>3

\* An invalidation leaves no generation current: either there was none, or it is
\* stopped, whatever the invalidation found under way.
Over ==
  /\ gen' = 0 /\ status' \notin {"starting", "running"}
  /\ recovery' # "none" => status' = "stopping"
  /\ status' \in {"stopped", "error"} /\ ~blocked => teardown' = {}
  /\ published' => authority'.published
  /\ authority'.missed => authority'.published /\ ~Valid(authority')
  /\ guardAllowed' => guardRoute' = upstream'
  /\ CoreTypes'

\* Whatever it finds, an invalidation ends the current generation: one that fails
\* for good is only that of a start that is current.
LEMMA Ends ==
  ASSUME Inv, NEW fatal \in BOOLEAN, Invalidate(fatal), fatal => gen # 0
  PROVE  Over
<1>0. /\ CoreTypes /\ (gen # 0 => wanted /\ ~permanent /\ recovery = "none")
      /\ (gen # 0 <=> status \in {"starting", "running"})
  BY DEF Inv, TypeOK, HnsTypeOK, CoreTypes, Current, CurrentIsSound
<1>1. CASE UNCHANGED core
  <2>1. gen = 0
    BY <1>0, <1>1 DEF Invalidate, Stop, Cleared, core, life, auth, routing
  <2> QED
    BY <1>0, <1>1, <2>1 DEF Inv, CurrentIsSound, Authorized, Guarded, Over, CoreTypes, Valid, core,
         life, auth, routing
<1>2. CASE (recovery # "none" \/ ~wanted) /\ ~UNCHANGED core
  <2>1. /\ authority' = [authority EXCEPT !.retired = TRUE]
        /\ published' = FALSE /\ Cleared /\ localReady' = FALSE
        /\ permanent' = (permanent \/ fatal)
        /\ UNCHANGED <<status, gen, pendingStart, recovery, teardown, activating>>
    BY <1>2 DEF Invalidate
  <2>2. gen = 0 BY <1>0, <1>2
  <2>3. /\ authority' \in [leases : SUBSET Leases, published : BOOLEAN, retired : BOOLEAN, missed : BOOLEAN]
        /\ authority'.published = authority.published /\ authority'.missed = authority.missed
        /\ ~Valid(authority')
    BY <1>0, <2>1 DEF CoreTypes, Valid
  <2>4. CoreTypes' BY <1>0, <2>1, <2>3, Basics DEF CoreTypes, Cleared
  <2> QED
    BY <1>0, <2>1, <2>2, <2>3, <2>4 DEF Inv, CurrentIsSound, Authorized, Over, Cleared
<1>3. CASE ~(recovery # "none" \/ ~wanted) /\ ~UNCHANGED core
  <2>1. /\ Stop({}) /\ recovery' \in {"fatal", "plain"} /\ localReady' = FALSE
        /\ permanent' = (permanent \/ fatal)
    BY <1>3 DEF Invalidate
  <2>2. CoreTypes' BY <1>0, <2>1, Basics DEF CoreTypes, Stop, Cleared, Parts
  <2> QED BY <2>1, <2>2, Basics DEF Over, Stop, Cleared
<1> QED BY <1>1, <1>2, <1>3

\* The types of all the rest.
OtherTypes ==
  /\ wanted \in BOOLEAN /\ monitor \in {"none", "new", "on"} /\ network \in BOOLEAN
  /\ last \in 0..MaxGen
  /\ starts \in [Gens -> {"none", "rebuild", "transport", "capture"}]
  /\ blocked \in BOOLEAN
  /\ restarts \in 0..MaxRestarts /\ restartTimer \in BOOLEAN
  /\ owner \in 0..MaxGen /\ custody \in {"none", "bound", "captured", "failed"}
  /\ helper \in [Gens -> {"none", "live", "dead"}] /\ native \in [Gens -> {"none", "live", "dead"}]
  /\ journal \in {"closed", "pending"} /\ synced \in BOOLEAN
  /\ activations \in [Gens -> {"none", "pause", "rebuild"}]
  /\ pair \in [pc : {"none", "dialing", "asked", "piped"}, route : 0..MaxGen]

\* The two make up TypeOK.
LEMMA TypesSplit == TypeOK <=> CoreTypes /\ OtherTypes
BY DEF TypeOK, HnsTypeOK, CoreTypes, OtherTypes

\* So they do of the next state.
LEMMA TypesSplitNext == TypeOK' <=> CoreTypes' /\ OtherTypes'
BY DEF TypeOK, HnsTypeOK, CoreTypes, OtherTypes

-----------------------------------------------------------------------------
(* The invariant                                                           *)

\* A step that ends the current generation, if there is one, and touches neither
\* processes nor what is known of them.
LEMMA OverInv ==
  ASSUME Inv, Over, OtherTypes', blocked => blocked', network' => monitor' = "on",
         last' = last, UNCHANGED procs,
         \A g \in Gens : starts'[g] \in {starts[g], "none"} /\ activations'[g] \in {activations[g], "none"}
  PROVE  Inv'
<1>1. TypeOK' BY TypesSplitNext DEF Over
<1>2. Current' /\ CurrentIsSound' BY DEF Over, Current, CurrentIsSound, OtherTypes
<1>3. Numbered'
  BY Basics DEF Inv, Over, Numbered, procs, TypeOK, HnsTypeOK
<1>4. Held' BY DEF Inv, Over, Held, procs, Unaccounted
<1>5. SpawnsAlone' BY Basics DEF Inv, Over, SpawnsAlone, procs
<1>6. Authorized' /\ Guarded' BY DEF Over, Authorized, Guarded
<1> QED BY <1>1, <1>2, <1>3, <1>4, <1>5, <1>6 DEF Inv

\* A step that leaves the generation, its authority and its processes alone.
LEMMA SameInv ==
  ASSUME Inv, TypeOK', UNCHANGED <<gen, last, status, recovery, permanent, wanted, monitor,
                                   network, procs, starts, activations>>,
         UNCHANGED <<authority, published>>, blocked' = blocked,
         gen = 0 \/ teardown' = teardown, teardown' # {} => teardown # {},
         guardAllowed' => guardRoute' = upstream'
  PROVE  Inv'
<1>2. Current' /\ CurrentIsSound' BY DEF Inv, Current, CurrentIsSound
<1>3. Numbered' /\ Held' /\ SpawnsAlone'
  BY DEF Inv, Numbered, Held, SpawnsAlone, procs, Unaccounted
<1>6. Authorized' /\ Guarded' BY DEF Inv, Authorized, Guarded, procs, Valid
<1> QED BY <1>2, <1>3, <1>6 DEF Inv

\* The next generation begins, if there is a network, where all parts of the
\* one before have been torn down.
LEMMA BeginInv ==
  ASSUME Inv, gen = 0, teardown = {}, ~blocked,
         NEW after \in {"stopped", "error"}, NEW pending \in BOOLEAN,
         Begin(after, pending), Withdrawn, wanted' = TRUE, permanent' = FALSE, recovery' = "none",
         monitor' \in {"none", "new", "on"}, network' \in BOOLEAN, network' => monitor' = "on",
         restarts' \in 0..MaxRestarts, restartTimer' \in BOOLEAN,
         localReady' \in BOOLEAN, synced' \in BOOLEAN,
         UNCHANGED <<teardown, blocked, procs, activations, pair>>
  PROVE  Inv'
<1>0. CoreTypes /\ OtherTypes BY TypesSplit DEF Inv
<1>1. CASE network'
  <2>1. /\ last < MaxGen /\ last' = last + 1 /\ gen' = last + 1
        /\ status' = "starting" /\ pendingStart' = FALSE
        /\ authority' = NewAuthority /\ published' = FALSE /\ activating' = FALSE
        /\ starts' = [starts EXCEPT ![last + 1] = "rebuild"]
    BY <1>1 DEF Begin
  <2>2. last \in 0..MaxGen /\ last + 1 \in Gens /\ last + 1 \in 0..MaxGen /\ last + 1 # 0
    BY <1>0, <2>1, Basics DEF OtherTypes
  <2>3. CoreTypes'
    BY <1>0, <2>1, <2>2, Basics DEF CoreTypes, Withdrawn
  <2>4. OtherTypes'
    BY <1>0, <2>1, <2>2 DEF OtherTypes, procs
  <2>5. Current' /\ CurrentIsSound' BY <1>1, <2>1, <2>2 DEF Current, CurrentIsSound
  <2>6. /\ owner <= last
        /\ \A g \in Gens : last < g => starts[g] = "none" /\ activations[g] = "none" /\ helper[g] = "none"
        /\ last \in Nat /\ owner \in Nat /\ last < last + 1
        /\ \A g \in Gens : g \in Nat
    BY <1>0, <2>2, Basics DEF Inv, Numbered, OtherTypes, Gens
  <2>7. Numbered'
    <3>1. gen' <= last' /\ owner' <= last' BY <2>1, <2>6 DEF procs
    <3>2. ASSUME NEW g \in Gens, last' < g
          PROVE  starts'[g] = "none" /\ activations'[g] = "none" /\ helper'[g] = "none"
      <4>1. last < g /\ g # last + 1 BY <2>1, <2>6, <3>2
      <4> QED BY <1>0, <2>1, <2>6, <4>1 DEF procs, OtherTypes
    <3> QED BY <3>1, <3>2 DEF Numbered
  <2>8. owner # last + 1 /\ helper[last + 1] = "none" /\ activations[last + 1] = "none"
    BY <2>2, <2>6
  <2>9. Held' BY <2>1, <2>8 DEF Inv, Held, procs, Unaccounted
  <2>10. SpawnsAlone'
    <3>1. ASSUME NEW g \in Gens
          PROVE  /\ starts'[g] \in {"rebuild", "transport"} => helper'[g] = "none"
                 /\ ~(starts'[g] = "transport" /\ g = gen')
      <4>1. CASE g = last + 1 BY <1>0, <2>1, <2>2, <2>8, <4>1 DEF OtherTypes, procs
      <4>2. CASE g # last + 1 BY <1>0, <2>1, <2>2, <4>2 DEF OtherTypes, procs, Inv, SpawnsAlone
      <4> QED BY <4>1, <4>2
    <3> QED BY <3>1 DEF SpawnsAlone
  <2>11. Authorized'
    BY <2>1, <2>8, Basics DEF Authorized
  <2>12. Guarded' BY DEF Withdrawn, Guarded
  <2> QED BY <2>3, <2>4, <2>5, <2>7, <2>9, <2>10, <2>11, <2>12, TypesSplitNext DEF Inv
<1>2. CASE ~network'
  <2>1. /\ status' = after /\ pendingStart' = pending
        /\ UNCHANGED <<gen, last, authority, published, activating, starts>>
    BY <1>2 DEF Begin, NoBegin
  <2>2. CoreTypes' BY <1>0, <2>1 DEF CoreTypes, Withdrawn
  <2>3. OtherTypes' BY <1>0, <2>1 DEF OtherTypes, procs
  <2>4. Current' /\ CurrentIsSound' BY <2>1 DEF Current, CurrentIsSound
  <2>5. Numbered' /\ Held' /\ SpawnsAlone'
    BY <2>1 DEF Inv, Numbered, Held, SpawnsAlone, procs, Unaccounted
  <2>6. Authorized' /\ Guarded' BY <2>1 DEF Inv, Authorized, Guarded, procs, Valid, Withdrawn
  <2> QED BY <2>2, <2>3, <2>4, <2>5, <2>6, TypesSplitNext DEF Inv
<1> QED BY <1>1, <1>2

\* What the user, a timer or a VPN's first status starts.
LEMMA StartInv ==
  ASSUME Inv, UNCHANGED pair, UserStart \/ RestartDue \/ FirstStatus
  PROVE  Inv'
<1>0. CoreTypes /\ OtherTypes BY TypesSplit DEF Inv
<1>00. /\ gen = 0 <=> status \notin {"starting", "running"}
       /\ status \in {"stopped", "error"} /\ ~blocked => teardown = {} /\ recovery = "none" /\ gen = 0
       /\ network => monitor = "on"
       /\ recovery # "none" => status = "stopping"
  BY DEF Inv, Current, CurrentIsSound
<1>1. CASE UserStart
  <2>1. /\ ~blocked /\ wanted' = TRUE /\ permanent' = FALSE /\ restarts' = 0 /\ Withdrawn
        /\ UNCHANGED <<recovery, teardown, restartTimer, localReady, blocked, procs, health>>
    BY <1>1 DEF UserStart
  <2>2. CASE status \in {"stopped", "error"}
    <3>1. Watching /\ Begin(status, pendingStart) BY <1>1, <2>2 DEF UserStart
    <3>2. monitor' \in {"none", "new", "on"} /\ network' \in BOOLEAN /\ (network' => monitor' = "on")
      BY <1>0, <1>00, <3>1 DEF Watching, OtherTypes
    <3>3. pendingStart \in BOOLEAN /\ restarts' \in 0..MaxRestarts BY <1>0, <2>1, Basics DEF CoreTypes
    <3> QED BY <1>0, <1>00, <2>1, <2>2, <3>1, <3>2, <3>3, BeginInv DEF OtherTypes, CoreTypes, health
  <2>3. CASE status \notin {"stopped", "error"}
    <3>1. UNCHANGED <<monitor, network, status, gen, last, authority, published, activating,
                      starts>> /\ pendingStart' \in BOOLEAN
      <4>1. CASE status \in {"running", "starting"} BY <1>0, <1>1, <4>1 DEF UserStart, NoBegin, CoreTypes
      <4>2. CASE status = "stopping" BY <1>1, <4>2 DEF UserStart
      <4> QED BY <1>0, <2>3, <4>1, <4>2 DEF CoreTypes
    <3>2. CoreTypes' BY <1>0, <2>1, <3>1 DEF CoreTypes, Withdrawn
    <3>3. OtherTypes' BY <1>0, <2>1, <3>1, Basics DEF OtherTypes, procs, health
    <3>4. Current' /\ CurrentIsSound' BY <2>1, <3>1 DEF Inv, Current, CurrentIsSound
    <3>5. Numbered' /\ Held' /\ SpawnsAlone'
      BY <2>1, <3>1 DEF Inv, Numbered, Held, SpawnsAlone, procs, health, Unaccounted
    <3>6. Authorized' /\ Guarded'
      BY <2>1, <3>1 DEF Inv, Authorized, Guarded, procs, health, Valid, Withdrawn
    <3> QED BY <3>2, <3>3, <3>4, <3>5, <3>6, TypesSplitNext DEF Inv
  <2> QED BY <2>2, <2>3
<1>2. ASSUME Restart, wanted, status \in {"stopped", "error"},
             wanted' = TRUE, monitor' \in {"none", "new", "on"}, network' \in BOOLEAN,
             network' => monitor' = "on",
             restartTimer' \in BOOLEAN,
             UNCHANGED <<recovery, teardown, permanent, restarts, localReady, blocked, procs, health, pair>>
      PROVE  Inv'
  <2>1. CASE blocked \/ permanent
    <3>1. UNCHANGED <<status, pendingStart, gen, last, authority, published, activating, starts, routing>>
      BY <1>2, <2>1 DEF Restart, NoBegin
    <3>2. CoreTypes' BY <1>0, <1>2, <3>1 DEF CoreTypes, routing
    <3>3. OtherTypes' BY <1>0, <1>2, <3>1 DEF OtherTypes, procs, health
    <3>4. Current' /\ CurrentIsSound' BY <1>2, <3>1 DEF Inv, Current, CurrentIsSound
    <3>5. Numbered' /\ Held' /\ SpawnsAlone'
      BY <1>2, <3>1 DEF Inv, Numbered, Held, SpawnsAlone, procs, health, Unaccounted
    <3>6. Authorized' /\ Guarded'
      BY <1>2, <3>1 DEF Inv, Authorized, Guarded, procs, health, Valid, routing
    <3> QED BY <3>2, <3>3, <3>4, <3>5, <3>6, TypesSplitNext DEF Inv
  <2>2. CASE ~(blocked \/ permanent)
    <3>1. Begin(status, pendingStart) /\ Withdrawn BY <1>2, <2>2 DEF Restart
    <3>2. /\ pendingStart \in BOOLEAN /\ restarts' \in 0..MaxRestarts
          /\ localReady' \in BOOLEAN /\ synced' \in BOOLEAN /\ permanent' = FALSE
      BY <1>0, <1>2, <2>2 DEF CoreTypes, OtherTypes, health
    <3> QED BY <1>0, <1>00, <1>2, <2>2, <3>1, <3>2, BeginInv DEF health
  <2> QED BY <2>1, <2>2
<1>3. ASSUME NoBegin(status, pendingStart), UNCHANGED routing, wanted' = wanted,
             monitor' \in {"none", "new", "on"}, network' \in BOOLEAN, network' => monitor' = "on",
             monitor = "on" => monitor' = "on", restartTimer' \in BOOLEAN,
             UNCHANGED <<recovery, teardown, permanent, restarts, localReady, blocked, procs, health, pair>>
      PROVE  Inv'
  <2>2. CoreTypes' BY <1>0, <1>3 DEF CoreTypes, routing, NoBegin
  <2>3. OtherTypes' BY <1>0, <1>3 DEF OtherTypes, procs, health, NoBegin
  <2>4. Current' /\ CurrentIsSound' BY <1>3 DEF Inv, Current, CurrentIsSound, NoBegin
  <2>5. Numbered' /\ Held' /\ SpawnsAlone'
    BY <1>3 DEF Inv, Numbered, Held, SpawnsAlone, procs, health, Unaccounted, NoBegin
  <2>6. Authorized' /\ Guarded'
    BY <1>3 DEF Inv, Authorized, Guarded, procs, health, Valid, routing, NoBegin
  <2> QED BY <2>2, <2>3, <2>4, <2>5, <2>6, TypesSplitNext DEF Inv
<1>4. CASE RestartDue
  <2>1. /\ restartTimer' = FALSE /\ UNCHANGED user
        /\ UNCHANGED <<recovery, teardown, permanent, restarts, localReady, blocked, procs, health>>
    BY <1>4 DEF RestartDue
  <2>2. CASE wanted /\ network /\ status = "stopped"
    <3>1. Restart BY <1>4, <2>2 DEF RestartDue
    <3> QED BY <1>0, <1>00, <1>2, <2>1, <2>2, <3>1 DEF user, OtherTypes
  <2>3. CASE ~(wanted /\ network /\ status = "stopped")
    <3>1. NoBegin(status, pendingStart) /\ UNCHANGED routing BY <1>4, <2>3 DEF RestartDue
    <3> QED BY <1>0, <1>00, <1>3, <2>1, <3>1 DEF user, OtherTypes
  <2> QED BY <2>2, <2>3
<1>5. CASE FirstStatus
  <2>1. /\ monitor = "new" /\ monitor' = "on" /\ network' \in BOOLEAN
        /\ UNCHANGED <<wanted, recovery, teardown, permanent, restarts, restartTimer, localReady,
                       procs, blocked, health>>
    BY <1>5 DEF FirstStatus
  <2>2. CASE network' /\ wanted /\ recovery = "none" /\ status \in {"stopped", "error"}
    <3>1. Restart BY <1>5, <2>2 DEF FirstStatus
    <3>2. wanted' = TRUE BY <2>1, <2>2, <1>0 DEF OtherTypes
    <3> QED BY <1>0, <1>00, <1>2, <2>1, <2>2, <3>1, <3>2 DEF OtherTypes
  <2>3. CASE ~(network' /\ wanted /\ recovery = "none" /\ status \in {"stopped", "error"})
    <3>1. NoBegin(status, pendingStart) /\ UNCHANGED routing BY <1>5, <2>3 DEF FirstStatus
    <3> QED BY <1>0, <1>00, <1>3, <2>1, <3>1 DEF OtherTypes
  <2> QED BY <2>2, <2>3
<1> QED BY <1>1, <1>4, <1>5

\* A user's stop, in whatever state.
LEMMA StopInv ==
  ASSUME Inv, UNCHANGED pair, UserStop
  PROVE  Inv'
<1>0. CoreTypes /\ OtherTypes BY TypesSplit DEF Inv
<1>1. /\ wanted' = FALSE /\ restarts' = 0 /\ permanent' = FALSE /\ monitor' = "none" /\ network' = FALSE
      /\ UNCHANGED <<last, restartTimer, recovery, localReady, procs, blocked, starts, health>>
  BY DEF UserStop
<1>2. OtherTypes' BY <1>0, <1>1, Basics DEF OtherTypes, procs, health
<1>3. CASE status = "stopping"
  <2>1. /\ teardown' \subseteq teardown \cup {"observer"}
        /\ UNCHANGED <<status, gen, pendingStart, authority, published, activating, routing>>
    BY <1>3 DEF UserStop
  <2>2. CoreTypes'
    <3>1. teardown' \subseteq Parts \cup {"failed"} BY <1>0, <2>1 DEF CoreTypes, Parts
    <3>2. CoreTypes!4' BY <1>0, <1>1, <2>1 DEF CoreTypes
    <3>3. CoreTypes!1' /\ CoreTypes!2' BY <1>0, <1>1, <2>1 DEF CoreTypes
    <3>4. CoreTypes!5' /\ CoreTypes!6' /\ CoreTypes!7' BY <1>0, <1>1, <2>1 DEF CoreTypes, routing
    <3>5. CoreTypes!3' BY <1>0, <1>1, <3>1 DEF CoreTypes
    <3> QED BY <3>2, <3>3, <3>4, <3>5 DEF CoreTypes
  <2>3. Current' /\ CurrentIsSound' BY <1>1, <1>3, <2>1 DEF Inv, Current, CurrentIsSound
  <2>4. Numbered' /\ Held' /\ SpawnsAlone'
    BY <1>1, <2>1 DEF Inv, Numbered, Held, SpawnsAlone, procs, health, Unaccounted
  <2>5. Authorized' /\ Guarded'
    BY <1>1, <2>1 DEF Inv, Authorized, Guarded, procs, health, Valid, routing
  <2> QED BY <1>2, <2>2, <2>3, <2>4, <2>5, TypesSplitNext DEF Inv
<1>4. CASE status # "stopping"
  <2>1. Stop(IF monitor = "none" THEN {} ELSE {"observer"}) BY <1>4 DEF UserStop
  <2>2. /\ gen' = 0 /\ authority' = NoAuthority /\ published' = FALSE /\ activating' = FALSE /\ Cleared
        /\ status' = "stopping" /\ pendingStart' = FALSE /\ teardown' \subseteq Parts
    BY <2>1 DEF Stop, Parts
  <2>3. recovery = "none" BY <1>4 DEF Inv, CurrentIsSound
  <2>4. CoreTypes' BY <1>0, <1>1, <2>2, Basics DEF CoreTypes, Cleared
  <2>5. Over BY <1>1, <2>2, <2>3, <2>4, Basics DEF Over, Cleared
  <2> QED BY <1>1, <1>2, <2>5, OverInv DEF health
<1> QED BY <1>3, <1>4

\* Parts of a teardown end or fail.
LEMMA TeardownInv ==
  ASSUME Inv, UNCHANGED pair, ProcessesGone \/ (\E p \in Parts : PartDone(p)) \/ TeardownFails
  PROVE  Inv'
<1>0. CoreTypes /\ OtherTypes BY TypesSplit DEF Inv
<1>1. ASSUME NEW p \in Parts, PartDone(p) PROVE Inv'
  <2>1. CoreTypes' BY <1>0, <1>1 DEF CoreTypes, PartDone, auth, routing
  <2>2. OtherTypes' BY <1>0, <1>1 DEF OtherTypes, PartDone, user, counts, procs, health
  <2>3. TypeOK' BY <2>1, <2>2, TypesSplitNext
  <2>4. /\ UNCHANGED <<gen, last, status, recovery, permanent, wanted, monitor, network, procs,
                       starts, activations>>
        /\ UNCHANGED <<authority, published>> /\ blocked' = blocked /\ UNCHANGED <<guardAllowed,
                                                                                   guardRoute, upstream>>
        /\ teardown # {} /\ teardown' = teardown \ {p}
    BY <1>1 DEF PartDone, auth, routing, user, counts, health
  <2>5. gen = 0 BY <2>4 DEF Inv, CurrentIsSound
  <2> QED BY <2>3, <2>4, <2>5, SameInv DEF Inv, Guarded
<1>2. CASE TeardownFails
  <2>1. /\ teardown \cap Parts # {}
        /\ blocked' = TRUE /\ teardown' = {"failed"}
        /\ status' = IF recovery = "none" THEN status ELSE "error"
        /\ recovery' = "none" /\ owner' = 0 /\ custody' = "none"
        /\ UNCHANGED <<user, gen, pendingStart, permanent, auth, routing, counts, helper, native,
                       journal, starts, health>>
    BY <1>2 DEF TeardownFails
  <2>2. CoreTypes' BY <1>0, <2>1 DEF CoreTypes, auth, routing
  <2>3. OtherTypes' BY <1>0, <2>1, Basics DEF OtherTypes, user, counts, health
  <2>4. gen = 0 /\ teardown # {} BY <2>1 DEF Inv, CurrentIsSound
  <2>5. Current' BY <2>1, <2>4 DEF Inv, Current
  <2>6. CurrentIsSound' BY <2>1, <2>4 DEF Inv, CurrentIsSound, user
  <2>7. Numbered' BY <1>0, <2>1 DEF Inv, Numbered, counts, health, OtherTypes
  <2>8. Held' BY <2>1, <2>4 DEF Inv, Held, Unaccounted
  <2>9. SpawnsAlone' BY <2>1 DEF Inv, SpawnsAlone
  <2>10. Authorized' /\ Guarded' BY <2>1, <2>4 DEF Inv, Authorized, Guarded, auth, routing, Valid
  <2> QED BY <2>2, <2>3, <2>5, <2>6, <2>7, <2>8, <2>9, <2>10, TypesSplitNext DEF Inv
<1>3. CASE ProcessesGone
  <2>1. /\ "processes" \in teardown /\ (owner # 0 => helper[owner] # "live")
        /\ teardown' = teardown \ {"processes"}
        /\ UNCHANGED <<user, status, gen, pendingStart, recovery, permanent, auth, routing, counts,
                       blocked, starts, health>>
    BY <1>3 DEF ProcessesGone
  <2>2. gen = 0 BY <2>1 DEF Inv, CurrentIsSound
  <2>3. CoreTypes' BY <1>0, <2>1 DEF CoreTypes, auth, routing
  <2>4. CASE custody = "none"
    <3>1. UNCHANGED procs BY <1>3, <2>4 DEF ProcessesGone
    <3>2. OtherTypes' BY <1>0, <2>1, <3>1 DEF OtherTypes, user, counts, procs, health
    <3>3. TypeOK' BY <2>3, <3>2, TypesSplitNext
    <3> QED BY <2>1, <2>2, <3>1, <3>3, SameInv DEF Inv, Guarded, auth, routing, user, counts, health
  <2>5. CASE custody # "none"
    <3>1. /\ native' = [native EXCEPT ![owner] = "dead"]
          /\ journal' = "closed" /\ custody' = "none" /\ owner' = 0 /\ helper' = helper
      BY <1>3, <2>5 DEF ProcessesGone
    <3>2. owner # 0 /\ owner \in Gens /\ helper[owner] = "dead"
      BY <1>0, <2>1, <2>5, Basics DEF Inv, Held, OtherTypes
    <3>3. OtherTypes' BY <1>0, <2>1, <3>1, <3>2, Basics DEF OtherTypes, user, counts, health
    <3>4. Current' /\ CurrentIsSound' BY <2>1, <2>2 DEF Inv, Current, CurrentIsSound, user
    <3>5. Numbered' BY <1>0, <2>1, <3>1 DEF Inv, Numbered, counts, health, OtherTypes
    <3>6. \A g \in Gens : native'[g] = IF g = owner THEN "dead" ELSE native[g]
      BY <1>0, <3>1, <3>2 DEF OtherTypes
    <3>7. Held' BY <3>1, <3>2, <3>6 DEF Inv, Held, Unaccounted
    <3>8. SpawnsAlone' BY <2>1, <2>2, <3>1, Basics DEF Inv, SpawnsAlone
    <3>9. Authorized' /\ Guarded' BY <2>1, <2>2 DEF Inv, Authorized, Guarded, auth, routing, Valid
    <3> QED BY <2>3, <3>3, <3>4, <3>5, <3>7, <3>8, <3>9, TypesSplitNext DEF Inv
  <2> QED BY <2>4, <2>5
<1> QED BY <1>1, <1>2, <1>3

\* The end of a stop, and the start that was asked for meanwhile.
LEMMA TornDownInv ==
  ASSUME Inv, UNCHANGED pair, TornDown
  PROVE  Inv'
<1> DEFINE again == recovery = "plain" /\ ~blocked /\ wanted /\ monitor # "none" /\ network
           givesUp == again /\ restarts >= MaxRestarts
           reports == recovery # "none" /\ (blocked \/ givesUp \/ (recovery = "fatal" /\ wanted /\ permanent))
           ended == IF reports THEN "error" ELSE "stopped"
<1>0. CoreTypes /\ OtherTypes BY TypesSplit DEF Inv
<1>1. /\ status = "stopping" /\ teardown = {}
      /\ synced' = FALSE /\ localReady' = FALSE /\ recovery' = "none"
      /\ restarts' = IF again /\ ~givesUp THEN restarts + 1 ELSE restarts
      /\ restartTimer' = (restartTimer \/ (again /\ ~givesUp))
      /\ UNCHANGED <<wanted, teardown, permanent, procs, blocked, activations>>
  BY DEF TornDown
<1>2. gen = 0 BY <1>1 DEF Inv, Current
<1>3. restarts' \in 0..MaxRestarts
  <2>1. restarts \in 0..MaxRestarts BY <1>0 DEF OtherTypes
  <2>2. CASE again /\ ~givesUp
    <3>1. ~(restarts >= MaxRestarts) /\ restarts' = restarts + 1 BY <1>1, <2>2
    <3> HIDE DEF again, givesUp
    <3> QED BY <2>1, <3>1, Basics
  <2>3. CASE ~(again /\ ~givesUp)
    <3>1. restarts' = restarts BY <1>1, <2>3
    <3> QED BY <2>1, <3>1
  <2> QED BY <2>2, <2>3
<1>4. restartTimer' \in BOOLEAN BY <1>0, <1>1 DEF OtherTypes
<1>5. CASE QueuedStart /\ ended = "stopped" /\ ~blocked /\ ~permanent
  <2>1. Watching /\ Begin("stopped", FALSE) /\ Withdrawn BY <1>5 DEF TornDown
  <2>2. monitor' \in {"none", "new", "on"} /\ network' \in BOOLEAN /\ (network' => monitor' = "on")
    BY <1>0, <2>1 DEF Watching, OtherTypes, Inv, CurrentIsSound
  <2>3. wanted' = TRUE /\ permanent' = FALSE BY <1>0, <1>1, <1>5 DEF QueuedStart, OtherTypes, CoreTypes
  <2> HIDE DEF again, givesUp, reports, ended
  <2> QED BY <1>1, <1>2, <1>3, <1>4, <1>5, <2>1, <2>2, <2>3, BeginInv
<1>6. CASE ~(QueuedStart /\ ended = "stopped" /\ ~blocked /\ ~permanent)
  <2>1. /\ pendingStart' = (pendingStart /\ ~QueuedStart) /\ status' = ended
        /\ UNCHANGED <<monitor, network, gen, last, authority, published, activating, starts, routing>>
    BY <1>6 DEF TornDown
  <2>2. status' \in {"stopped", "error"} BY <2>1
  <2> HIDE DEF again, givesUp, reports, ended
  <2>3. CoreTypes'
    <3>1. pendingStart' \in BOOLEAN BY <2>1
    <3> QED BY <1>0, <1>1, <2>1, <2>2, <3>1 DEF CoreTypes, routing
  <2>4. OtherTypes' BY <1>0, <1>1, <1>3, <1>4, <2>1 DEF OtherTypes, procs
  <2>5. Current' /\ CurrentIsSound' BY <1>1, <1>2, <2>1, <2>2 DEF Inv, Current, CurrentIsSound
  <2>6. Numbered' /\ Held' /\ SpawnsAlone'
    BY <1>1, <2>1 DEF Inv, Numbered, Held, SpawnsAlone, procs, Unaccounted
  <2>7. Authorized' /\ Guarded' BY <1>1, <2>1 DEF Inv, Authorized, Guarded, procs, Valid, routing
  <2> QED BY <2>3, <2>4, <2>5, <2>6, <2>7, TypesSplitNext DEF Inv
<1> QED BY <1>5, <1>6

\* An await of a start that ends without a process, with or without the
\* generation that it was for.
LEMMA StartOverInv ==
  ASSUME Inv, UNCHANGED <<pair, user, counts, procs, health>>, NEW g \in Gens,
         NEW fatal \in BOOLEAN, StartFails(g, fatal),
         blocked' = blocked \/ (blocked' = TRUE /\ g = gen /\ wanted)
  PROVE  Inv'
<1>0. CoreTypes /\ OtherTypes BY TypesSplit DEF Inv
<1>1. /\ starts' = [starts EXCEPT ![g] = "none"]
      /\ (IF g = gen /\ wanted THEN Invalidate(fatal) ELSE UNCHANGED core)
  BY DEF StartFails
<1>2. OtherTypes'
  <2>1. starts' = [starts EXCEPT ![g] = "none"] BY <1>1
  <2>2. blocked' \in BOOLEAN BY <1>0 DEF OtherTypes
  <2> QED BY <1>0, <2>1, <2>2 DEF OtherTypes, user, counts, procs, health
<1>3. \A h \in Gens : starts'[h] \in {starts[h], "none"} BY <1>0, <1>1 DEF OtherTypes
<1>4. CASE g = gen /\ wanted
  <2>1. Over BY <1>1, <1>4, Ends, Basics
  <2>2. network' => monitor' = "on" BY DEF Inv, CurrentIsSound, user
  <2>3. blocked => blocked' BY <1>0
  <2> QED BY <1>2, <1>3, <2>1, <2>2, <2>3, OverInv DEF counts, health
<1>5. CASE ~(g = gen /\ wanted)
  <2>1. UNCHANGED core /\ blocked' = blocked BY <1>1, <1>5
  <2>2. CoreTypes' BY <1>0, <2>1 DEF CoreTypes, core, life, auth, routing
  <2>3. Current' /\ CurrentIsSound' BY <2>1 DEF Inv, Current, CurrentIsSound, core, life, user
  <2>4. Numbered' /\ Held' /\ SpawnsAlone'
    <3>1. UNCHANGED <<gen, last, activations, owner, custody, helper, native, journal>>
      BY <2>1 DEF core, life, counts, health, procs
    <3> QED BY <1>3, <3>1 DEF Inv, Numbered, Held, SpawnsAlone, Unaccounted
  <2>5. Authorized' /\ Guarded'
    BY <2>1 DEF Inv, Authorized, Guarded, core, life, auth, routing, procs, health, Valid
  <2> QED BY <1>2, <2>2, <2>3, <2>4, <2>5, TypesSplitNext DEF Inv
<1> QED BY <1>4, <1>5

\* The awaits of a start up to the choice of addresses.
LEMMA AddressesInv ==
  ASSUME Inv, UNCHANGED pair, NEW g \in Gens, AddressesChosen(g)
  PROVE  Inv'
<1>0. CoreTypes /\ OtherTypes BY TypesSplit DEF Inv
<1>1. starts[g] = "rebuild" /\ UNCHANGED <<user, counts, procs, health>> BY DEF AddressesChosen
<1>2. CASE \E fatal \in BOOLEAN : StartFails(g, fatal) /\ UNCHANGED blocked
  BY <1>1, <1>2, StartOverInv
<1>3. CASE Active(g) /\ journal = "pending" /\ blocked' = TRUE /\ StartFails(g, FALSE)
  BY <1>1, <1>3, StartOverInv DEF Active
<1>4. CASE /\ Active(g) => journal = "closed"
           /\ starts' = [starts EXCEPT ![g] = IF Active(g) THEN "transport" ELSE "none"]
           /\ UNCHANGED <<core, blocked>>
  <2>1. CoreTypes' BY <1>0, <1>4 DEF CoreTypes, core, life, auth, routing
  <2>2. OtherTypes' BY <1>0, <1>1, <1>4 DEF OtherTypes, user, counts, procs, health
  <2>3. Current' /\ CurrentIsSound' BY <1>1, <1>4 DEF Inv, Current, CurrentIsSound, core, life, user
  <2>4. UNCHANGED <<gen, last, activations, owner, custody, helper, native, journal>>
    BY <1>1, <1>4 DEF core, life, counts, health, procs
  <2>5. \A h \in Gens : h # g => starts'[h] = starts[h] BY <1>0, <1>4 DEF OtherTypes
  <2>6. starts'[g] = IF Active(g) THEN "transport" ELSE "none" BY <1>0, <1>4 DEF OtherTypes
  <2>7. g <= last /\ helper[g] = "none"
    <3>1. ~(last < g) BY <1>1 DEF Inv, Numbered
    <3>2. g \in Nat /\ last \in Nat BY <1>0, Basics DEF Gens, OtherTypes
    <3> QED BY <1>1, <3>1, <3>2 DEF Inv, SpawnsAlone
  <2>8. Numbered' /\ Held'
    <3>1. \A h \in Gens : last < h => starts'[h] = "none"
      <4>1. ~(last < g) BY <1>1 DEF Inv, Numbered
      <4> QED BY <2>5, <4>1 DEF Inv, Numbered
    <3> QED BY <2>4, <3>1 DEF Inv, Numbered, Held, Unaccounted
  <2>9. SpawnsAlone'
    <3>1. Active(g) => g = gen /\ journal = "closed" BY <1>4 DEF Active
    <3> QED BY <2>4, <2>5, <2>6, <2>7, <3>1 DEF Inv, SpawnsAlone
  <2>10. Authorized' /\ Guarded'
    BY <1>1, <1>4 DEF Inv, Authorized, Guarded, core, life, auth, routing, procs, health, Valid
  <2> QED BY <2>1, <2>2, <2>3, <2>8, <2>9, <2>10, TypesSplitNext DEF Inv
<1> QED BY <1>2, <1>3, <1>4 DEF AddressesChosen

\* A helper is spawned: all others are accounted for.
LEMMA SpawnedInv ==
  ASSUME Inv, UNCHANGED <<pair, user, counts, blocked, health>>, NEW g \in Gens,
         starts[g] = "transport", Active(g), Spawned(g)
  PROVE  Inv'
<1>0. CoreTypes /\ OtherTypes BY TypesSplit DEF Inv
<1>1. /\ helper' = [helper EXCEPT ![g] = "live"] /\ owner' = g /\ journal' = "pending" /\ native' = native
      /\ g = gen /\ g # 0 /\ wanted
  BY Basics DEF Spawned, Active
<1>2. /\ journal = "closed" /\ helper[g] = "none"
      /\ \A h \in Gens : ~Unaccounted(h)
      /\ \A h \in Gens : helper'[h] = IF h = g THEN "live" ELSE helper[h]
      /\ owner # g
  BY <1>0, <1>1 DEF Inv, SpawnsAlone, Held, OtherTypes
<1>3. g <= last /\ ~(last < g) /\ native[g] = "none"
  <2>1. ~(last < g) BY DEF Inv, Numbered
  <2>2. g \in Nat /\ last \in Nat BY <1>0, Basics DEF Gens, OtherTypes
  <2> QED BY <1>0, <1>2, <2>1, <2>2 DEF Inv, Held, OtherTypes
<1>4. ~authority.published /\ ~published /\ activations[g] # "pause"
  BY <1>1, <1>2 DEF Inv, Authorized
<1>5. custody' \in {"bound", "failed"} /\ starts' \in [Gens -> {"none", "rebuild", "transport", "capture"}]
      /\ \A h \in Gens : starts'[h] = IF h = g THEN starts'[g] ELSE starts[h]
  BY <1>0 DEF Spawned, StartFails, OtherTypes
<1>6. starts'[g] \in {"none", "capture"} BY <1>0 DEF Spawned, StartFails, OtherTypes
<1>7. OtherTypes'
  <2>1. owner' \in 0..MaxGen BY <1>1, Basics
  <2>2. helper' \in [Gens -> {"none", "live", "dead"}] BY <1>0, <1>1 DEF OtherTypes
  <2> QED BY <1>0, <1>1, <1>5, <2>1, <2>2 DEF OtherTypes, user, counts, health
<1>8. CASE UNCHANGED core
  <2>1. CoreTypes' BY <1>0, <1>8 DEF CoreTypes, core, life, auth, routing
  <2>2. Current' /\ CurrentIsSound' BY <1>8 DEF Inv, Current, CurrentIsSound, core, life, user
  <2>3. Numbered'
    <3>1. UNCHANGED <<gen, last, activations>> BY <1>8 DEF core, life, counts, health
    <3>2. \A h \in Gens : last < h => starts'[h] = "none" /\ activations[h] = "none" /\ helper'[h] = "none"
      BY <1>2, <1>3, <1>5 DEF Inv, Numbered
    <3>3. gen <= last /\ owner' <= last BY <1>1, <1>3
    <3> QED BY <3>1, <3>2, <3>3 DEF Numbered
  <2>4. Held'
    BY <1>1, <1>2, <1>3, <1>5 DEF Inv, Held, Unaccounted
  <2>5. SpawnsAlone'
    BY <1>1, <1>2, <1>5, <1>6, <1>8 DEF Inv, SpawnsAlone, core, life
  <2>6. Authorized' /\ Guarded'
    BY <1>1, <1>4, <1>8 DEF Inv, Authorized, Guarded, core, life, auth, routing, health, Valid
  <2> QED BY <1>7, <2>1, <2>2, <2>3, <2>4, <2>5, <2>6, TypesSplitNext DEF Inv
<1>9. CASE StartFails(g, FALSE)
  <2>1. Over BY <1>1, <1>9, Ends DEF StartFails
  <2>2. Current' /\ CurrentIsSound'
    <3>1. network' => monitor' = "on" BY DEF Inv, CurrentIsSound, user
    <3> QED BY <2>1, <3>1 DEF Over, Current, CurrentIsSound
  <2>3. Numbered'
    <3>1. UNCHANGED <<last, activations>> BY DEF counts, health
    <3>2. \A h \in Gens : last < h => starts'[h] = "none" /\ activations[h] = "none" /\ helper'[h] = "none"
      BY <1>2, <1>3, <1>5 DEF Inv, Numbered
    <3>3. gen' <= last /\ owner' <= last BY <1>0, <1>1, <1>3, <2>1, Basics DEF Over, OtherTypes
    <3> QED BY <3>1, <3>2, <3>3 DEF Numbered
  <2>4. Held' BY <1>1, <1>2, <1>3, <1>5, <2>1 DEF Inv, Held, Unaccounted, Over
  <2>5. SpawnsAlone' BY <1>1, <1>2, <1>5, <1>6, <2>1, Basics DEF Inv, SpawnsAlone, Over
  <2>6. Authorized' /\ Guarded' BY <2>1 DEF Over, Authorized, Guarded
  <2> QED BY <1>7, <2>1, <2>2, <2>3, <2>4, <2>5, <2>6, TypesSplitNext DEF Inv, Over
<1> QED BY <1>8, <1>9 DEF Spawned

\* The end of the preparation of the transport.
LEMMA TransportInv ==
  ASSUME Inv, UNCHANGED pair, NEW g \in Gens, TransportReady(g)
  PROVE  Inv'
<1>1. starts[g] = "transport" /\ UNCHANGED <<user, counts, blocked, health>> BY DEF TransportReady
<1>2. CASE StartFails(g, FALSE) /\ UNCHANGED procs BY <1>1, <1>2, StartOverInv
<1>3. CASE Active(g) /\ Spawned(g) BY <1>1, <1>3, SpawnedInv
<1>4. CASE ~Active(g) /\ starts' = [starts EXCEPT ![g] = "none"] /\ UNCHANGED <<core, procs>>
  <2>0. CoreTypes /\ OtherTypes BY TypesSplit DEF Inv
  <2>1. CoreTypes' BY <2>0, <1>4 DEF CoreTypes, core, life, auth, routing
  <2>2. OtherTypes' BY <2>0, <1>1, <1>4 DEF OtherTypes, user, counts, procs, health
  <2>3. Current' /\ CurrentIsSound' BY <1>1, <1>4 DEF Inv, Current, CurrentIsSound, core, life, user
  <2>4. Numbered' /\ Held' /\ SpawnsAlone'
    <3>1. UNCHANGED <<gen, last, activations, owner, custody, helper, native, journal>>
      BY <1>1, <1>4 DEF core, life, counts, health, procs
    <3>2. \A h \in Gens : starts'[h] \in {starts[h], "none"} BY <2>0, <1>4 DEF OtherTypes
    <3> QED BY <3>1, <3>2 DEF Inv, Numbered, Held, SpawnsAlone, Unaccounted
  <2>5. Authorized' /\ Guarded'
    BY <1>1, <1>4 DEF Inv, Authorized, Guarded, core, life, auth, routing, procs, health, Valid
  <2> QED BY <2>1, <2>2, <2>3, <2>4, <2>5, TypesSplitNext DEF Inv
<1> QED BY <1>2, <1>3, <1>4 DEF TransportReady

\* Custody of the helper's resolver, or the end of a helper, of its generation
\* or of another: what is not bound any more stays what it is, and nobody who
\* is unaccounted for is forgotten.
LEMMA ProcessInv ==
  ASSUME Inv, UNCHANGED <<pair, user, counts, owner, native, journal, blocked, health>>,
         NEW g \in Gens, Fails(g) \/ UNCHANGED core,
         \A h \in Gens : starts'[h] \in {starts[h], "none"},
         starts' \in [Gens -> {"none", "rebuild", "transport", "capture"}],
         \/ helper' = helper
         \/ helper[g] = "live" /\ helper' = [helper EXCEPT ![g] = "dead"] /\ Fails(g),
         \/ custody' = custody
         \/ custody = "bound" /\ custody' \in {"captured", "failed"}
  PROVE  Inv'
<1>0. CoreTypes /\ OtherTypes BY TypesSplit DEF Inv
<1>1. OtherTypes' BY <1>0 DEF OtherTypes, user, counts, health
<1>2. \A h \in Gens : /\ helper[h] = "none" => helper'[h] = "none"
                      /\ helper[h] # "none" => helper'[h] # "none"
                      /\ helper[h] = "dead" => helper'[h] = "dead"
                      /\ helper[h] = "live" => helper'[h] = "live" \/ (h = g /\ helper'[h] = "dead" /\ Fails(g))
  BY <1>0 DEF OtherTypes
<1>3. \A h \in Gens : Unaccounted(h)' => Unaccounted(h)
  BY <1>0, <1>2 DEF Unaccounted, OtherTypes
<1>4. owner \in Gens \cup {0} /\ UNCHANGED <<last, activations>> BY <1>0, Basics DEF OtherTypes, counts, health
<1>5. ASSUME gen' \in {gen, 0}, owner # 0 /\ owner = gen' => helper'[owner] = "live"
      PROVE  Numbered' /\ Held' /\ SpawnsAlone'
  <2>1. Numbered'
    <3>1. gen' <= last BY <1>0, <1>5, Basics DEF Inv, Numbered, OtherTypes
    <3> QED BY <1>2, <1>4, <3>1 DEF Inv, Numbered
  <2>2. Held'
    <3>1. custody' = "none" <=> owner' = 0 BY DEF Inv, Held
    <3>2. owner # 0 => helper'[owner] # "none" BY <1>2, <1>4 DEF Inv, Held
    <3>3. \A h \in Gens : native[h] = "dead" => helper'[h] = "dead" BY <1>2 DEF Inv, Held
    <3>4. \A h \in Gens : native[h] # "none" => helper'[h] # "none" BY <1>2 DEF Inv, Held
    <3>5. \A h \in Gens : Unaccounted(h)' => journal = "pending" /\ (owner = 0 \/ owner = h)
      BY <1>3 DEF Inv, Held
    <3> QED BY <1>5, <3>1, <3>2, <3>3, <3>4, <3>5 DEF Held
  <2>3. SpawnsAlone' BY <1>2, <1>5, Basics DEF Inv, SpawnsAlone
  <2> QED BY <2>1, <2>2, <2>3
<1>6. CASE UNCHANGED core /\ (g # gen \/ helper' = helper)
  <2>1. CoreTypes' BY <1>0, <1>6 DEF CoreTypes, core, life, auth, routing
  <2>2. Current' /\ CurrentIsSound' BY <1>6 DEF Inv, Current, CurrentIsSound, core, life, user
  <2>3. gen' = gen /\ UNCHANGED <<auth, routing>> BY <1>6 DEF core, life
  <2>4. owner # 0 /\ owner = gen => helper'[owner] = "live"
    BY <1>2, <1>4, <1>6 DEF Inv, Held
  <2>5. Authorized' /\ Guarded'
    BY <2>3 DEF Inv, Authorized, Guarded, auth, routing, health, Valid
  <2> QED BY <1>1, <1>5, <2>1, <2>2, <2>3, <2>4, <2>5, TypesSplitNext DEF Inv
<1>7. CASE ~(UNCHANGED core /\ (g # gen \/ helper' = helper))
  <2>0. Fails(g) /\ g = gen
    BY <1>7 DEF Fails
  <2>1. Over BY <2>0, Ends DEF Fails
  <2>2. Current' /\ CurrentIsSound'
    <3>1. network' => monitor' = "on" BY DEF Inv, CurrentIsSound, user
    <3> QED BY <2>1, <3>1 DEF Over, Current, CurrentIsSound
  <2>3. gen' = 0 BY <2>1 DEF Over
  <2>4. Numbered' /\ Held' /\ SpawnsAlone' BY <1>5, <2>3
  <2>5. Authorized' /\ Guarded' BY <2>1 DEF Over, Authorized, Guarded
  <2> QED BY <1>1, <2>1, <2>2, <2>4, <2>5, TypesSplitNext DEF Inv, Over
<1> QED BY <1>6, <1>7

\* The launcher's receipt, or none.
LEMMA CapturedInv ==
  ASSUME Inv, UNCHANGED pair, NEW g \in Gens, Captured(g)
  PROVE  Inv'
<1>0. CoreTypes /\ OtherTypes BY TypesSplit DEF Inv
<1>1. /\ starts' = [starts EXCEPT ![g] = "none"]
      /\ UNCHANGED <<user, counts, owner, helper, native, journal, blocked, health>>
      /\ Fails(g) \/ UNCHANGED core
      /\ custody' = custody \/ (custody = "bound" /\ custody' \in {"captured", "failed"})
  BY DEF Captured
<1>2. /\ \A h \in Gens : starts'[h] \in {starts[h], "none"}
      /\ starts' \in [Gens -> {"none", "rebuild", "transport", "capture"}]
  BY <1>0, <1>1 DEF OtherTypes
<1> QED BY <1>1, <1>2, ProcessInv

\* A helper ends, held or not.
LEMMA HelperExitsInv ==
  ASSUME Inv, UNCHANGED pair, NEW g \in Gens, HelperExits(g)
  PROVE  Inv'
<1>0. CoreTypes /\ OtherTypes BY TypesSplit DEF Inv
<1>1. /\ helper[g] = "live" /\ helper' = [helper EXCEPT ![g] = "dead"] /\ Fails(g)
      /\ UNCHANGED <<user, counts, owner, custody, native, journal, blocked, starts, health>>
  BY DEF HelperExits
<1>2. /\ \A h \in Gens : starts'[h] \in {starts[h], "none"}
      /\ starts' \in [Gens -> {"none", "rebuild", "transport", "capture"}]
  BY <1>0, <1>1 DEF OtherTypes
<1> QED BY <1>1, <1>2, ProcessInv

\* The resolver of the helper that is held.
LEMMA LaunchInv ==
  ASSUME Inv, UNCHANGED pair, NEW g \in Gens, Launch(g)
  PROVE  Inv'
<1>0. CoreTypes /\ OtherTypes BY TypesSplit DEF Inv
<1>1. /\ owner = g /\ native[g] = "none" /\ native' = [native EXCEPT ![g] = "live"]
      /\ UNCHANGED <<user, core, counts, owner, custody, helper, journal, blocked, starts, health>>
  BY DEF Launch
<1>2. CoreTypes' BY <1>0, <1>1 DEF CoreTypes, core, life, auth, routing
<1>3. OtherTypes' BY <1>0, <1>1 DEF OtherTypes, user, counts, health
<1>4. Current' /\ CurrentIsSound' BY <1>1 DEF Inv, Current, CurrentIsSound, core, life, user
<1>5. \A h \in Gens : native'[h] = IF h = g THEN "live" ELSE native[h] BY <1>0, <1>1 DEF OtherTypes
<1>6. UNCHANGED <<gen, last, activations>> BY <1>1 DEF core, life, counts, health
<1>7. Numbered' /\ SpawnsAlone' BY <1>1, <1>6 DEF Inv, Numbered, SpawnsAlone
<1>8. Held'
  <2>1. owner # 0 /\ helper[g] # "none" /\ helper[g] \in {"none", "live", "dead"}
    BY <1>0, <1>1, Basics DEF Inv, Held, OtherTypes
  <2> QED BY <1>1, <1>5, <1>6, <2>1 DEF Inv, Held, Unaccounted
<1>9. Authorized' /\ Guarded'
  BY <1>1 DEF Inv, Authorized, Guarded, core, life, auth, routing, health, Valid
<1> QED BY <1>2, <1>3, <1>4, <1>7, <1>8, <1>9, TypesSplitNext DEF Inv

\* An invalidation by a probe, an event of the helper or the network.
LEMMA InvalidInv ==
  ASSUME Inv, Invalidate(FALSE), UNCHANGED <<pair, wanted, monitor, counts, procs, blocked, starts>>,
         network' \in BOOLEAN, network' => monitor = "on", synced' \in BOOLEAN,
         activations' \in [Gens -> {"none", "pause", "rebuild"}],
         \A g \in Gens : activations'[g] \in {activations[g], "none"}
  PROVE  Inv'
<1>0. CoreTypes /\ OtherTypes BY TypesSplit DEF Inv
<1>1. OtherTypes' BY <1>0 DEF OtherTypes, counts, procs
<1>2. Over BY Ends
<1> QED BY <1>1, <1>2, OverInv DEF counts

\* A lease is renewed, and the generation may be activated for it.
LEMMA RenewInv ==
  ASSUME Inv, status = "running", NEW k \in Leases, NEW ready \in BOOLEAN, NEW activates,
         Renew(k, ready, activates), synced' \in BOOLEAN,
         UNCHANGED <<pair, user, counts, procs, blocked, starts>>
  PROVE  Inv'
<1>0. CoreTypes /\ OtherTypes BY TypesSplit DEF Inv
<1> DEFINE renewed == [authority EXCEPT !.leases = @ \cup {k}]
<1>1. CASE authority.published /\ ~Valid(authority)
  <2>1. Invalidate(FALSE) /\ UNCHANGED activations BY <1>1 DEF Renew
  <2> QED BY <1>0, <2>1, InvalidInv DEF Inv, CurrentIsSound, OtherTypes, user
<1>2. CASE ~(authority.published /\ ~Valid(authority))
  <2>1. /\ authority' = renewed /\ localReady' = ready
        /\ Activate(renewed, ready) \/ UNCHANGED <<activating, activations, routing>>
        /\ UNCHANGED <<life, permanent, published>>
    BY <1>2 DEF Renew
  <2>2. gen # 0 /\ gen \in Gens BY <1>0, Basics DEF Inv, Current, CoreTypes
  <2>3. /\ authority' \in [leases : SUBSET Leases, published : BOOLEAN, retired : BOOLEAN, missed : BOOLEAN]
        /\ authority'.published = authority.published /\ authority'.missed = authority.missed
    BY <1>0, <2>1 DEF CoreTypes
  <2>4. ~authority.missed BY <1>2 DEF Inv, Authorized
  <2>5. \/ UNCHANGED <<activating, activations, routing>>
        \/ /\ custody = "captured" /\ owner = gen
           /\ activating' = TRUE /\ activations' = [activations EXCEPT ![gen] = "pause"]
           /\ updating' = TRUE /\ guardAllowed' = FALSE /\ UNCHANGED <<upstream, guardRoute>>
    BY <2>1 DEF Activate
  <2> HIDE DEF renewed
  <2>6. /\ activating' \in BOOLEAN /\ updating' \in BOOLEAN /\ guardAllowed' \in BOOLEAN
        /\ UNCHANGED <<upstream, guardRoute>> /\ (guardAllowed' => guardAllowed)
        /\ activations' \in [Gens -> {"none", "pause", "rebuild"}]
        /\ \A g \in Gens : g # gen => activations'[g] = activations[g]
    <3>1. CASE UNCHANGED <<activating, activations, routing>>
      BY <1>0, <3>1 DEF CoreTypes, OtherTypes, routing
    <3>2. CASE ~UNCHANGED <<activating, activations, routing>>
      <4>1. /\ activating' = TRUE /\ activations' = [activations EXCEPT ![gen] = "pause"]
            /\ updating' = TRUE /\ guardAllowed' = FALSE /\ UNCHANGED <<upstream, guardRoute>>
        BY <2>5, <3>2
      <4>2. /\ activations' \in [Gens -> {"none", "pause", "rebuild"}]
            /\ \A g \in Gens : g # gen => activations'[g] = activations[g]
        BY <1>0, <4>1 DEF OtherTypes
      <4> QED BY <4>1, <4>2
    <3> QED BY <3>1, <3>2
  <2>7. CoreTypes' BY <1>0, <2>1, <2>3, <2>6 DEF CoreTypes, life
  <2>8. OtherTypes' BY <1>0, <2>6 DEF OtherTypes, user, counts, procs
  <2>9. Current' /\ CurrentIsSound' BY <2>1 DEF Inv, Current, CurrentIsSound, life, user
  <2>10. UNCHANGED <<gen, last, starts, owner, custody, helper, native, journal>>
    BY <2>1 DEF life, counts, procs
  <2>11. Held' /\ SpawnsAlone' BY <2>10 DEF Inv, Held, SpawnsAlone, Unaccounted
  <2>12. Numbered'
    <3>1. ~(last < gen) BY <1>0 DEF Inv, Numbered, CoreTypes, OtherTypes
    <3> QED BY <2>6, <2>10, <3>1 DEF Inv, Numbered
  <2>13. Authorized'
    <3>1. published' => authority'.published BY <2>1, <2>3 DEF Inv, Authorized
    <3>2. authority'.published \/ activations'[gen] = "pause" => owner = gen /\ custody = "captured"
      BY <2>2, <2>3, <2>5 DEF Inv, Authorized
    <3> QED BY <2>3, <2>4, <2>10, <3>1, <3>2 DEF Authorized
  <2>14. Guarded' BY <2>6 DEF Inv, Guarded
  <2> QED BY <2>7, <2>8, <2>9, <2>11, <2>12, <2>13, <2>14, TypesSplitNext DEF Inv
<1> QED BY <1>1, <1>2

\* A probe that fails, or one that is tried again, decides only localReady.
LEMMA ReadyInv ==
  ASSUME Inv, UNCHANGED <<pair, user, life, permanent, authority, published, activating, activations,
                          routing, counts, procs, blocked, starts>>,
         synced' \in BOOLEAN, localReady' \in BOOLEAN
  PROVE  Inv'
<1>0. CoreTypes /\ OtherTypes BY TypesSplit DEF Inv
<1>1. CoreTypes' BY <1>0 DEF CoreTypes, life, routing
<1>2. OtherTypes' BY <1>0 DEF OtherTypes, user, counts, procs
<1>3. TypeOK' BY <1>1, <1>2, TypesSplitNext
<1> QED BY <1>3, SameInv DEF Inv, Guarded, life, user, counts, routing

\* The answers of the three probes.
LEMMA AnswersInv ==
  ASSUME Inv, UNCHANGED pair, ChainAnswer \/ HealthAnswer \/ TransportAnswer
  PROVE  Inv'
<1>0. CoreTypes /\ OtherTypes BY TypesSplit DEF Inv
<1>1. /\ "metadata" \in Leases /\ "transport" \in Leases /\ "validation" \in Leases
      /\ network \in BOOLEAN /\ (network => monitor = "on") /\ localReady \in BOOLEAN /\ synced \in BOOLEAN
  BY <1>0 DEF Leases, Inv, CurrentIsSound, CoreTypes, OtherTypes
<1>2. status = "running" /\ UNCHANGED <<user, counts, procs, blocked, starts>>
  BY DEF ChainAnswer, HealthAnswer, TransportAnswer
<1>3. ASSUME NEW ready \in SUBSET BOOLEAN, ProbeFails(ready), synced' \in BOOLEAN PROVE Inv'
  <2>1. CASE published
    <3>1. Invalidate(FALSE) /\ UNCHANGED activations BY <1>3, <2>1 DEF ProbeFails
    <3> QED BY <1>0, <1>1, <1>2, <1>3, <3>1, InvalidInv DEF user, OtherTypes
  <2>2. CASE ~published
    <3>1. localReady' \in BOOLEAN /\ UNCHANGED <<life, permanent, authority, published, activating,
                                                 routing, activations>>
      BY <1>3, <2>2 DEF ProbeFails
    <3> QED BY <1>2, <1>3, <3>1, ReadyInv
  <2> QED BY <2>1, <2>2
<1>4. CASE ChainAnswer
  <2>1. CASE /\ synced' = (network /\ (authority.published => Valid(authority)))
             /\ Renew("metadata", localReady /\ network, synced')
    <3>1. synced' \in BOOLEAN BY <2>1
    <3>2. (localReady /\ network) \in BOOLEAN OBVIOUS
    <3> QED BY <1>1, <1>2, <2>1, <3>1, <3>2, RenewInv
  <2>2. CASE synced' = FALSE /\ ProbeFails({FALSE})
    BY <1>3, <2>2
  <2> QED BY <1>4, <2>1, <2>2 DEF ChainAnswer
<1>5. CASE HealthAnswer
  <2>0. synced' = synced BY <1>5 DEF HealthAnswer
  <2>1. ASSUME NEW ready \in {localReady, TRUE}, Renew("validation", ready, TRUE) PROVE Inv'
    BY <1>1, <1>2, <2>0, <2>1, RenewInv
  <2>2. CASE UNCHANGED <<core, activations>>
    BY <1>1, <1>2, <2>0, <2>2, ReadyInv DEF core, auth
  <2>3. CASE ProbeFails({localReady, FALSE})
    BY <1>1, <1>3, <2>0, <2>3
  <2> QED BY <1>5, <2>1, <2>2, <2>3 DEF HealthAnswer
<1>6. CASE TransportAnswer
  <2>1. CASE Renew("transport", localReady, TRUE)
    <3>1. synced' = synced BY <1>6 DEF TransportAnswer
    <3> QED BY <1>1, <1>2, <2>1, <3>1, RenewInv
  <2>2. CASE Invalidate(FALSE) /\ UNCHANGED activations
    <3>1. synced' = synced BY <1>6 DEF TransportAnswer
    <3> QED BY <1>0, <1>1, <1>2, <2>2, <3>1, InvalidInv DEF user, OtherTypes
  <2> QED BY <1>6, <2>1, <2>2 DEF TransportAnswer
<1> QED BY <1>4, <1>5, <1>6

\* A lease lapses.
LEMMA LapseInv ==
  ASSUME Inv, UNCHANGED pair, NEW k \in Leases, LeaseLapses(k)
  PROVE  Inv'
<1>0. CoreTypes /\ OtherTypes BY TypesSplit DEF Inv
<1>1. /\ k \in authority.leases
      /\ authority' = [authority EXCEPT !.leases = authority.leases \ {k},
                                       !.missed = authority.missed \/ authority.published]
      /\ UNCHANGED <<user, life, permanent, published, localReady, activating, routing, counts,
                     procs, blocked, starts, health>>
  BY DEF LeaseLapses
<1>2. /\ authority' \in [leases : SUBSET Leases, published : BOOLEAN, retired : BOOLEAN, missed : BOOLEAN]
      /\ authority'.published = authority.published /\ k \notin authority'.leases
      /\ authority'.missed = (authority.missed \/ authority.published)
  BY <1>0, <1>1 DEF CoreTypes
<1>3. ~Valid(authority') BY <1>2 DEF Valid
<1>4. CoreTypes' BY <1>0, <1>1, <1>2 DEF CoreTypes, life, routing
<1>5. OtherTypes' BY <1>0, <1>1 DEF OtherTypes, user, counts, procs, health
<1>6. Current' /\ CurrentIsSound' BY <1>1 DEF Inv, Current, CurrentIsSound, life, user
<1>7. UNCHANGED <<gen, last, starts, activations, owner, custody, helper, native, journal>>
  BY <1>1 DEF life, counts, procs, health
<1>8. Numbered' /\ Held' /\ SpawnsAlone' BY <1>7 DEF Inv, Numbered, Held, SpawnsAlone, Unaccounted
<1>9. Authorized' BY <1>0, <1>1, <1>2, <1>3, <1>7 DEF Inv, Authorized, CoreTypes
<1>10. Guarded' BY <1>1 DEF Inv, Guarded, routing
<1> QED BY <1>4, <1>5, <1>6, <1>8, <1>9, <1>10, TypesSplitNext DEF Inv

\* The steps of an activation, of the current generation or of one that is over.
LEMMA ActivationInv ==
  ASSUME Inv, UNCHANGED pair, NEW g \in Gens, Paused(g) \/ Activated(g)
  PROVE  Inv'
<1>0. CoreTypes /\ OtherTypes BY TypesSplit DEF Inv
<1>1. /\ UNCHANGED <<user, counts, procs, blocked, starts, synced>>
      /\ network \in BOOLEAN /\ synced \in BOOLEAN /\ (network => monitor = "on") /\ g # 0
  BY <1>0, Basics DEF Paused, Activated, Inv, CurrentIsSound, OtherTypes
<1>2. ASSUME activations' = [activations EXCEPT ![g] = "none"] PROVE
        /\ activations' \in [Gens -> {"none", "pause", "rebuild"}]
        /\ \A h \in Gens : activations'[h] \in {activations[h], "none"}
  BY <1>0, <1>2 DEF OtherTypes
<1>3. CASE Invalidate(FALSE) /\ activations' = [activations EXCEPT ![g] = "none"]
  BY <1>0, <1>1, <1>2, <1>3, InvalidInv DEF user, OtherTypes
<1>4. ASSUME activations' = [activations EXCEPT ![g] = "none"], activating' \in BOOLEAN,
             UNCHANGED <<life, permanent, authority, published, localReady, routing>>
      PROVE  Inv'
  <2>1. CoreTypes' BY <1>0, <1>4 DEF CoreTypes, life, routing
  <2>2. OtherTypes' BY <1>0, <1>1, <1>2, <1>4 DEF OtherTypes, user, counts, procs
  <2>3. Current' /\ CurrentIsSound' BY <1>1, <1>4 DEF Inv, Current, CurrentIsSound, life, user
  <2>4. UNCHANGED <<gen, last, starts, owner, custody, helper, native, journal>>
    BY <1>1, <1>4 DEF life, counts, procs
  <2>5. Numbered' /\ Held' /\ SpawnsAlone'
    BY <1>2, <1>4, <2>4 DEF Inv, Numbered, Held, SpawnsAlone, Unaccounted
  <2>6. gen # 0 => gen \in Gens BY <1>0, Basics DEF CoreTypes
  <2>7. Authorized' BY <1>2, <1>4, <2>4, <2>6 DEF Inv, Authorized, Valid
  <2>8. Guarded' BY <1>4 DEF Inv, Guarded, routing
  <2> QED BY <2>1, <2>2, <2>3, <2>5, <2>7, <2>8, TypesSplitNext DEF Inv
<1>5. CASE Paused(g)
  <2>1. CASE g = gen /\ ~(Invalidate(FALSE) /\ activations' = [activations EXCEPT ![g] = "none"])
    <3>1. /\ activations[g] = "pause" /\ Valid(authority)
          /\ authority' = [authority EXCEPT !.published = TRUE] /\ published' = TRUE
          /\ upstream' = g /\ updating' = FALSE /\ guardAllowed' = FALSE
          /\ activations' = [activations EXCEPT ![g] = "rebuild"]
          /\ UNCHANGED <<life, permanent, localReady, activating, guardRoute>>
      BY <1>5, <2>1 DEF Paused
    <3>2. /\ authority' \in [leases : SUBSET Leases, published : BOOLEAN, retired : BOOLEAN, missed : BOOLEAN]
          /\ authority'.published /\ authority'.missed = authority.missed
      BY <1>0, <3>1 DEF CoreTypes
    <3>3. ~authority.missed BY <3>1 DEF Inv, Authorized
    <3>4. CoreTypes' BY <1>0, <3>1, <3>2, Basics DEF CoreTypes, life
    <3>5. OtherTypes' BY <1>0, <1>1, <3>1 DEF OtherTypes, user, counts, procs
    <3>6. Current' /\ CurrentIsSound' BY <1>1, <3>1 DEF Inv, Current, CurrentIsSound, life, user
    <3>7. UNCHANGED <<gen, last, starts, owner, custody, helper, native, journal>>
      BY <1>1, <3>1 DEF life, counts, procs
    <3>8. Held' /\ SpawnsAlone' BY <3>7 DEF Inv, Held, SpawnsAlone, Unaccounted
    <3>9. Numbered'
      <4>1. ~(last < g) BY <3>1 DEF Inv, Numbered
      <4>2. \A h \in Gens : h # g => activations'[h] = activations[h] BY <1>0, <3>1 DEF OtherTypes
      <4> QED BY <3>7, <4>1, <4>2 DEF Inv, Numbered
    <3>10. owner = gen /\ custody = "captured" BY <1>1, <2>1, <3>1 DEF Inv, Authorized
    <3>11. Authorized' /\ Guarded' BY <3>1, <3>2, <3>3, <3>7, <3>10 DEF Authorized, Guarded
    <3> QED BY <3>4, <3>5, <3>6, <3>8, <3>9, <3>11, TypesSplitNext DEF Inv
  <2>2. CASE g # gen
    <3>1. activations' = [activations EXCEPT ![g] = "none"] /\ UNCHANGED core
      BY <1>5, <2>2 DEF Paused
    <3> QED BY <1>0, <1>4, <3>1 DEF core, auth, CoreTypes
  <2> QED BY <1>3, <2>1, <2>2
<1>6. CASE Activated(g)
  <2>1. activations' = [activations EXCEPT ![g] = "none"] BY <1>6 DEF Activated
  <2>2. CASE /\ activating' = (activating /\ g # gen)
             /\ UNCHANGED <<life, permanent, authority, published, localReady, routing>>
    BY <1>4, <2>1, <2>2
  <2>3. CASE Fails(g)
    <3>1. CASE g = gen BY <1>3, <2>1, <2>3, <3>1 DEF Fails
    <3>2. CASE g # gen BY <1>0, <1>4, <2>1, <2>3, <3>2 DEF Fails, core, auth, CoreTypes
    <3> QED BY <3>1, <3>2
  <2> QED BY <1>6, <2>2, <2>3 DEF Activated
<1> QED BY <1>5, <1>6

\* Events of the helper and of the network, and leases found missed.
LEMMA EventsInv ==
  ASSUME Inv, UNCHANGED pair, HelperReady \/ GenerationFails \/ NetworkChanges \/ LeaseMissed
  PROVE  Inv'
<1>0. CoreTypes /\ OtherTypes BY TypesSplit DEF Inv
<1>1. /\ network \in BOOLEAN /\ synced \in BOOLEAN /\ (network => monitor = "on")
      /\ activations \in [Gens -> {"none", "pause", "rebuild"}]
  BY <1>0 DEF Inv, CurrentIsSound, OtherTypes
<1>2. CASE Invalidate(FALSE) /\ UNCHANGED <<user, counts, procs, blocked, starts, health>>
  BY <1>1, <1>2, InvalidInv DEF user, health
<1>3. CASE GenerationFails \/ LeaseMissed BY <1>2, <1>3 DEF GenerationFails, LeaseMissed
<1>4. CASE NetworkChanges
  <2>1. /\ monitor # "none" /\ network' \in (IF monitor = "new" THEN {FALSE} ELSE BOOLEAN)
        /\ Invalidate(FALSE) /\ UNCHANGED <<wanted, monitor, counts, procs, blocked, starts, health>>
    BY <1>4 DEF NetworkChanges
  <2>2. network' \in BOOLEAN /\ (network' => monitor = "on")
    BY <1>0, <2>1 DEF OtherTypes
  <2> QED BY <1>1, <2>1, <2>2, InvalidInv DEF health
<1>5. CASE HelperReady /\ ~Invalidate(FALSE)
  <2>1. /\ status = "starting" /\ status' = "running"
        /\ UNCHANGED <<gen, pendingStart, recovery, teardown, permanent, auth, routing>>
        /\ UNCHANGED <<user, counts, procs, blocked, starts, health>>
    BY <1>5 DEF HelperReady
  <2>2. CoreTypes' BY <1>0, <2>1 DEF CoreTypes, auth, routing
  <2>3. OtherTypes' BY <1>0, <2>1 DEF OtherTypes, user, counts, procs, health
  <2>4. Current' /\ CurrentIsSound' BY <2>1 DEF Inv, Current, CurrentIsSound, user
  <2>5. UNCHANGED <<gen, last, starts, activations, owner, custody, helper, native, journal>>
    BY <2>1 DEF counts, procs, health
  <2>6. Numbered' /\ Held' /\ SpawnsAlone' BY <2>5 DEF Inv, Numbered, Held, SpawnsAlone, Unaccounted
  <2>7. Authorized' /\ Guarded' BY <2>1, <2>5 DEF Inv, Authorized, Guarded, auth, routing, Valid
  <2> QED BY <2>2, <2>3, <2>4, <2>6, <2>7, TypesSplitNext DEF Inv
<1>6. CASE HelperReady /\ Invalidate(FALSE) BY <1>2, <1>6 DEF HelperReady
<1> QED BY <1>3, <1>4, <1>5, <1>6

\* Routing changes of others, and a helper that has run for ten minutes.
LEMMA IntentInv ==
  ASSUME Inv, UNCHANGED pair, OtherIntent \/ RestartsForgotten
  PROVE  Inv'
<1>0. CoreTypes /\ OtherTypes BY TypesSplit DEF Inv
<1>1. CASE OtherIntent
  <2>1. /\ guardAllowed' = FALSE /\ UNCHANGED <<upstream, updating, guardRoute>>
        /\ UNCHANGED <<user, life, permanent, auth, counts, procs, blocked, starts, health>>
    BY <1>1 DEF OtherIntent, Withdrawn
  <2>2. CoreTypes'
    <3>1. /\ UNCHANGED <<status, gen, pendingStart, permanent, recovery, teardown, authority, published>>
          /\ UNCHANGED <<localReady, activating, upstream, updating, guardRoute>> /\ guardAllowed' \in BOOLEAN
      BY <2>1 DEF life, auth
    <3> QED BY <1>0, <3>1 DEF CoreTypes
  <2>3. OtherTypes' BY <1>0, <2>1 DEF OtherTypes, user, counts, procs, health
  <2>4. TypeOK' BY <2>2, <2>3, TypesSplitNext
  <2> QED BY <2>1, <2>4, SameInv DEF life, auth, user, counts, health
<1>2. CASE RestartsForgotten
  <2>1. restarts' = 0 /\ UNCHANGED <<user, core, last, restartTimer, procs, blocked, starts, health>>
    BY <1>2 DEF RestartsForgotten
  <2>2. CoreTypes' BY <1>0, <2>1 DEF CoreTypes, core, life, auth, routing
  <2>3. OtherTypes' BY <1>0, <2>1, Basics DEF OtherTypes, user, procs, health
  <2>4. TypeOK' BY <2>2, <2>3, TypesSplitNext
  <2> QED BY <2>1, <2>4, SameInv DEF core, life, auth, routing, user, health, Inv, Guarded
<1> QED BY <1>1, <1>2

\* A rebuild commits the intent as it is.
LEMMA CommitInv == ASSUME Inv, Commit, pair' = NoPair PROVE Inv'
<1>0. CoreTypes /\ OtherTypes BY TypesSplit DEF Inv
<1>1. /\ guardRoute' = upstream /\ guardAllowed' = TRUE
      /\ UNCHANGED <<user, life, permanent, auth, upstream, updating, counts, procs, blocked, starts, health>>
  BY DEF Commit
<1>2. CoreTypes'
  <2>1. /\ UNCHANGED <<status, gen, pendingStart, permanent, recovery, teardown, authority, published>>
        /\ UNCHANGED <<localReady, activating, upstream,
                       updating>> /\ guardRoute' = upstream /\ guardAllowed' = TRUE
    BY <1>1 DEF life, auth
  <2> QED BY <1>0, <2>1 DEF CoreTypes
<1>3. OtherTypes'
  <2>1. pair' \in [pc : {"none", "dialing", "asked", "piped"}, route : 0..MaxGen] BY Basics DEF NoPair
  <2> QED BY <1>0, <1>1, <2>1 DEF OtherTypes, user, counts, procs, health
<1>4. TypeOK' BY <1>2, <1>3, TypesSplitNext
<1> QED BY <1>1, <1>4, SameInv DEF life, auth, user, counts, health

\* The browser dies; what is on disk, and the processes, stay.
LEMMA CrashInv == ASSUME Inv, Crash, pair' = NoPair PROVE Inv'
<1>0. CoreTypes /\ OtherTypes BY TypesSplit DEF Inv
<1>1. /\ wanted' = FALSE /\ monitor' = "none" /\ network' = FALSE
      /\ status' = "stopped" /\ gen' = 0 /\ pendingStart' = FALSE /\ recovery' = "none" /\ teardown' = {}
      /\ permanent' = FALSE /\ blocked' = FALSE /\ restarts' = 0 /\ restartTimer' = FALSE
      /\ starts' = [g \in Gens |-> "none"] /\ owner' = 0 /\ custody' = "none"
      /\ authority' = NoAuthority /\ published' = FALSE /\ localReady' = FALSE /\ activating' = FALSE
      /\ synced' = FALSE /\ activations' = [g \in Gens |-> "none"]
      /\ upstream' = 0 /\ updating' = FALSE /\ guardRoute' = 0 /\ guardAllowed' = FALSE
      /\ UNCHANGED <<last, helper, native, journal>>
  BY DEF Crash
<1>2. CoreTypes' BY <1>1, Basics DEF CoreTypes
<1>3. OtherTypes'
  <2>1. pair' \in [pc : {"none", "dialing", "asked", "piped"}, route : 0..MaxGen] BY Basics DEF NoPair
  <2> QED BY <1>0, <1>1, <2>1, Basics DEF OtherTypes
<1>4. Current' /\ CurrentIsSound' BY <1>1 DEF Current, CurrentIsSound
<1>5. Numbered'
  <2>1. 0 <= last BY <1>0 DEF OtherTypes
  <2> QED BY <1>1, <2>1 DEF Inv, Numbered
<1>6. Held' BY <1>1 DEF Inv, Held, Unaccounted
<1>7. SpawnsAlone' BY <1>1 DEF SpawnsAlone
<1>8. Authorized' /\ Guarded' BY <1>1, Basics DEF Authorized, Guarded
<1> QED BY <1>2, <1>3, <1>4, <1>5, <1>6, <1>7, <1>8, TypesSplitNext DEF Inv

\* A pair moves only by its own steps, and keeps a route that was committed.
LEMMA PairInv ==
  ASSUME Inv, Connect \/ Connected \/ Answered \/ PairEnds
  PROVE  Inv' /\ UNCHANGED hnsVars
<1>0. CoreTypes /\ OtherTypes BY TypesSplit DEF Inv
<1>1. UNCHANGED hnsVars BY DEF Connect, Connected, Answered, PairEnds
<1>2. pair' \in [pc : {"none", "dialing", "asked", "piped"}, route : 0..MaxGen]
  <2>1. NoPair \in [pc : {"none", "dialing", "asked", "piped"}, route : 0..MaxGen] BY Basics DEF NoPair
  <2>2. CASE Connect BY <1>0, <2>2 DEF Connect, CoreTypes
  <2>3. CASE Connected BY <1>0, <2>1, <2>3 DEF Connected, OtherTypes
  <2>4. CASE Answered BY <1>0, <2>1, <2>4 DEF Answered, OtherTypes
  <2>5. CASE PairEnds BY <2>1, <2>5 DEF PairEnds
  <2> QED BY <2>2, <2>3, <2>4, <2>5
<1>3. CoreTypes' BY <1>0, <1>1 DEF CoreTypes, hnsVars, core, life, auth, routing
<1>4. OtherTypes' BY <1>0, <1>1, <1>2 DEF OtherTypes, hnsVars, user, counts, procs, health
<1>5. TypeOK' BY <1>3, <1>4, TypesSplitNext
<1>6. Inv' BY <1>1, <1>5, SameInv DEF Inv, Guarded, hnsVars, core, life, auth, routing, user, counts, health
<1> QED BY <1>1, <1>6

\* A step that changes nothing.
LEMMA StutterInv == ASSUME Inv, UNCHANGED vars PROVE Inv'
<1>0. CoreTypes /\ OtherTypes BY TypesSplit DEF Inv
<1>1. UNCHANGED <<hnsVars, pair>> BY DEF vars
<1>3. CoreTypes' BY <1>0, <1>1 DEF CoreTypes, hnsVars, core, life, auth, routing
<1>4. OtherTypes' BY <1>0, <1>1 DEF OtherTypes, hnsVars, user, counts, procs, health
<1>5. TypeOK' BY <1>3, <1>4, TypesSplitNext
<1> QED BY <1>1, <1>5, SameInv DEF Inv, Guarded, hnsVars, core, life, auth, routing, user, counts, health

\* Every step keeps the invariant.
LEMMA NextInv == Inv /\ [Next]_vars => Inv'
<1> SUFFICES ASSUME Inv, [Next]_vars PROVE Inv' OBVIOUS
<1>1. ASSUME HnsStep, UNCHANGED pair PROVE Inv'
  <2>1. CASE UserStart \/ RestartDue \/ FirstStatus BY <1>1, <2>1, StartInv
  <2>2. CASE UserStop BY <1>1, <2>2, StopInv
  <2>3. CASE RestartsForgotten \/ OtherIntent BY <1>1, <2>3, IntentInv
  <2>4. CASE TeardownStep BY <1>1, <2>4, TeardownInv, TornDownInv DEF TeardownStep
  <2>5. CASE StartStep BY <1>1, <2>5, AddressesInv, TransportInv, CapturedInv DEF StartStep
  <2>6. CASE HelperReady \/ GenerationFails \/ NetworkChanges \/ LeaseMissed BY <1>1, <2>6, EventsInv
  <2>7. CASE ChainAnswer \/ HealthAnswer \/ TransportAnswer BY <1>1, <2>7, AnswersInv
  <2>8. CASE \E k \in Leases : LeaseLapses(k) BY <1>1, <2>8, LapseInv
  <2>9. CASE \E g \in Gens : HelperExits(g) \/ Launch(g) \/ Paused(g) \/ Activated(g)
    BY <1>1, <2>9, HelperExitsInv, LaunchInv, ActivationInv
  <2> QED BY <1>1, <2>1, <2>2, <2>3, <2>4, <2>5, <2>6, <2>7, <2>8, <2>9 DEF HnsStep
<1>2. CASE Commit /\ pair' = NoPair BY <1>2, CommitInv
<1>3. CASE Crash /\ pair' = NoPair BY <1>3, CrashInv
<1>4. CASE Connect \/ Connected \/ Answered \/ PairEnds BY <1>4, PairInv
<1>5. CASE UNCHANGED vars BY <1>5, StutterInv
<1> QED BY <1>1, <1>2, <1>3, <1>4, <1>5 DEF Next

\* Nothing was started before, and the journal is closed.
LEMMA InitInv == Init => Inv
<1> SUFFICES ASSUME Init PROVE Inv OBVIOUS
<1>1. Volatile /\ last = 0 /\ journal = "closed" /\ pair = NoPair
      /\ helper = [g \in Gens |-> "none"] /\ native = [g \in Gens |-> "none"]
  BY DEF Init, HnsInit
<1>2. CoreTypes BY <1>1, Basics DEF CoreTypes, Volatile
<1>3. OtherTypes
  <2>1. pair \in [pc : {"none", "dialing", "asked", "piped"}, route : 0..MaxGen] BY <1>1, Basics DEF NoPair
  <2> QED BY <1>1, <2>1, Basics DEF OtherTypes, Volatile
<1>4. Current /\ CurrentIsSound BY <1>1 DEF Volatile, Current, CurrentIsSound
<1>5. Numbered BY <1>1 DEF Volatile, Numbered
<1>6. Held BY <1>1 DEF Volatile, Held, Unaccounted
<1>7. SpawnsAlone BY <1>1 DEF Volatile, SpawnsAlone
<1>8. Authorized /\ Guarded BY <1>1, Basics DEF Volatile, Authorized, Guarded
<1> QED BY <1>2, <1>3, <1>4, <1>5, <1>6, <1>7, <1>8, TypesSplit DEF Inv

\* So it holds of every behaviour.
LEMMA InvHolds == Spec => []Inv
<1>1. Init => Inv BY InitInv
<1>2. Inv /\ [Next]_vars => Inv' BY NextInv
<1> QED BY <1>1, <1>2, PTL DEF Spec

\* Every variable keeps its type, whatever fails and however often.
THEOREM TypeCorrect == Spec => []TypeOK
<1>1. Inv => TypeOK BY DEF Inv
<1> QED BY <1>1, InvHolds, PTL

\* An answer is passed on only from the current generation, and only if it never
\* missed a lease since it was published, however many generations there were,
\* however often their leases were renewed, and whatever died meanwhile.
THEOREM StaleNotServed == Spec => NothingStaleIsServed
<1>1. Inv /\ [Next]_vars =>
        [pair.pc = "asked" /\ pair'.pc = "piped" => pair.route = gen /\ ~authority.missed]_vars
  <2> SUFFICES ASSUME Inv, [Next]_vars, pair.pc = "asked", pair'.pc = "piped", ~UNCHANGED vars
               PROVE  pair.route = gen /\ ~authority.missed
    OBVIOUS
  <2>1. pair' # pair /\ pair' # NoPair BY DEF NoPair
  <2>2. Answered BY <2>1 DEF Next, Connect, Connected, PairEnds, NoPair
  <2>3. OnRoute BY <2>1, <2>2 DEF Answered
  <2>4. guardRoute = pair.route /\ guardAllowed /\ upstream = gen /\ Valid(authority)
    BY <2>3 DEF OnRoute, Passing
  <2> QED BY <2>4 DEF Inv, Guarded, Authorized
<1> QED BY <1>1, InvHolds, PTL DEF Spec, NothingStaleIsServed
-----------------------------------------------------------------------------
(* The promise of ResolverPromise                                          *)

Alive == {g \in Gens : Unaccounted(g)}
Serving == IF Passing THEN guardRoute ELSE 0
Lost == {g \in 1..last : g # gen \/ authority.missed}

\* What the promise's variables and actions are of these.
LEMMA Mapped ==
  /\ Promise!vars = <<wanted, Alive, Serving, Lost>>
  /\ Promise!vars' = <<wanted', Alive', Serving', Lost'>>
  /\ Promise!Lose <=> /\ Lost' \in {Lost \cup gone : gone \in SUBSET Gens}
                      /\ Serving' = IF Serving \in Lost' THEN 0 ELSE Serving
                      /\ wanted' = wanted /\ Alive' = Alive
  /\ Promise!Want <=> /\ wanted' \in BOOLEAN /\ Serving' = 0
                      /\ Lost' \in {Lost \cup gone : gone \in SUBSET Gens}
                      /\ Alive' = Alive
  /\ \A g \in Gens : Promise!Start(g) <=>
       /\ wanted /\ Alive = {} /\ g \notin Lost
       /\ Alive' = {g} /\ Lost' \in {Lost, Lost \cup {g}}
       /\ wanted' = wanted /\ Serving' = Serving
  /\ \A g \in Gens : Promise!Serve(g) <=>
       /\ wanted /\ g \in Alive \ Lost /\ Serving' = g
       /\ wanted' = wanted /\ Alive' = Alive /\ Lost' = Lost
  /\ Promise!Withdraw <=> Serving' = 0 /\ wanted' = wanted /\ Alive' = Alive /\ Lost' = Lost
  /\ \A g \in Gens : Promise!Gone(g) <=>
       g \in Lost /\ Alive' = Alive \ {g} /\ wanted' = wanted /\ Serving' = Serving /\ Lost' = Lost
<1>1. /\ Promise!vars = <<wanted, Alive, Serving, Lost>>
      /\ Promise!vars' = <<wanted', Alive', Serving', Lost'>>
  BY DEF Promise!vars, Alive, Serving, Lost
<1>2. Promise!Lose <=> /\ Lost' \in {Lost \cup gone : gone \in SUBSET Gens}
                       /\ Serving' = IF Serving \in Lost' THEN 0 ELSE Serving
                       /\ wanted' = wanted /\ Alive' = Alive
  BY DEF Promise!Lose, Alive, Serving, Lost
<1>3. Promise!Want <=> /\ wanted' \in BOOLEAN /\ Serving' = 0
                       /\ Lost' \in {Lost \cup gone : gone \in SUBSET Gens}
                       /\ Alive' = Alive
  BY DEF Promise!Want, Alive, Serving, Lost
<1>4. \A g \in Gens : Promise!Start(g) <=>
       /\ wanted /\ Alive = {} /\ g \notin Lost
       /\ Alive' = {g} /\ Lost' \in {Lost, Lost \cup {g}}
       /\ wanted' = wanted /\ Serving' = Serving
  BY DEF Promise!Start, Alive, Serving, Lost
<1>5. \A g \in Gens : Promise!Serve(g) <=>
       /\ wanted /\ g \in Alive \ Lost /\ Serving' = g
       /\ wanted' = wanted /\ Alive' = Alive /\ Lost' = Lost
  BY DEF Promise!Serve, Alive, Serving, Lost
<1>6. Promise!Withdraw <=> Serving' = 0 /\ wanted' = wanted /\ Alive' = Alive /\ Lost' = Lost
  BY DEF Promise!Withdraw, Alive, Serving, Lost
<1>7. \A g \in Gens : Promise!Gone(g) <=>
       g \in Lost /\ Alive' = Alive \ {g} /\ wanted' = wanted /\ Serving' = Serving /\ Lost' = Lost
  BY DEF Promise!Gone, Alive, Serving, Lost
<1> QED BY <1>1, <1>2, <1>3, <1>4, <1>5, <1>6, <1>7

\* Requests go only to the current generation, and only while its authority holds.
LEMMA ServingFacts ==
  ASSUME Inv
  PROVE  /\ Serving # 0 => Serving = gen /\ guardAllowed /\ published /\ Valid(authority)
         /\ gen # 0 => gen \in Gens /\ gen \in 1..last
         /\ 0 \notin 1..last /\ 1..last \subseteq Gens
         /\ gen = 0 => Serving = 0 /\ Lost = 1..last
<1>0. gen \in 0..MaxGen /\ last \in 0..MaxGen /\ gen <= last BY DEF Inv, TypeOK, HnsTypeOK, Numbered
<1>1. gen # 0 => gen \in Gens /\ gen \in 1..last BY <1>0, Basics
<1>2. 0 \notin 1..last /\ 1..last \subseteq Gens BY <1>0, Basics DEF Gens
<1>3. Serving # 0 => Serving = gen /\ gen # 0 /\ guardAllowed /\ published /\ Valid(authority)
  BY DEF Inv, Guarded, Serving, Passing
<1>4. gen = 0 => Lost = 1..last BY <1>2 DEF Lost
<1> QED BY <1>1, <1>2, <1>3, <1>4

\* A step after which more is lost, and nothing serves that is lost.
LEMMA Loses ==
  ASSUME Inv, Inv', wanted' = wanted, Alive' = Alive, last' = last, Serving' = 0,
         Lost \subseteq Lost', Serving # 0 => Serving \in Lost'
  PROVE  Promise!Next
<1>1. Lost' \subseteq Gens BY ServingFacts DEF Lost
<1>2. Lost' = Lost \cup Lost' OBVIOUS
<1>3. Lost' \in {Lost \cup gone : gone \in SUBSET Gens} BY <1>1, <1>2
<1>4. Serving' = IF Serving \in Lost' THEN 0 ELSE Serving OBVIOUS
<1>5. Promise!Lose BY <1>3, <1>4, Mapped
<1> QED BY <1>5 DEF Promise!Next

\* A step after which no generation is current.
LEMMA EndedStep ==
  ASSUME Inv, Inv', wanted' = wanted, UNCHANGED <<helper, native, last>>, gen' = 0
  PROVE  Promise!Next
<1>1. Alive' = Alive BY DEF Alive, Unaccounted
<1>2. last' = last /\ Lost \subseteq 1..last /\ Lost' = 1..last BY ServingFacts DEF Lost
<1>3. Serving' = 0 BY ServingFacts, Basics DEF Serving, Passing, Inv, Guarded
<1>4. Serving # 0 => Serving \in Lost' BY <1>2, ServingFacts
<1> QED BY <1>1, <1>2, <1>3, <1>4, Loses

\* An invalidation of a current generation, and one that finds none.
LEMMA InvalidStep ==
  ASSUME Inv, Inv', NEW fatal \in BOOLEAN, Invalidate(fatal), fatal => gen # 0,
         UNCHANGED <<wanted, counts, helper, native>>
  PROVE  Promise!Next
<1>1. gen' = 0 BY Ends DEF Over
<1> QED BY <1>1, EndedStep DEF counts

\* A step that the promise does not see.
LEMMA UnseenStep ==
  ASSUME wanted' = wanted, UNCHANGED <<helper, native, last, gen>>,
         authority'.missed = authority.missed, Serving' = Serving
  PROVE  UNCHANGED Promise!vars
<1>1. Alive' = Alive BY DEF Alive, Unaccounted
<1>2. Lost' = Lost BY DEF Lost
<1> QED BY <1>1, <1>2, Mapped

\* The next generation begins where none was current.
LEMMA BeginStep ==
  ASSUME Inv, Inv', gen = 0, NEW after, NEW pending, Begin(after, pending), Withdrawn,
         UNCHANGED <<helper, native>>
  PROVE  Alive' = Alive /\ Lost' = Lost /\ Serving = 0 /\ Serving' = 0
<1>1. Alive' = Alive BY DEF Alive, Unaccounted
<1>2. Serving = 0 /\ Serving' = 0 BY ServingFacts DEF Serving, Passing, Withdrawn
<1>3. last \in Nat BY Basics DEF Inv, TypeOK, HnsTypeOK
<1>4. Lost = 1..last BY ServingFacts
<1>5. CASE network'
  <2>1. last' = last + 1 /\ gen' = last + 1 /\ authority' = NewAuthority BY <1>5 DEF Begin
  <2>2. Lost' = {g \in 1..(last + 1) : g # last + 1} BY <2>1, Basics DEF Lost
  <2>3. {g \in 1..(last + 1) : g # last + 1} = 1..last BY <1>3
  <2> QED BY <1>1, <1>2, <1>4, <2>2, <2>3
<1>6. CASE ~network'
  <2>1. UNCHANGED <<last, gen, authority>> BY <1>6 DEF Begin, NoBegin
  <2>2. Lost' = Lost BY <2>1 DEF Lost
  <2> QED BY <1>1, <1>2, <2>2
<1> QED BY <1>5, <1>6

\* Starts of a user, of a timer, and of a VPN's first status.
LEMMA StartPromise ==
  ASSUME Inv, Inv', UserStart \/ RestartDue \/ FirstStatus
  PROVE  [Promise!Next]_(Promise!vars)
<1>0. /\ gen # 0 => status \in {"starting", "running"} /\ monitor = "on"
      /\ UNCHANGED <<helper, native>>
  BY DEF Inv, Current, CurrentIsSound, UserStart, RestartDue, FirstStatus, procs
<1>1. CASE UserStart
  <2>1. wanted' \in BOOLEAN /\ Withdrawn BY <1>1 DEF UserStart
  <2>2. Serving' = 0 BY <2>1 DEF Withdrawn, Serving, Passing
  <2>3. Alive' = Alive BY <1>0 DEF Alive, Unaccounted
  <2>4. Lost' = Lost
    <3>1. CASE status \in {"starting", "running", "stopping"}
      <4>1. UNCHANGED <<last, gen, authority>>
        <5>1. CASE status = "stopping" BY <1>1, <5>1 DEF UserStart
        <5>2. CASE status # "stopping" BY <1>1, <3>1, <5>2 DEF UserStart, NoBegin
        <5> QED BY <5>1, <5>2
      <4> QED BY <4>1 DEF Lost
    <3>2. CASE status \notin {"starting", "running", "stopping"}
      <4>1. Begin(status, pendingStart) BY <1>1, <3>2 DEF UserStart
      <4> QED BY <1>0, <2>1, <3>2, <4>1, BeginStep
    <3> QED BY <3>1, <3>2
  <2>5. Lost' \in {Lost \cup gone : gone \in SUBSET Gens}
    <3>1. Lost' = Lost \cup {} /\ {} \in SUBSET Gens BY <2>4
    <3> QED BY <3>1
  <2>6. Promise!Want BY <2>1, <2>2, <2>3, <2>5, Mapped
  <2> QED BY <2>6 DEF Promise!Next
<1>2. ASSUME Restart, gen = 0, gen' = 0 \/ Withdrawn, wanted' = wanted PROVE UNCHANGED Promise!vars
  <2>1. CASE blocked \/ permanent
    <3>1. UNCHANGED <<gen, last, authority, published>> BY <1>2, <2>1 DEF Restart, NoBegin
    <3>2. Serving' = Serving BY <1>2, <3>1, ServingFacts DEF Serving, Passing
    <3> QED BY <1>0, <1>2, <3>1, <3>2, UnseenStep
  <2>2. CASE ~(blocked \/ permanent)
    <3>1. Begin(status, pendingStart) /\ Withdrawn BY <1>2, <2>2 DEF Restart
    <3>2. Alive' = Alive /\ Lost' = Lost /\ Serving' = Serving BY <1>0, <1>2, <3>1, BeginStep
    <3> QED BY <1>2, <3>2, Mapped
  <2> QED BY <2>1, <2>2
<1>3. CASE RestartDue
  <2>0. UNCHANGED user BY <1>3 DEF RestartDue
  <2>1. CASE wanted /\ network /\ status = "stopped"
    <3>1. Restart /\ gen = 0 BY <1>0, <1>3, <2>1 DEF RestartDue
    <3>2. gen' = 0 \/ Withdrawn BY <3>1 DEF Restart, NoBegin
    <3> QED BY <1>2, <2>0, <3>1, <3>2 DEF user
  <2>2. CASE ~(wanted /\ network /\ status = "stopped")
    <3>1. NoBegin(status, pendingStart) /\ UNCHANGED routing BY <1>3, <2>2 DEF RestartDue
    <3>2. Serving' = Serving BY <2>0, <3>1 DEF Serving, Passing, Valid, user, NoBegin, routing
    <3> QED BY <1>0, <2>0, <3>1, <3>2, UnseenStep DEF user, NoBegin
  <2> QED BY <2>1, <2>2
<1>4. CASE FirstStatus
  <2>0. gen = 0 /\ wanted' = wanted BY <1>0, <1>4 DEF FirstStatus
  <2>1. CASE network' /\ wanted /\ recovery = "none" /\ status \in {"stopped", "error"}
    <3>1. Restart BY <1>4, <2>1 DEF FirstStatus
    <3>2. gen' = 0 \/ Withdrawn BY <2>0, <3>1 DEF Restart, NoBegin
    <3> QED BY <1>2, <2>0, <3>1, <3>2
  <2>2. CASE ~(network' /\ wanted /\ recovery = "none" /\ status \in {"stopped", "error"})
    <3>1. NoBegin(status, pendingStart) /\ UNCHANGED routing BY <1>4, <2>2 DEF FirstStatus
    <3>2. Serving' = Serving BY <2>0, <3>1, ServingFacts DEF Serving, Passing, NoBegin
    <3> QED BY <1>0, <2>0, <3>1, <3>2, UnseenStep DEF NoBegin
  <2> QED BY <2>1, <2>2
<1> QED BY <1>1, <1>3, <1>4

\* Stops of a user, teardowns and what follows them.
LEMMA StopPromise ==
  ASSUME Inv, Inv', UserStop \/ TeardownStep
  PROVE  [Promise!Next]_(Promise!vars)
<1>1. CASE UserStop
  <2>1. wanted' = FALSE /\ UNCHANGED <<helper, native, last>> BY <1>1 DEF UserStop, procs
  <2>2. gen' = 0
    <3>1. CASE status = "stopping" BY <1>1, <3>1 DEF UserStop, Inv, Current
    <3>2. CASE status # "stopping" BY <1>1, <3>2 DEF UserStop, Stop
    <3> QED BY <3>1, <3>2
  <2>3. Alive' = Alive BY <2>1 DEF Alive, Unaccounted
  <2>4. Lost' = 1..last /\ Serving' = 0 BY <2>1, <2>2, ServingFacts, Basics DEF Lost, Serving, Passing
  <2>5. Lost' = Lost \cup (1..last) /\ 1..last \subseteq Gens BY <2>4, ServingFacts DEF Lost
  <2>6. Lost' \in {Lost \cup gone : gone \in SUBSET Gens} BY <2>5
  <2>7. Promise!Want BY <2>1, <2>3, <2>4, <2>6, Mapped
  <2> QED BY <2>7 DEF Promise!Next
<1>2. ASSUME NEW p \in Parts, PartDone(p) PROVE UNCHANGED Promise!vars
  <2>1. UNCHANGED <<wanted, network, helper, native, last, gen, authority, published, upstream,
                    guardRoute, guardAllowed>>
    BY <1>2 DEF PartDone, user, auth, routing, counts, procs
  <2>2. Serving' = Serving BY <2>1 DEF Serving, Passing, Valid
  <2> QED BY <2>1, <2>2, UnseenStep
<1>3. CASE TeardownFails
  <2>1. UNCHANGED <<wanted, network, helper, native, last, gen, authority, published, upstream,
                    guardRoute, guardAllowed>>
    BY <1>3 DEF TeardownFails, user, auth, routing, counts
  <2>2. Serving' = Serving BY <2>1 DEF Serving, Passing, Valid
  <2> QED BY <2>1, <2>2, UnseenStep
<1>4. CASE ProcessesGone
  <2>1. /\ "processes" \in teardown /\ (owner # 0 => helper[owner] # "live")
        /\ UNCHANGED <<wanted, network, last, gen, authority, published, upstream, guardRoute,
                       guardAllowed, helper>>
    BY <1>4 DEF ProcessesGone, user, auth, routing, counts, procs
  <2>2. Serving' = Serving BY <2>1 DEF Serving, Passing, Valid
  <2>3. CASE custody = "none"
    <3>1. native' = native BY <1>4, <2>3 DEF ProcessesGone, procs
    <3> QED BY <2>1, <2>2, <3>1, UnseenStep
  <2>4. CASE custody # "none"
    <3>1. native' = [native EXCEPT ![owner] = "dead"] BY <1>4, <2>4 DEF ProcessesGone
    <3>2. gen = 0 BY <2>1 DEF Inv, CurrentIsSound
    <3>3. owner \in Gens /\ owner \in 1..last /\ helper[owner] = "dead"
      <4>1. owner # 0 /\ owner \in 0..MaxGen /\ owner <= last /\ last \in 0..MaxGen
        BY <2>4 DEF Inv, Held, TypeOK, HnsTypeOK, Numbered
      <4>2. owner \in Gens /\ owner \in 1..last BY <4>1, Basics
      <4> QED BY <2>1, <4>1, <4>2 DEF Inv, Held, TypeOK, HnsTypeOK
    <3>4. \A g \in Gens : native'[g] = IF g = owner THEN "dead" ELSE native[g]
      BY <3>1, <3>3 DEF Inv, TypeOK, HnsTypeOK
    <3>5. Alive' = Alive \ {owner} BY <2>1, <3>3, <3>4 DEF Alive, Unaccounted
    <3>6. owner \in Lost /\ Lost' = Lost BY <2>1, <3>2, <3>3, ServingFacts DEF Lost
    <3>7. Promise!Gone(owner) BY <2>1, <2>2, <3>3, <3>5, <3>6, Mapped
    <3> QED BY <3>3, <3>7 DEF Promise!Next
  <2> QED BY <2>3, <2>4
<1>5. CASE TornDown
  <2>1. status = "stopping" /\ wanted' = wanted /\ UNCHANGED <<helper, native>> BY <1>5 DEF TornDown, procs
  <2>2. gen = 0 BY <2>1 DEF Inv, Current
  <2>3. \/ Begin("stopped", FALSE) /\ Withdrawn
        \/ UNCHANGED <<gen, last, authority>>
    BY <1>5 DEF TornDown
  <2>4. CASE Begin("stopped", FALSE) /\ Withdrawn
    <3>1. Alive' = Alive /\ Lost' = Lost /\ Serving' = Serving BY <2>1, <2>2, <2>4, BeginStep
    <3> QED BY <2>1, <3>1, Mapped
  <2>5. CASE UNCHANGED <<gen, last, authority>>
    <3>1. Serving' = Serving BY <2>2, <2>5, ServingFacts DEF Serving, Passing
    <3> QED BY <2>1, <2>5, <3>1, UnseenStep
  <2> QED BY <2>3, <2>4, <2>5
<1> QED BY <1>1, <1>2, <1>3, <1>4, <1>5 DEF TeardownStep

\* Starts up to the spawn, which only a current generation reaches, and alone.
LEMMA SpawnPromise ==
  ASSUME Inv, Inv', NEW g \in Gens, AddressesChosen(g) \/ TransportReady(g) \/ Captured(g)
  PROVE  [Promise!Next]_(Promise!vars)
<1>1. /\ UNCHANGED <<user, counts>> /\ wanted' = wanted /\ last' = last /\ network' = network /\ g # 0
      /\ UNCHANGED <<native>> \/ TransportReady(g)
  BY Basics DEF AddressesChosen, TransportReady, Captured, user, counts, procs
<1>2. ASSUME UNCHANGED core, UNCHANGED <<helper, native>> PROVE UNCHANGED Promise!vars
  <2>1. UNCHANGED <<gen, authority, published, upstream, guardRoute, guardAllowed>>
    BY <1>2 DEF core, life, auth, routing
  <2>2. Serving' = Serving BY <1>1, <2>1 DEF Serving, Passing, Valid
  <2> QED BY <1>1, <1>2, <2>1, <2>2, UnseenStep
<1>3. ASSUME NEW fatal \in BOOLEAN, StartFails(g, fatal), UNCHANGED <<helper, native>>
      PROVE  [Promise!Next]_(Promise!vars)
  <2>1. CASE g = gen /\ wanted
    <3>1. Invalidate(fatal) BY <1>3, <2>1 DEF StartFails
    <3> QED BY <1>1, <1>3, <2>1, <3>1, InvalidStep
  <2>2. CASE ~(g = gen /\ wanted) BY <1>2, <1>3, <2>2 DEF StartFails
  <2> QED BY <2>1, <2>2
<1>4. CASE AddressesChosen(g)
  <2>1. UNCHANGED <<helper, native>> BY <1>4 DEF AddressesChosen, procs
  <2>2. (\E fatal \in BOOLEAN : StartFails(g, fatal)) \/ UNCHANGED core BY <1>4 DEF AddressesChosen
  <2> QED BY <1>2, <1>3, <2>1, <2>2
<1>5. CASE Captured(g)
  <2>1. UNCHANGED <<helper, native>> /\ (Fails(g) \/ UNCHANGED core) BY <1>5 DEF Captured
  <2>2. CASE g = gen /\ Fails(g)
    <3>1. Invalidate(FALSE) BY <2>2 DEF Fails
    <3> QED BY <1>1, <2>1, <3>1, InvalidStep
  <2>3. CASE ~(g = gen /\ Fails(g)) BY <1>2, <2>1, <2>3 DEF Fails
  <2> QED BY <2>2, <2>3
<1>6. CASE TransportReady(g)
  <2>1. CASE StartFails(g, FALSE) /\ UNCHANGED procs BY <1>3, <2>1 DEF procs
  <2>2. CASE UNCHANGED <<core, procs>> BY <1>2, <2>2 DEF procs
  <2>3. CASE Active(g) /\ Spawned(g)
    <3>1. /\ g = gen /\ wanted /\ helper' = [helper EXCEPT ![g] = "live"] /\ owner' = g /\ native' = native
      BY <2>3 DEF Active, Spawned
    <3>2. starts[g] = "transport" BY <1>6 DEF TransportReady
    <3>3. /\ journal = "closed" /\ helper[g] = "none" /\ \A h \in Gens : ~Unaccounted(h)
      BY <3>1, <3>2 DEF Inv, SpawnsAlone, Held
    <3>4. \A h \in Gens : helper'[h] = IF h = g THEN "live" ELSE helper[h]
      BY <3>1 DEF Inv, TypeOK, HnsTypeOK
    <3>5. Alive = {} /\ Alive' = {g} BY <3>1, <3>3, <3>4 DEF Alive, Unaccounted
    <3>6. owner # g BY <1>1, <3>3 DEF Inv, Held
    <3>7. ~authority.published /\ ~authority.missed /\ ~published
      BY <1>1, <3>1, <3>6 DEF Inv, Authorized
    <3>8. Serving = 0 BY <3>7, ServingFacts
    <3>9. Lost = (1..last) \ {g} /\ g \in 1..last
      <4>1. g \in 1..last BY <1>1, <3>1, ServingFacts
      <4>2. Lost = {h \in 1..last : h # g} BY <3>1, <3>7 DEF Lost
      <4> QED BY <4>1, <4>2
    <3>10. Serving' = 0 /\ Lost' \in {Lost, Lost \cup {g}}
      <4>1. CASE UNCHANGED core
        <5>1. UNCHANGED <<gen, authority, published>> BY <4>1 DEF core, life, auth
        <5>2. Lost' = Lost BY <1>1, <5>1 DEF Lost
        <5>3. Serving' = 0 BY <3>7, <5>1 DEF Serving, Passing
        <5> QED BY <5>2, <5>3
      <4>2. CASE StartFails(g, FALSE)
        <5>1. gen' = 0 BY <3>1, <4>2, Ends DEF StartFails, Over
        <5>2. Lost' = 1..last BY <1>1, <5>1, ServingFacts DEF Lost
        <5>3. Lost' = Lost \cup {g} BY <3>9, <5>2
        <5>4. Serving' = 0 BY <5>1, ServingFacts, Basics DEF Serving, Passing
        <5> QED BY <5>3, <5>4
      <4> QED BY <2>3, <4>1, <4>2 DEF Spawned
    <3>11. Promise!Start(g) BY <1>1, <3>1, <3>5, <3>8, <3>9, <3>10, Mapped
    <3> QED BY <3>11 DEF Promise!Next
  <2> QED BY <1>6, <2>1, <2>2, <2>3 DEF TransportReady
<1> QED BY <1>4, <1>5, <1>6

\* Helpers that exit and resolvers that are launched: nobody is accounted for by it.
LEMMA ProcessPromise ==
  ASSUME Inv, Inv', NEW g \in Gens, HelperExits(g) \/ Launch(g)
  PROVE  [Promise!Next]_(Promise!vars)
<1>1. wanted' = wanted /\ last' = last /\ network' = network
  BY DEF HelperExits, Launch, user, counts
<1>2. /\ helper \in [Gens -> {"none", "live", "dead"}] /\ native \in [Gens -> {"none", "live", "dead"}]
      /\ \A h \in Gens : native[h] = "dead" => helper[h] = "dead"
  BY DEF Inv, TypeOK, HnsTypeOK, Held
<1>3. Alive' = Alive
  <2>1. CASE HelperExits(g)
    <3>1. helper[g] = "live" /\ helper' = [helper EXCEPT ![g] = "dead"] /\ native' = native
      BY <2>1 DEF HelperExits
    <3>2. \A h \in Gens : Unaccounted(h)' <=> Unaccounted(h) BY <1>2, <3>1 DEF Unaccounted
    <3> QED BY <3>2 DEF Alive
  <2>2. CASE Launch(g)
    <3>1. native[g] = "none" /\ native' = [native EXCEPT ![g] = "live"] /\ helper' = helper
      BY <2>2 DEF Launch
    <3>2. \A h \in Gens : Unaccounted(h)' <=> Unaccounted(h) BY <1>2, <3>1 DEF Unaccounted
    <3> QED BY <3>2 DEF Alive
  <2> QED BY <2>1, <2>2
<1>4. CASE UNCHANGED core
  <2>1. UNCHANGED <<gen, authority, published, upstream, guardRoute, guardAllowed>>
    BY <1>4 DEF core, life, auth, routing
  <2>2. Serving' = Serving /\ Lost' = Lost BY <1>1, <2>1 DEF Serving, Passing, Valid, Lost
  <2> QED BY <1>1, <1>3, <2>2, Mapped
<1>5. CASE ~UNCHANGED core
  <2>1. Fails(g) /\ g = gen BY <1>5 DEF HelperExits, Launch, Fails
  <2>2. gen' = 0 BY <2>1, Ends DEF Fails, Over
  <2>3. Lost \subseteq 1..last /\ Lost' = 1..last BY <1>1, <2>2, ServingFacts DEF Lost
  <2>4. Serving' = 0 BY <2>2, Basics, ServingFacts DEF Serving, Passing, Inv, Guarded
  <2>5. Serving # 0 => Serving \in Lost' BY <2>3, ServingFacts
  <2> QED BY <1>1, <1>3, <2>3, <2>4, <2>5, Loses
<1> QED BY <1>4, <1>5

\* Probes and their leases: an authority that is renewed serves as before.
LEMMA RenewPromise ==
  ASSUME Inv, Inv', NEW k \in Leases, NEW ready, NEW activates, Renew(k, ready, activates),
         UNCHANGED <<user, counts, procs>>
  PROVE  [Promise!Next]_(Promise!vars)
<1>1. UNCHANGED <<wanted, network, last, helper, native>> BY DEF user, counts, procs
<1>2. CASE authority.published /\ ~Valid(authority)
  <2>1. Invalidate(FALSE) BY <1>2 DEF Renew
  <2> QED BY <1>1, <2>1, InvalidStep
<1>3. CASE ~(authority.published /\ ~Valid(authority))
  <2> DEFINE renewed == [authority EXCEPT !.leases = authority.leases \cup {k}]
  <2>1. /\ authority' = renewed
        /\ Activate(renewed, ready) \/ UNCHANGED <<activating, activations, routing>>
        /\ UNCHANGED <<life, permanent, published>>
    BY <1>3 DEF Renew
  <2>2. authority'.missed = authority.missed /\ (published => Valid(authority) /\ Valid(authority'))
    <3>1. authority \in [leases : SUBSET Leases, published : BOOLEAN, retired : BOOLEAN, missed : BOOLEAN]
      BY DEF Inv, TypeOK, HnsTypeOK
    <3>2. /\ authority'.missed = authority.missed /\ authority'.retired = authority.retired
          /\ authority'.leases = authority.leases \cup {k}
      BY <2>1, <3>1
    <3>3. published => Valid(authority) BY <1>3 DEF Inv, Authorized
    <3>4. Valid(authority) => Valid(authority') BY <3>2 DEF Valid
    <3> QED BY <3>2, <3>3, <3>4
  <2>3. published => UNCHANGED <<upstream, guardRoute, guardAllowed>> BY <2>1 DEF Activate, routing
  <2>4. gen' = gen /\ published' = published BY <2>1 DEF life
  <2> HIDE DEF renewed
  <2>5. Serving' = Serving BY <1>1, <2>2, <2>3, <2>4 DEF Serving, Passing
  <2> QED BY <1>1, <2>2, <2>4, <2>5, UnseenStep
<1> QED BY <1>2, <1>3

\* The answers of the three probes.
LEMMA AnswersPromise ==
  ASSUME Inv, Inv', ChainAnswer \/ HealthAnswer \/ TransportAnswer
  PROVE  [Promise!Next]_(Promise!vars)
<1>1. /\ UNCHANGED <<user, counts, procs>> /\ UNCHANGED <<wanted, network, last, helper, native>>
      /\ "metadata" \in Leases /\ "transport" \in Leases /\ "validation" \in Leases
  BY DEF ChainAnswer, HealthAnswer, TransportAnswer, user, counts, procs, Leases
<1>2. CASE Invalidate(FALSE) BY <1>1, <1>2, InvalidStep
<1>3. CASE UNCHANGED <<life, permanent, authority, published, activating, routing>>
  <2>1. UNCHANGED <<gen, authority, published, upstream, guardRoute, guardAllowed>> BY <1>3 DEF life, routing
  <2>2. Serving' = Serving BY <1>1, <2>1 DEF Serving, Passing, Valid
  <2> QED BY <1>1, <2>1, <2>2, UnseenStep
<1>4. ASSUME NEW ready, ProbeFails(ready) PROVE [Promise!Next]_(Promise!vars)
  BY <1>2, <1>3, <1>4 DEF ProbeFails
<1>5. CASE ChainAnswer
  <2>1. Renew("metadata", localReady /\ network, synced') \/ ProbeFails({FALSE}) BY <1>5 DEF ChainAnswer
  <2>2. CASE Renew("metadata", localReady /\ network, synced') BY <1>1, <2>2, RenewPromise
  <2> QED BY <1>4, <2>1, <2>2
<1>6. CASE HealthAnswer
  <2>1. ASSUME NEW ready \in {localReady, TRUE}, Renew("validation", ready, TRUE)
        PROVE  [Promise!Next]_(Promise!vars)
    BY <1>1, <2>1, RenewPromise
  <2>2. CASE UNCHANGED core BY <1>3, <2>2 DEF core, auth
  <2>3. CASE ProbeFails({localReady, FALSE}) BY <1>4, <2>3
  <2> QED BY <1>6, <2>1, <2>2, <2>3 DEF HealthAnswer
<1>7. CASE TransportAnswer
  <2>1. CASE Renew("transport", localReady, TRUE) BY <1>1, <2>1, RenewPromise
  <2> QED BY <1>2, <1>7, <2>1 DEF TransportAnswer
<1> QED BY <1>5, <1>6, <1>7

\* A lease that lapses ends what it served.
LEMMA LapsePromise ==
  ASSUME Inv, Inv', NEW k \in Leases, LeaseLapses(k)
  PROVE  [Promise!Next]_(Promise!vars)
<1>1. /\ UNCHANGED <<wanted, network, last, helper, native, gen, published>> /\ k \in authority.leases
      /\ authority' = [authority EXCEPT !.leases = authority.leases \ {k},
                                       !.missed = authority.missed \/ authority.published]
  BY DEF LeaseLapses, user, life, counts, procs
<1>2. authority \in [leases : SUBSET Leases, published : BOOLEAN, retired : BOOLEAN, missed : BOOLEAN]
  BY DEF Inv, TypeOK, HnsTypeOK
<1>3. k \notin authority'.leases /\ authority'.missed = (authority.missed \/ authority.published)
  BY <1>1, <1>2
<1>4. Serving' = 0 BY <1>3 DEF Serving, Passing, Valid
<1>5. Alive' = Alive BY <1>1 DEF Alive, Unaccounted
<1>6. Lost \subseteq Lost' BY <1>1, <1>3 DEF Lost
<1>7. Serving # 0 => Serving \in Lost'
  <2>1. ASSUME Serving # 0 PROVE Serving \in Lost'
    <3>1. Serving = gen /\ published /\ gen \in 1..last BY <2>1, ServingFacts DEF Inv, Guarded, Serving, Passing
    <3>2. authority'.missed BY <1>2, <1>3, <3>1 DEF Inv, Authorized
    <3> QED BY <1>1, <3>1, <3>2 DEF Lost
  <2> QED BY <2>1
<1> QED BY <1>1, <1>4, <1>5, <1>6, <1>7, Loses

\* The steps of an activation withdraw the guard, or are not seen.
LEMMA ActivationPromise ==
  ASSUME Inv, Inv', NEW g \in Gens, Paused(g) \/ Activated(g)
  PROVE  [Promise!Next]_(Promise!vars)
<1>1. UNCHANGED <<wanted, network, last, helper, native, counts>> BY DEF Paused, Activated, user, counts, procs
<1>2. CASE Invalidate(FALSE) BY <1>1, <1>2, InvalidStep
<1>3. CASE UNCHANGED <<life, permanent, authority, published, localReady, routing>>
  <2>1. UNCHANGED <<gen, authority, published, upstream, guardRoute, guardAllowed>> BY <1>3 DEF life, routing
  <2>2. Serving' = Serving BY <1>1, <2>1 DEF Serving, Passing, Valid
  <2> QED BY <1>1, <2>1, <2>2, UnseenStep
<1>4. CASE /\ authority' = [authority EXCEPT !.published = TRUE] /\ guardAllowed' = FALSE
           /\ UNCHANGED life
  <2>1. authority'.missed = authority.missed /\ gen' = gen
    BY <1>4 DEF life, Inv, TypeOK, HnsTypeOK
  <2>2. Serving' = 0 BY <1>4 DEF Serving, Passing
  <2>3. Alive' = Alive /\ Lost' = Lost BY <1>1, <2>1 DEF Alive, Unaccounted, Lost
  <2>4. Promise!Withdraw BY <1>1, <2>2, <2>3, Mapped
  <2> QED BY <2>4 DEF Promise!Next
<1>5. CASE Paused(g) BY <1>2, <1>3, <1>4, <1>5 DEF Paused, core, auth
<1>6. CASE Activated(g) BY <1>2, <1>3, <1>6 DEF Activated, Fails, core, auth
<1> QED BY <1>5, <1>6

\* Every step is one that the promise allows, or is not seen.
LEMMA NextPromise ==
  ASSUME Inv, Inv', [Next]_vars
  PROVE  [Promise!Next]_(Promise!vars)
<1>1. ASSUME HnsStep PROVE [Promise!Next]_(Promise!vars)
  <2>1. CASE UserStart \/ RestartDue \/ FirstStatus BY <2>1, StartPromise
  <2>2. CASE UserStop \/ TeardownStep BY <2>2, StopPromise
  <2>3. CASE StartStep BY <2>3, SpawnPromise DEF StartStep
  <2>4. CASE RestartsForgotten
    <3>1. UNCHANGED <<wanted, network, helper, native, last, gen, authority, published, upstream,
                      guardRoute, guardAllowed>>
      BY <2>4 DEF RestartsForgotten, user, core, life, auth, routing, procs
    <3>2. Serving' = Serving BY <3>1 DEF Serving, Passing, Valid
    <3> QED BY <3>1, <3>2, UnseenStep
  <2>5. CASE OtherIntent
    <3>1. UNCHANGED <<wanted, helper, native, last, gen, authority>> /\ guardAllowed' = FALSE
      BY <2>5 DEF OtherIntent, Withdrawn, user, life, auth, counts, procs
    <3>2. Serving' = 0 /\ Alive' = Alive /\ Lost' = Lost BY <3>1 DEF Serving, Passing, Alive, Unaccounted, Lost
    <3>3. Promise!Withdraw BY <3>1, <3>2, Mapped
    <3> QED BY <3>3 DEF Promise!Next
  <2>6. CASE HelperReady \/ GenerationFails \/ NetworkChanges \/ LeaseMissed
    <3>1. UNCHANGED <<wanted, counts, helper, native, last>>
      BY <2>6 DEF HelperReady, GenerationFails, NetworkChanges, LeaseMissed, user, counts, procs
    <3>2. CASE Invalidate(FALSE) BY <3>1, <3>2, InvalidStep
    <3>3. CASE ~Invalidate(FALSE)
      <4>1. UNCHANGED <<network, gen, authority, published, upstream, guardRoute, guardAllowed>>
        BY <2>6, <3>3 DEF HelperReady, GenerationFails, NetworkChanges, LeaseMissed, user, auth, routing
      <4>2. Serving' = Serving BY <4>1 DEF Serving, Passing, Valid
      <4> QED BY <3>1, <4>1, <4>2, UnseenStep
    <3> QED BY <3>2, <3>3
  <2>7. CASE ChainAnswer \/ HealthAnswer \/ TransportAnswer BY <2>7, AnswersPromise
  <2>8. CASE \E k \in Leases : LeaseLapses(k) BY <2>8, LapsePromise
  <2>9. CASE \E g \in Gens : HelperExits(g) \/ Launch(g) \/ Paused(g) \/ Activated(g)
    BY <2>9, ProcessPromise, ActivationPromise
  <2> QED BY <1>1, <2>1, <2>2, <2>3, <2>4, <2>5, <2>6, <2>7, <2>8, <2>9 DEF HnsStep
<1>2. CASE Commit
  <2>1. /\ UNCHANGED <<wanted, helper, native, last, gen, authority, published, network>>
        /\ ~guardAllowed /\ upstream' = upstream
    BY <1>2 DEF Commit, user, life, auth, counts, procs
  <2>2. Serving = 0 /\ Alive' = Alive /\ Lost' = Lost
    BY <2>1 DEF Serving, Passing, Alive, Unaccounted, Lost
  <2>3. CASE Serving' = 0 BY <2>1, <2>2, <2>3, Mapped
  <2>4. CASE Serving' # 0
    <3>1. gen # 0 /\ Serving' = gen /\ Valid(authority) /\ published
      BY <2>1, <2>4 DEF Inv, Guarded, Serving, Passing, Valid
    <3>2. ~authority.missed /\ owner = gen /\ wanted BY <3>1 DEF Inv, Authorized, CurrentIsSound
    <3>3. gen \in Gens /\ helper[gen] = "live" BY <3>1, <3>2, ServingFacts DEF Inv, Held
    <3>4. gen \in Alive \ Lost BY <3>2, <3>3 DEF Alive, Unaccounted, Lost
    <3>5. Promise!Serve(gen) BY <2>1, <2>2, <3>1, <3>2, <3>3, <3>4, Mapped
    <3> QED BY <3>3, <3>5 DEF Promise!Next
  <2> QED BY <2>3, <2>4
<1>3. CASE Crash
  <2>1. wanted' = FALSE /\ gen' = 0 /\ UNCHANGED <<last, helper, native>> BY <1>3 DEF Crash
  <2>2. Alive' = Alive /\ Serving' = 0 /\ Lost' = 1..last
    BY <2>1, ServingFacts, Basics DEF Alive, Unaccounted, Serving, Passing, Lost
  <2>3. Lost' = Lost \cup (1..last) /\ 1..last \subseteq Gens BY <2>2, ServingFacts DEF Lost
  <2>4. Lost' \in {Lost \cup gone : gone \in SUBSET Gens} BY <2>3
  <2>5. Promise!Want BY <2>1, <2>2, <2>4, Mapped
  <2> QED BY <2>5 DEF Promise!Next
<1>4. CASE UNCHANGED hnsVars
  <2>1. UNCHANGED <<wanted, network, helper, native, last, gen, authority, published, upstream,
                    guardRoute, guardAllowed>>
    BY <1>4 DEF hnsVars, user, core, life, auth, routing, counts, procs
  <2>2. Serving' = Serving BY <2>1 DEF Serving, Passing, Valid
  <2> QED BY <2>1, <2>2, UnseenStep
<1>5. CASE Connect \/ Connected \/ Answered \/ PairEnds \/ UNCHANGED vars
  BY <1>4, <1>5, PairInv DEF vars
<1> QED BY <1>1, <1>2, <1>3, <1>5 DEF Next

\* Never are two generations' processes unaccounted for, and requests go only to
\* a generation that is wanted, current and has missed no lease: for any number
\* of generations, starts and restarts, whatever fails, and whenever the browser
\* itself dies and begins again from its journal.
THEOREM PromiseKept == Spec => ImplementsPromise
<1>1. ASSUME Init PROVE Promise!Init
  <2>1. /\ wanted = FALSE /\ last = 0 /\ gen = 0 /\ helper = [g \in Gens |-> "none"]
        /\ native = [g \in Gens |-> "none"] /\ Inv
    BY <1>1, InitInv DEF Init, HnsInit, Volatile
  <2>2. Alive = {} BY <2>1 DEF Alive, Unaccounted
  <2>3. Serving = 0 /\ Lost = {} BY <2>1, ServingFacts DEF Lost
  <2>4. Promise!Init <=> wanted = FALSE /\ Alive = {} /\ Serving = 0 /\ Lost = {}
    BY DEF Promise!Init, Alive, Serving, Lost
  <2> QED BY <2>1, <2>2, <2>3, <2>4
<1>2. Inv /\ Inv' /\ [Next]_vars => [Promise!Next]_(Promise!vars) BY NextPromise
<1> QED BY <1>1, <1>2, InvHolds, PTL DEF Spec, ImplementsPromise, Promise!Spec
=============================================================================
