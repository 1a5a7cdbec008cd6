----------------------------- MODULE HnsManager -----------------------------
(***************************************************************************)
(* The Handshake resolver of hns-manager.js: one generation after another  *)
(* of a helper process and the native resolver it launches, the authority  *)
(* of a generation (hns-authority.js: three leases, read at the point of   *)
(* use), its activation into the browser's routing, the network monitor    *)
(* that invalidates it, the teardown that must have accounted for all its  *)
(* processes before the next one starts, and the journal by which a later  *)
(* browser process knows of a resolver it may not see                      *)
(* (hns-native-custody.js).                                                *)
(*                                                                         *)
(* helperGeneration is incremented by starts and by stops, and compared    *)
(* for equality only; here a start gives the next number and a stop        *)
(* leaves 0.                                                               *)
(***************************************************************************)
EXTENDS Naturals, FiniteSets

CONSTANTS
  MaxGen,      \* generations started (a bound)
  MaxRestarts  \* MAX_RESTARTS

ASSUME HnsAssumption == MaxGen \in Nat \ {0} /\ MaxRestarts \in Nat

Gens == 1..MaxGen
Leases == {"metadata", "transport", "validation"}
Parts == {"processes", "transport", "routing", "observer"}

VARIABLES
  \* what the user and the environment decided
  wanted,      \* runtimeWanted
  monitor,     \* networkMonitor: "none", "new" (awaits the VPN's status), "on"
  network,     \* allowed(), as the monitor sees it
  \* the life of generations
  status,      \* currentState
  gen,         \* helperGeneration, 0 when a stop was the last to change it
  last,        \* how many generations were started
  starts,      \* where the startHns of a generation awaits
  pendingStart,
  permanent,   \* permanentStartupError is set
  blocked,     \* cleanupFailed
  restarts,    \* restartCount
  restartTimer,
  recovery,    \* the recovery promise: "none", "plain", "fatal" (a startup error)
  teardown,    \* parts of helperTeardown that are outstanding
  \* processes, and what is known of them
  owner,       \* the generation whose processes are held or torn down
  custody,     \* its native custody: "none", "bound", "captured", "failed"
  helper, native, \* of each generation: "none", "live" or "dead"
  journal,     \* the custody journal on disk
  \* health and authority
  authority,   \* of gen: its leases, whether it is published or retired, and
               \* (a ghost) whether it missed a lease since it was published
  published,   \* readyPublished
  synced, localReady,
  activating,  \* activation is not null
  activations, \* where the activation of a generation awaits
  \* network-manager.js: the routing intent and what was committed of it
  upstream,    \* the generation of hnsUpstreamProxyAddr, 0 for none
  updating,    \* hnsCertificateUpdating
  guardRoute, guardAllowed

user == <<wanted, monitor, network>>
life == <<status, gen, pendingStart, recovery, teardown>>
counts == <<last, restarts, restartTimer>>
procs == <<owner, custody, helper, native, journal>>
auth == <<authority, published, localReady, activating>>
routing == <<upstream, updating, guardRoute, guardAllowed>>
health == <<synced, activations>>
\* What an invalidation may change.
core == <<life, permanent, auth, routing>>
hnsVars == <<user, core, counts, procs, blocked, starts, health>>

NoAuthority == [leases |-> {}, published |-> FALSE, retired |-> TRUE, missed |-> FALSE]
NewAuthority == [leases |-> {}, published |-> FALSE, retired |-> FALSE, missed |-> FALSE]

\* isValid(), as it answers; what it does when it finds a missed lease of a
\* published generation is LeaseMissed.
Valid(a) == ~a.retired /\ a.leases = Leases

-----------------------------------------------------------------------------
(* Routing, as far as the guard's route goes: every change of the intent   *)
(* withdraws the guard; a rebuild commits the intent as it is              *)
(* (SessionRouting has the rest, and shows that no older one is).          *)

\* clearHnsProxy(): no upstream, and whatever was committed is withdrawn.
Cleared ==
  /\ upstream' = 0 /\ updating' = FALSE /\ guardAllowed' = FALSE
  /\ UNCHANGED guardRoute

Withdrawn ==
  /\ guardAllowed' = FALSE
  /\ UNCHANGED <<upstream, updating, guardRoute>>

\* getRoute() gives the committed route.
Passing ==
  /\ guardAllowed /\ guardRoute # 0
  /\ upstream # 0 /\ upstream = gen /\ published /\ Valid(authority) /\ network

\* A rebuild drains the guard's operations and publishes the intent.
Commit ==
  /\ ~guardAllowed /\ ~updating
  /\ guardRoute' = upstream /\ guardAllowed' = TRUE
  /\ UNCHANGED <<user, life, permanent, auth, upstream, updating, counts, procs, blocked, starts, health>>

\* Another intent changes: Tor, the dVPN, or protection being required again.
OtherIntent ==
  /\ guardAllowed /\ Withdrawn
  /\ UNCHANGED <<user, life, permanent, auth, counts, procs, blocked, starts, health>>

-----------------------------------------------------------------------------
(* Stopping                                                                *)

\* stopHns() in any state but "stopping": the generation is over at once,
\* its remains are torn down.
Stop(observer) ==
  /\ gen' = 0
  /\ authority' = NoAuthority /\ published' = FALSE /\ activating' = FALSE
  /\ Cleared
  /\ status' = "stopping" /\ pendingStart' = FALSE
  /\ teardown' = {"processes", "transport", "routing"} \cup observer

\* invalidateHnsGeneration(reason, startupError).
Invalidate(fatal) ==
  IF permanent /\ ~fatal THEN UNCHANGED core
  ELSE /\ permanent' = (permanent \/ fatal)
       /\ localReady' = FALSE
       /\ IF recovery # "none" \/ ~wanted
          THEN /\ authority' = [authority EXCEPT !.retired = TRUE]
               /\ published' = FALSE
               /\ Cleared
               /\ UNCHANGED <<status, gen, pendingStart, recovery, teardown, activating>>
          ELSE /\ Stop({})
               /\ recovery' = IF fatal THEN "fatal" ELSE "plain"

\* An event of a child, a relay or a probe of generation g, where the code
\* tests that g is current.
Fails(g) == IF g = gen THEN Invalidate(FALSE) ELSE UNCHANGED core

\* stopChild() and custody.terminate(): the helper has exited, and the
\* resolver its receipt names is killed.  Without a receipt nothing is known,
\* and the part can only fail.
ProcessesGone ==
  /\ "processes" \in teardown
  /\ owner # 0 => helper[owner] # "live"
  /\ IF custody = "none" THEN UNCHANGED procs
     ELSE /\ custody = "captured" \/ (custody = "bound" /\ native[owner] # "none")
          /\ native' = [native EXCEPT ![owner] = "dead"]
          /\ journal' = "closed" /\ custody' = "none" /\ owner' = 0
          /\ UNCHANGED helper
  /\ teardown' = teardown \ {"processes"}
  /\ UNCHANGED <<user, status, gen, pendingStart, recovery, permanent, auth, routing,
                 counts, blocked, starts, health>>

\* Transport, observer and routing have deadlines of their own; a transport
\* that is still being prepared is waited for.
PartDone(p) ==
  /\ p \in teardown \ {"processes", "failed"}
  /\ p = "transport" => \A g \in Gens : starts[g] # "transport"
  /\ teardown' = teardown \ {p}
  /\ UNCHANGED <<user, status, gen, pendingStart, recovery, permanent, auth, routing,
                 counts, procs, blocked, starts, health>>

\* One part is rejected: cleanup is unresolved from now on.  A recovery
\* reports an error; an explicit stop leaves the state as it is.
TeardownFails ==
  /\ teardown \cap Parts # {}
  /\ blocked' = TRUE /\ teardown' = {"failed"}
  /\ status' = IF recovery = "none" THEN status ELSE "error"
  /\ recovery' = "none" /\ owner' = 0 /\ custody' = "none"
  /\ UNCHANGED <<user, gen, pendingStart, permanent, auth, routing, counts, helper, native,
                 journal, starts, health>>

-----------------------------------------------------------------------------
(* Starting                                                                *)

\* createHnsNetworkMonitor(): a VPN's state is unknown until it reports one.
Watching ==
  IF monitor # "none" THEN UNCHANGED <<monitor, network>>
  ELSE \/ monitor' = "on" /\ network' \in BOOLEAN
       \/ monitor' = "new" /\ network' = FALSE

NoBegin(after, pending) ==
  /\ status' = after /\ pendingStart' = pending
  /\ UNCHANGED <<gen, last, authority, published, activating, starts>>

\* The new generation of startHns(), up to its first await, unless there is
\* no network to start it on.
Begin(after, pending) ==
  IF ~network' THEN NoBegin(after, pending)
  ELSE /\ last < MaxGen
       /\ last' = last + 1 /\ gen' = last + 1
       /\ status' = "starting" /\ pendingStart' = FALSE
       /\ authority' = NewAuthority /\ published' = FALSE /\ activating' = FALSE
       /\ starts' = [starts EXCEPT ![last + 1] = "rebuild"]

\* startHns() of a user.
UserStart ==
  /\ ~blocked
  /\ wanted' = TRUE /\ permanent' = FALSE /\ restarts' = 0
  /\ Withdrawn
  /\ CASE status \in {"running", "starting"} ->
            NoBegin(status, pendingStart) /\ UNCHANGED <<monitor, network>>
       [] status = "stopping" ->
            /\ pendingStart' = TRUE
            /\ UNCHANGED <<monitor, network, status, gen, last, authority, published, activating, starts>>
       [] OTHER -> Watching /\ Begin(status, pendingStart)
  /\ UNCHANGED <<recovery, teardown, restartTimer, localReady, blocked, procs, health>>

\* startHns(true) of a caller that found the runtime wanted and stopped.
Restart ==
  IF blocked \/ permanent THEN NoBegin(status, pendingStart) /\ UNCHANGED routing
  ELSE Begin(status, pendingStart) /\ Withdrawn

\* The timer of maybeRestart().
RestartDue ==
  /\ restartTimer /\ restartTimer' = FALSE
  /\ UNCHANGED user
  /\ IF wanted /\ network /\ status = "stopped" THEN Restart
     ELSE NoBegin(status, pendingStart) /\ UNCHANGED routing
  /\ UNCHANGED <<recovery, teardown, permanent, restarts, localReady, blocked, procs, health>>

\* maybeRestart()'s other timer: ten minutes of a running helper.
RestartsForgotten ==
  /\ status = "running" /\ restarts # 0 /\ restarts' = 0
  /\ UNCHANGED <<user, core, last, restartTimer, procs, blocked, starts, health>>

\* Fault: a start that was asked for while a recovery stops is left to it.
QueuedStartYields ==
  pendingStart /\ recovery = "none" /\ wanted /\ (monitor = "none" \/ network)

\* A start that was asked for while stopping.
QueuedStart == pendingStart /\ wanted /\ (monitor = "none" \/ network)

\* The end of stopHns(), what the recovery that waits for it does, and the
\* start that was asked for meanwhile.
TornDown ==
  LET again == recovery = "plain" /\ ~blocked /\ wanted /\ monitor # "none" /\ network
      givesUp == again /\ restarts >= MaxRestarts
      reports == recovery # "none" /\ (blocked \/ givesUp \/ (recovery = "fatal" /\ wanted /\ permanent))
      ended == IF reports THEN "error" ELSE "stopped"
  IN  /\ status = "stopping" /\ teardown = {}
      /\ synced' = FALSE /\ localReady' = FALSE /\ recovery' = "none"
      /\ restarts' = IF again /\ ~givesUp THEN restarts + 1 ELSE restarts
      /\ restartTimer' = (restartTimer \/ (again /\ ~givesUp))
      /\ IF QueuedStart /\ ended = "stopped" /\ ~blocked /\ ~permanent
         THEN Watching /\ Begin("stopped", FALSE) /\ Withdrawn
         ELSE /\ pendingStart' = (pendingStart /\ ~QueuedStart)
              /\ status' = ended
              /\ UNCHANGED <<monitor, network, gen, last, authority, published, activating, starts, routing>>
  /\ UNCHANGED <<wanted, teardown, permanent, procs, blocked, activations>>

\* stopHns() of a user.
UserStop ==
  LET observer == IF monitor = "none" THEN {} ELSE {"observer"} IN
  /\ wanted' = FALSE /\ restarts' = 0 /\ permanent' = FALSE
  /\ monitor' = "none" /\ network' = FALSE
  /\ IF status = "stopping"
     THEN /\ teardown' = IF teardown = {"failed"} THEN teardown ELSE teardown \cup observer
          /\ UNCHANGED <<status, gen, pendingStart, authority, published, activating, routing>>
     ELSE Stop(observer)
  /\ UNCHANGED <<last, restartTimer, recovery, localReady, procs, blocked, starts, health>>

Active(g) == g = gen /\ status = "starting" /\ wanted

\* The catch of startHns(): a preflight that fails, fails for good.
StartFails(g, fatal) ==
  /\ starts' = [starts EXCEPT ![g] = "none"]
  /\ IF g = gen /\ wanted THEN Invalidate(fatal) ELSE UNCHANGED core

\* Preflight, the rebuild and the choice of ports; then the transport is
\* prepared, unless the journal has a resolver that nobody accounted for.
AddressesChosen(g) ==
  /\ starts[g] = "rebuild"
  /\ \/ \E fatal \in BOOLEAN : StartFails(g, fatal) /\ UNCHANGED blocked
     \/ Active(g) /\ journal = "pending" /\ blocked' = TRUE /\ StartFails(g, FALSE)
     \/ /\ Active(g) => journal = "closed"
        /\ starts' = [starts EXCEPT ![g] = IF Active(g) THEN "transport" ELSE "none"]
        /\ UNCHANGED <<core, blocked>>
  /\ UNCHANGED <<user, counts, procs, health>>

\* The helper is spawned in the step that finds the generation still wanted.
\* bindParent() may find no identity for it; spawn may fail.
Spawned(g) ==
  /\ helper' = [helper EXCEPT ![g] = "live"] /\ owner' = g /\ journal' = "pending"
  /\ \/ /\ custody' = "bound" /\ starts' = [starts EXCEPT ![g] = "capture"]
        /\ UNCHANGED core
     \/ custody' = "failed" /\ StartFails(g, FALSE)
  /\ UNCHANGED native

TransportReady(g) ==
  /\ starts[g] = "transport"
  /\ \/ StartFails(g, FALSE) /\ UNCHANGED procs
     \/ Active(g) /\ Spawned(g)
     \/ ~Active(g) /\ starts' = [starts EXCEPT ![g] = "none"] /\ UNCHANGED <<core, procs>>
  /\ UNCHANGED <<user, counts, blocked, health>>

\* custody.capture(): the receipt that the launcher writes.
Captured(g) ==
  /\ starts[g] = "capture"
  /\ starts' = [starts EXCEPT ![g] = "none"]
  /\ \/ /\ native[g] # "none"
        /\ custody' = IF owner = g /\ custody = "bound" THEN "captured" ELSE custody
        /\ UNCHANGED core
     \/ /\ custody' = IF owner = g /\ custody = "bound" THEN "failed" ELSE custody
        /\ Fails(g)
  /\ UNCHANGED <<user, counts, owner, helper, native, journal, blocked, health>>

\* handleReady(): an event that names no usable address is refused.
HelperReady ==
  /\ status = "starting" /\ gen # 0 /\ helper[gen] = "live"
  /\ \/ /\ status' = "running"
        /\ UNCHANGED <<gen, pendingStart, recovery, teardown, permanent, auth, routing>>
     \/ Invalidate(FALSE)
  /\ UNCHANGED <<user, counts, procs, blocked, starts, health>>

\* The helper reports an error, or its relay fails.
GenerationFails ==
  /\ gen # 0 /\ starts[gen] # "rebuild"
  /\ Invalidate(FALSE)
  /\ UNCHANGED <<user, counts, procs, blocked, starts, health>>

-----------------------------------------------------------------------------
(* Processes, and the end of the browser                                   *)

HelperExits(g) ==
  /\ helper[g] = "live" /\ helper' = [helper EXCEPT ![g] = "dead"]
  /\ Fails(g)
  /\ UNCHANGED <<user, counts, owner, custody, native, journal, blocked, starts, health>>

\* The helper launches the resolver; the launcher may be on its way when the
\* helper is killed.  Once the browser has let go of a helper, nothing looks
\* for its resolver any more.
Launch(g) ==
  /\ owner = g /\ native[g] = "none"
  /\ native' = [native EXCEPT ![g] = "live"]
  /\ UNCHANGED <<user, core, counts, owner, custody, helper, journal, blocked, starts, health>>

\* What a browser process begins with.
Volatile ==
  /\ wanted = FALSE /\ monitor = "none" /\ network = FALSE
  /\ status = "stopped" /\ gen = 0 /\ pendingStart = FALSE /\ recovery = "none" /\ teardown = {}
  /\ permanent = FALSE /\ blocked = FALSE /\ restarts = 0 /\ restartTimer = FALSE
  /\ starts = [g \in Gens |-> "none"]
  /\ owner = 0 /\ custody = "none"
  /\ authority = NoAuthority /\ published = FALSE /\ localReady = FALSE /\ activating = FALSE
  /\ synced = FALSE /\ activations = [g \in Gens |-> "none"]
  /\ upstream = 0 /\ updating = FALSE /\ guardRoute = 0 /\ guardAllowed = FALSE

\* The browser dies; its helper and resolver may go on.
Crash ==
  /\ wanted' = FALSE /\ monitor' = "none" /\ network' = FALSE
  /\ status' = "stopped" /\ gen' = 0 /\ pendingStart' = FALSE /\ recovery' = "none" /\ teardown' = {}
  /\ permanent' = FALSE /\ blocked' = FALSE /\ restarts' = 0 /\ restartTimer' = FALSE
  /\ starts' = [g \in Gens |-> "none"]
  /\ owner' = 0 /\ custody' = "none"
  /\ authority' = NoAuthority /\ published' = FALSE /\ localReady' = FALSE /\ activating' = FALSE
  /\ synced' = FALSE /\ activations' = [g \in Gens |-> "none"]
  /\ upstream' = 0 /\ updating' = FALSE /\ guardRoute' = 0 /\ guardAllowed' = FALSE
  /\ UNCHANGED <<last, helper, native, journal>>

-----------------------------------------------------------------------------
(* Health, leases and activation                                           *)

\* The monitor polls another network, or the system sleeps or wakes.  Its
\* onStable finds a recovery under way, or a start that failed for good.
NetworkChanges ==
  /\ monitor # "none"
  /\ network' \in IF monitor = "new" THEN {FALSE} ELSE BOOLEAN
  /\ Invalidate(FALSE)
  /\ UNCHANGED <<wanted, monitor, counts, procs, blocked, starts, health>>

\* The first status of a VPN.
FirstStatus ==
  /\ monitor = "new" /\ monitor' = "on" /\ network' \in BOOLEAN
  /\ IF network' /\ wanted /\ recovery = "none" /\ status \in {"stopped", "error"} THEN Restart
     ELSE NoBegin(status, pendingStart) /\ UNCHANGED routing
  /\ UNCHANGED <<wanted, recovery, teardown, permanent, restarts, restartTimer, localReady,
                 procs, blocked, health>>

LeaseLapses(k) ==
  /\ k \in authority.leases
  /\ authority' = [authority EXCEPT !.leases = @ \ {k}, !.missed = @ \/ authority.published]
  /\ UNCHANGED <<user, life, permanent, published, localReady, activating, routing, counts, procs,
                 blocked, starts, health>>

\* isValid(), asked by the guard or by the verification of a certificate,
\* finds that a published generation has missed a lease.
LeaseMissed ==
  /\ authority.published /\ ~authority.retired /\ authority.leases # Leases
  /\ Invalidate(FALSE)
  /\ UNCHANGED <<user, counts, procs, blocked, starts, health>>

\* activateGeneration(), called when a lease was renewed.
Activate(a, ready) ==
  IF /\ ~published /\ ~activating /\ Valid(a) /\ ready
     /\ custody = "captured" /\ owner = gen /\ network
  THEN /\ activating' = TRUE /\ activations' = [activations EXCEPT ![gen] = "pause"]
       /\ updating' = TRUE /\ guardAllowed' = FALSE
       /\ UNCHANGED <<upstream, guardRoute>>
  ELSE UNCHANGED <<activating, activations, routing>>

\* Fault: a lease is renewed without looking at the others.
RenewRevives(k, ready, activates) ==
  LET renewed == [authority EXCEPT !.leases = @ \cup {k}]
  IN  /\ authority' = renewed /\ localReady' = ready
      /\ IF activates THEN Activate(renewed, ready) ELSE UNCHANGED <<activating, activations, routing>>
      /\ UNCHANGED <<life, permanent, published>>

\* renew(): a published generation that has missed a lease is not revived.
Renew(k, ready, activates) ==
  LET renewed == [authority EXCEPT !.leases = @ \cup {k}]
  IN  IF authority.published /\ ~Valid(authority) THEN Invalidate(FALSE) /\ UNCHANGED activations
      ELSE /\ authority' = renewed /\ localReady' = ready
           /\ IF activates THEN Activate(renewed, ready) ELSE UNCHANGED <<activating, activations, routing>>
           /\ UNCHANGED <<life, permanent, published>>

\* A failed probe: a published generation is over, another tries again.
ProbeFails(ready) ==
  /\ IF published THEN Invalidate(FALSE)
     ELSE localReady' \in ready /\ UNCHANGED <<life, permanent, authority, published, activating, routing>>
  /\ UNCHANGED activations

\* scheduleHnsChainCheck(): the chain is fresh, is not, or cannot be read.
ChainAnswer ==
  /\ status = "running"
  /\ \/ /\ synced' = (network /\ (authority.published => Valid(authority)))
        /\ Renew("metadata", localReady /\ network, synced')
     \/ synced' = FALSE /\ ProbeFails({FALSE})
  /\ UNCHANGED <<user, counts, procs, blocked, starts>>

\* runHnsHealthCheck(): validated, refused, or not completed, which is tried
\* again while the leases hold.  Two answers in a row decide localReady.
HealthAnswer ==
  /\ status = "running"
  /\ \/ /\ synced /\ \E ready \in {localReady, TRUE} : Renew("validation", ready, TRUE)
     \/ /\ ~synced \/ (published /\ Valid(authority))
        /\ UNCHANGED <<core, activations>>
     \/ ProbeFails({localReady, FALSE})
  /\ UNCHANGED <<user, counts, procs, blocked, starts, synced>>

\* scheduleEncryptedProbe().
TransportAnswer ==
  /\ status = "running"
  /\ Renew("transport", localReady, TRUE) \/ (Invalidate(FALSE) /\ UNCHANGED activations)
  /\ UNCHANGED <<user, counts, procs, blocked, starts, synced>>

\* The certificate update has paused every session, or has failed: the
\* generation is published if it still is the one, and still holds.
Paused(g) ==
  /\ activations[g] = "pause"
  /\ IF g = gen
     THEN \/ /\ Valid(authority)
             /\ authority' = [authority EXCEPT !.published = TRUE] /\ published' = TRUE
             /\ upstream' = g /\ updating' = FALSE /\ guardAllowed' = FALSE
             /\ activations' = [activations EXCEPT ![g] = "rebuild"]
             /\ UNCHANGED <<life, permanent, localReady, activating, guardRoute>>
          \/ Invalidate(FALSE) /\ activations' = [activations EXCEPT ![g] = "none"]
     ELSE activations' = [activations EXCEPT ![g] = "none"] /\ UNCHANGED core
  /\ UNCHANGED <<user, counts, procs, blocked, starts, synced>>

Activated(g) ==
  /\ activations[g] = "rebuild"
  /\ activations' = [activations EXCEPT ![g] = "none"]
  /\ \/ /\ activating' = (activating /\ g # gen)
        /\ UNCHANGED <<life, permanent, authority, published, localReady, routing>>
     \/ Fails(g)
  /\ UNCHANGED <<user, counts, procs, blocked, starts, synced>>

-----------------------------------------------------------------------------
HnsInit ==
  /\ Volatile
  /\ last = 0 /\ journal = "closed"
  /\ helper = [g \in Gens |-> "none"] /\ native = [g \in Gens |-> "none"]

TeardownStep == ProcessesGone \/ (\E p \in Parts : PartDone(p)) \/ TeardownFails \/ TornDown

StartStep == \E g \in Gens : AddressesChosen(g) \/ TransportReady(g) \/ Captured(g)

\* Every step but Commit and Crash, which end what the guard forwards, too.
HnsStep ==
  \/ UserStart \/ UserStop \/ RestartDue \/ RestartsForgotten \/ TeardownStep \/ StartStep
  \/ HelperReady \/ GenerationFails \/ NetworkChanges \/ FirstStatus \/ OtherIntent
  \/ LeaseMissed \/ ChainAnswer \/ HealthAnswer \/ TransportAnswer
  \/ \E k \in Leases : LeaseLapses(k)
  \/ \E g \in Gens : HelperExits(g) \/ Launch(g) \/ Paused(g) \/ Activated(g)

\* Every part of a teardown ends, or fails by its deadline; timers fire.
HnsFairness == WF_hnsVars(TeardownStep) /\ WF_hnsVars(RestartDue)

\* Types, and what is only there together.
HnsTypeOK ==
  /\ wanted \in BOOLEAN /\ monitor \in {"none", "new", "on"} /\ network \in BOOLEAN
  /\ status \in {"stopped", "starting", "running", "stopping", "error"}
  /\ gen \in 0..MaxGen /\ last \in 0..MaxGen
  /\ starts \in [Gens -> {"none", "rebuild", "transport", "capture"}]
  /\ pendingStart \in BOOLEAN /\ permanent \in BOOLEAN /\ blocked \in BOOLEAN
  /\ restarts \in 0..MaxRestarts /\ restartTimer \in BOOLEAN
  /\ recovery \in {"none", "plain", "fatal"} /\ teardown \subseteq Parts \cup {"failed"}
  /\ owner \in 0..MaxGen /\ custody \in {"none", "bound", "captured", "failed"}
  /\ helper \in [Gens -> {"none", "live", "dead"}] /\ native \in [Gens -> {"none", "live", "dead"}]
  /\ journal \in {"closed", "pending"}
  /\ authority \in [leases : SUBSET Leases, published : BOOLEAN, retired : BOOLEAN, missed : BOOLEAN]
  /\ published \in BOOLEAN /\ synced \in BOOLEAN /\ localReady \in BOOLEAN
  /\ activating \in BOOLEAN
  /\ activations \in [Gens -> {"none", "pause", "rebuild"}]
  /\ upstream \in 0..MaxGen /\ updating \in BOOLEAN
  /\ guardRoute \in 0..MaxGen /\ guardAllowed \in BOOLEAN
=============================================================================
