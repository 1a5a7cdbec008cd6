--------------------------- MODULE SessionRouting ---------------------------
(***************************************************************************)
(* Fail-closed routing of every Electron session: the per-session proxy    *)
(* controller (session-proxy-controller.js), the coordinator that owns the *)
(* prepared policy (session-routing-coordinator.js), and the part of       *)
(* network-manager.js that supplies the coordinator's hooks: the routing   *)
(* intent, the shared PAC body and the HNS guard.                          *)
(*                                                                         *)
(* One operation at a time leaves the controller's promise queue and runs  *)
(* as a program (op); while it awaits, every active session has a lane     *)
(* (lane) of native calls.  Everything else in the browser interleaves     *)
(* with those awaits: a setter changes the intent, a private window is     *)
(* registered or retired, a local server dies.                             *)
(***************************************************************************)
EXTENDS Naturals, Sequences, FiniteSets

CONSTANTS
  Sessions,     \* Electron Session objects
  Default,      \* session.defaultSession: always managed, never registered
  Intents,      \* values of getRoutingIntent()
  InitIntent,   \* the one in force when the module is loaded
  Direct,       \* intents that need neither the guard nor a PAC script
  Guarded,      \* intents that send Handshake names to the HNS guard
  Updating,     \* intents with hnsCertificateUpdating set: prepare refuses them
  MaxSafe,      \* Number.MAX_SAFE_INTEGER as a generation sees it (a bound)
  MaxEpoch,     \* Number.MAX_SAFE_INTEGER as intentEpoch sees it (a bound)
  MaxQueue      \* how many operations callers leave queued (a bound)

ASSUME SessionAssumption == Default \in Sessions
ASSUME IntentAssumption ==
  /\ Direct \subseteq Intents /\ Guarded \subseteq Intents /\ Updating \subseteq Intents
  /\ Direct \cap (Guarded \cup Updating) = {}
  /\ InitIntent \in Direct
  /\ \A i \in Intents : i \notin {"none", "direct", "native", "blocked"}
ASSUME BoundAssumption == MaxSafe \in Nat \ {0} /\ MaxEpoch \in Nat /\ MaxQueue \in Nat

None == "none"        \* null: no policy, no PAC server, no key, no route

\* policy.key: every direct policy has the key 'direct'; a PAC policy's key
\* contains the whole intent.
Key(i) == IF i \in Direct THEN "direct" ELSE i
Keys == {Key(i) : i \in Intents}

\* What a session routes by: its native startup state, a configuration, or
\* a mandatory PAC script that cannot be fetched (every request fails).
Routes == Keys \cup {"native", "blocked"}

States == {"unknown", "enrolling", "initial", "updating", "configured", "ready",
           "quarantined", "retired"}
Record == [state : States, generation : 0..MaxSafe, key : Keys \cup {None}, poisoned : BOOLEAN]

\* An enqueued operation; session and token matter to an enrollment only.
Op == [kind : {"enroll", "rebuild", "pause"}, session : Sessions, token : 0..MaxSafe]

\* A native call resolves, rejects, or outlives its deadline.
Outcome == {"ok", "failed", "timeout"}
Error == {"none", "failed", "timeout"}
Lane == [pc : {"off", "setProxy", "reload", "drain", "reload2", "quarantine", "done", "failed"},
         generation : 0..MaxSafe, registration : 0..MaxSafe, error : Error]

VARIABLES
  \* session-proxy-controller.js
  record,       \* records: state, generation, key and poisoned of each session
  registration, \* sessions: the registration token, 0 when not registered
  terminal,
  queue,        \* operations enqueued behind the pending promise
  \* session-routing-coordinator.js
  intent,       \* hooks.getIntent()
  intentEpoch,
  policy,       \* the committed policy, named by its intent, or None
  attempted,
  run,          \* the operation being run, where it is, and what it captured
  lane,         \* its native calls, one lane per session
  \* network-manager.js
  pac,          \* the intent whose PAC body the shared server serves, or None
  guardUp,      \* hnsGuardServer is listening
  guardAllowed,
  admitted,     \* hns-guard-resources.js: new operations are not destroyed
  guardRoute,   \* the intent the guard forwards by, or None
  guardConns,   \* intents under which live guard operations were opened
  \* Electron
  applied,      \* what the session's network stack routes by now
  conns,        \* what its live connections were opened under
  late,         \* a setProxy that outlived its deadline, or None
  latePrepare   \* the intent of a prepare that outlived its deadline, or None

controller == <<record, registration, terminal>>
coordinator == <<intent, intentEpoch, policy, attempted>>
resources == <<pac, guardUp, guardAllowed, admitted, guardRoute, guardConns>>
native == <<applied, conns, late, latePrepare>>
vars == <<controller, queue, coordinator, run, lane, resources, native>>

Idle == [phase |-> "idle", kind |-> "rebuild", session |-> Default, token |-> 0,
         target |-> InitIntent, epoch |-> 0, prepared |-> FALSE, fatal |-> FALSE]
Run == [phase : {"idle", "prepare", "serve", "apply", "retire", "quarantine", "pause"},
        kind : {"enroll", "rebuild", "pause"}, session : Sessions, token : 0..MaxSafe,
        target : Intents, epoch : 0..MaxEpoch, prepared : BOOLEAN, fatal : BOOLEAN]
LaneOff == [pc |-> "off", generation |-> 0, registration |-> 0, error |-> "none"]

-----------------------------------------------------------------------------
(* Records, generations and termination                                    *)

Active == {Default} \cup {s \in Sessions : registration[s] # 0}

IsRegistered(s, token) == ~terminal /\ registration[s] # 0 /\ registration[s] = token

\* record.getPolicy().allowed: what the request dispatcher reads.
Allowed(s) == ~terminal /\ ~record[s].poisoned /\ record[s].state \in {"initial", "ready"}

Move(r, state, key) ==
  [state |-> state, generation |-> r.generation + 1, key |-> key, poisoned |-> r.poisoned]

\* transition(record, state) for every session of S in turn: the resulting
\* records, and whether the handler ran into an exhausted generation, which
\* poisons that record and terminates before the rest of S is reached.
Transitions(R, S, state, key) ==
  LET full == {s \in S : R[s].generation = MaxSafe}
      moved(T) == [s \in Sessions |-> IF s \in T THEN Move(R[s], state, key) ELSE R[s]]
  IN  IF full = {} THEN {[rec |-> moved(S), dies |-> FALSE]}
      ELSE {[rec |-> [moved(T) EXCEPT ![x] = [state |-> "quarantined", generation |-> MaxSafe,
                                              key |-> R[x].key, poisoned |-> TRUE]],
             dies |-> TRUE] : x \in full, T \in SUBSET (S \ full)}

\* Fault: retireAll() without its test for an exhausted generation.
RetiredUncapped(R, targets) ==
  [s \in Sessions |->
    IF s \notin targets \/ R[s].state = "unknown" THEN R[s]
    ELSE Move(R[s], "retired", None)]

\* retireAll()
Retired(R, targets) ==
  [s \in Sessions |->
    IF s \notin targets \/ R[s].state = "unknown" THEN R[s]
    ELSE [state |-> "retired", key |-> None, poisoned |-> R[s].poisoned,
          generation |-> IF R[s].generation < MaxSafe THEN R[s].generation + 1 ELSE MaxSafe]]

\* The handler leaves the records R and tokens G; dies: it called terminate().
Settle(R, G, dies) ==
  LET active == {Default} \cup {s \in Sessions : G[s] # 0}
  IN  IF dies /\ ~terminal
      THEN /\ terminal' = TRUE
           /\ record' = Retired(R, active)
           /\ registration' = [s \in Sessions |-> 0]
      ELSE /\ record' = R /\ registration' = G
           /\ UNCHANGED terminal

\* Fault: only ready sessions lose permission, not the initial default one.
WithdrawableReady(R) == {s \in Active : R[s].state = "ready"}

\* withdrawAll(): every active session that is not retired.
Withdrawable(R) == {s \in Active : R[s].state # "retired"}

\* Fault: the guard's resources are withdrawn but its flag is kept.
GuardFlagKept == admitted' = FALSE /\ UNCHANGED guardAllowed

\* hooks.withdraw()
GuardWithdrawn == guardAllowed' = FALSE /\ admitted' = FALSE

-----------------------------------------------------------------------------
(* Native routing                                                          *)

\* What a session routes by once it has taken a configuration: a PAC session
\* fetches whatever body the shared server serves at that moment.
Served == IF pac = None THEN "blocked" ELSE pac
Fetch(key) == IF key = "direct" THEN "direct" ELSE Served

\* The session routes by r from now on.  Connections are the worst case: one
\* is open under every configuration that was in force since the last drain.
RouteBy(s, r) ==
  /\ applied' = [applied EXCEPT ![s] = r]
  /\ conns' = [conns EXCEPT ![s] = @ \cup {r}]

\* Chromium polls a PAC URL on its own, so a PAC session may take a changed
\* body at any time.
RefetchPac(s) ==
  /\ applied[s] \notin {"native", "direct", Served}
  /\ RouteBy(s, Served)
  /\ UNCHANGED <<controller, queue, coordinator, run, lane, resources, late, latePrepare>>

\* A setProxy whose deadline passed cannot be cancelled and may still land,
\* and so may a prepare.
LateSetProxy(s) ==
  /\ late[s] # None
  /\ RouteBy(s, Fetch(late[s]))
  /\ late' = [late EXCEPT ![s] = None]
  /\ UNCHANGED <<controller, queue, coordinator, run, lane, resources, latePrepare>>

LatePrepare ==
  /\ latePrepare # None
  /\ pac' = IF latePrepare \in Direct THEN pac ELSE latePrepare
  /\ guardRoute' = IF latePrepare \in Guarded THEN latePrepare ELSE None
  /\ guardUp' = (guardUp \/ latePrepare \in Guarded)
  /\ latePrepare' = None
  /\ UNCHANGED <<controller, queue, coordinator, run, lane,
                 guardAllowed, admitted, guardConns, applied, conns, late>>

-----------------------------------------------------------------------------
(* The routing intent and the callers                                      *)

\* intentChanged(): withdraws every permission before anything else happens.
IntentChanged(i) ==
  /\ intent' = i
  /\ UNCHANGED attempted
  /\ IF intentEpoch = MaxEpoch
     THEN /\ Settle(record, registration, TRUE)
          /\ UNCHANGED <<intentEpoch, policy, guardAllowed, admitted>>
     ELSE /\ intentEpoch' = intentEpoch + 1
          /\ policy' = None
          /\ GuardWithdrawn
          /\ \E m \in Transitions(record, Withdrawable(record), "updating", None) :
               Settle(m.rec, registration, m.dies)
  /\ UNCHANGED <<run, lane, pac, guardUp, guardRoute, guardConns, native>>

\* setHnsProxy, clearHnsProxy, setDvpnProxy, setHnsResolverAddrs, ...: none of
\* them begins a certificate update, and some leave one under way.
SetIntent(i) ==
  /\ i # intent
  /\ i \in Updating => intent \in Updating
  /\ IntentChanged(i)
  /\ UNCHANGED queue

BeginCertificateUpdate(i) ==
  /\ i \in Updating
  /\ Len(queue) < MaxQueue
  /\ \/ intent \notin Updating /\ IntentChanged(i)
     \/ i = intent /\ UNCHANGED <<controller, coordinator, run, lane, resources, native>>
  /\ queue' = IF terminal' THEN queue
              ELSE Append(queue, [kind |-> "pause", session |-> Default, token |-> 0])

Rebuild ==
  /\ Len(queue) < MaxQueue
  /\ queue' = Append(queue, [kind |-> "rebuild", session |-> Default, token |-> 0])
  /\ UNCHANGED <<controller, coordinator, run, lane, resources, native>>

AdoptDefault ==
  /\ record[Default].state = "unknown"
  /\ record' = [record EXCEPT ![Default].state = "initial"]
  /\ UNCHANGED <<registration, terminal, queue, coordinator, run, lane, resources, native>>

\* The synchronous half of enroll(): register, attach, enqueue.
Enroll(s) ==
  LET queued(token) == Append(queue, [kind |-> "enroll", session |-> s, token |-> token])
  IN  /\ s # Default
      /\ ~record[s].poisoned /\ record[s].state # "retired"
      /\ Len(queue) < MaxQueue
      /\ IF registration[s] # 0
         THEN queue' = queued(registration[s]) /\ UNCHANGED controller
         ELSE \E m \in Transitions(record, {s}, "enrolling", None) :
                LET token == m.rec[s].generation
                IN  /\ Settle(m.rec, [registration EXCEPT ![s] = token], m.dies)
                    /\ queue' = IF m.dies THEN queue ELSE queued(token)
      /\ UNCHANGED <<coordinator, run, lane, resources, native>>

\* Fault: the session is retired without being deleted from the registered.
UnregisterKeepsToken(s) ==
  /\ s # Default
  /\ record[s].state # "unknown"
  /\ \E m \in Transitions(record, {s}, "retired", None) : Settle(m.rec, registration, m.dies)
  /\ UNCHANGED <<queue, coordinator, run, lane, resources, native>>

\* A private window closes, or its certificate enrollment failed.
Unregister(s) ==
  /\ s # Default
  /\ record[s].state # "unknown"
  /\ \E m \in Transitions(record, {s}, "retired", None) :
       Settle(m.rec, [registration EXCEPT ![s] = 0], m.dies)
  /\ UNCHANGED <<queue, coordinator, run, lane, resources, native>>

\* A listening server reports an error.
PacServerLost ==
  /\ pac # None
  /\ pac' = None
  /\ guardAllowed' = FALSE
  /\ Settle(record, registration, TRUE)
  /\ UNCHANGED <<queue, coordinator, run, lane, guardUp, admitted, guardRoute, guardConns, native>>

GuardServerLost ==
  /\ guardUp
  /\ guardUp' = FALSE
  /\ guardAllowed' = FALSE
  /\ Settle(record, registration, TRUE)
  /\ UNCHANGED <<queue, coordinator, run, lane, pac, admitted, guardRoute, guardConns, native>>

-----------------------------------------------------------------------------
(* Native lanes: applyTargets() and drain()                                *)

\* Fault: a completion is not compared with the generation it started under.
SupersededByToken(s) == terminal \/ registration[s] # lane[s].registration

Superseded(s) ==
  \/ terminal
  \/ record[s].generation # lane[s].generation
  \/ registration[s] # lane[s].registration

\* The lane L, gone on to pc with an error or none.
Step(L, pc, error) ==
  [pc |-> pc, generation |-> L.generation, registration |-> L.registration, error |-> error]

LanesOff == lane' = [s \in Sessions |-> LaneOff]

\* The synchronous start of applyTargets(): sessions that already have the
\* policy's key are left alone; the others are withdrawn and given a lane.
StartLanes(R, targets, key, next) ==
  LET needed == {s \in targets : R[s].state # "ready" \/ R[s].key # key}
      live == {s \in needed : ~R[s].poisoned /\ R[s].state # "retired"}
  IN  \E m \in Transitions(R, live, "updating", None) :
        /\ Settle(m.rec, registration, m.dies)
        /\ IF m.dies
           THEN LanesOff /\ run' = Idle
           ELSE /\ run' = next
                /\ lane' = [s \in Sessions |->
                     IF s \notin needed THEN LaneOff
                     ELSE [pc |-> IF s \in live THEN "setProxy" ELSE "drain",
                           generation |-> m.rec[s].generation,
                           registration |-> registration[s],
                           error |-> IF s \in live THEN "none" ELSE "failed"]]

\* The synchronous end of a lane of applyTargets(), after its last await.
\* R: the records by then; dies: drain() has called terminate().
\* Of a lane that failed no more is read than that it did.
Finish(s, R, error, dies) ==
  LET fail == lane' = [lane EXCEPT ![s] = Step(LaneOff, "failed", "none")]
  IN  IF error # "none" \/ Superseded(s) \/ R[s].state = "retired"
      THEN /\ fail
           /\ IF terminal \/ dies \/ error = "timeout" \/ R[s].state = "retired"
              THEN Settle(R, registration, dies \/ error = "timeout")
              ELSE \E m \in Transitions(R, {s}, "quarantined", None) :
                     Settle(m.rec, registration, m.dies)
      ELSE \E m \in Transitions(R, {s}, "configured", None) :
           \E n \in IF m.dies \/ run.kind # "enroll" THEN {m}
                    ELSE Transitions(m.rec, {s}, "ready", Key(run.target)) :
             /\ Settle(n.rec, registration, n.dies)
             /\ IF n.dies THEN fail
                ELSE lane' = [lane EXCEPT ![s] =
                       [pc |-> "done", generation |-> n.rec[s].generation,
                        registration |-> @.registration, error |-> "none"]]

\* drain() of s failed: the record is poisoned and quarantined for good.
Undrained(s) ==
  [record EXCEPT ![s] =
    [state |-> "quarantined", key |-> None, poisoned |-> TRUE,
     generation |-> IF @.generation < MaxSafe THEN @.generation + 1 ELSE MaxSafe]]

Poisoned(s, r) == IF r = "timeout" THEN [record EXCEPT ![s].poisoned = TRUE] ELSE record

SetProxy(s, r) ==
  /\ lane[s].pc = "setProxy"
  /\ \/ r \in {"ok", "failed"} /\ RouteBy(s, Fetch(Key(run.target))) /\ UNCHANGED late
     \/ r = "failed" /\ UNCHANGED <<applied, conns, late>>
     \/ r = "timeout" /\ late' = [late EXCEPT ![s] = Key(run.target)] /\ UNCHANGED <<applied, conns>>
  /\ lane' = [lane EXCEPT ![s] = IF r = "ok" /\ ~Superseded(s) THEN Step(@, "reload", "none")
                                 ELSE Step(@, "drain", IF r = "ok" THEN "failed" ELSE r)]
  /\ record' = Poisoned(s, r)
  /\ UNCHANGED <<registration, terminal, queue, coordinator, run, resources, latePrepare>>

ForceReload(s, r) ==
  /\ lane[s].pc = "reload"
  /\ IF r = "ok" THEN RouteBy(s, Fetch(Key(run.target))) ELSE UNCHANGED <<applied, conns>>
  /\ lane' = [lane EXCEPT ![s] = Step(@, "drain", IF r = "ok" THEN "none" ELSE r)]
  /\ record' = Poisoned(s, r)
  /\ UNCHANGED <<registration, terminal, queue, coordinator, run, resources, late, latePrepare>>

\* closeAllConnections() of an update.  Its failure ends the process.
Drain(s, r) ==
  /\ lane[s].pc = "drain"
  /\ IF r = "ok"
     THEN /\ conns' = [conns EXCEPT ![s] = {applied[s]}]
          /\ IF lane[s].error = "none" /\ ~Superseded(s)
             THEN lane' = [lane EXCEPT ![s] = Step(@, "reload2", "none")] /\ UNCHANGED controller
             ELSE Finish(s, record, IF lane[s].error = "none" THEN "failed" ELSE lane[s].error, FALSE)
     ELSE Finish(s, Undrained(s), "failed", TRUE) /\ UNCHANGED conns
  /\ UNCHANGED <<queue, coordinator, run, resources, applied, late, latePrepare>>

\* The second reload fetches the PAC body with nothing left to close.
ForceReloadAgain(s, r) ==
  /\ lane[s].pc = "reload2"
  /\ IF r = "ok" THEN RouteBy(s, Fetch(Key(run.target))) ELSE UNCHANGED <<applied, conns>>
  /\ Finish(s, Poisoned(s, r), IF r = "ok" THEN "none" ELSE r, FALSE)
  /\ UNCHANGED <<queue, coordinator, run, resources, late, latePrepare>>

\* closeAllConnections() of pauseAll() and quarantineAll().
DrainAll(s, r) ==
  /\ lane[s].pc = "quarantine"
  /\ IF r = "ok"
     THEN /\ conns' = [conns EXCEPT ![s] = {applied[s]}]
          /\ lane' = [lane EXCEPT ![s] = Step(@, "done", "none")]
          /\ UNCHANGED controller
     ELSE /\ Settle(Undrained(s), registration, TRUE)
          /\ lane' = [lane EXCEPT ![s] = Step(@, "failed", "none")]
          /\ UNCHANGED conns
  /\ UNCHANGED <<queue, coordinator, run, resources, applied, late, latePrepare>>

Settled == \A s \in Sessions : lane[s].pc \in {"off", "done", "failed"}

-----------------------------------------------------------------------------
(* Operations: recover(), enroll() and a certificate update                *)

Valid(p, pacBody, guard) == p \in Direct \/ (pacBody = p /\ (p \in Guarded => guard))

Current == intent = run.target /\ intentEpoch = run.epoch

\* The catch block of recover(): nothing stays allowed, and every active
\* session is drained once more unless the process is already ending.
Quarantine(fatal) ==
  /\ policy' = None
  /\ GuardWithdrawn
  /\ IF terminal
     THEN run' = Idle /\ LanesOff /\ UNCHANGED controller
     ELSE \E m \in Transitions(record, Withdrawable(record), "updating", None) :
          \E n \in IF m.dies THEN {m}
                   ELSE Transitions(m.rec, Withdrawable(m.rec), "quarantined", None) :
            /\ Settle(n.rec, registration, n.dies)
            /\ IF n.dies THEN run' = Idle /\ LanesOff
               ELSE /\ run' = [Idle EXCEPT !.phase = "quarantine", !.fatal = fatal]
                    /\ lane' = [s \in Sessions |->
                         IF s \in Active THEN Step(LaneOff, "quarantine", "none") ELSE LaneOff]

Dequeue(kind) ==
  /\ run.phase = "idle"
  /\ queue # <<>>
  /\ queue' = Tail(queue)
  /\ Head(queue).kind = kind
  /\ ~terminal

\* Fault: a rejected operation stays at the head of the promise chain.
RejectKeeps ==
  /\ run.phase = "idle" /\ queue # <<>> /\ terminal
  /\ UNCHANGED <<controller, queue, coordinator, run, lane, resources, native>>

\* Operations queued behind a termination reject when their turn comes.
Reject ==
  /\ run.phase = "idle" /\ queue # <<>> /\ terminal
  /\ queue' = Tail(queue)
  /\ UNCHANGED <<controller, coordinator, run, lane, resources, native>>

\* recover(), up to its first await.
StartRebuild ==
  LET prepared == policy = intent /\ Valid(policy, pac, guardUp)
      next == [Idle EXCEPT !.phase = IF prepared THEN "apply" ELSE "prepare",
                 !.target = intent, !.epoch = intentEpoch, !.prepared = prepared]
  IN  /\ Dequeue("rebuild")
      /\ attempted' = TRUE
      /\ IF prepared
         THEN /\ StartLanes(record, Active, Key(intent), next)
              /\ policy' = IF terminal' THEN None ELSE policy
              /\ IF terminal' THEN GuardWithdrawn ELSE UNCHANGED <<guardAllowed, admitted>>
         ELSE /\ policy' = None
              /\ GuardWithdrawn
              /\ LanesOff
              /\ \E m \in Transitions(record, Withdrawable(record), "updating", None) :
                   /\ Settle(m.rec, registration, m.dies)
                   /\ run' = IF m.dies THEN Idle ELSE next
      /\ UNCHANGED <<intent, intentEpoch, pac, guardUp, guardRoute, guardConns, native>>

\* prepareProxyPolicy() drains the guard, points it at the new route and
\* starts it; a drain that fails or is late cannot be recovered from.
PrepareGuard(r) ==
  /\ run.phase = "prepare"
  /\ \/ /\ run.target \in Updating
        /\ Quarantine(FALSE)
        /\ UNCHANGED <<guardUp, guardRoute, guardConns, latePrepare>>
     \/ /\ run.target \notin Updating /\ r \in {"ok", "failed"}
        /\ guardConns' = {}
        /\ guardRoute' = IF run.target \in Guarded THEN run.target ELSE None
        /\ UNCHANGED latePrepare
        /\ IF r = "ok"
           THEN /\ guardUp' = (guardUp \/ run.target \in Guarded)
                /\ run' = [run EXCEPT !.phase = "serve"]
                /\ UNCHANGED <<controller, policy, lane, guardAllowed, admitted>>
           ELSE /\ run.target \in Guarded /\ ~guardUp     \* listen failed
                /\ Quarantine(FALSE) /\ UNCHANGED guardUp
     \/ /\ run.target \notin Updating /\ r = "timeout"
        /\ Quarantine(TRUE)
        /\ latePrepare' \in {None, run.target}
        /\ UNCHANGED <<guardUp, guardRoute, guardConns>>
  /\ UNCHANGED <<queue, intent, intentEpoch, attempted, pac, applied, conns, late>>

\* ... and then replaces the shared PAC body.
ServePac(r) ==
  /\ run.phase = "serve"
  /\ \/ /\ r = "ok"
        /\ pac' = IF run.target \in Direct THEN pac ELSE run.target
        /\ UNCHANGED latePrepare
        /\ IF Current /\ ~terminal
           THEN /\ StartLanes(record, Active, Key(run.target), [run EXCEPT !.phase = "apply"])
                /\ UNCHANGED <<policy, guardAllowed, admitted>>
           ELSE Quarantine(FALSE)
     \/ /\ r # "ok" /\ run.target \notin Direct /\ pac = None    \* listen failed or hung
        /\ Quarantine(r = "timeout")
        /\ latePrepare' = IF r = "timeout" THEN run.target ELSE latePrepare
        /\ UNCHANGED pac
  /\ UNCHANGED <<queue, intent, intentEpoch, attempted, guardUp, guardRoute, guardConns,
                 applied, conns, late>>

Tickets == {s \in Sessions : lane[s].pc = "done"}

\* commit(tickets) accepts a ticket only for the record it was made of.
Committable ==
  /\ ~terminal
  /\ \A s \in Tickets : /\ ~record[s].poisoned /\ record[s].state = "configured"
                        /\ ~Superseded(s)

\* The end of recover(): commit and publish, or quarantine.
Publish(pacBody, guard) ==
  IF Current /\ Valid(run.target, pacBody, guard) /\ Committable
  THEN \E m \in Transitions(record, Tickets, "ready", Key(run.target)) :
         /\ Settle(m.rec, registration, m.dies)
         /\ policy' = IF m.dies THEN None ELSE run.target
         /\ guardAllowed' = (~m.dies /\ run.target \in Guarded)
         /\ admitted' = (~m.dies /\ (run.target \in Guarded \/ admitted))
         /\ run' = Idle
         /\ LanesOff
  ELSE Quarantine(FALSE)

\* The guard forwards a request by its route as soon as it is allowed to.
Forwarding(opened) ==
  guardConns' = IF guardAllowed' /\ admitted' /\ guardRoute # None THEN opened \cup {guardRoute} ELSE opened

FinishApply ==
  /\ run.phase = "apply" /\ run.kind = "rebuild" /\ Settled
  /\ IF \E s \in Sessions : lane[s].pc = "failed"
     THEN Quarantine(FALSE) /\ UNCHANGED guardConns
     ELSE IF run.prepared
     THEN Publish(pac, guardUp) /\ Forwarding(guardConns)
     ELSE /\ run' = [run EXCEPT !.phase = "retire"]
          /\ UNCHANGED <<controller, policy, lane, guardAllowed, admitted, guardConns>>
  /\ UNCHANGED <<queue, intent, intentEpoch, attempted, pac, guardUp, guardRoute, native>>

\* Servers the new policy does not need stop before it becomes ready.
RetireResources(r) ==
  LET stopsGuard == run.target \notin Guarded /\ guardUp
      stopsPac == run.target \in Direct /\ pac # None
  IN  /\ run.phase = "retire"
      /\ r # "ok" => stopsGuard \/ stopsPac
      /\ IF r = "ok"
         THEN /\ guardUp' = (guardUp /\ ~stopsGuard)
              /\ pac' = IF stopsPac THEN None ELSE pac
              /\ Publish(pac', guardUp')
              /\ Forwarding(IF stopsGuard THEN {} ELSE guardConns)
         ELSE /\ Quarantine(r = "timeout")
              /\ guardUp' \in {guardUp, guardUp /\ ~stopsGuard}
              /\ UNCHANGED <<pac, guardConns>>
      /\ UNCHANGED <<queue, intent, intentEpoch, attempted, guardRoute, native>>

FinishQuarantine ==
  /\ run.phase = "quarantine" /\ Settled
  /\ Settle(record, registration, run.fatal)
  /\ run' = Idle /\ LanesOff
  /\ UNCHANGED <<queue, coordinator, resources, native>>

\* cancelEnrollment(session, token)
CancelEnrollment(s, token) ==
  IF ~IsRegistered(s, token) THEN UNCHANGED controller
  ELSE \E m \in Transitions(record, {s}, "quarantined", None) :
         Settle(m.rec, [registration EXCEPT ![s] = 0], m.dies)

\* Fault: enrolling a session re-applies the policy to every active one.
StartEnrollAll ==
  LET op == Head(queue)
      startsDirect == policy = None /\ ~attempted /\ intent \in Direct /\ pac = None /\ ~guardUp
      chosen == IF startsDirect THEN intent ELSE policy
  IN  /\ Dequeue("enroll")
      /\ IsRegistered(op.session, op.token)
      /\ chosen = intent /\ Valid(chosen, pac, guardUp)
      /\ policy' = chosen
      /\ StartLanes(record, Active, Key(chosen),
           [Idle EXCEPT !.phase = "apply", !.kind = "enroll", !.session = op.session,
                        !.token = op.token, !.target = chosen])
      /\ UNCHANGED <<intent, intentEpoch, attempted, resources, native>>

\* The queued half of enroll().  It never prepares shared resources: only an
\* untouched direct start needs no recover() before it.
StartEnroll ==
  LET op == Head(queue)
      startsDirect == policy = None /\ ~attempted /\ intent \in Direct /\ pac = None /\ ~guardUp
      chosen == IF startsDirect THEN intent ELSE policy
  IN  /\ Dequeue("enroll")
      /\ IF ~IsRegistered(op.session, op.token)
         THEN run' = Idle /\ UNCHANGED <<controller, policy, lane>>
         ELSE /\ policy' = chosen
              /\ IF chosen = intent /\ Valid(chosen, pac, guardUp)
                 THEN StartLanes(record, {op.session}, Key(chosen),
                        [Idle EXCEPT !.phase = "apply", !.kind = "enroll", !.session = op.session,
                                     !.token = op.token, !.target = chosen])
                 ELSE run' = Idle /\ CancelEnrollment(op.session, op.token) /\ UNCHANGED lane
      /\ UNCHANGED <<intent, intentEpoch, attempted, resources, native>>

FinishEnroll ==
  /\ run.phase = "apply" /\ run.kind = "enroll" /\ Settled
  /\ IF lane[run.session].pc = "failed" THEN CancelEnrollment(run.session, run.token)
     ELSE UNCHANGED controller
  /\ run' = Idle /\ LanesOff
  /\ UNCHANGED <<queue, coordinator, resources, native>>

\* The queued half of beginHnsCertificateUpdate(): drain everything.
StartPause ==
  /\ Dequeue("pause")
  /\ \E m \in Transitions(record, Withdrawable(record), "updating", None) :
       /\ Settle(m.rec, registration, m.dies)
       /\ IF m.dies THEN run' = Idle /\ LanesOff
          ELSE /\ run' = [Idle EXCEPT !.phase = "pause", !.kind = "pause"]
               /\ lane' = [s \in Sessions |->
                    IF s \in Active THEN Step(LaneOff, "quarantine", "none") ELSE LaneOff]
  /\ admitted' = FALSE
  /\ UNCHANGED <<coordinator, pac, guardUp, guardAllowed, guardRoute, guardConns, native>>

FinishPause(r) ==
  /\ run.phase = "pause"
  /\ r = "ok" => Settled      \* Promise.all: one rejection is enough
  /\ IF r = "ok" THEN guardConns' = {} ELSE UNCHANGED guardConns
  /\ Settle(record, registration, r # "ok")
  /\ run' = Idle /\ LanesOff
  /\ UNCHANGED <<queue, coordinator, pac, guardUp, guardAllowed, admitted, guardRoute, native>>

-----------------------------------------------------------------------------
Init ==
  /\ record = [s \in Sessions |-> [state |-> "unknown", generation |-> 0, key |-> None, poisoned |-> FALSE]]
  /\ registration = [s \in Sessions |-> 0]
  /\ terminal = FALSE
  /\ queue = <<>>
  /\ intent = InitIntent /\ intentEpoch = 0
  /\ policy = None /\ attempted = FALSE
  /\ run = Idle /\ lane = [s \in Sessions |-> LaneOff]
  /\ pac = None /\ guardUp = FALSE
  /\ guardAllowed = FALSE /\ admitted = FALSE /\ guardRoute = None /\ guardConns = {}
  /\ applied = [s \in Sessions |-> "native"]
  /\ conns = [s \in Sessions |-> {"native"}]
  /\ late = [s \in Sessions |-> None] /\ latePrepare = None

\* What other parts of the browser, Chromium and the operating system do,
\* until a termination: its handler exits the process (app.exit(70)), so
\* nothing more is asked of it and only what is under way runs on.
Environment ==
  /\ ~terminal
  /\ \/ \E i \in Intents : SetIntent(i) \/ BeginCertificateUpdate(i)
     \/ Rebuild \/ AdoptDefault
     \/ \E s \in Sessions : Enroll(s) \/ Unregister(s) \/ RefetchPac(s) \/ LateSetProxy(s)
     \/ LatePrepare \/ PacServerLost \/ GuardServerLost

\* Steps of the operation being run; each native call has a deadline.
NativeStep(s) ==
  \E r \in Outcome : SetProxy(s, r) \/ ForceReload(s, r) \/ Drain(s, r)
                     \/ ForceReloadAgain(s, r) \/ DrainAll(s, r)

Operation ==
  \/ Reject \/ StartRebuild \/ StartEnroll \/ StartPause
  \/ \E r \in Outcome : PrepareGuard(r) \/ ServePac(r) \/ RetireResources(r) \/ FinishPause(r)
  \/ FinishApply \/ FinishQuarantine \/ FinishEnroll

Next == Environment \/ (\E s \in Sessions : NativeStep(s)) \/ Operation

Fairness == WF_vars(Operation) /\ \A s \in Sessions : WF_vars(NativeStep(s))

Spec == Init /\ [][Next]_vars /\ Fairness

-----------------------------------------------------------------------------
(* Properties                                                              *)

\* Types, and the queue's bound.
TypeOK ==
  /\ record \in [Sessions -> Record]
  /\ registration \in [Sessions -> 0..MaxSafe]
  /\ terminal \in BOOLEAN
  /\ queue \in Seq(Op) /\ Len(queue) <= MaxQueue
  /\ intent \in Intents /\ intentEpoch \in 0..MaxEpoch
  /\ policy \in Intents \cup {None} /\ attempted \in BOOLEAN
  /\ run \in Run
  /\ lane \in [Sessions -> Lane]
  /\ pac \in (Intents \ Direct) \cup {None} /\ guardRoute \in Intents \cup {None}
  /\ guardUp \in BOOLEAN /\ guardAllowed \in BOOLEAN /\ admitted \in BOOLEAN
  /\ guardConns \subseteq Intents
  /\ applied \in [Sessions -> Routes] /\ conns \in [Sessions -> SUBSET Routes]
  /\ late \in [Sessions -> Keys \cup {None}] /\ latePrepare \in Intents \cup {None}

\* A session whose requests are allowed routes by the intent in force now, by
\* nothing else, and has no live connection opened under anything older.
AllowedRoutesAreCurrent ==
  \A s \in Sessions : Allowed(s) =>
    IF record[s].state = "initial"
    THEN s = Default /\ intent = InitIntent /\ conns[s] = {"native"}
    ELSE conns[s] = {Key(intent)} /\ applied[s] = Key(intent)

\* The guard forwards by the route of the intent in force now, and no guard
\* operation opened under an older helper or trust key is still alive.
GuardIsCurrent ==
  guardAllowed /\ ~terminal =>
    /\ policy = intent /\ guardUp
    /\ guardRoute = intent /\ guardConns \subseteq {intent}

\* Short of a termination, the shared PAC body and the guard's route never
\* change while a session is allowed to use them (the comment on the
\* coordinator, and recover()).
SharedResourcesStable ==
  [][ pac' # pac \/ guardRoute' # guardRoute =>
        terminal' \/ \A s \in Sessions : ~Allowed(s) ]_vars

\* Retirement of a session object is permanent, and so is the poison of a late
\* or failed native call: whatever completes later, such a session stays
\* barred and is never allowed again.
Barred(s) == record[s].state = "retired" \/ record[s].poisoned
RetirementIsPermanent ==
  [][ \A s \in Sessions : Barred(s) => Barred(s)' /\ ~Allowed(s)' ]_vars

Enrolling(r, s) == r.kind = "enroll" /\ r.phase = "apply" /\ r.session = s

\* Enrolling one session never takes permission or connections from another.
EnrollmentIsLocal ==
  [][ \A e, s \in Sessions :
        /\ e # s /\ (Enrolling(run, e) \/ Enrolling(run', e))
        /\ intent' = intent /\ ~terminal'
        /\ Allowed(s) /\ registration'[s] = registration[s]
        => Allowed(s)' /\ conns'[s] = conns[s] ]_vars

\* Once callers stop enqueueing, every queued operation has had its turn.
QueueDrains ==
  <>[][Len(queue') <= Len(queue)]_queue => []<>(queue = <<>> /\ run.phase = "idle")

\* The routes that satisfy an intent: its own configuration or, for the
\* default session of a start that nothing has changed, its native state.
Serves(s, i) == {Key(i)} \cup (IF s = Default /\ i = InitIntent THEN {"native"} ELSE {})

Gate == INSTANCE RoutingGate WITH
  wanted <- intent, open <- {s \in Sessions : Allowed(s)}, via <- conns,
  retired <- {s \in Sessions : Barred(s)},
  ended <- terminal

\* The controller, the coordinator and network-manager.js implement the gate.
ImplementsGate == Gate!GateSpec
=============================================================================
