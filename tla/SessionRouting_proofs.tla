---------------------- MODULE SessionRouting_proofs ----------------------
(***************************************************************************)
(* What TLAPS proves of SessionRouting for every set of sessions and       *)
(* intents and every bound: the types and that retirement is permanent,    *)
(* that whoever is allowed routes by the intent in force, and that every   *)
(* step implements the gate.  Each part has its argument at its head.      *)
(***************************************************************************)
EXTENDS SessionRouting, TLAPS

Records == [Sessions -> Record]
Tokens == [Sessions -> 0..MaxSafe]
ControllerType == record \in Records /\ registration \in Tokens /\ terminal \in BOOLEAN

\* None is no key, and the key of every intent is one.
LEMMA NoneKey == None \in Keys \cup {None} /\ \A i \in Intents : Key(i) \in Keys
BY DEF Keys

\* transition() below the largest generation leaves a record.
LEMMA MoveType ==
  ASSUME NEW r \in Record, r.generation # MaxSafe, NEW st \in States, NEW key \in Keys \cup {None}
  PROVE  Move(r, st, key) \in Record
BY BoundAssumption DEF Move, Record

\* A transition keeps the records well-typed: no generation passes MaxSafe.
LEMMA TransitionsType ==
  ASSUME NEW R \in Records, NEW S \in SUBSET Sessions, NEW st \in States,
         NEW key \in Keys \cup {None}, NEW m \in Transitions(R, S, st, key)
  PROVE  m.rec \in Records /\ m.dies \in BOOLEAN
<1> DEFINE full == {s \in S : R[s].generation = MaxSafe}
           moved(T) == [s \in Sessions |-> IF s \in T THEN Move(R[s], st, key) ELSE R[s]]
           spent(x) == [state |-> "quarantined", generation |-> MaxSafe,
                        key |-> R[x].key, poisoned |-> TRUE]
<1>1. ASSUME NEW T \in SUBSET (S \ full) PROVE moved(T) \in Records
  <2>1. \A s \in T : Move(R[s], st, key) \in Record BY MoveType DEF Records
  <2> QED BY <2>1 DEF Records
<1>2. CASE full = {}
  <2>1. m = [rec |-> moved(S), dies |-> FALSE] BY <1>2 DEF Transitions
  <2> QED BY <2>1, <1>1, <1>2
<1>3. CASE full # {}
  <2>1. PICK x \in full, T \in SUBSET (S \ full) :
          m = [rec |-> [moved(T) EXCEPT ![x] = spent(x)], dies |-> TRUE]
    BY <1>3 DEF Transitions
  <2>2. moved(T) \in Records BY <1>1
  <2>3. spent(x) \in Record BY BoundAssumption DEF Records, Record, States
  <2>4. [moved(T) EXCEPT ![x] = spent(x)] \in Records
    <3> HIDE DEF moved, spent
    <3> QED BY <2>2, <2>3 DEF Records
  <2> QED BY <2>1, <2>4
<1> QED BY <1>2, <1>3

\* retireAll() leaves records, whatever it is asked to retire.
LEMMA RetiredType ==
  ASSUME NEW R \in Records, NEW targets PROVE Retired(R, targets) \in Records
<1> DEFINE q(s) == [state |-> "retired", key |-> None, poisoned |-> R[s].poisoned,
                    generation |-> IF R[s].generation < MaxSafe THEN R[s].generation + 1 ELSE MaxSafe]
<1>1. ASSUME NEW s \in Sessions PROVE q(s) \in Record
  <2>1. R[s] \in Record BY DEF Records
  <2> QED BY <2>1, BoundAssumption DEF Record, States
<1> HIDE DEF q
<1>2. Retired(R, targets) =
        [s \in Sessions |-> IF s \notin targets \/ R[s].state = "unknown" THEN R[s] ELSE q(s)]
  BY DEF Retired, q
<1> QED BY <1>1, <1>2 DEF Records

\* A handler that leaves records and tokens, and may terminate, keeps their types.
LEMMA SettleType ==
  ASSUME ControllerType, NEW R \in Records, NEW G \in Tokens, NEW dies \in BOOLEAN,
         Settle(R, G, dies)
  PROVE  ControllerType'
<1>1. CASE dies /\ ~terminal
  BY <1>1, RetiredType, BoundAssumption DEF ControllerType, Settle, Tokens
<1>2. CASE ~(dies /\ ~terminal)
  BY <1>2 DEF ControllerType, Settle
<1> QED BY <1>1, <1>2

\* A lane that is off, and one that only drains, are lanes.
LEMMA LaneOffType == LaneOff \in Lane /\ Step(LaneOff, "quarantine", "none") \in Lane
BY BoundAssumption DEF LaneOff, Lane, Step, Error, Outcome

\* The idle operation is an operation.
LEMMA IdleType == Idle \in Run
BY SessionAssumption, IntentAssumption, BoundAssumption DEF Idle, Run

Lanes == [Sessions -> Lane]

\* A lane that goes on to its next native call is a lane.
LEMMA StepType ==
  ASSUME NEW L \in Lane, NEW e \in Error,
         NEW pc \in {"reload", "drain", "reload2", "done", "failed"}
  PROVE  Step(L, pc, e) \in Lane
BY DEF Step, Lane

\* Switching all lanes off leaves lanes.
LEMMA LanesOffType == LanesOff => lane' \in Lanes
BY LaneOffType DEF LanesOff, Lanes

\* The active sessions are sessions: the default one and the registered.
LEMMA ActiveSessions == Active \subseteq Sessions
BY SessionAssumption DEF Active

\* The synchronous start of applyTargets() keeps the types.
LEMMA StartLanesType ==
  ASSUME ControllerType, NEW targets \in SUBSET Sessions, NEW key \in Keys,
         NEW next \in Run, StartLanes(record, targets, key, next)
  PROVE  ControllerType' /\ lane' \in Lanes /\ run' \in Run
<1> DEFINE needed == {s \in targets : record[s].state # "ready" \/ record[s].key # key}
           live == {s \in needed : ~record[s].poisoned /\ record[s].state # "retired"}
           L(m, s) == [pc |-> IF s \in live THEN "setProxy" ELSE "drain",
                       generation |-> m.rec[s].generation, registration |-> registration[s],
                       error |-> IF s \in live THEN "none" ELSE "failed"]
<1>1. PICK m \in Transitions(record, live, "updating", None) :
        /\ Settle(m.rec, registration, m.dies)
        /\ IF m.dies THEN LanesOff /\ run' = Idle
           ELSE /\ run' = next
                /\ lane' = [s \in Sessions |-> IF s \notin needed THEN LaneOff ELSE L(m, s)]
  BY DEF StartLanes
<1>2. m.rec \in Records /\ m.dies \in BOOLEAN
  BY TransitionsType DEF ControllerType, States
<1>3. ControllerType' BY <1>1, <1>2, SettleType DEF ControllerType
<1>4. ASSUME NEW s \in Sessions PROVE L(m, s) \in Lane
  <2>1. m.rec[s] \in Record /\ registration[s] \in 0..MaxSafe
    BY <1>2 DEF Records, Tokens, ControllerType
  <2> QED BY <2>1 DEF Lane, Record, Error
<1> HIDE DEF L, needed
<1>5. lane' \in Lanes /\ run' \in Run
  BY <1>1, <1>2, <1>4, LaneOffType, LanesOffType, IdleType DEF Lanes
<1> QED BY <1>3, <1>5

\* The synchronous end of a lane, in every one of its branches, keeps the types.
LEMMA FinishType ==
  ASSUME ControllerType, lane \in Lanes, run \in Run, NEW s \in Sessions, NEW R \in Records,
         NEW error \in Error, NEW dies \in BOOLEAN, Finish(s, R, error, dies)
  PROVE  ControllerType' /\ lane' \in Lanes
<1> DEFINE fail == lane' = [lane EXCEPT ![s] = Step(LaneOff, "failed", "none")]
<1>1. ASSUME fail PROVE lane' \in Lanes
  <2>1. Step(LaneOff, "failed", "none") \in Lane BY StepType, LaneOffType DEF Error
  <2> QED BY <1>1, <2>1 DEF Lanes
<1>2. CASE error # "none" \/ Superseded(s) \/ R[s].state = "retired"
  <2>1. fail BY <1>2 DEF Finish
  <2>2. CASE terminal \/ dies \/ error = "timeout" \/ R[s].state = "retired"
    <3>1. Settle(R, registration, dies \/ error = "timeout") BY <1>2, <2>2 DEF Finish
    <3> QED BY <3>1, <2>1, <1>1, SettleType DEF ControllerType
  <2>3. CASE ~(terminal \/ dies \/ error = "timeout" \/ R[s].state = "retired")
    <3>1. PICK m \in Transitions(R, {s}, "quarantined", None) : Settle(m.rec, registration, m.dies)
      BY <1>2, <2>3 DEF Finish
    <3>2. m.rec \in Records /\ m.dies \in BOOLEAN BY TransitionsType DEF States
    <3> QED BY <3>1, <3>2, <2>1, <1>1, SettleType DEF ControllerType
  <2> QED BY <2>2, <2>3
<1>3. CASE ~(error # "none" \/ Superseded(s) \/ R[s].state = "retired")
  <2> DEFINE after(m) == IF m.dies \/ run.kind # "enroll" THEN {m}
                         ELSE Transitions(m.rec, {s}, "ready", Key(run.target))
             done(n) == [pc |-> "done", generation |-> n.rec[s].generation,
                        registration |-> lane[s].registration, error |-> "none"]
  <2>0. PICK m \in Transitions(R, {s}, "configured", None) : \E n \in after(m) :
          /\ Settle(n.rec, registration, n.dies)
          /\ IF n.dies THEN fail ELSE lane' = [lane EXCEPT ![s] = done(n)]
    BY <1>3 DEF Finish
  <2>1. PICK n \in after(m) :
          /\ Settle(n.rec, registration, n.dies)
          /\ IF n.dies THEN fail ELSE lane' = [lane EXCEPT ![s] = done(n)]
    BY <2>0
  <2>2. m.rec \in Records /\ m.dies \in BOOLEAN BY TransitionsType DEF States
  <2>3. n.rec \in Records /\ n.dies \in BOOLEAN
    <3>1. Key(run.target) \in Keys \cup {None} BY NoneKey DEF Run
    <3>2. n = m \/ n \in Transitions(m.rec, {s}, "ready", Key(run.target)) BY <2>1
    <3>3. {s} \in SUBSET Sessions /\ "ready" \in States BY DEF States
    <3>4. \A x \in Transitions(m.rec, {s}, "ready", Key(run.target)) :
            x.rec \in Records /\ x.dies \in BOOLEAN
      BY <2>2, <3>1, <3>3, TransitionsType
    <3> QED BY <2>2, <3>2, <3>4
  <2>4. ControllerType' BY <2>1, <2>3, SettleType DEF ControllerType
  <2>5. done(n) \in Lane
    <3>1. n.rec[s].generation \in 0..MaxSafe BY <2>3 DEF Records, Record
    <3> QED BY <3>1 DEF Lanes, Lane, Error
  <2>6. lane' \in Lanes
    <3> HIDE DEF done
    <3> QED BY <2>1, <2>3, <2>5, <1>1 DEF Lanes, Error
  <2> QED BY <2>4, <2>6
<1> QED BY <1>2, <1>3

\* The catch block of recover() keeps the types and withdraws policy and guard.
LEMMA QuarantineType ==
  ASSUME ControllerType, run \in Run, NEW fatal \in BOOLEAN, Quarantine(fatal)
  PROVE  /\ ControllerType' /\ lane' \in Lanes /\ run' \in Run
         /\ policy' = None /\ guardAllowed' = FALSE /\ admitted' = FALSE
<1>1. policy' = None /\ guardAllowed' = FALSE /\ admitted' = FALSE
  BY DEF Quarantine, GuardWithdrawn
<1>2. CASE terminal
  BY <1>1, <1>2, IdleType, LanesOffType DEF Quarantine, ControllerType, controller
<1>3. CASE ~terminal
  <2> DEFINE next == [Idle EXCEPT !.phase = "quarantine", !.fatal = fatal]
             after(m) == IF m.dies THEN {m}
                         ELSE Transitions(m.rec, Withdrawable(m.rec), "quarantined", None)
             lanes == [s \in Sessions |-> IF s \in Active THEN Step(LaneOff, "quarantine", "none")
                                          ELSE LaneOff]
  <2>0. PICK m \in Transitions(record, Withdrawable(record), "updating", None) : \E n \in after(m) :
          /\ Settle(n.rec, registration, n.dies)
          /\ IF n.dies THEN run' = Idle /\ LanesOff ELSE run' = next /\ lane' = lanes
    BY <1>3 DEF Quarantine
  <2>1. PICK n \in after(m) :
          /\ Settle(n.rec, registration, n.dies)
          /\ IF n.dies THEN run' = Idle /\ LanesOff ELSE run' = next /\ lane' = lanes
    BY <2>0
  <2>2. m.rec \in Records /\ m.dies \in BOOLEAN
    BY TransitionsType, ActiveSessions DEF ControllerType, States, Withdrawable
  <2>3. n.rec \in Records /\ n.dies \in BOOLEAN
    <3>1. Withdrawable(m.rec) \in SUBSET Sessions BY ActiveSessions DEF Withdrawable
    <3> QED BY <2>1, <2>2, <3>1, TransitionsType DEF States
  <2>4. ControllerType' BY <2>1, <2>3, SettleType DEF ControllerType
  <2>5. next \in Run BY IdleType DEF Run
  <2>6. lanes \in Lanes BY LaneOffType DEF Lanes
  <2> HIDE DEF next, lanes, after
  <2>7. run' \in Run /\ lane' \in Lanes
    BY <2>1, <2>3, <2>5, <2>6, IdleType, LanesOffType
  <2> QED BY <1>1, <2>4, <2>7
<1> QED BY <1>2, <1>3

QueueType == queue \in Seq(Op) /\ Len(queue) <= MaxQueue
CoordinatorType == /\ intent \in Intents /\ intentEpoch \in 0..MaxEpoch
                   /\ policy \in Intents \cup {None} /\ attempted \in BOOLEAN
WorkType == run \in Run /\ lane \in Lanes
ResourceType == /\ pac \in (Intents \ Direct) \cup {None} /\ guardRoute \in Intents \cup {None}
                /\ guardUp \in BOOLEAN /\ guardAllowed \in BOOLEAN /\ admitted \in BOOLEAN
                /\ guardConns \subseteq Intents
NativeType == /\ applied \in [Sessions -> Routes] /\ conns \in [Sessions -> SUBSET Routes]
              /\ late \in [Sessions -> Keys \cup {None}]
              /\ latePrepare \in Intents \cup {None}
Types == /\ ControllerType /\ QueueType /\ CoordinatorType /\ WorkType
         /\ ResourceType /\ NativeType

\* TypeOK and its parts, named by the component they belong to, are the same.
LEMMA TypesAreTypeOK == TypeOK <=> Types
BY DEF TypeOK, Types, ControllerType, QueueType, CoordinatorType, WorkType, ResourceType,
       NativeType, Records, Tokens, Lanes

\* The end of recover(), commit or quarantine, keeps the types.
LEMMA PublishType ==
  ASSUME ControllerType, WorkType, NEW pacBody, NEW guard, admitted \in BOOLEAN,
         Publish(pacBody, guard)
  PROVE  /\ ControllerType' /\ WorkType'
         /\ policy' \in Intents \cup {None} /\ guardAllowed' \in BOOLEAN /\ admitted' \in BOOLEAN
<1> DEFINE ok == Current /\ Valid(run.target, pacBody, guard) /\ Committable
<1>1. CASE ok
  <2>1. PICK m \in Transitions(record, Tickets, "ready", Key(run.target)) :
          /\ Settle(m.rec, registration, m.dies)
          /\ policy' = IF m.dies THEN None ELSE run.target
          /\ guardAllowed' = (~m.dies /\ run.target \in Guarded)
          /\ admitted' = (~m.dies /\ (run.target \in Guarded \/ admitted))
          /\ run' = Idle
          /\ LanesOff
    BY <1>1 DEF Publish
  <2>2. run.target \in Intents /\ Key(run.target) \in Keys BY NoneKey DEF WorkType, Run
  <2>3. m.rec \in Records /\ m.dies \in BOOLEAN
    BY <2>2, TransitionsType DEF Tickets, ControllerType, States
  <2>4. ControllerType' BY <2>1, <2>3, SettleType DEF ControllerType
  <2> QED BY <2>1, <2>2, <2>3, <2>4, IdleType, LanesOffType DEF WorkType
<1>2. CASE ~ok
  <2>1. Quarantine(FALSE) BY <1>2 DEF Publish
  <2> QED BY <2>1, QuarantineType DEF WorkType
<1> QED BY <1>1, <1>2

\* What a PAC session fetches from the shared server is a route.
LEMMA ServedType ==
  ASSUME ResourceType, NEW key PROVE Served \in Routes /\ Fetch(key) \in Routes
<1>1. pac # None => pac \in Keys BY DEF ResourceType, Keys, Key
<1>2. "direct" \in Routes
  BY IntentAssumption DEF Routes, Keys, Key
<1> QED BY <1>1, <1>2 DEF Served, Fetch, Routes

\* A session that takes a configuration keeps the native types.
LEMMA RouteByType ==
  ASSUME NativeType, NEW s \in Sessions, NEW r \in Routes, RouteBy(s, r)
  PROVE  applied' \in [Sessions -> Routes] /\ conns' \in [Sessions -> SUBSET Routes]
BY DEF NativeType, RouteBy

\* A transition of some sessions, whatever it does to the registrations.
LEMMA MoveThenSettle ==
  ASSUME ControllerType, NEW S \in SUBSET Sessions, NEW st \in States, NEW G \in Tokens,
         NEW m \in Transitions(record, S, st, None), Settle(m.rec, G, m.dies)
  PROVE  ControllerType'
BY TransitionsType, SettleType DEF ControllerType

\* withdrawAll() touches sessions only.
LEMMA WithdrawableSessions == \A R : Withdrawable(R) \in SUBSET Sessions
BY ActiveSessions DEF Withdrawable

\* What the rest of the browser and Chromium do keeps the types.
LEMMA EnvironmentTypes == Types /\ Environment => Types'
<1> SUFFICES ASSUME Types, Environment PROVE Types'
  OBVIOUS
<1> USE DEF Types
<1>1. ASSUME NEW i \in Intents, IntentChanged(i)
      PROVE  ControllerType' /\ CoordinatorType' /\ WorkType' /\ ResourceType' /\ NativeType'
  <2>1. CASE intentEpoch = MaxEpoch
    <3>1. ControllerType' BY <1>1, <2>1, SettleType DEF IntentChanged, ControllerType
    <3> QED BY <1>1, <2>1, <3>1
          DEF IntentChanged, CoordinatorType, WorkType, ResourceType, NativeType, native
  <2>2. CASE intentEpoch # MaxEpoch
    <3>1. PICK m \in Transitions(record, Withdrawable(record), "updating", None) :
            Settle(m.rec, registration, m.dies)
      BY <1>1, <2>2 DEF IntentChanged
    <3>2. ControllerType'
      BY <3>1, WithdrawableSessions, MoveThenSettle DEF ControllerType, States
    <3>3. intentEpoch' \in 0..MaxEpoch
      BY <1>1, <2>2, BoundAssumption DEF IntentChanged, CoordinatorType
    <3> QED BY <1>1, <2>2, <3>2, <3>3
          DEF IntentChanged, CoordinatorType, WorkType, ResourceType, NativeType, native,
              GuardWithdrawn
  <2> QED BY <2>1, <2>2
<1>2. ASSUME NEW op \in Op, Len(queue) < MaxQueue
      PROVE  Append(queue, op) \in Seq(Op) /\ Len(Append(queue, op)) <= MaxQueue
  BY <1>2, BoundAssumption DEF QueueType
<1>3. \A k \in {"rebuild", "pause"} : [kind |-> k, session |-> Default, token |-> 0] \in Op
  BY SessionAssumption, BoundAssumption DEF Op
<1>4. ASSUME NEW i \in Intents, SetIntent(i) PROVE Types'
  BY <1>4, <1>1 DEF SetIntent, QueueType
<1>5. ASSUME NEW i \in Intents, BeginCertificateUpdate(i) PROVE Types'
  <2>1. QueueType' BY <1>5, <1>2, <1>3 DEF BeginCertificateUpdate, QueueType
  <2>2. CASE IntentChanged(i) BY <2>1, <2>2, <1>1
  <2>3. CASE UNCHANGED <<controller, coordinator, run, lane, resources, native>>
    BY <2>1, <2>3 DEF ControllerType, CoordinatorType, WorkType, ResourceType, NativeType,
         controller, coordinator, resources, native
  <2> QED BY <1>5, <2>2, <2>3 DEF BeginCertificateUpdate
<1>6. CASE Rebuild
  <2>1. QueueType' BY <1>6, <1>2, <1>3 DEF Rebuild, QueueType
  <2> QED BY <2>1, <1>6 DEF Rebuild, ControllerType, CoordinatorType, WorkType, ResourceType,
        NativeType, controller, coordinator, resources, native
<1>7. CASE AdoptDefault
  <2>1. record' \in Records
    BY <1>7 DEF AdoptDefault, ControllerType, Records, Record, States
  <2> QED BY <2>1, <1>7 DEF AdoptDefault, ControllerType, QueueType, CoordinatorType, WorkType,
        ResourceType, NativeType, coordinator, resources, native
<1>8. ASSUME NEW s \in Sessions, Enroll(s) PROVE Types'
  <2> DEFINE queued(token) == Append(queue, [kind |-> "enroll", session |-> s, token |-> token])
  <2>1. ASSUME NEW token \in 0..MaxSafe
        PROVE  queued(token) \in Seq(Op) /\ Len(queued(token)) <= MaxQueue
    <3>1. [kind |-> "enroll", session |-> s, token |-> token] \in Op BY DEF Op
    <3>2. Len(queue) < MaxQueue BY <1>8 DEF Enroll
    <3> QED BY <3>1, <3>2, <1>2
  <2> HIDE DEF queued
  <2>2. CASE registration[s] # 0
    <3>1. queue' = queued(registration[s]) /\ UNCHANGED controller
      BY <1>8, <2>2 DEF Enroll, queued
    <3>2. registration[s] \in 0..MaxSafe BY DEF ControllerType, Tokens
    <3> QED BY <1>8, <2>1, <3>1, <3>2 DEF Enroll, ControllerType, QueueType, CoordinatorType,
          WorkType, ResourceType, NativeType, controller, coordinator, resources, native
  <2>3. CASE registration[s] = 0
    <3>1. PICK m \in Transitions(record, {s}, "enrolling", None) :
            /\ Settle(m.rec, [registration EXCEPT ![s] = m.rec[s].generation], m.dies)
            /\ queue' = IF m.dies THEN queue ELSE queued(m.rec[s].generation)
      BY <1>8, <2>3 DEF Enroll, queued
    <3>2. m.rec \in Records /\ m.dies \in BOOLEAN
      BY TransitionsType DEF ControllerType, States
    <3>3. m.rec[s].generation \in 0..MaxSafe BY <3>2 DEF Records, Record
    <3>4. [registration EXCEPT ![s] = m.rec[s].generation] \in Tokens
      BY <3>3 DEF ControllerType, Tokens
    <3>5. ControllerType' BY <3>1, <3>2, <3>4, SettleType
    <3>6. QueueType' BY <3>1, <3>2, <3>3, <2>1 DEF QueueType
    <3> QED BY <1>8, <3>5, <3>6 DEF Enroll, CoordinatorType, WorkType, ResourceType, NativeType,
          coordinator, resources, native
  <2> QED BY <2>2, <2>3
<1>9. ASSUME NEW s \in Sessions, Unregister(s) PROVE Types'
  <2>1. PICK m \in Transitions(record, {s}, "retired", None) :
          Settle(m.rec, [registration EXCEPT ![s] = 0], m.dies)
    BY <1>9 DEF Unregister
  <2>2. [registration EXCEPT ![s] = 0] \in Tokens BY BoundAssumption DEF ControllerType, Tokens
  <2>3. ControllerType' BY <2>1, <2>2, MoveThenSettle DEF States
  <2> QED BY <1>9, <2>3 DEF Unregister, QueueType, CoordinatorType, WorkType, ResourceType,
        NativeType, coordinator, resources, native
<1>10. ASSUME NEW s \in Sessions, RefetchPac(s) PROVE Types'
  <2>1. applied' \in [Sessions -> Routes] /\ conns' \in [Sessions -> SUBSET Routes]
    BY <1>10, ServedType, RouteByType DEF RefetchPac
  <2> QED BY <1>10, <2>1 DEF RefetchPac, ControllerType, QueueType, CoordinatorType, WorkType,
        ResourceType, NativeType, controller, coordinator, resources
<1>11. ASSUME NEW s \in Sessions, LateSetProxy(s) PROVE Types'
  <2>1. applied' \in [Sessions -> Routes] /\ conns' \in [Sessions -> SUBSET Routes]
    BY <1>11, ServedType, RouteByType DEF LateSetProxy
  <2> QED BY <1>11, <2>1 DEF LateSetProxy, ControllerType, QueueType, CoordinatorType, WorkType,
        ResourceType, NativeType, controller, coordinator, resources
<1>12. CASE LatePrepare
  BY <1>12 DEF LatePrepare, ControllerType, QueueType, CoordinatorType, WorkType,
       ResourceType, NativeType, controller, coordinator
<1>13. CASE PacServerLost
  <2>1. ControllerType' BY <1>13, SettleType DEF PacServerLost, ControllerType
  <2> QED BY <1>13, <2>1 DEF PacServerLost, QueueType, CoordinatorType, WorkType,
        ResourceType, NativeType, coordinator, native
<1>14. CASE GuardServerLost
  <2>1. ControllerType' BY <1>14, SettleType DEF GuardServerLost, ControllerType
  <2> QED BY <1>14, <2>1 DEF GuardServerLost, QueueType, CoordinatorType, WorkType,
        ResourceType, NativeType, coordinator, native
<1> HIDE DEF Types
<1> QED BY <1>4, <1>5, <1>6, <1>7, <1>8, <1>9, <1>10, <1>11, <1>12, <1>13, <1>14 DEF Environment

\* The record that a failed drain leaves is a record.
LEMMA UndrainedType ==
  ASSUME ControllerType, NEW s \in Sessions PROVE Undrained(s) \in Records
<1> DEFINE q == [state |-> "quarantined", key |-> None, poisoned |-> TRUE,
                 generation |-> IF record[s].generation < MaxSafe
                                THEN record[s].generation + 1 ELSE MaxSafe]
<1>1. record[s] \in Record BY DEF ControllerType, Records
<1>2. q \in Record BY <1>1, BoundAssumption DEF Record, States
<1>3. Undrained(s) = [record EXCEPT ![s] = q] BY DEF Undrained, ControllerType, Records
<1> HIDE DEF q
<1> QED BY <1>2, <1>3 DEF ControllerType, Records

\* The record that a late native call leaves is a record.
LEMMA PoisonedType ==
  ASSUME ControllerType, NEW s \in Sessions, NEW r PROVE Poisoned(s, r) \in Records
BY DEF Poisoned, ControllerType, Records, Record

\* One lane going on to its next native call leaves lanes.
LEMMA ToLane ==
  ASSUME lane \in Lanes, NEW s \in Sessions, NEW e \in Error,
         NEW pc \in {"reload", "drain", "reload2", "done", "failed"}
  PROVE  [lane EXCEPT ![s] = Step(@, pc, e)] \in Lanes
BY StepType DEF Lanes

\* Native calls keep the types, however they end.
LEMMA NativeTypes ==
  ASSUME Types, NEW s \in Sessions, NativeStep(s) PROVE Types'
<1> USE DEF Types
<1>1. PICK r \in Outcome : \/ SetProxy(s, r) \/ ForceReload(s, r) \/ Drain(s, r)
                           \/ ForceReloadAgain(s, r) \/ DrainAll(s, r)
  BY DEF NativeStep
<1>2. "none" \in Error /\ "failed" \in Error /\ (r # "ok" => r \in Error)
  BY DEF Error, Outcome
<1>3. run.target \in Intents /\ Key(run.target) \in Keys BY NoneKey DEF WorkType, Run
<1> DEFINE key == Key(run.target)
<1>4. conns' = [conns EXCEPT ![s] = {applied[s]}] => conns' \in [Sessions -> SUBSET Routes]
  BY DEF NativeType
<1>5. RouteBy(s, Fetch(key)) =>
        applied' \in [Sessions -> Routes] /\ conns' \in [Sessions -> SUBSET Routes]
  BY ServedType, RouteByType
<1>6. CASE SetProxy(s, r)
  <2>1. lane' \in Lanes
    BY <1>6, <1>2, ToLane DEF SetProxy, WorkType
  <2>2. /\ applied' \in [Sessions -> Routes] /\ conns' \in [Sessions -> SUBSET Routes]
        /\ late' \in [Sessions -> Keys \cup {None}]
    BY <1>6, <1>3, <1>5 DEF SetProxy, NativeType
  <2>3. ControllerType' BY <1>6, PoisonedType DEF SetProxy, ControllerType
  <2> QED BY <1>6, <2>1, <2>2, <2>3 DEF SetProxy, QueueType, CoordinatorType, WorkType,
        ResourceType, NativeType, coordinator, resources
<1>7. CASE ForceReload(s, r)
  <2>1. lane' \in Lanes
    BY <1>7, <1>2, ToLane DEF ForceReload, WorkType
  <2>2. applied' \in [Sessions -> Routes] /\ conns' \in [Sessions -> SUBSET Routes]
    BY <1>7, <1>5 DEF ForceReload, NativeType
  <2>3. ControllerType' BY <1>7, PoisonedType DEF ForceReload, ControllerType
  <2> QED BY <1>7, <2>1, <2>2, <2>3 DEF ForceReload, QueueType, CoordinatorType, WorkType,
        ResourceType, NativeType, coordinator, resources
<1>8. CASE Drain(s, r)
  <2>1. ControllerType' /\ lane' \in Lanes
    <3>1. lane[s].error \in Error BY DEF WorkType, Lanes, Lane
    <3>2. \A R, e, d : R \in Records /\ e \in Error /\ d \in BOOLEAN /\ Finish(s, R, e, d)
                       => ControllerType' /\ lane' \in Lanes
      BY FinishType DEF WorkType
    <3>3. CASE Finish(s, Undrained(s), "failed", TRUE)
      BY <3>2, <3>3, UndrainedType, <1>2
    <3>4. CASE lane' = [lane EXCEPT ![s] = Step(@, "reload2", "none")] /\ UNCHANGED controller
      BY <3>4, ToLane, <1>2 DEF WorkType, ControllerType, controller
    <3>5. CASE Finish(s, record, IF lane[s].error = "none" THEN "failed" ELSE lane[s].error, FALSE)
      BY <3>1, <3>2, <3>5, <1>2 DEF ControllerType
    <3> QED BY <1>8, <3>3, <3>4, <3>5 DEF Drain
  <2>2. conns' \in [Sessions -> SUBSET Routes]
    BY <1>8, <1>4 DEF Drain, NativeType
  <2> QED BY <1>8, <2>1, <2>2 DEF Drain, QueueType, CoordinatorType, WorkType,
        ResourceType, NativeType, coordinator, resources
<1>9. CASE ForceReloadAgain(s, r)
  <2>1. ControllerType' /\ lane' \in Lanes
    BY <1>9, <1>2, FinishType, PoisonedType DEF ForceReloadAgain, WorkType
  <2>2. applied' \in [Sessions -> Routes] /\ conns' \in [Sessions -> SUBSET Routes]
    BY <1>9, <1>5 DEF ForceReloadAgain, NativeType
  <2> QED BY <1>9, <2>1, <2>2 DEF ForceReloadAgain, QueueType, CoordinatorType, WorkType,
        ResourceType, NativeType, coordinator, resources
<1>10. CASE DrainAll(s, r)
  <2>1. lane' \in Lanes BY <1>10, <1>2, ToLane DEF DrainAll, WorkType
  <2>2. ControllerType'
    BY <1>10, UndrainedType, SettleType DEF DrainAll, ControllerType, controller
  <2>3. conns' \in [Sessions -> SUBSET Routes] BY <1>10, <1>4 DEF DrainAll, NativeType
  <2> QED BY <1>10, <2>1, <2>2, <2>3 DEF DrainAll, QueueType, CoordinatorType, WorkType,
        ResourceType, NativeType, coordinator, resources
<1> QED BY <1>1, <1>6, <1>7, <1>8, <1>9, <1>10

\* The operation's own steps keep the types.
LEMMA OperationTypes == Types /\ Operation => Types'
<1> SUFFICES ASSUME Types, Operation PROVE Types'
  OBVIOUS
<1> USE DEF Types
<1>1. queue # <<>> => Head(queue) \in Op /\ Tail(queue) \in Seq(Op) /\ Len(Tail(queue)) <= MaxQueue
  BY BoundAssumption DEF QueueType
<1>2. run \in Run /\ lane \in Lanes /\ run.target \in Intents /\ Key(run.target) \in Keys
  BY NoneKey DEF WorkType, Run
<1>3. \A f \in BOOLEAN : Quarantine(f) =>
        /\ ControllerType' /\ WorkType' /\ policy' \in Intents \cup {None}
        /\ guardAllowed' \in BOOLEAN /\ admitted' \in BOOLEAN
  BY QuarantineType DEF WorkType
<1>4. LanesOff /\ run' = Idle => WorkType' BY LanesOffType, IdleType DEF WorkType
<1>5. \A s, token : s \in Sessions /\ token \in 0..MaxSafe /\ CancelEnrollment(s, token)
                    => ControllerType'
  <2> SUFFICES ASSUME NEW s \in Sessions, NEW token \in 0..MaxSafe, CancelEnrollment(s, token)
               PROVE  ControllerType'
    OBVIOUS
  <2>1. CASE ~IsRegistered(s, token)
    BY <2>1 DEF CancelEnrollment, ControllerType, controller
  <2>2. CASE IsRegistered(s, token)
    <3>1. PICK m \in Transitions(record, {s}, "quarantined", None) :
            Settle(m.rec, [registration EXCEPT ![s] = 0], m.dies)
      BY <2>2 DEF CancelEnrollment
    <3>2. [registration EXCEPT ![s] = 0] \in Tokens BY BoundAssumption DEF ControllerType, Tokens
    <3> QED BY <3>1, <3>2, MoveThenSettle DEF States
  <2> QED BY <2>1, <2>2
<1>6. CASE Reject
  BY <1>1, <1>6 DEF Reject, ControllerType, QueueType, CoordinatorType, WorkType,
       ResourceType, NativeType, controller, coordinator, resources, native
<1>7. CASE StartRebuild
  <2> DEFINE prepared == policy = intent /\ Valid(policy, pac, guardUp)
             next == [Idle EXCEPT !.phase = IF prepared THEN "apply" ELSE "prepare",
                        !.target = intent, !.epoch = intentEpoch, !.prepared = prepared]
  <2>1. next \in Run
    <3>1. prepared \in BOOLEAN BY DEF Valid
    <3> HIDE DEF prepared
    <3> QED BY <3>1, IdleType DEF Run, CoordinatorType
  <2>2. QueueType' BY <1>1, <1>7 DEF StartRebuild, Dequeue, QueueType
  <2>3. CASE prepared
    <3>1. StartLanes(record, Active, Key(intent), next)
      BY <1>7, <2>3 DEF StartRebuild
    <3> HIDE DEF next
    <3>2. ControllerType' /\ WorkType'
      BY <3>1, <2>1, StartLanesType, ActiveSessions, NoneKey DEF CoordinatorType, WorkType
    <3>3. policy' \in Intents \cup {None} /\ guardAllowed' \in BOOLEAN /\ admitted' \in BOOLEAN
      BY <1>7, <2>3 DEF StartRebuild, CoordinatorType, ResourceType, GuardWithdrawn
    <3> QED BY <1>7, <2>2, <3>2, <3>3 DEF StartRebuild, CoordinatorType, ResourceType,
          NativeType, native
  <2>4. CASE ~prepared
    <3>1. PICK m \in Transitions(record, Withdrawable(record), "updating", None) :
            /\ Settle(m.rec, registration, m.dies)
            /\ run' = IF m.dies THEN Idle ELSE next
      BY <1>7, <2>4 DEF StartRebuild
    <3> HIDE DEF next, prepared
    <3>2. ControllerType'
      BY <3>1, WithdrawableSessions, MoveThenSettle DEF States, ControllerType
    <3>3. run' \in Run BY <3>1, <2>1, IdleType
    <3>4. LanesOff /\ policy' = None /\ GuardWithdrawn BY <1>7, <2>4 DEF StartRebuild, prepared
    <3> QED BY <1>7, <2>2, <3>2, <3>3, <3>4, LanesOffType DEF StartRebuild, CoordinatorType,
          WorkType, ResourceType, NativeType, GuardWithdrawn, native
  <2> QED BY <2>3, <2>4
<1>8. CASE StartEnroll
  <2> DEFINE op == Head(queue)
             chosen == IF policy = None /\ ~attempted /\ intent \in Direct /\ pac = None /\ ~guardUp
                       THEN intent ELSE policy
             next == [Idle EXCEPT !.phase = "apply", !.kind = "enroll", !.session = op.session,
                                  !.token = op.token, !.target = chosen]
  <2>1. op \in Op /\ QueueType' BY <1>1, <1>8 DEF StartEnroll, Dequeue, QueueType
  <2>2. CASE ~IsRegistered(op.session, op.token)
    BY <1>8, <2>1, <2>2, IdleType DEF StartEnroll, ControllerType, CoordinatorType, WorkType,
         ResourceType, NativeType, controller, resources, native
  <2>3. CASE IsRegistered(op.session, op.token)
    <3>1. policy' = chosen BY <1>8, <2>3 DEF StartEnroll
    <3>2. ControllerType' /\ WorkType'
      <4>1. CASE chosen = intent /\ Valid(chosen, pac, guardUp)
        <5>1. StartLanes(record, {op.session}, Key(chosen), next)
          BY <1>8, <2>3, <4>1 DEF StartEnroll
        <5>2. chosen \in Intents BY <4>1 DEF CoordinatorType
        <5> HIDE DEF chosen
        <5>3. next \in Run BY <2>1, <5>2, IdleType DEF Run, Op
        <5>4. op.session \in Sessions BY <2>1 DEF Op
        <5> HIDE DEF next, op
        <5> QED BY <5>1, <5>2, <5>3, <5>4, StartLanesType, NoneKey DEF WorkType
      <4>2. CASE ~(chosen = intent /\ Valid(chosen, pac, guardUp))
        <5>1. run' = Idle /\ CancelEnrollment(op.session, op.token) /\ UNCHANGED lane
          BY <1>8, <2>3, <4>2 DEF StartEnroll
        <5> QED BY <5>1, <2>1, <1>5, IdleType DEF WorkType, Op
      <4> QED BY <4>1, <4>2
    <3> QED BY <1>8, <2>1, <3>1, <3>2 DEF StartEnroll, CoordinatorType, ResourceType,
          NativeType, resources, native
  <2> QED BY <2>2, <2>3
<1>9. CASE StartPause
  <2> DEFINE next == [Idle EXCEPT !.phase = "pause", !.kind = "pause"]
             lanes == [s \in Sessions |-> IF s \in Active THEN Step(LaneOff, "quarantine", "none")
                                          ELSE LaneOff]
  <2>1. PICK m \in Transitions(record, Withdrawable(record), "updating", None) :
          /\ Settle(m.rec, registration, m.dies)
          /\ IF m.dies THEN run' = Idle /\ LanesOff ELSE run' = next /\ lane' = lanes
    BY <1>9 DEF StartPause
  <2>2. ControllerType' BY <2>1, WithdrawableSessions, MoveThenSettle DEF States, ControllerType
  <2>3. next \in Run BY IdleType DEF Run
  <2>4. lanes \in Lanes BY LaneOffType DEF Lanes
  <2> HIDE DEF next, lanes
  <2>5. WorkType' BY <2>1, <2>3, <2>4, <1>4 DEF WorkType
  <2>6. QueueType' BY <1>1, <1>9 DEF StartPause, Dequeue, QueueType
  <2> QED BY <1>9, <2>2, <2>5, <2>6 DEF StartPause, CoordinatorType, ResourceType, NativeType,
        coordinator, native
<1>10. ASSUME NEW r \in Outcome, PrepareGuard(r) PROVE Types'
  <2>1. /\ ControllerType' /\ WorkType' /\ policy' \in Intents \cup {None}
        /\ guardAllowed' \in BOOLEAN /\ admitted' \in BOOLEAN
    <3>1. CASE \E f \in BOOLEAN : Quarantine(f) BY <3>1, <1>3
    <3>2. CASE /\ run' = [run EXCEPT !.phase = "serve"]
               /\ UNCHANGED <<controller, policy, lane, guardAllowed, admitted>>
      <4>1. run' \in Run BY <1>2, <3>2 DEF Run
      <4> QED BY <3>2, <4>1 DEF ControllerType, CoordinatorType, WorkType, ResourceType, controller
    <3> QED BY <1>10, <3>1, <3>2 DEF PrepareGuard
  <2> QED BY <1>10, <1>2, <2>1 DEF PrepareGuard, QueueType, CoordinatorType, ResourceType,
        NativeType
<1>11. ASSUME NEW r \in Outcome, ServePac(r) PROVE Types'
  <2>1. /\ ControllerType' /\ WorkType' /\ policy' \in Intents \cup {None}
        /\ guardAllowed' \in BOOLEAN /\ admitted' \in BOOLEAN
    <3>1. CASE \E f \in BOOLEAN : Quarantine(f) BY <3>1, <1>3
    <3>2. CASE /\ StartLanes(record, Active, Key(run.target), [run EXCEPT !.phase = "apply"])
               /\ UNCHANGED <<policy, guardAllowed, admitted>>
      <4>1. [run EXCEPT !.phase = "apply"] \in Run BY <1>2 DEF Run
      <4>2. ControllerType' /\ WorkType'
        BY <3>2, <4>1, <1>2, StartLanesType, ActiveSessions DEF WorkType
      <4> QED BY <3>2, <4>2 DEF CoordinatorType, ResourceType
    <3>3. (r = "timeout") \in BOOLEAN OBVIOUS
    <3> QED BY <1>11, <3>1, <3>2, <3>3 DEF ServePac
  <2> QED BY <1>11, <1>2, <2>1 DEF ServePac, QueueType, CoordinatorType, ResourceType,
        NativeType
<1>12. \A p, g : Publish(p, g) =>
         /\ ControllerType' /\ WorkType' /\ policy' \in Intents \cup {None}
         /\ guardAllowed' \in BOOLEAN /\ admitted' \in BOOLEAN
  BY PublishType DEF ResourceType
<1>13. \A o \in SUBSET Intents : Forwarding(o) => guardConns' \in SUBSET Intents
  <2>1. \A o \in SUBSET Intents : Forwarding(o) =>
          guardConns' = o \/ (guardConns' = o \cup {guardRoute} /\ guardRoute # None)
    BY DEF Forwarding
  <2> QED BY <2>1 DEF ResourceType
<1>14. CASE FinishApply
  <2>1. /\ ControllerType' /\ WorkType' /\ policy' \in Intents \cup {None}
        /\ guardAllowed' \in BOOLEAN /\ admitted' \in BOOLEAN
    <3>1. CASE Quarantine(FALSE) BY <3>1, <1>3
    <3>2. CASE Publish(pac, guardUp) BY <3>2, <1>12
    <3>3. CASE /\ run' = [run EXCEPT !.phase = "retire"]
               /\ UNCHANGED <<controller, policy, lane, guardAllowed, admitted>>
      <4>1. run' \in Run BY <1>2, <3>3 DEF Run
      <4> QED BY <3>3, <4>1 DEF ControllerType, CoordinatorType, WorkType, ResourceType, controller
    <3> QED BY <1>14, <3>1, <3>2, <3>3 DEF FinishApply
  <2>2. guardConns' \in SUBSET Intents
    BY <1>14, <1>13 DEF FinishApply, ResourceType
  <2> QED BY <1>14, <2>1, <2>2 DEF FinishApply, QueueType, CoordinatorType, ResourceType,
        NativeType, native
<1>15. ASSUME NEW r \in Outcome, RetireResources(r) PROVE Types'
  <2>1. /\ ControllerType' /\ WorkType' /\ policy' \in Intents \cup {None}
        /\ guardAllowed' \in BOOLEAN /\ admitted' \in BOOLEAN
    <3>1. (r = "timeout") \in BOOLEAN OBVIOUS
    <3> QED BY <1>15, <1>3, <1>12, <3>1 DEF RetireResources
  <2>2. guardConns' \in SUBSET Intents /\ guardUp' \in BOOLEAN
        /\ pac' \in (Intents \ Direct) \cup {None}
    BY <1>15, <1>13 DEF RetireResources, ResourceType
  <2> QED BY <1>15, <2>1, <2>2 DEF RetireResources, QueueType, CoordinatorType, ResourceType,
        NativeType, native
<1>16. CASE FinishQuarantine
  <2>1. ControllerType'
    BY <1>16, <1>2, SettleType DEF FinishQuarantine, ControllerType, Run
  <2> QED BY <1>16, <2>1, <1>4 DEF FinishQuarantine, QueueType, CoordinatorType, ResourceType,
        NativeType, coordinator, resources, native
<1>17. CASE FinishEnroll
  <2>1. run.session \in Sessions /\ run.token \in 0..MaxSafe BY <1>2 DEF Run
  <2>2. ControllerType'
    BY <1>17, <2>1, <1>5 DEF FinishEnroll, ControllerType, controller
  <2> QED BY <1>17, <2>2, <1>4 DEF FinishEnroll, QueueType, CoordinatorType, ResourceType,
        NativeType, coordinator, resources, native
<1>18. ASSUME NEW r \in Outcome, FinishPause(r) PROVE Types'
  <2>1. ControllerType'
    BY <1>18, SettleType DEF FinishPause, ControllerType
  <2> QED BY <1>18, <2>1, <1>4 DEF FinishPause, QueueType, CoordinatorType, ResourceType,
        NativeType, coordinator, native
<1> HIDE DEF Types
<1> QED BY <1>6, <1>7, <1>8, <1>9, <1>10, <1>11, <1>14, <1>15, <1>16, <1>17, <1>18 DEF Operation

\* The module as it is loaded has the types.
LEMMA InitTypes == Init => Types
<1> SUFFICES ASSUME Init PROVE Types
  OBVIOUS
<1>0. 0 \in 0..MaxSafe /\ 0 \in 0..MaxEpoch /\ 0 <= MaxQueue /\ InitIntent \in Intents
  BY IntentAssumption, BoundAssumption
<1>1. ControllerType
  <2> DEFINE fresh == [state |-> "unknown", generation |-> 0, key |-> None, poisoned |-> FALSE]
  <2>1. fresh \in Record BY <1>0 DEF Record, States
  <2>2. record = [s \in Sessions |-> fresh] BY DEF Init
  <2> HIDE DEF fresh
  <2>3. record \in Records BY <2>1, <2>2 DEF Records
  <2>4. registration \in Tokens BY <1>0 DEF Init, Tokens
  <2>5. terminal \in BOOLEAN BY DEF Init
  <2> QED BY <2>3, <2>4, <2>5 DEF ControllerType
<1>2. QueueType
  <2>1. queue = <<>> /\ <<>> \in Seq(Op) /\ Len(<<>>) = 0 BY DEF Init
  <2> QED BY <2>1, <1>0 DEF QueueType
<1>3. CoordinatorType
  <2>1. intent = InitIntent /\ intentEpoch = 0 /\ policy = None /\ attempted = FALSE BY DEF Init
  <2> QED BY <2>1, <1>0 DEF CoordinatorType
<1>4. WorkType
  <2>1. lane = [s \in Sessions |-> LaneOff] /\ run = Idle BY DEF Init
  <2> QED BY <2>1, IdleType, LaneOffType DEF WorkType, Lanes
<1>5. ResourceType BY DEF Init, ResourceType
<1>6. NativeType BY DEF Init, NativeType, Routes
<1> QED BY <1>1, <1>2, <1>3, <1>4, <1>5, <1>6 DEF Types

\* Every step, and a stutter, keeps the types.
LEMMA NextTypes == Types /\ [Next]_vars => Types'
<1>1. Types /\ UNCHANGED vars => Types'
  BY DEF vars, controller, coordinator, resources, native, Types, ControllerType, QueueType,
         CoordinatorType, WorkType, ResourceType, NativeType
<1> QED BY <1>1, EnvironmentTypes, NativeTypes, OperationTypes DEF Next

\* Every variable keeps its type: in particular no generation, token or epoch
\* passes its bound, which the code enforces by terminating instead.
THEOREM TypeCorrect == Spec => []TypeOK
<1>1. Spec => []Types BY InitTypes, NextTypes, PTL DEF Spec
<1> QED BY <1>1, TypesAreTypeOK, PTL
-----------------------------------------------------------------------------
(* Retired and poisoned sessions are barred for good.  By itself that is   *)
(* not inductive: cancelEnrollment() quarantines a session without looking *)
(* at its state, so the proof also needs that a registered session is      *)
(* never a retired one.                                                    *)


Bar(r) == r.state = "retired" \/ r.poisoned

\* From the records R to R2 nothing barred is let off and nothing is retired.
Calm(R, R2) ==
  \A s \in Sessions : /\ Bar(R[s]) => Bar(R2[s])
                      /\ R2[s].state = "retired" => R[s].state = "retired"

\* A registered session is not retired while the process lives.
Registered == ~terminal => \A s \in Sessions : registration[s] # 0 => record[s].state # "retired"

\* What every step does: nothing barred is let off, and Registered holds after it.
Held == /\ \A s \in Sessions : Bar(record[s]) => Bar(record'[s])
        /\ Registered'

\* Calm moves compose.
LEMMA CalmTwice ==
  ASSUME NEW R1, NEW R2, NEW R3, Calm(R1, R2), Calm(R2, R3) PROVE Calm(R1, R3)
BY DEF Calm

\* A transition() that retires nothing, of sessions none of which is retired, is calm.
LEMMA TransitionsCalm ==
  ASSUME NEW R \in Records, NEW S \in SUBSET Sessions, NEW st \in States \ {"retired"},
         NEW key, NEW m \in Transitions(R, S, st, key),
         \A s \in S : R[s].state # "retired"
  PROVE  Calm(R, m.rec)
<1> DEFINE full == {s \in S : R[s].generation = MaxSafe}
           moved(T) == [s \in Sessions |-> IF s \in T THEN Move(R[s], st, key) ELSE R[s]]
           spent(x) == [state |-> "quarantined", generation |-> MaxSafe,
                        key |-> R[x].key, poisoned |-> TRUE]
<1>1. ASSUME NEW T \in SUBSET S PROVE Calm(R, moved(T))
  <2>1. ASSUME NEW s \in Sessions
        PROVE  /\ Bar(R[s]) => Bar(moved(T)[s])
               /\ moved(T)[s].state = "retired" => R[s].state = "retired"
    <3>1. CASE s \in T
      <4>1. moved(T)[s].state = st /\ moved(T)[s].poisoned = R[s].poisoned BY <3>1 DEF Move
      <4>2. R[s].state # "retired" BY <3>1
      <4> HIDE DEF moved
      <4> QED BY <4>1, <4>2 DEF Bar
    <3>2. CASE s \notin T BY <3>2
    <3> QED BY <3>1, <3>2
  <2> HIDE DEF moved
  <2> QED BY <2>1 DEF Calm
<1>2. CASE full = {}
  <2>1. m = [rec |-> moved(S), dies |-> FALSE] BY <1>2 DEF Transitions
  <2>2. m.rec = moved(S) BY <2>1
  <2> QED BY <2>2, <1>1
<1>3. CASE full # {}
  <2>1. PICK x \in full, T \in SUBSET (S \ full) :
          m = [rec |-> [moved(T) EXCEPT ![x] = spent(x)], dies |-> TRUE]
    BY <1>3 DEF Transitions
  <2>2. m.rec = [moved(T) EXCEPT ![x] = spent(x)] BY <2>1
  <2>3. Calm(R, moved(T)) BY <1>1
  <2>4. DOMAIN moved(T) = Sessions OBVIOUS
  <2>5. Bar(spent(x)) /\ spent(x).state # "retired" BY DEF Bar
  <2> HIDE DEF moved, spent
  <2>6. \A s \in Sessions : m.rec[s] = IF s = x THEN spent(x) ELSE moved(T)[s] BY <2>2, <2>4
  <2> QED BY <2>3, <2>5, <2>6 DEF Calm
<1> QED BY <1>2, <1>3

\* A handler that leaves calm records and registers nothing new holds, even if
\* it terminates.
LEMMA SettleHeld ==
  ASSUME ControllerType, Registered, NEW R \in Records, Calm(record, R), NEW G, NEW dies \in BOOLEAN,
         \A s \in Sessions : G[s] # 0 => registration[s] # 0, Settle(R, G, dies)
  PROVE  Held
<1>1. CASE dies /\ ~terminal
  <2> DEFINE active == {Default} \cup {s \in Sessions : G[s] # 0}
  <2>1. terminal' /\ record' = Retired(R, active) BY <1>1 DEF Settle
  <2> HIDE DEF active
  <2>2. ASSUME NEW s \in Sessions PROVE Bar(R[s]) => Bar(record'[s])
    BY <2>1 DEF Retired, Bar
  <2> QED BY <2>1, <2>2 DEF Held, Calm, Registered
<1>2. CASE ~(dies /\ ~terminal)
  <2>1. record' = R /\ registration' = G /\ terminal' = terminal BY <1>2 DEF Settle
  <2> QED BY <2>1 DEF Held, Calm, Registered
<1> QED BY <1>1, <1>2

\* A step that leaves the controller alone holds.
LEMMA ControllerHeld == Registered /\ UNCHANGED controller => Held
BY DEF Held, Registered, controller

\* A transition of sessions none of which is retired, as a whole handler.
LEMMA MoveHeld ==
  ASSUME ControllerType, Registered, NEW S \in SUBSET Sessions, NEW st \in States \ {"retired"},
         \A s \in S : record[s].state # "retired", NEW m \in Transitions(record, S, st, None),
         Settle(m.rec, registration, m.dies)
  PROVE  Held
<1>1. m.rec \in Records /\ m.dies \in BOOLEAN BY TransitionsType DEF ControllerType
<1>2. Calm(record, m.rec) BY TransitionsCalm DEF ControllerType
<1> QED BY <1>1, <1>2, SettleHeld

\* withdrawAll() leaves the retired sessions alone.
LEMMA WithdrawHeld ==
  ASSUME ControllerType, Registered,
         NEW m \in Transitions(record, Withdrawable(record), "updating", None),
         Settle(m.rec, registration, m.dies)
  PROVE  Held
<1>1. \A s \in Withdrawable(record) : record[s].state # "retired" BY DEF Withdrawable
<1> QED BY <1>1, MoveHeld, WithdrawableSessions DEF States

\* A termination by itself holds.
LEMMA TerminateHeld ==
  ASSUME ControllerType, Registered, NEW dies \in BOOLEAN, Settle(record, registration, dies)
  PROVE  Held
<1>1. Calm(record, record) BY DEF Calm
<1> QED BY <1>1, SettleHeld DEF ControllerType

\* The start of applyTargets() withdraws only sessions that can still be used.
LEMMA StartLanesHeld ==
  ASSUME ControllerType, Registered, NEW targets \in SUBSET Sessions, NEW key, NEW next,
         StartLanes(record, targets, key, next)
  PROVE  Held
<1> DEFINE needed == {s \in targets : record[s].state # "ready" \/ record[s].key # key}
           live == {s \in needed : ~record[s].poisoned /\ record[s].state # "retired"}
<1>1. PICK m \in Transitions(record, live, "updating", None) : Settle(m.rec, registration, m.dies)
  BY DEF StartLanes
<1> QED BY <1>1, MoveHeld DEF States

\* The poison of a failed or late native call is calm.
LEMMA PoisonCalm ==
  ASSUME ControllerType, NEW s \in Sessions
  PROVE  Calm(record, Undrained(s)) /\ \A r : Calm(record, Poisoned(s, r))
<1> DEFINE q == [state |-> "quarantined", key |-> None, poisoned |-> TRUE,
                 generation |-> IF record[s].generation < MaxSafe
                                THEN record[s].generation + 1 ELSE MaxSafe]
<1>1. Bar(q) /\ q.state # "retired" BY DEF Bar
<1>2. Undrained(s) = [record EXCEPT ![s] = q] BY DEF Undrained, ControllerType, Records
<1> HIDE DEF q
<1>3. DOMAIN record = Sessions BY DEF ControllerType, Records
<1>4. Calm(record, Undrained(s)) BY <1>1, <1>2, <1>3 DEF Calm
<1>5. ASSUME NEW r PROVE Calm(record, Poisoned(s, r))
  <2>1. record[s] \in Record BY DEF ControllerType, Records
  <2>2. Bar([record[s] EXCEPT !.poisoned = TRUE])
        /\ [record[s] EXCEPT !.poisoned = TRUE].state = record[s].state
    BY <2>1 DEF Bar, Record
  <2>3. Poisoned(s, r) = record
        \/ Poisoned(s, r) = [record EXCEPT ![s] = [record[s] EXCEPT !.poisoned = TRUE]]
    BY DEF Poisoned
  <2> QED BY <2>2, <2>3, <1>3 DEF Calm
<1> QED BY <1>4, <1>5

\* The end of a lane never brings a barred session back.
LEMMA FinishHeld ==
  ASSUME ControllerType, Registered, run \in Run,
         NEW s \in Sessions, NEW R \in Records, Calm(record, R),
         NEW error \in Error, NEW dies \in BOOLEAN, Finish(s, R, error, dies)
  PROVE  Held
<1>1. CASE error # "none" \/ Superseded(s) \/ R[s].state = "retired"
  <2>1. CASE terminal \/ dies \/ error = "timeout" \/ R[s].state = "retired"
    <3>1. Settle(R, registration, dies \/ error = "timeout") BY <1>1, <2>1 DEF Finish
    <3> QED BY <3>1, SettleHeld
  <2>2. CASE ~(terminal \/ dies \/ error = "timeout" \/ R[s].state = "retired")
    <3>1. PICK m \in Transitions(R, {s}, "quarantined", None) : Settle(m.rec, registration, m.dies)
      BY <1>1, <2>2 DEF Finish
    <3>2. m.rec \in Records /\ m.dies \in BOOLEAN BY TransitionsType DEF States
    <3>3. Calm(R, m.rec) BY <2>2, TransitionsCalm DEF States
    <3> QED BY <3>1, <3>2, <3>3, CalmTwice, SettleHeld
  <2> QED BY <2>1, <2>2
<1>2. CASE ~(error # "none" \/ Superseded(s) \/ R[s].state = "retired")
  <2> DEFINE after(m) == IF m.dies \/ run.kind # "enroll" THEN {m}
                         ELSE Transitions(m.rec, {s}, "ready", Key(run.target))
  <2>1. PICK m \in Transitions(R, {s}, "configured", None) :
          \E n \in after(m) : Settle(n.rec, registration, n.dies)
    BY <1>2 DEF Finish
  <2>2. PICK n \in after(m) : Settle(n.rec, registration, n.dies) BY <2>1
  <2>3. m.rec \in Records /\ m.dies \in BOOLEAN BY TransitionsType DEF States
  <2>4. Calm(R, m.rec) BY <1>2, TransitionsCalm DEF States
  <2>5. Calm(record, m.rec) BY <2>4, CalmTwice
  <2>6. m.rec[s].state # "retired" BY <2>4, <1>2 DEF Calm
  <2>7. CASE n = m BY <2>2, <2>3, <2>5, <2>7, SettleHeld
  <2>8. CASE n \in Transitions(m.rec, {s}, "ready", Key(run.target)) /\ run.kind = "enroll"
    <3>1. Calm(m.rec, n.rec) BY <2>8, <2>3, <2>6, TransitionsCalm DEF States
    <3>2. Key(run.target) \in Keys BY NoneKey DEF Run
    <3>3. n.rec \in Records /\ n.dies \in BOOLEAN BY <2>8, <2>3, <3>2, TransitionsType DEF States
    <3>4. Calm(record, n.rec) BY <3>1, <2>5, CalmTwice
    <3> QED BY <2>2, <3>3, <3>4, SettleHeld
  <2> QED BY <2>2, <2>7, <2>8
<1> QED BY <1>1, <1>2

\* The catch block of recover() spares the retired sessions, both times.
LEMMA QuarantineHeld ==
  ASSUME ControllerType, Registered, NEW fatal, Quarantine(fatal) PROVE Held
<1>1. CASE terminal BY <1>1, ControllerHeld DEF Quarantine
<1>2. CASE ~terminal
  <2> DEFINE after(m) == IF m.dies THEN {m}
                         ELSE Transitions(m.rec, Withdrawable(m.rec), "quarantined", None)
  <2>1. PICK m \in Transitions(record, Withdrawable(record), "updating", None) :
          \E n \in after(m) : Settle(n.rec, registration, n.dies)
    BY <1>2 DEF Quarantine
  <2>2. PICK n \in after(m) : Settle(n.rec, registration, n.dies) BY <2>1
  <2>3. m.rec \in Records /\ m.dies \in BOOLEAN
    BY TransitionsType, WithdrawableSessions DEF States, ControllerType
  <2>4. \A R : \A s \in Withdrawable(R) : R[s].state # "retired" BY DEF Withdrawable
  <2>5. Calm(record, m.rec)
    BY <2>4, TransitionsCalm, WithdrawableSessions DEF States, ControllerType
  <2>6. CASE n = m BY <2>2, <2>3, <2>5, <2>6, SettleHeld
  <2>7. CASE n \in Transitions(m.rec, Withdrawable(m.rec), "quarantined", None)
    <3>1. n.rec \in Records /\ n.dies \in BOOLEAN
      BY <2>7, <2>3, TransitionsType, WithdrawableSessions DEF States
    <3>2. Calm(m.rec, n.rec)
      BY <2>7, <2>3, <2>4, TransitionsCalm, WithdrawableSessions DEF States
    <3>3. Calm(record, n.rec) BY <3>2, <2>5, CalmTwice
    <3> QED BY <2>2, <3>1, <3>3, SettleHeld
  <2> QED BY <2>2, <2>6, <2>7
<1> QED BY <1>1, <1>2

\* Only a registered session is quarantined by a cancelled enrollment, and a
\* registered session is never a retired one.
LEMMA CancelHeld ==
  ASSUME ControllerType, Registered, NEW s \in Sessions, NEW token,
         CancelEnrollment(s, token)
  PROVE  Held
<1>1. CASE ~IsRegistered(s, token) BY <1>1, ControllerHeld DEF CancelEnrollment
<1>2. CASE IsRegistered(s, token)
  <2> DEFINE G == [registration EXCEPT ![s] = 0]
  <2>1. PICK m \in Transitions(record, {s}, "quarantined", None) : Settle(m.rec, G, m.dies)
    BY <1>2 DEF CancelEnrollment
  <2>2. record[s].state # "retired" BY <1>2 DEF Registered, IsRegistered
  <2>3. m.rec \in Records /\ m.dies \in BOOLEAN BY TransitionsType DEF States, ControllerType
  <2>4. Calm(record, m.rec) BY <2>2, TransitionsCalm DEF States, ControllerType
  <2>5. \A x \in Sessions : G[x] # 0 => registration[x] # 0 BY DEF ControllerType, Tokens
  <2> HIDE DEF G
  <2> QED BY <2>1, <2>3, <2>4, <2>5, SettleHeld
<1> QED BY <1>1, <1>2

\* Only configured sessions become ready.
LEMMA PublishHeld ==
  ASSUME ControllerType, Registered, WorkType, NEW pacBody, NEW guard, Publish(pacBody, guard)
  PROVE  Held
<1> DEFINE ok == Current /\ Valid(run.target, pacBody, guard) /\ Committable
<1>1. CASE ok
  <2>1. PICK m \in Transitions(record, Tickets, "ready", Key(run.target)) :
          Settle(m.rec, registration, m.dies)
    BY <1>1 DEF Publish
  <2>2. Key(run.target) \in Keys /\ Tickets \in SUBSET Sessions
    BY NoneKey DEF WorkType, Run, Tickets
  <2>3. \A s \in Tickets : record[s].state # "retired" BY <1>1 DEF Committable
  <2>4. m.rec \in Records /\ m.dies \in BOOLEAN
    BY <2>2, TransitionsType DEF ControllerType, States
  <2>5. Calm(record, m.rec) BY <2>2, <2>3, TransitionsCalm DEF ControllerType, States
  <2> QED BY <2>1, <2>4, <2>5, SettleHeld
<1>2. CASE ~ok
  <2>1. Quarantine(FALSE) BY <1>2 DEF Publish
  <2> QED BY <2>1, QuarantineHeld
<1> QED BY <1>1, <1>2

-----------------------------------------------------------------------------
(* The steps                                                               *)

\* Callers and Chromium: only unregister() retires, and it deletes the token.
LEMMA EnvironmentHeld == Types /\ Registered /\ Environment => Held
<1> SUFFICES ASSUME Types, Registered, Environment PROVE Held OBVIOUS
<1>0. ControllerType BY DEF Types
<1>1. ASSUME NEW i \in Intents, IntentChanged(i) PROVE Held
  <2>1. CASE intentEpoch = MaxEpoch
    BY <1>0, <1>1, <2>1, TerminateHeld DEF IntentChanged
  <2>2. CASE intentEpoch # MaxEpoch
    BY <1>0, <1>1, <2>2, WithdrawHeld DEF IntentChanged
  <2> QED BY <2>1, <2>2
<1>2. ASSUME NEW i \in Intents, SetIntent(i) \/ BeginCertificateUpdate(i) PROVE Held
  BY <1>1, <1>2, ControllerHeld DEF SetIntent, BeginCertificateUpdate
<1>3. CASE Rebuild \/ LatePrepare \/ \E s \in Sessions : RefetchPac(s) \/ LateSetProxy(s)
  BY <1>3, ControllerHeld DEF Rebuild, LatePrepare, RefetchPac, LateSetProxy
<1>4. CASE AdoptDefault
  <2>1. record[Default] \in Record /\ Default \in Sessions
    BY <1>0, SessionAssumption DEF ControllerType, Records
  <2>2. /\ record' = [record EXCEPT ![Default] = [record[Default] EXCEPT !.state = "initial"]]
        /\ registration' = registration /\ terminal' = terminal
        /\ DOMAIN record = Sessions
    BY <1>0, <1>4 DEF AdoptDefault, ControllerType, Records
  <2>3. /\ [record[Default] EXCEPT !.state = "initial"].poisoned = record[Default].poisoned
        /\ [record[Default] EXCEPT !.state = "initial"].state # "retired"
    BY <2>1 DEF Record
  <2>4. record[Default].state # "retired" BY <1>4 DEF AdoptDefault
  <2> QED BY <2>2, <2>3, <2>4 DEF Held, Registered, Bar
<1>5. ASSUME NEW s \in Sessions, Enroll(s) PROVE Held
  <2>1. CASE registration[s] # 0 BY <1>5, <2>1, ControllerHeld DEF Enroll
  <2>2. CASE registration[s] = 0
    <3>1. PICK m \in Transitions(record, {s}, "enrolling", None) :
            Settle(m.rec, [registration EXCEPT ![s] = m.rec[s].generation], m.dies)
      BY <1>5, <2>2 DEF Enroll
    <3>2. record[s].state # "retired" BY <1>5 DEF Enroll
    <3>3. Calm(record, m.rec) BY <1>0, <3>2, TransitionsCalm DEF States, ControllerType
    <3>4. m.rec[s].state # "retired" BY <3>2, <3>3 DEF Calm
    <3>5. m.dies \in BOOLEAN BY <1>0, TransitionsType DEF States, ControllerType
    <3> DEFINE G == [registration EXCEPT ![s] = m.rec[s].generation]
    <3>6. \A x \in Sessions : x # s => G[x] = registration[x]
      BY <1>0 DEF ControllerType, Tokens
    <3> HIDE DEF G
    <3>7. Settle(m.rec, G, m.dies) BY <3>1 DEF G
    <3>8. CASE m.dies /\ ~terminal
      <4> DEFINE active == {Default} \cup {x \in Sessions : G[x] # 0}
      <4>1. terminal' /\ record' = Retired(m.rec, active) BY <3>7, <3>8 DEF Settle
      <4> HIDE DEF active
      <4>2. \A x \in Sessions : Bar(m.rec[x]) => Bar(record'[x]) BY <4>1 DEF Retired, Bar
      <4> QED BY <4>1, <4>2, <3>3 DEF Held, Calm, Registered
    <3>9. CASE ~(m.dies /\ ~terminal)
      <4>1. record' = m.rec /\ registration' = G /\ terminal' = terminal
        BY <3>7, <3>9 DEF Settle
      <4> QED BY <4>1, <3>3, <3>4, <3>6 DEF Held, Calm, Registered
    <3> QED BY <3>8, <3>9
  <2> QED BY <2>1, <2>2
<1>6. ASSUME NEW s \in Sessions, Unregister(s) PROVE Held
  <2> DEFINE G == [registration EXCEPT ![s] = 0]
  <2>1. PICK m \in Transitions(record, {s}, "retired", None) : Settle(m.rec, G, m.dies)
    BY <1>6 DEF Unregister
  <2>2. \A x \in Sessions : (x # s => G[x] = registration[x]) /\ G[s] = 0
    BY <1>0 DEF ControllerType, Tokens
  <2> HIDE DEF G
  <2>3. \A x \in Sessions : /\ x # s => m.rec[x] = record[x]
                            /\ Bar(m.rec[s])
    <3>1. CASE record[s].generation = MaxSafe
      <4> DEFINE spent == [state |-> "quarantined", generation |-> MaxSafe,
                           key |-> record[s].key, poisoned |-> TRUE]
                 same == [x \in Sessions |-> IF x \in {} THEN Move(record[x], "retired", None)
                                             ELSE record[x]]
      <4>1. m.rec = [same EXCEPT ![s] = spent]
        <5> DEFINE full == {x \in {s} : record[x].generation = MaxSafe}
                   moved(T) == [x \in Sessions |-> IF x \in T THEN Move(record[x], "retired", None)
                                                  ELSE record[x]]
                   dead(x) == [state |-> "quarantined", generation |-> MaxSafe,
                               key |-> record[x].key, poisoned |-> TRUE]
        <5>1. full # {} BY <3>1
        <5>2. PICK x \in full, T \in SUBSET ({s} \ full) :
                m = [rec |-> [moved(T) EXCEPT ![x] = dead(x)], dies |-> TRUE]
          BY <2>1, <5>1 DEF Transitions
        <5>3. m.rec = [moved(T) EXCEPT ![x] = dead(x)] BY <5>2
        <5>4. x = s /\ T = {} BY <3>1
        <5> QED BY <5>3, <5>4
      <4>2. Bar(spent) /\ \A x \in Sessions : same[x] = record[x] BY DEF Bar
      <4>3. DOMAIN same = Sessions OBVIOUS
      <4> HIDE DEF spent, same
      <4> QED BY <4>1, <4>2, <4>3
    <3>2. CASE record[s].generation # MaxSafe
      <4> DEFINE moved == [x \in Sessions |-> IF x \in {s} THEN Move(record[x], "retired", None)
                                              ELSE record[x]]
      <4>1. {x \in {s} : record[x].generation = MaxSafe} = {} BY <3>2
      <4>2. m = [rec |-> moved, dies |-> FALSE] BY <4>1 DEF Transitions
      <4>3. m.rec = moved BY <4>2
      <4>4. \A x \in Sessions : x # s => moved[x] = record[x] OBVIOUS
      <4>5. moved[s].state = "retired" BY DEF Move
      <4> HIDE DEF moved
      <4> QED BY <4>3, <4>4, <4>5 DEF Bar
    <3> QED BY <3>1, <3>2
  <2>4. CASE m.dies /\ ~terminal
    <3> DEFINE active == {Default} \cup {x \in Sessions : G[x] # 0}
    <3>1. terminal' /\ record' = Retired(m.rec, active) BY <2>1, <2>4 DEF Settle
    <3> HIDE DEF active
    <3>2. \A x \in Sessions : Bar(m.rec[x]) => Bar(record'[x]) BY <3>1 DEF Retired, Bar
    <3> QED BY <3>1, <3>2, <2>3 DEF Held, Registered
  <2>5. CASE ~(m.dies /\ ~terminal)
    <3>1. record' = m.rec /\ registration' = G /\ terminal' = terminal BY <2>1, <2>5 DEF Settle
    <3> QED BY <3>1, <2>2, <2>3 DEF Held, Registered
  <2> QED BY <2>4, <2>5
<1>7. CASE PacServerLost \/ GuardServerLost
  BY <1>0, <1>7, TerminateHeld DEF PacServerLost, GuardServerLost
<1> QED BY <1>2, <1>3, <1>4, <1>5, <1>6, <1>7 DEF Environment

\* A native call that ends, in time or not, never brings a session back.
LEMMA NativeHeld ==
  ASSUME Types, Registered, NEW s \in Sessions, NativeStep(s) PROVE Held
<1>1. PICK r \in Outcome : \/ SetProxy(s, r) \/ ForceReload(s, r) \/ Drain(s, r)
                           \/ ForceReloadAgain(s, r) \/ DrainAll(s, r)
  BY DEF NativeStep
<1>2. ControllerType /\ run \in Run /\ lane \in Lanes BY DEF Types, WorkType
<1>3. lane[s].error \in Error /\ "failed" \in Error /\ "none" \in Error /\ (r # "ok" => r \in Error)
  BY <1>2 DEF Lanes, Lane, Error, Outcome
<1>4. /\ Undrained(s) \in Records /\ Poisoned(s, r) \in Records /\ record \in Records
      /\ Calm(record, Undrained(s)) /\ Calm(record, Poisoned(s, r)) /\ Calm(record, record)
  BY <1>2, UndrainedType, PoisonedType, PoisonCalm DEF Calm, ControllerType
<1>5. CASE SetProxy(s, r) \/ ForceReload(s, r)
  <2>1. record' = Poisoned(s, r) /\ registration' = registration /\ terminal' = terminal
    BY <1>5 DEF SetProxy, ForceReload
  <2> QED BY <2>1, <1>4 DEF Held, Registered, Calm
<1>6. CASE Drain(s, r)
  <2>1. \/ UNCHANGED controller
        \/ \E e \in Error : Finish(s, record, e, FALSE)
        \/ Finish(s, Undrained(s), "failed", TRUE)
    BY <1>6, <1>3 DEF Drain
  <2> QED BY <2>1, <1>2, <1>3, <1>4, ControllerHeld, FinishHeld
<1>7. CASE ForceReloadAgain(s, r)
  <2>1. \E e \in Error : Finish(s, Poisoned(s, r), e, FALSE) BY <1>7, <1>3 DEF ForceReloadAgain
  <2> QED BY <2>1, <1>2, <1>4, FinishHeld
<1>8. CASE DrainAll(s, r)
  <2>1. UNCHANGED controller \/ Settle(Undrained(s), registration, TRUE) BY <1>8 DEF DrainAll
  <2> QED BY <2>1, <1>2, <1>4, ControllerHeld, SettleHeld
<1> QED BY <1>1, <1>5, <1>6, <1>7, <1>8

\* The operation's own steps: each withdraws, quarantines or commits only
\* sessions that are not retired.
LEMMA OperationHeld == Types /\ Registered /\ Operation => Held
<1> SUFFICES ASSUME Types, Registered, Operation PROVE Held OBVIOUS
<1>0. ControllerType /\ WorkType /\ run \in Run BY DEF Types, WorkType
<1>1. \A f : Quarantine(f) => Held BY <1>0, QuarantineHeld
<1>2. \A T \in SUBSET Sessions : \A key, next : StartLanes(record, T, key, next) => Held
  BY <1>0, StartLanesHeld
<1>3. \A s \in Sessions : \A token : CancelEnrollment(s, token) => Held BY <1>0, CancelHeld
<1>4. \A m \in Transitions(record, Withdrawable(record), "updating", None) :
        Settle(m.rec, registration, m.dies) => Held
  BY <1>0, WithdrawHeld
<1>5. Active \in SUBSET Sessions BY ActiveSessions
<1>6. UNCHANGED controller => Held BY ControllerHeld
<1>7. CASE Reject BY <1>6, <1>7 DEF Reject
<1>8. CASE StartRebuild BY <1>2, <1>4, <1>5, <1>8 DEF StartRebuild
<1>9. CASE StartEnroll
  <2>1. Head(queue).session \in Sessions
    <3>1. queue # <<>> /\ queue \in Seq(Op) BY <1>9 DEF StartEnroll, Dequeue, Types, QueueType
    <3>2. Head(queue) \in Op BY <3>1
    <3> QED BY <3>2 DEF Op
  <2> QED BY <2>1, <1>2, <1>3, <1>6, <1>9 DEF StartEnroll
<1>10. CASE StartPause BY <1>4, <1>10 DEF StartPause
<1>11. ASSUME NEW r \in Outcome, PrepareGuard(r) PROVE Held BY <1>1, <1>6, <1>11 DEF PrepareGuard
<1>12. ASSUME NEW r \in Outcome, ServePac(r) PROVE Held BY <1>1, <1>2, <1>5, <1>12 DEF ServePac
<1>13. \A p, g : Publish(p, g) => Held BY <1>0, PublishHeld
<1>14. ASSUME NEW r \in Outcome, RetireResources(r) PROVE Held
  BY <1>1, <1>13, <1>14 DEF RetireResources
<1>15. CASE FinishApply BY <1>1, <1>6, <1>13, <1>15 DEF FinishApply
<1>16. CASE FinishQuarantine
  <2>1. run.fatal \in BOOLEAN BY <1>0 DEF Run
  <2> QED BY <2>1, <1>0, <1>16, TerminateHeld DEF FinishQuarantine
<1>17. CASE FinishEnroll
  <2>1. run.session \in Sessions BY <1>0 DEF Run
  <2> QED BY <2>1, <1>3, <1>6, <1>17 DEF FinishEnroll
<1>18. ASSUME NEW r \in Outcome, FinishPause(r) PROVE Held
  BY <1>0, <1>18, TerminateHeld DEF FinishPause
<1> QED BY <1>7, <1>8, <1>9, <1>10, <1>11, <1>12, <1>14, <1>15, <1>16, <1>17, <1>18 DEF Operation

\* Every step holds.
LEMMA NextHeld == Types /\ Registered /\ [Next]_vars => Held
<1>1. Registered /\ UNCHANGED vars => Held BY DEF vars, controller, Held, Registered
<1> QED BY <1>1, EnvironmentHeld, NativeHeld, OperationHeld DEF Next

\* Nothing is registered at the start.
LEMMA InitRegistered == Init => Registered
BY DEF Init, Registered

\* Short of a termination, a registered session is never a retired one.
THEOREM RegisteredAreLive == Spec => []Registered
<1>1. Held => Registered' BY DEF Held
<1> QED BY <1>1, InitTypes, NextTypes, InitRegistered, NextHeld, PTL DEF Spec

\* Retirement is permanent and so is the poison of a late or failed native
\* call: no completion that comes later lets such a session through again.
THEOREM RetirementPermanent == Spec => RetirementIsPermanent
<1>1. \A s : Barred(s) <=> Bar(record[s]) BY DEF Barred, Bar
<1>2. \A s : Barred(s)' <=> Bar(record'[s]) BY DEF Barred, Bar
<1>3. \A s : Bar(record'[s]) => ~Allowed(s)' BY DEF Bar, Allowed
<1>4. Held => \A s \in Sessions : Barred(s) => Barred(s)' /\ ~Allowed(s)'
  BY <1>1, <1>2, <1>3 DEF Held
<1>5. Types /\ Registered /\ [Next]_vars
        => [\A s \in Sessions : Barred(s) => Barred(s)' /\ ~Allowed(s)']_vars
  BY <1>4, NextHeld
<1>6. Spec => []Types BY InitTypes, NextTypes, PTL DEF Spec
<1> QED BY <1>5, <1>6, RegisteredAreLive, PTL DEF Spec, RetirementIsPermanent

-----------------------------------------------------------------------------
(***************************************************************************)
(* Proof that an allowed session routes by the intent in force and that    *)
(* the guard forwards by it, for every set of sessions and intents and     *)
(* every bound.                                                            *)
(*                                                                         *)
(* Neither is inductive by itself.  A session becomes ready long after its *)
(* routes were changed, so the invariant has to say what is true of a lane *)
(* half-way: it owns its record (Owned) as long as nothing has moved the   *)
(* record since the lane began, and only then do its routes lead where the *)
(* operation wants them.  A record that moves has a new generation, so its *)
(* lane owns it no longer, and the lane finds that out at its end.         *)
(***************************************************************************)

Working == {"setProxy", "reload", "drain", "reload2"}
Applying == run.phase \in {"apply", "retire"}

\* Nothing has moved the record of s since its lane began, and no call failed.
Owned(s) == lane[s].error = "none" /\ lane[s].generation = record[s].generation

\* Which lanes, policy and late prepare go with the phase of the operation.
PhasesFit ==
  /\ \A s \in Sessions : lane[s].pc \in Working => run.phase = "apply"
  /\ \A s \in Sessions : lane[s].pc = "quarantine" => run.phase \in {"quarantine", "pause"}
  /\ \A s \in Sessions : lane[s].pc # "off" => run.phase \notin {"idle", "prepare", "serve"}
  /\ policy # None => \/ run.phase \in {"idle", "pause"}
                      \/ run.phase = "apply" /\ (run.prepared \/ run.kind = "enroll")
  /\ run.kind = "enroll" => /\ run.phase = "apply"
                            /\ \A s \in Sessions : s # run.session => lane[s].pc = "off"
  /\ run.phase \in {"prepare", "serve", "retire"} => ~run.prepared
  /\ latePrepare # None => run.phase = "quarantine" /\ run.fatal

\* A prepared operation that is still current has its policy in force.
EpochsFit ==
  /\ run.epoch <= intentEpoch
  /\ run.phase = "apply" /\ run.kind = "rebuild" /\ run.prepared /\ run.epoch = intentEpoch
       => policy = run.target

\* Which records go with a lane that is working, done, failed or late.
LanesFit ==
  /\ record[Default].state # "retired"
  /\ \A s \in Sessions :
       /\ lane[s].generation <= record[s].generation
       /\ lane[s].pc \in {"setProxy", "reload", "reload2", "done"} => lane[s].error = "none"
       /\ lane[s].pc \in Working => record[s].state \notin {"unknown", "initial", "ready"}
       /\ Applying /\ lane[s].pc \in Working \cup {"done"}
            => s = Default \/ lane[s].registration # 0
       /\ record[s].poisoned => lane[s].pc = "drain" /\ lane[s].error = "timeout"
       /\ late[s] # None => record[s].poisoned

\* How far a lane that owns its record has come.
LanesReach ==
  \A s \in Sessions : Applying /\ Owned(s) =>
    /\ lane[s].pc \in {"reload", "drain", "reload2", "done"} => applied[s] = Key(run.target)
    /\ lane[s].pc \in {"reload2", "done"} => conns[s] = {Key(run.target)}
    /\ run.kind = "enroll" /\ lane[s].pc \in Working /\ registration[s] = lane[s].registration
         => policy = run.target

\* A session nothing has configured has its native routes; when it is the
\* default one, nothing has happened since the start.
FreshIsNative ==
  \A s \in Sessions : record[s].state \in {"unknown", "initial"} =>
    /\ applied[s] = "native" /\ conns[s] = {"native"}
    /\ record[s].state = "initial" => s = Default
    /\ s = Default => /\ intent = InitIntent
                      /\ run.phase = "idle" \/ (run.phase = "apply" /\ run.kind = "enroll")

\* A ready session has the key, the route and the connections of the intent.
ReadyIsCurrent ==
  \A s \in Sessions : record[s].state = "ready" =>
    /\ s \in Active /\ policy = intent /\ record[s].key = Key(intent)
    /\ applied[s] = Key(intent) /\ conns[s] = {Key(intent)}

\* The committed policy, and the one an operation applies, have their resources.
PolicyIsServed ==
  /\ policy # None =>
       /\ policy = intent /\ (policy \in Direct \/ pac = policy)
       /\ policy \in Guarded => guardUp /\ guardRoute = policy /\ guardConns \subseteq {policy}
  /\ guardAllowed => policy \in Guarded
  /\ Applying => run.target \in Direct \/ pac = run.target
  /\ \/ run.phase = "serve"
     \/ Applying /\ run.kind # "enroll" /\ ~run.prepared
     => (run.target \in Guarded => guardRoute = run.target /\ guardConns = {})

Alive == /\ PhasesFit /\ EpochsFit /\ LanesFit /\ LanesReach
         /\ FreshIsNative /\ ReadyIsCurrent /\ PolicyIsServed

\* The inductive invariant: nothing of this is claimed after a termination.
RoutesInv == ~terminal => Alive

-----------------------------------------------------------------------------
(* Handlers that do not terminate                                          *)

\* The records of S have moved on from R to R2, the others have not changed.
Shift(R, R2, S, st, key) ==
  \A s \in Sessions :
    IF s \in S THEN /\ R2[s].state = st /\ R2[s].key = key
                    /\ R2[s].generation = R[s].generation + 1
                    /\ R2[s].poisoned = R[s].poisoned
               ELSE R2[s] = R[s]

\* Every active session has lost its permission and its lane.
Withdrawn ==
  /\ registration' = registration
  /\ \A s \in Sessions :
       IF s \in Active THEN /\ record'[s].state \in {"updating", "quarantined"}
                            /\ record'[s].generation > record[s].generation
                            /\ record'[s].poisoned = record[s].poisoned
                       ELSE record'[s] = record[s]

\* A handler after which the process lives has left what it meant to leave.
LEMMA CleanSettle ==
  ASSUME NEW R, NEW G, NEW dies \in BOOLEAN, Settle(R, G, dies), ~terminal'
  PROVE  ~terminal /\ ~dies /\ record' = R /\ registration' = G
BY DEF Settle

\* Transitions that found no exhausted generation have moved all their records.
LEMMA Shifts ==
  ASSUME NEW R \in Records, NEW S \in SUBSET Sessions, NEW st \in States,
         NEW key \in Keys \cup {None}, NEW m \in Transitions(R, S, st, key), ~m.dies
  PROVE  Shift(R, m.rec, S, st, key)
<1> DEFINE moved == [s \in Sessions |-> IF s \in S THEN Move(R[s], st, key) ELSE R[s]]
<1>1. {s \in S : R[s].generation = MaxSafe} = {} BY DEF Transitions
<1>2. m = [rec |-> moved, dies |-> FALSE] BY <1>1 DEF Transitions
<1>3. m.rec = moved BY <1>2
<1>4. \A s \in Sessions : moved[s] = IF s \in S THEN Move(R[s], st, key) ELSE R[s] OBVIOUS
<1> HIDE DEF moved
<1>5. \A r : LET v == Move(r, st, key)
            IN  v.state = st /\ v.key = key /\ v.generation = r.generation + 1 /\ v.poisoned = r.poisoned
  BY DEF Move
<1> QED BY <1>3, <1>4, <1>5 DEF Shift

\* The two together, for a handler that moves the sessions of S once.
LEMMA CleanMove ==
  ASSUME NEW R \in Records, NEW S \in SUBSET Sessions, NEW st \in States,
         NEW key \in Keys \cup {None}, NEW m \in Transitions(R, S, st, key),
         NEW G, Settle(m.rec, G, m.dies), ~terminal'
  PROVE  /\ ~terminal /\ ~m.dies /\ record' = m.rec /\ registration' = G
         /\ Shift(R, record', S, st, key)
<1>1. m.dies \in BOOLEAN BY TransitionsType
<1>2. ~terminal /\ ~m.dies /\ record' = m.rec /\ registration' = G BY <1>1, CleanSettle
<1> QED BY <1>2, Shifts

\* While the process lives, every active session can be withdrawn.
LEMMA AllWithdrawable ==
  ASSUME Types, Registered, ~terminal, record[Default].state # "retired"
  PROVE  Withdrawable(record) = Active
BY SessionAssumption DEF Registered, Withdrawable, Active

\* withdrawAll() in a handler that does not terminate.
LEMMA WithdrawStep ==
  ASSUME Types, Registered, LanesFit,
         NEW m \in Transitions(record, Withdrawable(record), "updating", None),
         Settle(m.rec, registration, m.dies), ~terminal'
  PROVE  ~terminal /\ ~m.dies /\ Withdrawn
<1>1. record \in Records BY DEF Types, ControllerType
<1>2. /\ ~terminal /\ ~m.dies /\ registration' = registration
      /\ Shift(record, record', Withdrawable(record), "updating", None)
  BY <1>1, CleanMove, WithdrawableSessions DEF States
<1>3. Withdrawable(record) = Active BY <1>2, AllWithdrawable DEF LanesFit
<1>4. \A s \in Sessions : record[s].generation \in Nat
  BY <1>1, BoundAssumption DEF Records, Record
<1> QED BY <1>2, <1>3, <1>4 DEF Shift, Withdrawn

\* The catch block of recover(), when it does not terminate.
LEMMA QuarantineStep ==
  ASSUME Types, Registered, LanesFit, NEW fatal \in BOOLEAN, Quarantine(fatal), ~terminal'
  PROVE  /\ ~terminal /\ Withdrawn
         /\ policy' = None /\ guardAllowed' = FALSE
         /\ run' = [Idle EXCEPT !.phase = "quarantine", !.fatal = fatal]
         /\ \A s \in Sessions : lane'[s].pc \in {"off", "quarantine"} /\ lane'[s].generation = 0
<1>1. policy' = None /\ guardAllowed' = FALSE BY DEF Quarantine, GuardWithdrawn
<1>2. ~terminal BY DEF Quarantine, controller
<1> DEFINE next == [Idle EXCEPT !.phase = "quarantine", !.fatal = fatal]
           lanes == [s \in Sessions |-> IF s \in Active THEN Step(LaneOff, "quarantine", "none")
                                        ELSE LaneOff]
           after(m) == IF m.dies THEN {m}
                       ELSE Transitions(m.rec, Withdrawable(m.rec), "quarantined", None)
<1>3. PICK m \in Transitions(record, Withdrawable(record), "updating", None) : \E n \in after(m) :
        /\ Settle(n.rec, registration, n.dies)
        /\ IF n.dies THEN run' = Idle /\ LanesOff ELSE run' = next /\ lane' = lanes
  BY <1>2 DEF Quarantine
<1>4. PICK n \in after(m) :
        /\ Settle(n.rec, registration, n.dies)
        /\ IF n.dies THEN run' = Idle /\ LanesOff ELSE run' = next /\ lane' = lanes
  BY <1>3
<1>5. record \in Records BY DEF Types, ControllerType
<1>6. m.rec \in Records /\ m.dies \in BOOLEAN
  BY <1>5, TransitionsType, WithdrawableSessions DEF States
<1>7. n.dies \in BOOLEAN
  <2>1. n = m \/ n \in Transitions(m.rec, Withdrawable(m.rec), "quarantined", None) BY <1>4
  <2> QED BY <2>1, <1>6, TransitionsType, WithdrawableSessions DEF States
<1>8. ~n.dies /\ record' = n.rec /\ registration' = registration BY <1>4, <1>7, CleanSettle
<1>9. ~m.dies /\ n \in Transitions(m.rec, Withdrawable(m.rec), "quarantined", None)
  BY <1>4, <1>8
<1>10. Shift(record, m.rec, Withdrawable(record), "updating", None)
  BY <1>5, <1>9, Shifts, WithdrawableSessions DEF States
<1>11. Shift(m.rec, n.rec, Withdrawable(m.rec), "quarantined", None)
  BY <1>6, <1>8, <1>9, Shifts, WithdrawableSessions DEF States
<1>12. Withdrawable(record) = Active BY <1>2, AllWithdrawable DEF LanesFit
<1>13. Withdrawable(m.rec) = Active
  BY <1>10, <1>12, ActiveSessions DEF Withdrawable, Shift
<1>14. \A s \in Sessions : record[s].generation \in Nat /\ m.rec[s].generation \in Nat
  BY <1>5, <1>6, BoundAssumption DEF Records, Record
<1>15. Withdrawn BY <1>8, <1>10, <1>11, <1>12, <1>13, <1>14 DEF Shift, Withdrawn
<1>16. \A s \in Sessions : lanes[s].pc \in {"off", "quarantine"} /\ lanes[s].generation = 0
  BY DEF LaneOff, Step
<1> HIDE DEF lanes
<1> QED BY <1>1, <1>2, <1>4, <1>8, <1>15, <1>16

-----------------------------------------------------------------------------
(* The parts of the invariant under the handlers                           *)

\* The key of an intent, and what a PAC session fetches while one is applied.
LEMMA KeyFacts ==
  /\ None \notin Intents
  /\ \A i \in Intents : /\ Key(i) \notin {"native", "blocked", None}
                        /\ i \in Direct => Key(i) = "direct"
                        /\ i \notin Direct => Key(i) = i /\ Key(i) # "direct"
BY IntentAssumption DEF Key, None

\* A session that takes the configuration of the operation routes by its target.
LEMMA FetchTarget ==
  ASSUME run \in Run, PolicyIsServed, Applying PROVE Fetch(Key(run.target)) = Key(run.target)
<1>1. run.target \in Intents BY DEF Run
<1>2. run.target \in Direct \/ pac = run.target BY DEF PolicyIsServed
<1> QED BY <1>1, <1>2, KeyFacts DEF Fetch, Served

\* No record is poisoned while no lane drains after a call that was late.
LEMMA NoPoison ==
  ASSUME LanesFit, \A s \in Sessions : lane[s].pc # "drain"
  PROVE  \A s \in Sessions : ~record[s].poisoned /\ late[s] = None
BY DEF LanesFit

\* When every active session has been withdrawn, nothing is ready, and the
\* default session is no longer as it started.
LEMMA WithdrawnFits ==
  ASSUME FreshIsNative, ReadyIsCurrent, Withdrawn, UNCHANGED <<applied, conns>>
  PROVE  FreshIsNative' /\ ReadyIsCurrent'
<1>1. Default \in Active BY DEF Active
<1>2. \A s \in Sessions : record[s].state = "ready" => s \in Active BY DEF ReadyIsCurrent
<1>3. \A s \in Sessions : record'[s].state # "ready" BY <1>2 DEF Withdrawn
<1>4. ReadyIsCurrent' BY <1>3 DEF ReadyIsCurrent
<1>5. \A s \in Sessions : record'[s].state \in {"unknown", "initial"} =>
        s # Default /\ record'[s] = record[s]
  BY <1>1 DEF Withdrawn
<1>6. FreshIsNative' BY <1>5 DEF FreshIsNative
<1> QED BY <1>4, <1>6

\* The generations of records and lanes are numbers.
LEMMA GenerationType ==
  ASSUME Types
  PROVE  \A s \in Sessions : record[s].generation \in Nat /\ lane[s].generation \in Nat
BY BoundAssumption DEF Types, ControllerType, WorkType, Records, Record, Lanes, Lane

\* Withdrawing while an operation runs: the lanes own their records no longer.
LEMMA WithdrawnLanes ==
  ASSUME Types, Types', LanesFit, LanesReach, Withdrawn,
         UNCHANGED <<run, lane, applied, conns, late>>
  PROVE  LanesFit' /\ LanesReach'
<1>1. /\ Default \in Active /\ Default \in Sessions
      /\ \A s \in Sessions : s \in Active <=> s = Default \/ registration[s] # 0
  BY SessionAssumption DEF Active
<1>2. \A s \in Sessions : /\ record[s].generation \in Nat /\ lane[s].generation \in Nat
                          /\ record'[s].generation \in Nat
  BY GenerationType, BoundAssumption DEF Types, ControllerType, Records, Record
<1>3. \A s \in Sessions : lane[s].generation <= record[s].generation BY DEF LanesFit
<1>4. \A s \in Sessions : lane[s].generation <= record'[s].generation
  BY <1>2, <1>3 DEF Withdrawn
<1>5. \A s \in Active : lane[s].generation # record'[s].generation
  BY <1>2, <1>3, ActiveSessions DEF Withdrawn
<1>6. LanesFit'
  <2>1. record'[Default].state # "retired" BY <1>1 DEF Withdrawn
  <2> QED BY <2>1, <1>4 DEF LanesFit, Withdrawn, Applying
<1>7. LanesReach'
  <2>1. ASSUME NEW s \in Sessions, Applying, Owned(s)'
        PROVE  s \notin Active /\ Owned(s)
    BY <1>5, <2>1 DEF Owned, Withdrawn
  <2>2. ASSUME NEW s \in Sessions, Applying, Owned(s)', lane[s].pc \in Working,
               registration[s] = lane[s].registration
        PROVE  FALSE
    BY <1>1, <2>1, <2>2 DEF LanesFit
  <2>3. ASSUME NEW s \in Sessions, Applying', Owned(s)'
        PROVE  /\ lane'[s].pc \in {"reload", "drain", "reload2", "done"} => applied'[s] = Key(run'.target)
               /\ lane'[s].pc \in {"reload2", "done"} => conns'[s] = {Key(run'.target)}
    BY <2>1, <2>3 DEF LanesReach, Applying
  <2> QED BY <2>2, <2>3 DEF LanesReach, Applying, Withdrawn
<1> QED BY <1>6, <1>7

\* One session moves on: an enrollment, a retirement or a cancellation.
LEMMA OneMovedFits ==
  ASSUME FreshIsNative, ReadyIsCurrent, NEW s \in Sessions,
         NEW st \in {"enrolling", "retired", "quarantined"}, Shift(record, record', {s}, st, None),
         \A x \in Sessions \ {s} : registration'[x] = registration[x],
         UNCHANGED <<intent, policy, applied, conns>>, run' \in {run, Idle}
  PROVE  FreshIsNative' /\ ReadyIsCurrent'
<1>1. \A x \in Sessions : record'[x].state \in {"unknown", "initial", "ready"} =>
        x # s /\ record'[x] = record[x]
  BY DEF Shift
<1>2. \A x \in Sessions \ {s} : x \in Active => x \in Active' BY DEF Active
<1>3. FreshIsNative' BY <1>1 DEF FreshIsNative, Idle
<1>4. ReadyIsCurrent' BY <1>1, <1>2 DEF ReadyIsCurrent
<1> QED BY <1>3, <1>4

\* The lane of the session that moved owns its record no longer.
LEMMA OneMovedLanes ==
  ASSUME Types, Types', LanesFit, LanesReach, NEW s \in Sessions,
         NEW st \in {"enrolling", "retired", "quarantined"}, Shift(record, record', {s}, st, None),
         st = "retired" => s # Default,
         \A x \in Sessions \ {s} : registration'[x] = registration[x],
         UNCHANGED <<policy, run, lane, applied, conns, late>>
  PROVE  LanesFit' /\ LanesReach'
<1>1. /\ record'[s].state = st /\ record'[s].poisoned = record[s].poisoned
      /\ record'[s].generation = record[s].generation + 1
      /\ \A x \in Sessions : x # s => record'[x] = record[x]
  BY DEF Shift
<1>2. /\ lane[s].generation <= record'[s].generation
      /\ lane[s].generation # record'[s].generation
  <2>1. lane[s].generation <= record[s].generation BY DEF LanesFit
  <2> QED BY <2>1, <1>1, GenerationType
<1>3. LanesFit' BY <1>1, <1>2, SessionAssumption DEF LanesFit, Applying
<1>4. LanesReach'
  <2>1. ASSUME NEW x \in Sessions, Owned(x)' PROVE x # s /\ Owned(x)
    BY <1>1, <1>2, <2>1 DEF Owned
  <2> QED BY <2>1 DEF LanesReach, Applying
<1> QED BY <1>3, <1>4

\* An operation that ends, with all lanes off and nothing poisoned.
LEMMA IdleFits ==
  ASSUME Types, Types', run' = Idle, latePrepare' = None,
         \A s \in Sessions : /\ ~record'[s].poisoned /\ late'[s] = None
                             /\ lane'[s].pc = "off"
                             /\ lane'[s].generation <= record'[s].generation,
         record'[Default].state # "retired"
  PROVE  PhasesFit' /\ EpochsFit' /\ LanesFit' /\ LanesReach'
<1>1. run'.phase = "idle" /\ run'.kind = "rebuild" /\ run'.epoch = 0 BY DEF Idle
<1>2. intentEpoch' \in Nat BY BoundAssumption DEF Types, CoordinatorType
<1>3. PhasesFit' BY <1>1 DEF PhasesFit, Working
<1>4. EpochsFit' BY <1>1, <1>2 DEF EpochsFit
<1>5. LanesFit' BY <1>1 DEF LanesFit, Working
<1>6. LanesReach' BY <1>1 DEF LanesReach, Applying
<1> QED BY <1>3, <1>4, <1>5, <1>6

\* Lanes that are switched off are off.
LEMMA LanesOffFit ==
  ASSUME Types', LanesOff
  PROVE  \A s \in Sessions : lane'[s].pc = "off" /\ lane'[s].generation <= record'[s].generation
<1>1. \A s \in Sessions : record'[s].generation \in Nat
  BY BoundAssumption DEF Types, ControllerType, Records, Record
<1> QED BY <1>1 DEF LanesOff, LaneOff

\* The catch block of recover() keeps the invariant.
LEMMA QuarantineAlive ==
  ASSUME Types, Types', Registered, Alive, NEW fatal \in BOOLEAN, Quarantine(fatal), ~terminal',
         \A s \in Sessions : lane[s].pc # "drain", latePrepare' # None => fatal,
         UNCHANGED <<applied, conns, late>>
  PROVE  Alive'
<1> USE DEF Alive
<1>1. /\ ~terminal /\ Withdrawn /\ policy' = None /\ guardAllowed' = FALSE
      /\ run' = [Idle EXCEPT !.phase = "quarantine", !.fatal = fatal]
      /\ \A s \in Sessions : lane'[s].pc \in {"off", "quarantine"} /\ lane'[s].generation = 0
  BY QuarantineStep
<1>2. run'.phase = "quarantine" /\ run'.kind = "rebuild" /\ run'.epoch = 0 /\ run'.fatal = fatal
  BY <1>1 DEF Idle
<1>3. \A s \in Sessions : ~record'[s].poisoned /\ late'[s] = None BY <1>1, NoPoison DEF Withdrawn
<1>4. \A s \in Sessions : record'[s].generation \in Nat
  BY BoundAssumption DEF Types, ControllerType, Records, Record
<1>5. intentEpoch' \in Nat BY BoundAssumption DEF Types, CoordinatorType
<1>6. record'[Default].state # "retired" BY <1>1, SessionAssumption DEF Withdrawn, Active
<1>7. PhasesFit' BY <1>1, <1>2 DEF PhasesFit, Working
<1>8. EpochsFit' BY <1>2, <1>5 DEF EpochsFit
<1>9. LanesFit' BY <1>1, <1>2, <1>3, <1>4, <1>6 DEF LanesFit, Working, Applying
<1>10. LanesReach' BY <1>2 DEF LanesReach, Applying
<1>11. FreshIsNative' /\ ReadyIsCurrent' BY <1>1, WithdrawnFits
<1>12. PolicyIsServed' BY <1>1, <1>2 DEF PolicyIsServed, Applying
<1> QED BY <1>7, <1>8, <1>9, <1>10, <1>11, <1>12

-----------------------------------------------------------------------------
(* What the rest of the browser, Chromium and the operating system do      *)

\* A changed intent leaves a running operation alone, but its lanes own no record.
LEMMA IntentAlive ==
  ASSUME Types, Types', Registered, Alive, ~terminal, NEW i \in Intents, IntentChanged(i), ~terminal'
  PROVE  Alive'
<1> USE DEF Alive
<1>1. intentEpoch # MaxEpoch
  <2>1. Settle(record, registration, TRUE) => terminal' BY DEF Settle
  <2> QED BY <2>1 DEF IntentChanged
<1>2. /\ policy' = None /\ guardAllowed' = FALSE /\ intentEpoch' = intentEpoch + 1
      /\ UNCHANGED <<run, lane, pac, guardUp, guardRoute, guardConns, native>>
  BY <1>1 DEF IntentChanged, GuardWithdrawn
<1>3. Withdrawn BY <1>1, WithdrawStep DEF IntentChanged
<1>4. run.epoch \in Nat /\ intentEpoch \in Nat
  BY BoundAssumption DEF Types, CoordinatorType, WorkType, Run
<1>5. PhasesFit' BY <1>2 DEF PhasesFit, native
<1>6. EpochsFit' BY <1>2, <1>4 DEF EpochsFit
<1>7. LanesFit' /\ LanesReach' BY <1>2, <1>3, WithdrawnLanes DEF native
<1>8. FreshIsNative' /\ ReadyIsCurrent' BY <1>2, <1>3, WithdrawnFits DEF native
<1>9. PolicyIsServed' BY <1>2 DEF PolicyIsServed, Applying
<1> QED BY <1>5, <1>6, <1>7, <1>8, <1>9

\* A step that leaves everything but the queue alone.
LEMMA QuietAlive ==
  Alive /\ UNCHANGED <<controller, coordinator, run, lane, resources, native>> => Alive'
BY DEF Alive, PhasesFit, EpochsFit, LanesFit, LanesReach, FreshIsNative, ReadyIsCurrent,
       PolicyIsServed, Applying, Owned, Active, controller, coordinator, resources, native

\* The default session is adopted in its native state.
LEMMA AdoptAlive == Types /\ Types' /\ Alive /\ AdoptDefault => Alive'
<1> SUFFICES ASSUME Types, Types', Alive, AdoptDefault PROVE Alive' OBVIOUS
<1> USE DEF Alive
<1>1. record[Default] \in Record /\ DOMAIN record = Sessions /\ Default \in Sessions
  BY SessionAssumption DEF Types, ControllerType, Records
<1>2. /\ record[Default].state = "unknown"
      /\ record' = [record EXCEPT ![Default] = [record[Default] EXCEPT !.state = "initial"]]
      /\ UNCHANGED <<registration, coordinator, run, lane, resources, native>>
  BY <1>1 DEF AdoptDefault
<1>3. /\ \A s \in Sessions : s # Default => record'[s] = record[s]
      /\ record'[Default].state = "initial"
      /\ record'[Default].generation = record[Default].generation
      /\ record'[Default].poisoned = record[Default].poisoned
  BY <1>1, <1>2 DEF Record
<1> USE DEF coordinator, resources, native
<1>4. PhasesFit' BY <1>2 DEF PhasesFit
<1>5. EpochsFit' BY <1>2 DEF EpochsFit
<1>6. LanesFit' BY <1>2, <1>3 DEF LanesFit, Applying
<1>7. \A s \in Sessions : Owned(s)' => Owned(s) BY <1>2, <1>3 DEF Owned
<1>8. LanesReach' BY <1>2, <1>7 DEF LanesReach, Applying
<1>9. FreshIsNative' BY <1>2, <1>3 DEF FreshIsNative
<1>10. ReadyIsCurrent' BY <1>2, <1>3 DEF ReadyIsCurrent, Active
<1>11. PolicyIsServed' BY <1>2 DEF PolicyIsServed, Applying
<1> QED BY <1>4, <1>5, <1>6, <1>8, <1>9, <1>10, <1>11

\* A private window's session is registered, or retired again.
LEMMA OneMovedAlive ==
  ASSUME Types, Types', Alive, NEW s \in Sessions, s # Default, NEW st \in {"enrolling", "retired"},
         NEW m \in Transitions(record, {s}, st, None), NEW g,
         Settle(m.rec, [registration EXCEPT ![s] = g], m.dies), ~terminal',
         UNCHANGED <<coordinator, run, lane, resources, native>>
  PROVE  Alive'
<1> USE DEF Alive
<1>1. /\ Shift(record, record', {s}, st, None)
      /\ registration' = [registration EXCEPT ![s] = g]
  <2>1. record \in Records /\ st \in States /\ {s} \in SUBSET Sessions /\ None \in Keys \cup {None}
    BY DEF Types, ControllerType, States
  <2> DEFINE G == [registration EXCEPT ![s] = g]
  <2>2. Settle(m.rec, G, m.dies) OBVIOUS
  <2> HIDE DEF G
  <2>3. Shift(record, record', {s}, st, None) /\ registration' = G BY <2>1, <2>2, CleanMove
  <2> QED BY <2>3 DEF G
<1>2. \A x \in Sessions \ {s} : registration'[x] = registration[x]
  BY <1>1 DEF Types, ControllerType, Tokens
<1> USE DEF coordinator, resources, native
<1>3. PhasesFit' BY DEF PhasesFit
<1>4. EpochsFit' BY DEF EpochsFit
<1>5. LanesFit' /\ LanesReach' BY <1>1, <1>2, OneMovedLanes
<1>6. FreshIsNative' /\ ReadyIsCurrent' BY <1>1, <1>2, OneMovedFits
<1>7. PolicyIsServed' BY DEF PolicyIsServed, Applying
<1> QED BY <1>3, <1>4, <1>5, <1>6, <1>7

\* Chromium takes a changed PAC body: not for a session that is ready, fresh or
\* done, whose route is the body's already.
LEMMA RefetchAlive ==
  ASSUME Types, Alive, NEW s \in Sessions, RefetchPac(s) PROVE Alive'
<1> USE DEF Alive
<1>1. /\ applied[s] \notin {"native", "direct", Served}
      /\ UNCHANGED <<controller, coordinator, run, lane, resources, late, latePrepare>>
      /\ \A x \in Sessions : x # s => applied'[x] = applied[x] /\ conns'[x] = conns[x]
  BY DEF RefetchPac, RouteBy, Types, NativeType
<1>2. record[s].state \notin {"unknown", "initial", "ready"}
  <2>1. record[s].state # "ready"
    <3>1. SUFFICES ASSUME record[s].state = "ready" PROVE FALSE OBVIOUS
    <3>2. policy = intent /\ applied[s] = Key(intent) BY <3>1 DEF ReadyIsCurrent
    <3>3. intent \in Intents BY DEF Types, CoordinatorType
    <3>4. intent \in Direct \/ pac = intent BY <3>2, <3>3, KeyFacts DEF PolicyIsServed
    <3> QED BY <1>1, <3>2, <3>3, <3>4, KeyFacts DEF Served
  <2> QED BY <1>1, <2>1 DEF FreshIsNative
<1>3. Applying => applied[s] # Key(run.target)
  <2>1. run.target \in Intents BY DEF Types, WorkType, Run
  <2> QED BY <1>1, <2>1, KeyFacts DEF PolicyIsServed, Served
<1> USE DEF controller, coordinator, resources
<1>4. PhasesFit' BY <1>1 DEF PhasesFit
<1>5. EpochsFit' BY <1>1 DEF EpochsFit
<1>6. LanesFit' BY <1>1 DEF LanesFit, Applying
<1>7. LanesReach' BY <1>1, <1>3 DEF LanesReach, Applying, Owned
<1>8. FreshIsNative' BY <1>1, <1>2 DEF FreshIsNative
<1>9. ReadyIsCurrent' BY <1>1, <1>2 DEF ReadyIsCurrent, Active
<1>10. PolicyIsServed' BY <1>1 DEF PolicyIsServed, Applying
<1> QED BY <1>4, <1>5, <1>6, <1>7, <1>8, <1>9, <1>10

\* A setProxy that lands late does so in a poisoned session.
LEMMA LateSetProxyAlive ==
  ASSUME Types, Alive, NEW s \in Sessions, LateSetProxy(s) PROVE Alive'
<1> USE DEF Alive
<1>1. /\ late[s] # None
      /\ UNCHANGED <<controller, coordinator, run, lane, resources, latePrepare>>
      /\ \A x \in Sessions : x # s => applied'[x] = applied[x] /\ conns'[x] = conns[x] /\ late'[x] = late[x]
      /\ late'[s] = None
  BY DEF LateSetProxy, RouteBy, Types, NativeType
<1>2. /\ lane[s].pc = "drain" /\ lane[s].error = "timeout"
      /\ record[s].state \notin {"unknown", "initial", "ready"}
  BY <1>1 DEF LanesFit, Working
<1> USE DEF controller, coordinator, resources
<1>3. PhasesFit' BY <1>1 DEF PhasesFit
<1>4. EpochsFit' BY <1>1 DEF EpochsFit
<1>5. LanesFit' BY <1>1 DEF LanesFit, Applying
<1>6. LanesReach' BY <1>1, <1>2 DEF LanesReach, Applying, Owned
<1>7. FreshIsNative' BY <1>1, <1>2 DEF FreshIsNative
<1>8. ReadyIsCurrent' BY <1>1, <1>2 DEF ReadyIsCurrent, Active
<1>9. PolicyIsServed' BY <1>1 DEF PolicyIsServed, Applying
<1> QED BY <1>3, <1>4, <1>5, <1>6, <1>7, <1>8, <1>9

\* A prepare that lands late does so under a quarantine that will terminate.
LEMMA LatePrepareAlive == Types /\ Alive /\ LatePrepare => Alive'
<1> SUFFICES ASSUME Types, Alive, LatePrepare PROVE Alive' OBVIOUS
<1> USE DEF Alive
<1>1. /\ latePrepare # None /\ latePrepare' = None /\ guardAllowed' = guardAllowed
      /\ UNCHANGED <<controller, coordinator, run, lane, applied, conns, late>>
  BY DEF LatePrepare
<1>2. run.phase = "quarantine" BY <1>1 DEF PhasesFit
<1>3. policy = None BY <1>2 DEF PhasesFit
<1>4. ~guardAllowed BY <1>3, KeyFacts, IntentAssumption DEF PolicyIsServed
<1> USE DEF controller, coordinator
<1>5. PhasesFit' BY <1>1 DEF PhasesFit
<1>6. EpochsFit' BY <1>1 DEF EpochsFit
<1>7. LanesFit' BY <1>1 DEF LanesFit, Applying
<1>8. LanesReach' BY <1>1 DEF LanesReach, Applying, Owned
<1>9. FreshIsNative' BY <1>1 DEF FreshIsNative
<1>10. ReadyIsCurrent' BY <1>1 DEF ReadyIsCurrent, Active
<1>11. PolicyIsServed' BY <1>1, <1>2, <1>3, <1>4 DEF PolicyIsServed, Applying
<1> QED BY <1>5, <1>6, <1>7, <1>8, <1>9, <1>10, <1>11

\* All of it together.
LEMMA EnvironmentAlive ==
  ASSUME Types, Types', Registered, Alive, ~terminal, Environment, ~terminal' PROVE Alive'
<1>1. ASSUME NEW i \in Intents, SetIntent(i) \/ BeginCertificateUpdate(i) PROVE Alive'
  BY <1>1, IntentAlive, QuietAlive DEF SetIntent, BeginCertificateUpdate
<1>2. CASE Rebuild BY <1>2, QuietAlive DEF Rebuild
<1>3. CASE AdoptDefault BY <1>3, AdoptAlive
<1>4. ASSUME NEW s \in Sessions, Enroll(s) PROVE Alive'
  <2>1. CASE registration[s] # 0 BY <1>4, <2>1, QuietAlive DEF Enroll
  <2>2. CASE registration[s] = 0 BY <1>4, <2>2, OneMovedAlive DEF Enroll
  <2> QED BY <2>1, <2>2
<1>5. ASSUME NEW s \in Sessions, Unregister(s) PROVE Alive'
  BY <1>5, OneMovedAlive DEF Unregister
<1>6. ASSUME NEW s \in Sessions, RefetchPac(s) \/ LateSetProxy(s) PROVE Alive'
  BY <1>6, RefetchAlive, LateSetProxyAlive
<1>7. CASE LatePrepare BY <1>7, LatePrepareAlive
<1>8. CASE PacServerLost \/ GuardServerLost
  BY <1>8 DEF PacServerLost, GuardServerLost, Settle
<1> QED BY <1>1, <1>2, <1>3, <1>4, <1>5, <1>6, <1>7, <1>8 DEF Environment

-----------------------------------------------------------------------------
(* Native calls that end                                                   *)

\* The end of a lane, when it does not terminate: the lane failed, or it is done
\* and owns a record that nothing had moved.
LEMMA FinishStep ==
  ASSUME Types, NEW s \in Sessions, NEW error \in Error, Finish(s, record, error, FALSE), ~terminal'
  PROVE  /\ ~terminal /\ error # "timeout" /\ registration' = registration
         /\ \A x \in Sessions : x # s => record'[x] = record[x] /\ lane'[x] = lane[x]
         /\ record'[s].poisoned = record[s].poisoned
         /\ \/ /\ lane'[s] = Step(LaneOff, "failed", "none")
               /\ record'[s] = record[s] \/ record'[s].state = "quarantined"
            \/ /\ error = "none" /\ ~Superseded(s) /\ record[s].state # "retired"
               /\ lane'[s].pc = "done" /\ lane'[s].error = "none"
               /\ lane'[s].generation = record'[s].generation
               /\ lane'[s].registration = lane[s].registration
               /\ record'[s].state = IF run.kind = "enroll" THEN "ready" ELSE "configured"
               /\ run.kind = "enroll" => record'[s].key = Key(run.target)
<1> DEFINE fail == lane' = [lane EXCEPT ![s] = Step(LaneOff, "failed", "none")]
<1>1. record \in Records /\ {s} \in SUBSET Sessions /\ None \in Keys \cup {None}
      /\ {"quarantined", "configured", "ready"} \subseteq States
  BY DEF Types, ControllerType, States
<1>2. DOMAIN lane = Sessions /\ Key(run.target) \in Keys \cup {None}
  BY NoneKey DEF Types, WorkType, Lanes, Run
<1>3. CASE error # "none" \/ Superseded(s) \/ record[s].state = "retired"
  <2>1. fail BY <1>3 DEF Finish
  <2>2. CASE terminal \/ FALSE \/ error = "timeout" \/ record[s].state = "retired"
    <3>1. Settle(record, registration, FALSE \/ error = "timeout") BY <1>3, <2>2 DEF Finish
    <3>2. /\ ~terminal /\ error # "timeout" /\ record' = record /\ registration' = registration
      BY <3>1, CleanSettle
    <3> QED BY <3>2, <2>1, <1>2
  <2>3. CASE ~(terminal \/ FALSE \/ error = "timeout" \/ record[s].state = "retired")
    <3>1. PICK m \in Transitions(record, {s}, "quarantined", None) : Settle(m.rec, registration, m.dies)
      BY <1>3, <2>3 DEF Finish
    <3>2. Shift(record, record', {s}, "quarantined", None) /\ registration' = registration
      BY <3>1, <1>1, CleanMove
    <3> QED BY <3>2, <2>1, <2>3, <1>2 DEF Shift
  <2> QED BY <2>2, <2>3
<1>4. CASE ~(error # "none" \/ Superseded(s) \/ record[s].state = "retired")
  <2> DEFINE after(m) == IF m.dies \/ run.kind # "enroll" THEN {m}
                         ELSE Transitions(m.rec, {s}, "ready", Key(run.target))
             done(n) == [pc |-> "done", generation |-> n.rec[s].generation,
                        registration |-> lane[s].registration, error |-> "none"]
  <2>1. PICK m \in Transitions(record, {s}, "configured", None) : \E n \in after(m) :
          /\ Settle(n.rec, registration, n.dies)
          /\ IF n.dies THEN fail ELSE lane' = [lane EXCEPT ![s] = done(n)]
    BY <1>4 DEF Finish
  <2>2. PICK n \in after(m) :
          /\ Settle(n.rec, registration, n.dies)
          /\ IF n.dies THEN fail ELSE lane' = [lane EXCEPT ![s] = done(n)]
    BY <2>1
  <2>3. m.rec \in Records /\ m.dies \in BOOLEAN BY <1>1, TransitionsType
  <2>4. n = m \/ n \in Transitions(m.rec, {s}, "ready", Key(run.target)) BY <2>2
  <2>5. n.dies \in BOOLEAN
    <3>1. CASE n = m BY <3>1, <2>3
    <3>2. CASE n \in Transitions(m.rec, {s}, "ready", Key(run.target))
      BY <3>2, <2>3, <1>1, <1>2, TransitionsType
    <3> QED BY <2>4, <3>1, <3>2
  <2>6. ~terminal /\ ~n.dies /\ record' = n.rec /\ registration' = registration
    BY <2>2, <2>5, CleanSettle
  <2>7. /\ lane' = [lane EXCEPT ![s] = done(n)]
        /\ \A x \in Sessions : lane'[x] = IF x = s THEN done(n) ELSE lane[x]
    <3> HIDE DEF done
    <3> QED BY <2>2, <2>6, <1>2
  <2>8. /\ lane'[s].pc = "done" /\ lane'[s].error = "none"
        /\ lane'[s].generation = record'[s].generation
        /\ lane'[s].registration = lane[s].registration
    BY <2>6, <2>7
  <2>9. ~m.dies
    <3>1. CASE n = m BY <3>1, <2>6
    <3>2. CASE m.dies BY <3>2, <2>2, <2>6
    <3> QED BY <2>3, <3>2
  <2>10. Shift(record, m.rec, {s}, "configured", None) BY <2>9, <1>1, Shifts
  <2>11. CASE run.kind # "enroll"
    <3>1. n = m BY <2>2, <2>11
    <3>2. record' = m.rec BY <3>1, <2>6
    <3> QED BY <1>4, <2>6, <2>7, <2>8, <2>10, <2>11, <3>2 DEF Shift
  <2>12. CASE run.kind = "enroll"
    <3>1. n \in Transitions(m.rec, {s}, "ready", Key(run.target)) BY <2>2, <2>9, <2>12
    <3>2. Shift(m.rec, n.rec, {s}, "ready", Key(run.target))
      BY <3>1, <2>3, <2>6, <1>1, <1>2, Shifts
    <3> QED BY <1>4, <2>6, <2>7, <2>8, <2>10, <2>12, <3>2 DEF Shift
  <2> QED BY <2>11, <2>12
<1> QED BY <1>3, <1>4

\* A lane that ends keeps the invariant: the session it makes configured or
\* ready has been drained under the target's key.
LEMMA FinishAlive ==
  ASSUME Types, Types', Alive, NEW s \in Sessions, lane[s].pc \in {"drain", "reload2"},
         NEW error \in Error, Finish(s, record, error, FALSE), ~terminal',
         record[s].poisoned => error = "timeout",
         error = "none" => lane[s].pc = "reload2",
         error = "none" /\ ~Superseded(s)
           => applied'[s] = Key(run.target) /\ conns'[s] = {Key(run.target)},
         \A x \in Sessions : x # s => applied'[x] = applied[x] /\ conns'[x] = conns[x],
         UNCHANGED <<coordinator, run, resources, late, latePrepare>>
  PROVE  Alive'
<1> USE DEF Alive
<1>1. /\ ~terminal /\ error # "timeout" /\ registration' = registration
      /\ \A x \in Sessions : x # s => record'[x] = record[x] /\ lane'[x] = lane[x]
      /\ record'[s].poisoned = record[s].poisoned
  BY FinishStep
<1> DEFINE failed == /\ lane'[s].pc = "failed" /\ lane'[s].generation = 0
                     /\ record'[s] = record[s] \/ record'[s].state = "quarantined"
           ended == /\ error = "none" /\ ~Superseded(s)
                    /\ lane'[s].pc = "done" /\ lane'[s].error = "none"
                    /\ lane'[s].generation = record'[s].generation
                    /\ lane'[s].registration = lane[s].registration
                    /\ record'[s].state = IF run.kind = "enroll" THEN "ready" ELSE "configured"
                    /\ run.kind = "enroll" => record'[s].key = Key(run.target)
<1>2. failed \/ ended
  <2>1. Step(LaneOff, "failed", "none").pc = "failed" /\ Step(LaneOff, "failed", "none").generation = 0
    BY DEF Step, LaneOff
  <2> QED BY <2>1, FinishStep
<1>3. ~record'[s].poisoned /\ late[s] = None BY <1>1 DEF LanesFit
<1>4. /\ run.phase = "apply" /\ Applying
      /\ record[s].state \notin {"unknown", "initial", "ready"}
      /\ s = Default \/ lane[s].registration # 0
  BY DEF PhasesFit, LanesFit, Working, Applying
<1>5. record'[s].state \notin {"unknown", "initial"} BY <1>2, <1>4
<1>6. record'[s].generation \in Nat /\ lane'[s].generation <= record'[s].generation
  <2>1. record'[s].generation \in Nat
    BY BoundAssumption DEF Types, ControllerType, Records, Record
  <2> QED BY <2>1, <1>2
<1> USE DEF coordinator, resources
<1>7. PhasesFit' BY <1>1, <1>2, <1>4 DEF PhasesFit, Working
<1>8. EpochsFit' BY DEF EpochsFit
<1>9. LanesFit'
  <2>1. record'[Default].state # "retired" BY <1>1, <1>2, SessionAssumption DEF LanesFit
  <2>2. ASSUME NEW x \in Sessions
        PROVE  /\ lane'[x].generation <= record'[x].generation
               /\ lane'[x].pc \in {"setProxy", "reload", "reload2", "done"} => lane'[x].error = "none"
               /\ lane'[x].pc \in Working => record'[x].state \notin {"unknown", "initial", "ready"}
               /\ Applying' /\ lane'[x].pc \in Working \cup {"done"}
                    => x = Default \/ lane'[x].registration # 0
               /\ record'[x].poisoned => lane'[x].pc = "drain" /\ lane'[x].error = "timeout"
               /\ late'[x] # None => record'[x].poisoned
    <3>1. CASE x = s BY <3>1, <1>2, <1>3, <1>4, <1>6 DEF Working
    <3>2. CASE x # s BY <3>2, <1>1 DEF LanesFit, Applying
    <3> QED BY <3>1, <3>2
  <2> QED BY <2>1, <2>2 DEF LanesFit
<1>10. LanesReach'
  <2>1. \A x \in Sessions : x # s => (Owned(x)' <=> Owned(x)) BY <1>1 DEF Owned
  <2>2. lane'[s].pc \notin Working BY <1>2 DEF Working
  <2> QED BY <1>1, <1>2, <2>1, <2>2 DEF LanesReach, Applying
<1>11. FreshIsNative' BY <1>1, <1>5 DEF FreshIsNative
<1>12. ReadyIsCurrent'
  <2>1. ASSUME record'[s].state = "ready"
        PROVE  /\ s \in Active' /\ policy = intent /\ record'[s].key = Key(intent)
               /\ applied'[s] = Key(intent) /\ conns'[s] = {Key(intent)}
    <3>1. ended /\ run.kind = "enroll" BY <2>1, <1>2, <1>4
    <3>2. Owned(s) /\ registration[s] = lane[s].registration
      BY <3>1 DEF Superseded, Owned, LanesFit
    <3>3. policy = run.target BY <3>1, <3>2, <1>4 DEF LanesReach, Working
    <3>4. policy = intent
      <4>1. policy # None BY <3>3, KeyFacts DEF Types, WorkType, Run
      <4> QED BY <4>1 DEF PolicyIsServed
    <3>5. s \in Active' BY <3>2, <1>1, <1>4 DEF Active
    <3> QED BY <3>1, <3>3, <3>4, <3>5
  <2>2. \A x \in Sessions : x # s => (x \in Active' <=> x \in Active) BY <1>1 DEF Active
  <2> QED BY <1>1, <2>1, <2>2 DEF ReadyIsCurrent
<1>13. PolicyIsServed' BY DEF PolicyIsServed, Applying
<1> QED BY <1>7, <1>8, <1>9, <1>10, <1>11, <1>12, <1>13

\* A lane that goes on: if no call failed and nothing moved its record, the
\* session takes its routes from the target.
LEMMA StepAlive ==
  ASSUME Types, Types', Alive, NEW s \in Sessions, lane[s].pc \in {"setProxy", "reload", "drain"},
         NEW pc \in {"reload", "drain", "reload2"}, NEW e \in Error, NEW r,
         lane' = [lane EXCEPT ![s] = Step(@, pc, e)], record' = Poisoned(s, r),
         record'[s].poisoned => pc = "drain" /\ e = "timeout",
         pc # "drain" => e = "none", e = "none" => lane[s].error = "none",
         late'[s] # None => record'[s].poisoned,
         e = "none" /\ Owned(s) => /\ applied'[s] = Key(run.target)
                                   /\ pc = "reload2" => conns'[s] = {Key(run.target)},
         \A x \in Sessions : x # s => /\ applied'[x] = applied[x] /\ conns'[x] = conns[x]
                                      /\ late'[x] = late[x],
         UNCHANGED <<registration, coordinator, run, resources, latePrepare>>
  PROVE  Alive'
<1> USE DEF Alive
<1>1. /\ \A x \in Sessions : x # s => lane'[x] = lane[x]
      /\ lane'[s].pc = pc /\ lane'[s].error = e
      /\ lane'[s].generation = lane[s].generation /\ lane'[s].registration = lane[s].registration
  BY DEF Types, WorkType, Lanes, Step
<1>2. /\ \A x \in Sessions : x # s => record'[x] = record[x]
      /\ record'[s].state = record[s].state /\ record'[s].generation = record[s].generation
      /\ record'[s].key = record[s].key
  BY DEF Poisoned, Types, ControllerType, Records, Record
<1>3. /\ run.phase = "apply" /\ Applying
      /\ record[s].state \notin {"unknown", "initial", "ready"}
      /\ s = Default \/ lane[s].registration # 0
  BY DEF PhasesFit, LanesFit, Working, Applying
<1>4. Owned(s)' => Owned(s) /\ e = "none" BY <1>1, <1>2 DEF Owned
<1>5. \A x \in Sessions : x # s => (Owned(x)' <=> Owned(x)) BY <1>1, <1>2 DEF Owned
<1> USE DEF coordinator, resources
<1>6. PhasesFit' BY <1>1, <1>3 DEF PhasesFit, Working
<1>7. EpochsFit' BY DEF EpochsFit
<1>8. LanesFit'
  <2>1. record'[Default].state # "retired" BY <1>2, SessionAssumption DEF LanesFit
  <2>2. ASSUME NEW x \in Sessions
        PROVE  /\ lane'[x].generation <= record'[x].generation
               /\ lane'[x].pc \in {"setProxy", "reload", "reload2", "done"} => lane'[x].error = "none"
               /\ lane'[x].pc \in Working => record'[x].state \notin {"unknown", "initial", "ready"}
               /\ Applying' /\ lane'[x].pc \in Working \cup {"done"}
                    => x = Default \/ lane'[x].registration # 0
               /\ record'[x].poisoned => lane'[x].pc = "drain" /\ lane'[x].error = "timeout"
               /\ late'[x] # None => record'[x].poisoned
    <3>1. CASE x = s
      <4>1. lane[s].generation <= record[s].generation BY DEF LanesFit
      <4> QED BY <3>1, <4>1, <1>1, <1>2, <1>3
    <3>2. CASE x # s BY <3>2, <1>1, <1>2 DEF LanesFit, Applying
    <3> QED BY <3>1, <3>2
  <2> QED BY <2>1, <2>2 DEF LanesFit
<1>9. LanesReach'
  <2>1. ASSUME Owned(s)'
        PROVE  /\ applied'[s] = Key(run.target) /\ (pc = "reload2" => conns'[s] = {Key(run.target)})
               /\ run.kind = "enroll" /\ registration[s] = lane[s].registration => policy = run.target
    BY <2>1, <1>3, <1>4 DEF LanesReach, Working
  <2>2. pc # "done" OBVIOUS
  <2> QED BY <1>1, <1>2, <1>5, <2>1, <2>2 DEF LanesReach, Applying
<1>10. FreshIsNative' BY <1>2, <1>3 DEF FreshIsNative
<1>11. ReadyIsCurrent' BY <1>2, <1>3 DEF ReadyIsCurrent, Active
<1>12. PolicyIsServed' BY DEF PolicyIsServed, Applying
<1> QED BY <1>6, <1>7, <1>8, <1>9, <1>10, <1>11, <1>12

\* Every native call that ends without terminating keeps the invariant.
LEMMA NativeAlive ==
  ASSUME Types, Types', Alive, ~terminal, NEW s \in Sessions, NativeStep(s), ~terminal'
  PROVE  Alive'
<1> USE DEF Alive
<1>1. PICK r \in Outcome : \/ SetProxy(s, r) \/ ForceReload(s, r) \/ Drain(s, r)
                           \/ ForceReloadAgain(s, r) \/ DrainAll(s, r)
  BY DEF NativeStep
<1>2. /\ "none" \in Error /\ "failed" \in Error /\ (r # "ok" => r \in Error) /\ lane[s].error \in Error
      /\ r \in {"ok", "failed", "timeout"}
  BY DEF Error, Outcome, Types, WorkType, Lanes, Lane
<1>3. \A x \in Sessions : lane[x].pc \in Working => Applying BY DEF PhasesFit, Applying
<1>4. lane[s].pc \in Working /\ RouteBy(s, Fetch(Key(run.target))) =>
        /\ applied'[s] = Key(run.target) /\ conns'[s] = conns[s] \cup {Key(run.target)}
        /\ \A x \in Sessions : x # s => applied'[x] = applied[x] /\ conns'[x] = conns[x]
  BY <1>3, FetchTarget DEF RouteBy, Types, WorkType, NativeType
<1>5. record[s].poisoned => lane[s].pc = "drain" /\ lane[s].error = "timeout" BY DEF LanesFit
<1>6. Poisoned(s, r)[s].poisoned => r = "timeout" \/ record[s].poisoned BY DEF Poisoned
<1>7. r = "timeout" => Poisoned(s, r)[s].poisoned
  BY DEF Poisoned, Types, ControllerType, Records, Record
<1>8. CASE SetProxy(s, r)
  <2>1. lane[s].pc = "setProxy" /\ lane[s].error = "none" /\ ~record[s].poisoned /\ late[s] = None
    BY <1>8 DEF SetProxy, LanesFit
  <2>2. PICK pc \in {"reload", "drain"}, e \in Error :
          /\ lane' = [lane EXCEPT ![s] = Step(@, pc, e)]
          /\ pc = "reload" => e = "none" /\ r = "ok"
          /\ pc = "drain" => e # "none"
          /\ r # "ok" => pc = "drain" /\ e = r
    BY <1>8, <1>2 DEF SetProxy, Outcome
  <2>3. record' = Poisoned(s, r) BY <1>8 DEF SetProxy
  <2>4. /\ \A x \in Sessions : x # s => /\ applied'[x] = applied[x] /\ conns'[x] = conns[x]
                                        /\ late'[x] = late[x]
        /\ r = "ok" => applied'[s] = Key(run.target)
        /\ r # "timeout" => late'[s] = None
    BY <1>8, <1>4, <2>1 DEF SetProxy, Working, Types, NativeType
  <2>5. UNCHANGED <<registration, coordinator, run, resources, latePrepare>> BY <1>8 DEF SetProxy
  <2> QED BY <2>1, <2>2, <2>3, <2>4, <2>5, <1>6, <1>7, StepAlive
<1>9. CASE ForceReload(s, r)
  <2>1. lane[s].pc = "reload" /\ lane[s].error = "none" /\ ~record[s].poisoned /\ late[s] = None
    BY <1>9 DEF ForceReload, LanesFit
  <2>2. PICK e \in Error : /\ lane' = [lane EXCEPT ![s] = Step(@, "drain", e)]
                           /\ e = IF r = "ok" THEN "none" ELSE r
    BY <1>9, <1>2 DEF ForceReload
  <2>3. record' = Poisoned(s, r) BY <1>9 DEF ForceReload
  <2>4. /\ \A x \in Sessions : x # s => applied'[x] = applied[x] /\ conns'[x] = conns[x]
        /\ r = "ok" => applied'[s] = Key(run.target)
    BY <1>9, <1>4, <2>1 DEF ForceReload, Working
  <2>5. UNCHANGED <<registration, coordinator, run, resources, late, latePrepare>>
    BY <1>9 DEF ForceReload
  <2>6. r # "ok" => r # "none" BY <1>2
  <2> QED BY <2>1, <2>2, <2>3, <2>4, <2>5, <2>6, <1>6, <1>7, StepAlive
<1>10. CASE Drain(s, r)
  <2>1. lane[s].pc = "drain" /\ UNCHANGED <<queue, coordinator, run, resources, applied, late, latePrepare>>
    BY <1>10 DEF Drain
  <2>2. r = "ok"
    <3>1. SUFFICES ASSUME r # "ok" PROVE FALSE OBVIOUS
    <3>2. Finish(s, Undrained(s), "failed", TRUE) BY <1>10, <3>1 DEF Drain
    <3>3. Settle(Undrained(s), registration, TRUE) BY <3>2 DEF Finish
    <3> QED BY <3>3 DEF Settle
  <2>3. conns'[s] = {applied[s]} /\ \A x \in Sessions : x # s => conns'[x] = conns[x]
    BY <1>10, <2>2 DEF Drain, Types, NativeType
  <2>4. CASE lane[s].error = "none" /\ ~Superseded(s)
    <3>1. lane' = [lane EXCEPT ![s] = Step(@, "reload2", "none")] /\ UNCHANGED controller
      BY <1>10, <2>2, <2>4 DEF Drain
    <3>2. record' = Poisoned(s, "ok") /\ registration' = registration
      BY <3>1 DEF Poisoned, controller
    <3>3. Owned(s) => applied[s] = Key(run.target) BY <2>1, <1>3 DEF LanesReach, Working
    <3>4. ~record[s].poisoned /\ late[s] = None BY <2>4 DEF LanesFit
    <3>5. Poisoned(s, "ok")[s].poisoned = record[s].poisoned BY DEF Poisoned
    <3> QED BY <2>1, <2>3, <2>4, <3>1, <3>2, <3>3, <3>4, <3>5, <1>2, StepAlive
  <2>5. CASE ~(lane[s].error = "none" /\ ~Superseded(s))
    <3> DEFINE error == IF lane[s].error = "none" THEN "failed" ELSE lane[s].error
    <3>1. Finish(s, record, error, FALSE) BY <1>10, <2>2, <2>5 DEF Drain
    <3>2. error \in Error /\ error # "none" /\ (record[s].poisoned => error = "timeout") BY <1>2, <1>5
    <3> HIDE DEF error
    <3> QED BY <2>1, <2>3, <3>1, <3>2, FinishAlive
  <2> QED BY <2>4, <2>5
<1>11. CASE ForceReloadAgain(s, r)
  <2>1. /\ lane[s].pc = "reload2"
        /\ UNCHANGED <<queue, coordinator, run, resources, late, latePrepare>>
    BY <1>11 DEF ForceReloadAgain
  <2>2. Finish(s, Poisoned(s, r), IF r = "ok" THEN "none" ELSE r, FALSE)
    BY <1>11 DEF ForceReloadAgain
  <2>3. r # "timeout"
    <3>1. SUFFICES ASSUME r = "timeout" PROVE FALSE OBVIOUS
    <3>2. Finish(s, Poisoned(s, r), "timeout", FALSE) BY <2>2, <3>1
    <3>3. Settle(Poisoned(s, r), registration, TRUE) BY <3>2 DEF Finish
    <3> QED BY <3>3 DEF Settle
  <2> DEFINE error == IF r = "ok" THEN "none" ELSE r
  <2>4. Finish(s, record, error, FALSE) BY <2>2, <2>3 DEF Poisoned
  <2>5. error \in Error /\ (error = "none" => r = "ok") /\ ~record[s].poisoned
    BY <1>2, <1>5, <2>1
  <2>6. \A x \in Sessions : x # s => applied'[x] = applied[x] /\ conns'[x] = conns[x]
    BY <1>11, <1>4, <2>1 DEF ForceReloadAgain, Working
  <2>7. r = "ok" /\ ~Superseded(s) => applied'[s] = Key(run.target) /\ conns'[s] = {Key(run.target)}
    <3>1. SUFFICES ASSUME r = "ok", ~Superseded(s)
                   PROVE  applied'[s] = Key(run.target) /\ conns'[s] = {Key(run.target)}
      OBVIOUS
    <3>2. Owned(s) BY <3>1, <2>1 DEF Owned, Superseded, LanesFit
    <3>3. conns[s] = {Key(run.target)} BY <3>2, <2>1, <1>3 DEF LanesReach, Working
    <3> QED BY <1>11, <1>4, <2>1, <3>1, <3>3 DEF ForceReloadAgain, Working
  <2> HIDE DEF error
  <2> QED BY <2>1, <2>4, <2>5, <2>6, <2>7, FinishAlive
<1>12. CASE DrainAll(s, r)
  <2>1. /\ lane[s].pc = "quarantine"
        /\ UNCHANGED <<queue, coordinator, run, resources, applied, late, latePrepare>>
    BY <1>12 DEF DrainAll
  <2>2. r = "ok" BY <1>12 DEF DrainAll, Settle
  <2>3. /\ conns' = [conns EXCEPT ![s] = {applied[s]}]
        /\ lane' = [lane EXCEPT ![s] = Step(@, "done", "none")] /\ UNCHANGED controller
    BY <1>12, <2>2 DEF DrainAll
  <2>4. /\ \A x \in Sessions : x # s => lane'[x] = lane[x] /\ conns'[x] = conns[x]
        /\ lane'[s].pc = "done" /\ lane'[s].error = "none"
        /\ lane'[s].generation = lane[s].generation
        /\ conns'[s] = {applied[s]}
    BY <2>3 DEF Types, WorkType, Lanes, Step, NativeType
  <2>5. run.phase \in {"quarantine", "pause"} BY <2>1 DEF PhasesFit
  <2> USE DEF coordinator, resources, controller
  <2>6. PhasesFit' BY <2>1, <2>3, <2>4, <2>5 DEF PhasesFit, Working
  <2>7. EpochsFit' BY <2>1 DEF EpochsFit
  <2>8. LanesFit' BY <2>1, <2>3, <2>4, <2>5 DEF LanesFit, Applying, Working
  <2>9. LanesReach' BY <2>1, <2>5 DEF LanesReach, Applying
  <2>10. FreshIsNative' BY <2>1, <2>3, <2>4 DEF FreshIsNative
  <2>11. ReadyIsCurrent' BY <2>1, <2>3, <2>4 DEF ReadyIsCurrent, Active
  <2>12. PolicyIsServed' BY <2>1 DEF PolicyIsServed, Applying
  <2> QED BY <2>6, <2>7, <2>8, <2>9, <2>10, <2>11, <2>12
<1> QED BY <1>1, <1>8, <1>9, <1>10, <1>11, <1>12

-----------------------------------------------------------------------------
(* The steps of an operation                                               *)

\* The sessions of targets that do not have the policy's key yet.
Needed(targets, key) == {s \in targets : record[s].state # "ready" \/ record[s].key # key}

\* The synchronous start of applyTargets(), when it does not terminate and
\* nothing is poisoned: every session that needs the policy is withdrawn.
LEMMA StartLanesStep ==
  ASSUME Types, Registered, LanesFit, \A s \in Sessions : ~record[s].poisoned,
         NEW targets \in SUBSET Active, NEW key, NEW next,
         StartLanes(record, targets, key, next), ~terminal'
  PROVE  /\ ~terminal /\ run' = next /\ registration' = registration
         /\ Shift(record, record', Needed(targets, key), "updating", None)
         /\ \A s \in Sessions :
              IF s \in Needed(targets, key)
              THEN /\ lane'[s].pc = "setProxy" /\ lane'[s].error = "none"
                   /\ lane'[s].generation = record'[s].generation
                   /\ lane'[s].registration = registration[s]
              ELSE lane'[s] = LaneOff
<1> DEFINE needed == {s \in targets : record[s].state # "ready" \/ record[s].key # key}
           live == {s \in needed : ~record[s].poisoned /\ record[s].state # "retired"}
           L(m, s) == [pc |-> IF s \in live THEN "setProxy" ELSE "drain",
                       generation |-> m.rec[s].generation, registration |-> registration[s],
                       error |-> IF s \in live THEN "none" ELSE "failed"]
<1>1. PICK m \in Transitions(record, live, "updating", None) :
        /\ Settle(m.rec, registration, m.dies)
        /\ IF m.dies THEN LanesOff /\ run' = Idle
           ELSE /\ run' = next
                /\ lane' = [s \in Sessions |-> IF s \notin needed THEN LaneOff ELSE L(m, s)]
  BY DEF StartLanes
<1>2. record \in Records /\ live \in SUBSET Sessions BY ActiveSessions DEF Types, ControllerType
<1>3. /\ ~terminal /\ ~m.dies /\ record' = m.rec /\ registration' = registration
      /\ Shift(record, record', live, "updating", None)
  <2> HIDE DEF live
  <2> QED BY <1>1, <1>2, CleanMove DEF States
<1>4. \A s \in needed : record[s].state # "retired"
  BY <1>3, ActiveSessions DEF Active, Registered, LanesFit
<1>5. live = needed BY <1>4, ActiveSessions
<1>6. run' = next /\ lane' = [s \in Sessions |-> IF s \notin needed THEN LaneOff ELSE L(m, s)]
  BY <1>1, <1>3
<1>7. \A s \in needed : /\ L(m, s).pc = "setProxy" /\ L(m, s).error = "none"
                        /\ L(m, s).generation = m.rec[s].generation
                        /\ L(m, s).registration = registration[s]
  BY <1>5
<1>8. \A s \in Sessions : lane'[s] = IF s \notin needed THEN LaneOff ELSE L(m, s)
  <2> HIDE DEF L, needed
  <2> QED BY <1>6
<1>9. Needed(targets, key) = needed BY DEF Needed
<1> HIDE DEF L, live, needed
<1> QED BY <1>3, <1>5, <1>6, <1>7, <1>8, <1>9

\* ... and keeps the invariant, if the operation and its policy fit.
LEMMA StartLanesAlive ==
  ASSUME Types, Types', Registered, Alive, \A s \in Sessions : lane[s].pc # "drain",
         NEW targets \in SUBSET Active, NEW next \in Run, next.phase = "apply",
         StartLanes(record, targets, Key(next.target), next), ~terminal',
         IF next.kind = "enroll" THEN targets = {next.session} /\ policy' = next.target
                                 ELSE targets = Active,
         policy # None => policy' = policy,
         policy' # None => next.prepared \/ next.kind = "enroll",
         latePrepare' = None, UNCHANGED <<intent, applied, conns, late>>,
         EpochsFit', PolicyIsServed'
  PROVE  Alive'
<1> USE DEF Alive
<1> DEFINE key == Key(next.target)
           needed == Needed(targets, key)
<1>1. \A s \in Sessions : ~record[s].poisoned /\ late[s] = None BY NoPoison
<1>2. /\ ~terminal /\ run' = next /\ registration' = registration
      /\ Shift(record, record', needed, "updating", None)
      /\ \A s \in Sessions :
           IF s \in needed
           THEN /\ lane'[s].pc = "setProxy" /\ lane'[s].error = "none"
                /\ lane'[s].generation = record'[s].generation
                /\ lane'[s].registration = registration[s]
           ELSE lane'[s] = LaneOff
  <2> StartLanes(record, targets, key, next) OBVIOUS
  <2> HIDE DEF key
  <2> QED BY <1>1, StartLanesStep
<1>3. LaneOff.pc = "off" /\ LaneOff.generation = 0 /\ LaneOff.error = "none" BY DEF LaneOff
<1>4. \A s \in Sessions : record'[s].generation \in Nat
  BY BoundAssumption DEF Types, ControllerType, Records, Record
<1>5. /\ needed \subseteq targets /\ needed \subseteq Active
      /\ \A s \in targets : record[s].state # "ready" => s \in needed
  BY DEF Needed
<1> HIDE DEF needed
<1>6. \A s \in Sessions : /\ s \in needed => record'[s].state = "updating"
                          /\ s \notin needed => record'[s] = record[s]
                          /\ record'[s].poisoned = record[s].poisoned
  BY <1>2 DEF Shift
<1>7. PhasesFit' BY <1>2, <1>3, <1>5 DEF PhasesFit, Working
<1>8. LanesFit'
  <2>1. record'[Default].state # "retired" BY <1>6, SessionAssumption DEF LanesFit
  <2>2. ASSUME NEW s \in Sessions
        PROVE  /\ lane'[s].generation <= record'[s].generation
               /\ lane'[s].pc \in {"setProxy", "reload", "reload2", "done"} => lane'[s].error = "none"
               /\ lane'[s].pc \in Working => record'[s].state \notin {"unknown", "initial", "ready"}
               /\ Applying' /\ lane'[s].pc \in Working \cup {"done"}
                    => s = Default \/ lane'[s].registration # 0
               /\ record'[s].poisoned => lane'[s].pc = "drain" /\ lane'[s].error = "timeout"
               /\ late'[s] # None => record'[s].poisoned
    <3>1. CASE s \in needed BY <3>1, <1>1, <1>2, <1>4, <1>5, <1>6 DEF Active
    <3>2. CASE s \notin needed BY <3>2, <1>1, <1>2, <1>3, <1>4, <1>6 DEF Working
    <3> QED BY <3>1, <3>2
  <2> QED BY <2>1, <2>2 DEF LanesFit
<1>9. LanesReach' BY <1>2, <1>3 DEF LanesReach, Working
<1>10. FreshIsNative'
  <2>1. ASSUME NEW s \in Sessions, record'[s].state \in {"unknown", "initial"}
        PROVE  record'[s] = record[s] /\ s \notin needed
    BY <2>1, <1>6
  <2>2. ASSUME record'[Default].state \in {"unknown", "initial"} PROVE next.kind = "enroll"
    <3>1. Default \notin needed /\ record[Default].state # "ready" BY <2>1, <2>2, SessionAssumption
    <3>2. Default \notin targets BY <3>1, <1>5
    <3> QED BY <3>2 DEF Active
  <2> QED BY <1>2, <2>1, <2>2 DEF FreshIsNative
<1>11. ReadyIsCurrent'
  <2>1. ASSUME NEW s \in Sessions, record'[s].state = "ready"
        PROVE  record'[s] = record[s] /\ policy' = policy
    <3>1. record'[s] = record[s] BY <2>1, <1>6
    <3>2. policy = intent BY <2>1, <3>1 DEF ReadyIsCurrent
    <3> QED BY <3>1, <3>2, KeyFacts DEF Types, CoordinatorType
  <2> QED BY <1>2, <2>1 DEF ReadyIsCurrent, Active
<1> QED BY <1>7, <1>8, <1>9, <1>10, <1>11

\* cancelEnrollment() of a session that is not registered any more does nothing.
LEMMA CancelStep ==
  ASSUME Types, NEW s \in Sessions, NEW token, CancelEnrollment(s, token), ~terminal'
  PROVE  \/ UNCHANGED controller
         \/ /\ Shift(record, record', {s}, "quarantined", None)
            /\ \A x \in Sessions \ {s} : registration'[x] = registration[x]
<1>1. CASE ~IsRegistered(s, token) BY <1>1 DEF CancelEnrollment
<1>2. CASE IsRegistered(s, token)
  <2> DEFINE G == [registration EXCEPT ![s] = 0]
  <2>1. PICK m \in Transitions(record, {s}, "quarantined", None) : Settle(m.rec, G, m.dies)
    BY <1>2 DEF CancelEnrollment
  <2>2. \A x \in Sessions \ {s} : G[x] = registration[x] BY DEF Types, ControllerType, Tokens
  <2> HIDE DEF G
  <2>3. record \in Records /\ {s} \in SUBSET Sessions BY DEF Types, ControllerType
  <2>4. "quarantined" \in States /\ None \in Keys \cup {None} BY DEF States
  <2>5. Shift(record, record', {s}, "quarantined", None) /\ registration' = G
    BY <2>1, <2>3, <2>4, CleanMove
  <2> QED BY <2>2, <2>5
<1> QED BY <1>1, <1>2

\* Cancelling an enrollment at the end of its operation keeps the invariant.
LEMMA CancelAlive ==
  ASSUME Types, Types', Alive, NEW s \in Sessions, NEW token, ~terminal',
         CancelEnrollment(s, token) \/ UNCHANGED controller,
         \A x \in Sessions : lane[x].pc # "drain", latePrepare = None,
         run' = Idle, LanesOff \/ (run.phase = "idle" /\ lane' = lane),
         UNCHANGED <<coordinator, resources, native>>
  PROVE  Alive'
<1> USE DEF Alive, coordinator, resources, native
<1>1. \A x \in Sessions : ~record[x].poisoned /\ late[x] = None BY NoPoison
<1>2. \/ UNCHANGED controller
      \/ /\ Shift(record, record', {s}, "quarantined", None)
         /\ \A x \in Sessions \ {s} : registration'[x] = registration[x]
  BY CancelStep
<1>3. \A x \in Sessions : lane'[x].pc = "off" /\ lane'[x].generation <= record'[x].generation
  <2>1. CASE LanesOff BY <2>1, LanesOffFit
  <2>2. CASE run.phase = "idle" /\ lane' = lane
    <3>1. \A x \in Sessions : lane[x].pc = "off" /\ lane[x].generation <= record[x].generation
      BY <2>2 DEF PhasesFit, LanesFit
    <3>2. \A x \in Sessions : record'[x].generation \in {record[x].generation, record[x].generation + 1}
      BY <1>2 DEF Shift, controller
    <3> QED BY <2>2, <3>1, <3>2, GenerationType
  <2> QED BY <2>1, <2>2
<1>4. \A x \in Sessions : ~record'[x].poisoned BY <1>1, <1>2 DEF Shift, controller
<1>5. record'[Default].state # "retired"
  BY <1>2, SessionAssumption DEF Shift, LanesFit, controller
<1>6. PhasesFit' /\ EpochsFit' /\ LanesFit' /\ LanesReach' BY <1>1, <1>3, <1>4, <1>5, IdleFits
<1>7. FreshIsNative' /\ ReadyIsCurrent'
  <2>1. CASE Shift(record, record', {s}, "quarantined", None)
             /\ \A x \in Sessions \ {s} : registration'[x] = registration[x]
    BY <2>1, OneMovedFits
  <2>2. CASE UNCHANGED controller
    <3>1. FreshIsNative' BY <2>2 DEF FreshIsNative, controller, Idle
    <3>2. ReadyIsCurrent' BY <2>2 DEF ReadyIsCurrent, Active, controller
    <3> QED BY <3>1, <3>2
  <2> QED BY <1>2, <2>1, <2>2
<1>8. PolicyIsServed' BY DEF PolicyIsServed, Applying, Idle
<1> QED BY <1>6, <1>7, <1>8

\* commit() and publish, when neither it nor the quarantine terminates.
LEMMA PublishStep ==
  ASSUME Types, Registered, LanesFit, NEW pacBody, NEW guard, Publish(pacBody, guard), ~terminal'
  PROVE  \/ Quarantine(FALSE) /\ Withdrawn
         \/ /\ Current /\ Valid(run.target, pacBody, guard) /\ Committable
            /\ policy' = run.target /\ guardAllowed' = (run.target \in Guarded)
            /\ run' = Idle /\ LanesOff /\ registration' = registration
            /\ Shift(record, record', Tickets, "ready", Key(run.target))
<1> DEFINE ok == Current /\ Valid(run.target, pacBody, guard) /\ Committable
<1>1. CASE ~ok
  <2>1. Quarantine(FALSE) BY <1>1 DEF Publish
  <2> QED BY <2>1, QuarantineStep
<1>2. CASE ok
  <2>1. PICK m \in Transitions(record, Tickets, "ready", Key(run.target)) :
          /\ Settle(m.rec, registration, m.dies)
          /\ policy' = IF m.dies THEN None ELSE run.target
          /\ guardAllowed' = (~m.dies /\ run.target \in Guarded)
          /\ admitted' = (~m.dies /\ (run.target \in Guarded \/ admitted))
          /\ run' = Idle
          /\ LanesOff
    BY <1>2 DEF Publish
  <2>2. /\ record \in Records /\ Key(run.target) \in Keys \cup {None}
        /\ Tickets \in SUBSET Sessions /\ "ready" \in States
    BY NoneKey DEF Types, ControllerType, WorkType, Run, Tickets, States
  <2>3. /\ ~m.dies /\ registration' = registration
        /\ Shift(record, record', Tickets, "ready", Key(run.target))
    <3>1. Settle(m.rec, registration, m.dies) BY <2>1
    <3> QED BY <2>2, <3>1, CleanMove
  <2>4. policy' = run.target /\ guardAllowed' = (run.target \in Guarded) BY <2>1, <2>3
  <2> QED BY <1>2, <2>1, <2>3, <2>4
<1> QED BY <1>1, <1>2

\* commit() and publish, or the quarantine: what becomes ready has been
\* configured by this operation, under a policy that is still the intent's.
LEMMA PublishAlive ==
  ASSUME Types, Types', Registered, Alive, ~terminal',
         Publish(pac', guardUp'), guardConns' \subseteq guardConns \cup {guardRoute},
         Settled, latePrepare = None,
         run.phase = "retire" \/ (run.phase = "apply" /\ run.kind = "rebuild" /\ run.prepared),
         UNCHANGED <<intent, intentEpoch, guardRoute, native>>
  PROVE  Alive'
<1> USE DEF Alive, native
<1>1. /\ \A s \in Sessions : lane[s].pc # "drain"
      /\ \A s \in Sessions : ~record[s].poisoned /\ late[s] = None
  BY NoPoison DEF Settled
<1>2. CASE Quarantine(FALSE) BY <1>1, <1>2, QuarantineAlive
<1>3. CASE /\ Current /\ Valid(run.target, pac', guardUp') /\ Committable
           /\ policy' = run.target /\ guardAllowed' = (run.target \in Guarded)
           /\ run' = Idle /\ LanesOff /\ registration' = registration
           /\ Shift(record, record', Tickets, "ready", Key(run.target))
  <2>1. run.target \in Intents /\ intent = run.target BY <1>3 DEF Types, WorkType, Run, Current
  <2>2. \A s \in Sessions :
          /\ s \in Tickets => /\ record'[s].state = "ready" /\ record'[s].key = Key(run.target)
          /\ s \notin Tickets => record'[s] = record[s]
          /\ record'[s].poisoned = record[s].poisoned
    BY <1>3 DEF Shift
  <2>3. record'[Default].state # "retired" BY <2>2, SessionAssumption DEF LanesFit
  <2>4. PhasesFit' /\ EpochsFit' /\ LanesFit' /\ LanesReach'
    BY <1>1, <1>3, <2>2, <2>3, LanesOffFit, IdleFits
  <2>5. FreshIsNative' BY <1>3, <2>2 DEF FreshIsNative, Idle
  <2>6. ASSUME NEW s \in Tickets
        PROVE  s \in Active /\ applied[s] = Key(intent) /\ conns[s] = {Key(intent)}
    <3>1. lane[s].pc = "done" /\ ~Superseded(s) /\ s \in Sessions BY <1>3 DEF Committable, Tickets
    <3>2. Applying BY DEF Applying
    <3>3. Owned(s) BY <3>1 DEF Superseded, Owned, LanesFit
    <3>4. s = Default \/ registration[s] # 0 BY <3>1, <3>2 DEF Superseded, LanesFit
    <3> QED BY <2>1, <3>1, <3>2, <3>3, <3>4 DEF LanesReach, Active
  <2>7. ReadyIsCurrent'
    <3>1. ASSUME NEW s \in Sessions, record'[s].state = "ready"
          PROVE  /\ s \in Active /\ record'[s].key = Key(intent)
                 /\ applied[s] = Key(intent) /\ conns[s] = {Key(intent)}
      <4>1. CASE s \in Tickets BY <4>1, <2>1, <2>2, <2>6
      <4>2. CASE s \notin Tickets BY <3>1, <4>2, <2>2 DEF ReadyIsCurrent
      <4> QED BY <4>1, <4>2
    <3> QED BY <1>3, <2>1, <3>1 DEF ReadyIsCurrent, Active
  <2>8. ASSUME run.target \in Guarded
         PROVE  guardUp' /\ guardRoute = run.target /\ guardConns' \subseteq {run.target}
    <3>1. guardUp' /\ run.target \notin Direct
      BY <1>3, <2>8, IntentAssumption DEF Valid
    <3>2. guardRoute = run.target /\ guardConns \subseteq {run.target}
      <4>1. CASE run.phase = "retire"
        <5>1. ~run.prepared /\ Applying /\ run.kind # "enroll" BY <4>1 DEF PhasesFit, Applying
        <5> QED BY <5>1, <2>8 DEF PolicyIsServed
      <4>2. CASE run.phase = "apply" /\ run.kind = "rebuild" /\ run.prepared
        <5>1. policy = run.target BY <4>2, <1>3 DEF EpochsFit, Current
        <5>2. policy # None BY <5>1, <2>1, KeyFacts
        <5> QED BY <5>1, <5>2, <2>8 DEF PolicyIsServed
      <4> QED BY <4>1, <4>2
    <3> QED BY <3>1, <3>2
  <2>9. PolicyIsServed'
    <3>1. run.target \in Direct \/ pac' = run.target BY <1>3 DEF Valid
    <3>2. run'.phase = "idle" BY <1>3 DEF Idle
    <3> QED BY <1>3, <2>1, <2>8, <3>1, <3>2 DEF PolicyIsServed, Applying
  <2> QED BY <2>4, <2>5, <2>7, <2>9
<1> QED BY <1>2, <1>3, PublishStep

\* recover() leaves the queue: an operation whose policy is in force goes straight
\* to the sessions, any other withdraws them and prepares first.
LEMMA StartRebuildAlive ==
  ASSUME Types, Types', Registered, Alive, StartRebuild, ~terminal' PROVE Alive'
<1> USE DEF Alive, native
<1>1. /\ run.phase = "idle" /\ ~terminal
      /\ UNCHANGED <<intent, intentEpoch, pac, guardUp, guardRoute, guardConns, native>>
  BY DEF StartRebuild, Dequeue
<1>2. /\ \A s \in Sessions : lane[s].pc = "off"
      /\ \A s \in Sessions : ~record[s].poisoned /\ late[s] = None
      /\ latePrepare = None
  BY <1>1, NoPoison DEF PhasesFit
<1> DEFINE prepared == policy = intent /\ Valid(policy, pac, guardUp)
           next == [Idle EXCEPT !.phase = IF prepared THEN "apply" ELSE "prepare",
                      !.target = intent, !.epoch = intentEpoch, !.prepared = prepared]
<1>3. /\ next.phase = IF prepared THEN "apply" ELSE "prepare"
      /\ next.target = intent /\ next.epoch = intentEpoch
      /\ next.prepared = prepared /\ next.kind = "rebuild"
  BY DEF Idle
<1>4. next \in Run
  <2>1. prepared \in BOOLEAN BY DEF Valid
  <2> HIDE DEF prepared
  <2> QED BY <2>1, IdleType DEF Run, Types, CoordinatorType
<1>5. intentEpoch \in Nat BY BoundAssumption DEF Types, CoordinatorType
<1>6. CASE prepared
  <2>1. StartLanes(record, Active, Key(intent), next) /\ policy' = policy
        /\ UNCHANGED <<guardAllowed, admitted>>
    BY <1>6 DEF StartRebuild
  <2> HIDE DEF next
  <2>2. run' = next BY <2>1, <1>2, StartLanesStep
  <2>3. EpochsFit' BY <1>1, <1>3, <1>5, <1>6, <2>1, <2>2 DEF EpochsFit
  <2>4. intent \in Direct \/ pac = intent BY <1>6 DEF Valid
  <2>5. PolicyIsServed'
    <3>1. Applying' /\ run'.target = intent /\ run'.phase = "apply" /\ run'.prepared
      BY <1>3, <1>6, <2>2 DEF Applying
    <3> QED BY <1>1, <2>1, <2>4, <3>1 DEF PolicyIsServed
  <2> QED BY <1>1, <1>2, <1>3, <1>4, <1>6, <2>1, <2>3, <2>5, StartLanesAlive
<1>7. CASE ~prepared
  <2>1. PICK m \in Transitions(record, Withdrawable(record), "updating", None) :
          /\ Settle(m.rec, registration, m.dies)
          /\ run' = IF m.dies THEN Idle ELSE next
    BY <1>7 DEF StartRebuild
  <2>2. Withdrawn /\ ~m.dies BY <2>1, WithdrawStep
  <2>3. run' = next BY <2>1, <2>2
  <2>4. /\ run'.phase = "prepare" /\ run'.kind = "rebuild" /\ run'.epoch = intentEpoch
        /\ ~run'.prepared
    BY <1>3, <1>7, <2>3
  <2> HIDE DEF next, prepared
  <2>5. LanesOff /\ policy' = None /\ guardAllowed' = FALSE
    BY <1>7 DEF StartRebuild, prepared, GuardWithdrawn
  <2>6. \A s \in Sessions : /\ lane'[s].pc = "off" /\ lane'[s].generation <= record'[s].generation
                            /\ ~record'[s].poisoned
    BY <1>2, <2>2, <2>5, LanesOffFit DEF Withdrawn
  <2>7. record'[Default].state # "retired"
    BY <2>2, SessionAssumption DEF Withdrawn, Active
  <2>8. PhasesFit' BY <1>1, <1>2, <2>4, <2>5, <2>6 DEF PhasesFit, Working
  <2>9. EpochsFit' BY <1>1, <1>5, <2>4 DEF EpochsFit
  <2>10. LanesFit' BY <1>1, <1>2, <2>6, <2>7 DEF LanesFit, Working
  <2>11. LanesReach' BY <2>4 DEF LanesReach, Applying
  <2>12. FreshIsNative' /\ ReadyIsCurrent' BY <1>1, <2>2, WithdrawnFits
  <2>13. PolicyIsServed' BY <2>4, <2>5 DEF PolicyIsServed, Applying
  <2> QED BY <2>8, <2>9, <2>10, <2>11, <2>12, <2>13
<1> QED BY <1>6, <1>7

\* A certificate update leaves the queue: every session is withdrawn and drained.
LEMMA StartPauseAlive ==
  ASSUME Types, Types', Registered, Alive, StartPause, ~terminal' PROVE Alive'
<1> USE DEF Alive, native, coordinator
<1>1. /\ run.phase = "idle"
      /\ UNCHANGED <<coordinator, pac, guardUp, guardAllowed, guardRoute, guardConns, native>>
  BY DEF StartPause, Dequeue
<1>2. /\ \A s \in Sessions : lane[s].pc = "off"
      /\ \A s \in Sessions : ~record[s].poisoned /\ late[s] = None
      /\ latePrepare = None
  BY <1>1, NoPoison DEF PhasesFit
<1> DEFINE next == [Idle EXCEPT !.phase = "pause", !.kind = "pause"]
           lanes == [s \in Sessions |-> IF s \in Active THEN Step(LaneOff, "quarantine", "none")
                                        ELSE LaneOff]
<1>3. PICK m \in Transitions(record, Withdrawable(record), "updating", None) :
        /\ Settle(m.rec, registration, m.dies)
        /\ IF m.dies THEN run' = Idle /\ LanesOff ELSE run' = next /\ lane' = lanes
  BY DEF StartPause
<1>4. Withdrawn /\ ~m.dies BY <1>3, WithdrawStep
<1>5. run'.phase = "pause" /\ run'.kind = "pause" /\ run'.epoch = 0 BY <1>3, <1>4 DEF Idle
<1>6. \A s \in Sessions : lanes[s].pc \in {"off", "quarantine"} /\ lanes[s].generation = 0
  BY DEF LaneOff, Step
<1>7. lane' = lanes BY <1>3, <1>4
<1> HIDE DEF lanes
<1>8. \A s \in Sessions : record'[s].generation \in Nat
  BY BoundAssumption DEF Types, ControllerType, Records, Record
<1>9. \A s \in Sessions : ~record'[s].poisoned BY <1>2, <1>4 DEF Withdrawn
<1>10. record'[Default].state # "retired" BY <1>4, SessionAssumption DEF Withdrawn, Active
<1>11. PhasesFit' BY <1>1, <1>2, <1>5, <1>6, <1>7 DEF PhasesFit, Working
<1>12. EpochsFit'
  <2>1. intentEpoch' \in Nat BY BoundAssumption DEF Types, CoordinatorType
  <2> QED BY <1>5, <2>1 DEF EpochsFit
<1>13. LanesFit'
  BY <1>1, <1>2, <1>5, <1>6, <1>7, <1>8, <1>9, <1>10 DEF LanesFit, Working, Applying
<1>14. LanesReach' BY <1>5 DEF LanesReach, Applying
<1>15. FreshIsNative' /\ ReadyIsCurrent' BY <1>1, <1>4, WithdrawnFits
<1>16. PolicyIsServed' BY <1>1, <1>5 DEF PolicyIsServed, Applying
<1> QED BY <1>11, <1>12, <1>13, <1>14, <1>15, <1>16

\* The queued half of enroll(): it starts a lane, cancels, or finds nothing to do.
LEMMA StartEnrollAlive ==
  ASSUME Types, Types', Registered, Alive, StartEnroll, ~terminal' PROVE Alive'
<1> USE DEF Alive, native
<1> DEFINE op == Head(queue)
           startsDirect == policy = None /\ ~attempted /\ intent \in Direct /\ pac = None /\ ~guardUp
           chosen == IF startsDirect THEN intent ELSE policy
           next == [Idle EXCEPT !.phase = "apply", !.kind = "enroll", !.session = op.session,
                                !.token = op.token, !.target = chosen]
<1>1. /\ run.phase = "idle" /\ ~terminal
      /\ UNCHANGED <<intent, intentEpoch, attempted, resources, native>>
  BY DEF StartEnroll, Dequeue
<1>2. /\ \A s \in Sessions : lane[s].pc = "off"
      /\ \A s \in Sessions : ~record[s].poisoned /\ late[s] = None
      /\ latePrepare = None
  BY <1>1, NoPoison DEF PhasesFit
<1>3. op \in Op /\ op.session \in Sessions /\ op.token \in 0..MaxSafe
  <2>1. queue # <<>> /\ queue \in Seq(Op) BY DEF StartEnroll, Dequeue, Types, QueueType
  <2>2. op \in Op BY <2>1
  <2> QED BY <2>2 DEF Op
<1>4. CASE ~IsRegistered(op.session, op.token)
  <2>1. run' = Idle /\ UNCHANGED <<controller, policy, lane>> BY <1>4 DEF StartEnroll
  <2>2. UNCHANGED <<coordinator, resources, native>> BY <1>1, <2>1 DEF coordinator
  <2> QED BY <1>1, <1>2, <1>3, <2>1, <2>2, CancelAlive
<1>5. CASE IsRegistered(op.session, op.token) /\ chosen = intent /\ Valid(chosen, pac, guardUp)
  <2>1. StartLanes(record, {op.session}, Key(chosen), next) /\ policy' = chosen
    BY <1>5 DEF StartEnroll
  <2>2. chosen = intent /\ intent \in Intents /\ (intent \in Direct \/ pac = intent)
    BY <1>5 DEF Valid, Types, CoordinatorType
  <2>3. next.phase = "apply" /\ next.kind = "enroll" /\ next.session = op.session
        /\ next.target = chosen /\ next.epoch = 0
    BY DEF Idle
  <2>4. startsDirect => intent \in Direct /\ policy = None OBVIOUS
  <2>5. ~startsDirect => chosen = policy OBVIOUS
  <2> HIDE DEF startsDirect, chosen
  <2>6. next \in Run BY <1>3, <2>2, IdleType DEF Run
  <2> HIDE DEF op, next
  <2>7. {op.session} \in SUBSET Active BY <1>3, <1>5 DEF IsRegistered, Active
  <2>8. run' = next BY <1>2, <2>1, <2>7, StartLanesStep
  <2>9. EpochsFit'
    <3>1. intentEpoch' \in Nat BY BoundAssumption DEF Types, CoordinatorType
    <3> QED BY <2>3, <2>8, <3>1 DEF EpochsFit
  <2>10. policy # None => policy' = policy BY <2>1, <2>4, <2>5
  <2>11. PolicyIsServed'
    <3>1. run'.kind = "enroll" /\ run'.phase = "apply" /\ run'.target = intent
      BY <2>2, <2>3, <2>8
    <3>2. policy' = intent /\ intent # None BY <2>1, <2>2, KeyFacts
    <3>3. intent \in Guarded => guardUp /\ guardRoute = intent /\ guardConns \subseteq {intent}
      <4>1. CASE startsDirect BY <4>1, <2>4, IntentAssumption
      <4>2. CASE ~startsDirect BY <4>2, <2>2, <2>5, <3>2 DEF PolicyIsServed
      <4> QED BY <4>1, <4>2
    <3>4. guardAllowed => intent \in Guarded
      <4>1. CASE startsDirect BY <4>1, <2>4, KeyFacts, IntentAssumption DEF PolicyIsServed
      <4>2. CASE ~startsDirect BY <4>2, <2>2, <2>5 DEF PolicyIsServed
      <4> QED BY <4>1, <4>2
    <3> QED BY <1>1, <2>2, <3>1, <3>2, <3>3, <3>4 DEF PolicyIsServed, resources, Applying
  <2>12. StartLanes(record, {op.session}, Key(next.target), next) BY <2>1, <2>3
  <2>13. policy' = next.target /\ latePrepare' = None /\ UNCHANGED <<intent, applied, conns, late>>
    BY <1>1, <1>2, <2>1, <2>3
  <2> HIDE DEF native
  <2> QED BY <1>2, <2>3, <2>6, <2>7, <2>9, <2>10, <2>11, <2>12, <2>13, StartLanesAlive
<1>6. CASE IsRegistered(op.session, op.token) /\ ~(chosen = intent /\ Valid(chosen, pac, guardUp))
  <2>1. /\ run' = Idle /\ CancelEnrollment(op.session, op.token) /\ UNCHANGED lane
        /\ policy' = chosen
    BY <1>6 DEF StartEnroll
  <2>2. chosen = policy BY <1>6 DEF Valid
  <2>3. UNCHANGED <<coordinator, resources, native>> BY <1>1, <2>1, <2>2 DEF coordinator
  <2> HIDE DEF op, chosen
  <2> QED BY <1>1, <1>2, <1>3, <2>1, <2>3, CancelAlive
<1> QED BY <1>4, <1>5, <1>6

\* prepareProxyPolicy() points the drained guard at the target.
LEMMA PrepareGuardAlive ==
  ASSUME Types, Types', Registered, Alive, NEW r \in Outcome, PrepareGuard(r), ~terminal'
  PROVE  Alive'
<1> USE DEF Alive
<1>1. /\ run.phase = "prepare"
      /\ UNCHANGED <<queue, intent, intentEpoch, attempted, pac, applied, conns, late>>
  BY DEF PrepareGuard
<1>2. /\ \A s \in Sessions : lane[s].pc # "drain"
      /\ latePrepare = None /\ policy = None
  BY <1>1 DEF PhasesFit
<1>3. CASE Quarantine(FALSE) /\ latePrepare' = latePrepare BY <1>1, <1>2, <1>3, QuarantineAlive
<1>4. CASE Quarantine(TRUE) BY <1>1, <1>2, <1>4, QuarantineAlive
<1>5. CASE /\ guardConns' = {}
           /\ guardRoute' = IF run.target \in Guarded THEN run.target ELSE None
           /\ run' = [run EXCEPT !.phase = "serve"]
           /\ UNCHANGED <<controller, policy, lane, guardAllowed, admitted, latePrepare>>
  <2>1. /\ run'.phase = "serve" /\ run'.kind = run.kind /\ run'.target = run.target
        /\ run'.epoch = run.epoch /\ run'.prepared = run.prepared
    BY <1>5 DEF Types, WorkType, Run
  <2> USE DEF controller
  <2>2. PhasesFit' BY <1>1, <1>2, <1>5, <2>1 DEF PhasesFit
  <2>3. EpochsFit' BY <1>1, <1>5, <2>1 DEF EpochsFit
  <2>4. LanesFit' BY <1>1, <1>5, <2>1 DEF LanesFit, Applying
  <2>5. LanesReach' BY <2>1 DEF LanesReach, Applying
  <2>6. FreshIsNative' BY <1>1, <1>5 DEF FreshIsNative
  <2>7. ReadyIsCurrent' BY <1>1, <1>5 DEF ReadyIsCurrent, Active
  <2>8. ~guardAllowed BY <1>2, KeyFacts, IntentAssumption DEF PolicyIsServed
  <2>9. PolicyIsServed' BY <1>1, <1>2, <1>5, <2>1, <2>8 DEF PolicyIsServed, Applying
  <2> QED BY <2>2, <2>3, <2>4, <2>5, <2>6, <2>7, <2>9
<1> QED BY <1>3, <1>4, <1>5 DEF PrepareGuard

\* ... and the PAC server serves the target's body before any session is touched.
LEMMA ServePacAlive ==
  ASSUME Types, Types', Registered, Alive, NEW r \in Outcome, ServePac(r), ~terminal'
  PROVE  Alive'
<1> USE DEF Alive
<1>1. /\ run.phase = "serve"
      /\ UNCHANGED <<queue, intent, intentEpoch, attempted, guardUp, guardRoute, guardConns,
                     applied, conns, late>>
  BY DEF ServePac
<1>2. /\ \A s \in Sessions : lane[s].pc # "drain"
      /\ latePrepare = None /\ policy = None /\ run.kind # "enroll" /\ ~run.prepared
  BY <1>1 DEF PhasesFit
<1>3. CASE Quarantine(FALSE) /\ latePrepare' = latePrepare BY <1>1, <1>2, <1>3, QuarantineAlive
<1>4. CASE Quarantine(r = "timeout") /\ latePrepare' = IF r = "timeout" THEN run.target ELSE latePrepare
  <2>1. (r = "timeout") \in BOOLEAN OBVIOUS
  <2> QED BY <1>1, <1>2, <1>4, <2>1, QuarantineAlive
<1>5. CASE /\ StartLanes(record, Active, Key(run.target), [run EXCEPT !.phase = "apply"])
           /\ pac' = IF run.target \in Direct THEN pac ELSE run.target
           /\ UNCHANGED <<policy, guardAllowed, admitted, latePrepare>>
           /\ Current
  <2> DEFINE next == [run EXCEPT !.phase = "apply"]
  <2>1. /\ next \in Run /\ next.phase = "apply" /\ next.kind = run.kind /\ next.target = run.target
        /\ next.epoch = run.epoch /\ next.prepared = run.prepared
    BY DEF Types, WorkType, Run
  <2>2. StartLanes(record, Active, Key(run.target), next) BY <1>5
  <2> HIDE DEF next
  <2>3. \A s \in Sessions : ~record[s].poisoned BY <1>2, NoPoison
  <2>4. run' = next BY <2>2, <2>3, StartLanesStep
  <2>5. ~guardAllowed BY <1>2, KeyFacts, IntentAssumption DEF PolicyIsServed
  <2>6. EpochsFit' BY <1>1, <1>2, <2>1, <2>4 DEF EpochsFit
  <2>7. PolicyIsServed' BY <1>1, <1>2, <1>5, <2>1, <2>4, <2>5 DEF PolicyIsServed
  <2>8. StartLanes(record, Active, Key(next.target), next) BY <2>1, <2>2
  <2>9. /\ next.kind # "enroll" /\ policy' = None /\ latePrepare' = None
        /\ UNCHANGED <<intent, applied, conns, late>>
    BY <1>1, <1>2, <1>5, <2>1
  <2> QED BY <1>2, <2>1, <2>6, <2>7, <2>8, <2>9, StartLanesAlive
<1> QED BY <1>3, <1>4, <1>5 DEF ServePac

\* The sessions are configured: commit, or retire what the policy does not need.
LEMMA FinishApplyAlive ==
  ASSUME Types, Types', Registered, Alive, FinishApply, ~terminal' PROVE Alive'
<1> USE DEF Alive, native
<1>1. /\ run.phase = "apply" /\ run.kind = "rebuild" /\ Settled
      /\ UNCHANGED <<queue, intent, intentEpoch, attempted, pac, guardUp, guardRoute, native>>
  BY DEF FinishApply
<1>2. /\ \A s \in Sessions : lane[s].pc # "drain" /\ lane[s].pc \notin Working
      /\ latePrepare = None
  BY <1>1 DEF PhasesFit, Settled, Working
<1>3. CASE Quarantine(FALSE) BY <1>1, <1>2, <1>3, QuarantineAlive
<1>4. CASE run.prepared /\ Publish(pac, guardUp) /\ Forwarding(guardConns)
  <2>1. Publish(pac', guardUp')
    <3>1. pac' = pac /\ guardUp' = guardUp BY <1>1
    <3> QED BY <1>4, <3>1
  <2>2. guardConns' \subseteq guardConns \cup {guardRoute} BY <1>4 DEF Forwarding
  <2> HIDE DEF native
  <2> QED BY <1>1, <1>2, <1>4, <2>1, <2>2, PublishAlive
<1>5. CASE /\ ~run.prepared /\ run' = [run EXCEPT !.phase = "retire"]
           /\ UNCHANGED <<controller, policy, lane, guardAllowed, admitted, guardConns>>
  <2>1. /\ run'.phase = "retire" /\ run'.kind = run.kind /\ run'.target = run.target
        /\ run'.epoch = run.epoch /\ run'.prepared = run.prepared
    BY <1>5 DEF Types, WorkType, Run
  <2> USE DEF controller
  <2>2. PhasesFit' BY <1>1, <1>2, <1>5, <2>1 DEF PhasesFit
  <2>3. EpochsFit' BY <1>1, <1>5, <2>1 DEF EpochsFit
  <2>4. LanesFit' BY <1>1, <1>5, <2>1 DEF LanesFit, Applying
  <2>5. LanesReach' BY <1>1, <1>5, <2>1 DEF LanesReach, Applying, Owned
  <2>6. FreshIsNative' BY <1>1, <1>5 DEF FreshIsNative
  <2>7. ReadyIsCurrent' BY <1>1, <1>5 DEF ReadyIsCurrent, Active
  <2>8. PolicyIsServed' BY <1>1, <1>5, <2>1 DEF PolicyIsServed, Applying
  <2> QED BY <2>2, <2>3, <2>4, <2>5, <2>6, <2>7, <2>8
<1> QED BY <1>3, <1>4, <1>5 DEF FinishApply

\* Servers stop only when the policy that is then published needs none of them.
LEMMA RetireAlive ==
  ASSUME Types, Types', Registered, Alive, NEW r \in Outcome, RetireResources(r), ~terminal'
  PROVE  Alive'
<1> USE DEF Alive, native
<1>1. /\ run.phase = "retire"
      /\ UNCHANGED <<queue, intent, intentEpoch, attempted, guardRoute, native>>
  BY DEF RetireResources
<1>2. /\ \A s \in Sessions : lane[s].pc # "drain" /\ lane[s].pc \notin Working
      /\ \A s \in Sessions : lane[s].pc # "quarantine"
      /\ latePrepare = None
  BY <1>1 DEF PhasesFit, Working
<1>3. Settled
  <2>1. \A s \in Sessions : lane[s].pc \in Working \cup {"off", "quarantine", "done", "failed"}
    BY DEF Types, WorkType, Lanes, Lane, Working
  <2> QED BY <1>2, <2>1 DEF Settled
<1>4. CASE r = "ok"
  <2>1. Publish(pac', guardUp') BY <1>4 DEF RetireResources
  <2>2. guardConns' \subseteq guardConns \cup {guardRoute} BY <1>4 DEF RetireResources, Forwarding
  <2>3. UNCHANGED <<intent, intentEpoch, guardRoute, native>> BY <1>1
  <2> HIDE DEF native
  <2> QED BY <1>1, <1>2, <1>3, <2>1, <2>2, <2>3, PublishAlive
<1>5. CASE r # "ok"
  <2> DEFINE fatal == r = "timeout"
  <2>1. Quarantine(fatal) BY <1>5 DEF RetireResources
  <2>2. fatal \in BOOLEAN OBVIOUS
  <2>3. latePrepare' = None /\ UNCHANGED <<applied, conns, late>> BY <1>1, <1>2
  <2> HIDE DEF native
  <2>4. \A s \in Sessions : lane[s].pc # "drain" BY <1>2
  <2> HIDE DEF fatal
  <2> QED BY <2>1, <2>2, <2>3, <2>4, QuarantineAlive
<1> QED BY <1>4, <1>5

\* A quarantine that can be recovered from, and a certificate update, are over.
LEMMA FinishDrainAlive ==
  ASSUME Types, Types', Alive, FinishQuarantine \/ \E r \in Outcome : FinishPause(r), ~terminal'
  PROVE  Alive'
<1> USE DEF Alive, native, coordinator, resources
<1> DEFINE quiet == /\ run' = Idle /\ LanesOff /\ Settled /\ UNCHANGED <<record, registration>>
                    /\ UNCHANGED <<coordinator, native, pac, guardUp, guardAllowed, guardRoute>>
                    /\ latePrepare = None /\ guardConns' \subseteq guardConns
<1>1. quiet
  <2>1. CASE FinishQuarantine
    <3>1. Settle(record, registration, run.fatal) /\ run.fatal \in BOOLEAN
      BY <2>1 DEF FinishQuarantine, Types, WorkType, Run
    <3>2. ~run.fatal /\ UNCHANGED <<record, registration>> BY <3>1, CleanSettle
    <3>3. latePrepare = None BY <3>2 DEF PhasesFit
    <3> QED BY <2>1, <3>2, <3>3 DEF FinishQuarantine
  <2>2. ASSUME NEW r \in Outcome, FinishPause(r) PROVE quiet
    <3>1. Settle(record, registration, r # "ok") /\ (r # "ok") \in BOOLEAN
      BY <2>2 DEF FinishPause
    <3> DEFINE failed == r # "ok"
    <3>2. ~failed /\ UNCHANGED <<record, registration>>
      <4>1. Settle(record, registration, failed) /\ failed \in BOOLEAN BY <3>1
      <4> HIDE DEF failed
      <4> QED BY <4>1, CleanSettle
    <3>3. latePrepare = None BY <2>2 DEF PhasesFit, FinishPause
    <3> QED BY <2>2, <3>2, <3>3 DEF FinishPause
  <2> QED BY <2>1, <2>2
<1>2. \A s \in Sessions : ~record[s].poisoned /\ late[s] = None BY <1>1, NoPoison DEF Settled
<1>3. PhasesFit' /\ EpochsFit' /\ LanesFit' /\ LanesReach'
  <2>1. record'[Default].state # "retired" BY <1>1 DEF LanesFit
  <2> QED BY <1>1, <1>2, <2>1, LanesOffFit, IdleFits
<1>4. FreshIsNative' BY <1>1 DEF FreshIsNative, Idle
<1>5. ReadyIsCurrent' BY <1>1 DEF ReadyIsCurrent, Active
<1>6. PolicyIsServed' BY <1>1 DEF PolicyIsServed, Applying, Idle
<1> QED BY <1>3, <1>4, <1>5, <1>6

\* Every step of an operation.
LEMMA OperationAlive ==
  ASSUME Types, Types', Registered, Alive, ~terminal, Operation, ~terminal' PROVE Alive'
<1>1. CASE Reject BY <1>1 DEF Reject
<1>2. CASE FinishEnroll
  <2>1. /\ run.phase = "apply" /\ Settled /\ run.session \in Sessions
        /\ run' = Idle /\ LanesOff /\ UNCHANGED <<coordinator, resources, native>>
        /\ CancelEnrollment(run.session, run.token) \/ UNCHANGED controller
    BY <1>2 DEF FinishEnroll, Types, WorkType, Run
  <2>2. /\ \A s \in Sessions : lane[s].pc # "drain"
        /\ latePrepare = None
    BY <2>1 DEF Settled, Alive, PhasesFit
  <2> QED BY <2>1, <2>2, CancelAlive
<1>3. CASE FinishQuarantine \/ \E r \in Outcome : FinishPause(r) BY <1>3, FinishDrainAlive
<1> QED BY <1>1, <1>2, <1>3, StartRebuildAlive, StartEnrollAlive, StartPauseAlive, PrepareGuardAlive,
        ServePacAlive, FinishApplyAlive, RetireAlive DEF Operation

\* The start, every step and every stutter.
LEMMA InitAlive == Init => RoutesInv
<1> SUFFICES ASSUME Init PROVE Alive
  BY DEF RoutesInv
<1>1. /\ run.phase = "idle" /\ run.kind = "rebuild" /\ run.epoch = 0 /\ intentEpoch = 0
      /\ intent = InitIntent /\ policy = None /\ latePrepare = None /\ guardAllowed = FALSE
      /\ \A s \in Sessions : /\ lane[s] = LaneOff /\ late[s] = None
                             /\ record[s].state = "unknown" /\ record[s].generation = 0
                             /\ ~record[s].poisoned
                             /\ applied[s] = "native" /\ conns[s] = {"native"}
  BY DEF Init, Idle
<1>2. LaneOff.pc = "off" /\ LaneOff.generation = 0 /\ LaneOff.error = "none" BY DEF LaneOff
<1> QED BY <1>1, <1>2, SessionAssumption DEF Alive, PhasesFit, EpochsFit, LanesFit, LanesReach,
      FreshIsNative, ReadyIsCurrent, PolicyIsServed, Working, Applying

\* A termination is final.
LEMMA TerminationIsFinal == terminal /\ [Next]_vars => terminal'
<1> SUFFICES ASSUME terminal, [Next]_vars PROVE terminal' OBVIOUS
<1>1. \A R, G, d : Settle(R, G, d) => terminal' BY DEF Settle
<1>2. UNCHANGED controller => terminal' BY DEF controller
<1>3. UNCHANGED terminal => terminal' OBVIOUS
<1>4. CASE UNCHANGED vars BY <1>2, <1>4 DEF vars
<1>5. ASSUME NEW s \in Sessions, NativeStep(s) PROVE terminal'
  <2>1. \A R, e, d : Finish(s, R, e, d) => terminal' BY <1>1 DEF Finish
  <2> QED BY <1>1, <1>2, <1>3, <1>5, <2>1
        DEF NativeStep, SetProxy, ForceReload, Drain, ForceReloadAgain, DrainAll
<1>6. CASE Operation
  <2>1. \A f : Quarantine(f) => terminal' BY <1>2 DEF Quarantine
  <2>2. \A T, key, next : StartLanes(record, T, key, next) => terminal' BY <1>1 DEF StartLanes
  <2>3. \A p, g : Publish(p, g) => terminal' BY <1>1, <2>1 DEF Publish
  <2>4. \A s, token : CancelEnrollment(s, token) => terminal' BY <1>1, <1>2 DEF CancelEnrollment
  <2>5. CASE Reject \/ FinishQuarantine \/ FinishEnroll \/ \E r \in Outcome : FinishPause(r)
    BY <1>1, <1>2, <2>4, <2>5 DEF Reject, FinishQuarantine, FinishEnroll, FinishPause
  <2>6. CASE StartRebuild \/ StartEnroll \/ StartPause
    BY <2>6 DEF StartRebuild, StartEnroll, StartPause, Dequeue
  <2>7. CASE FinishApply \/ \E r \in Outcome : PrepareGuard(r) \/ ServePac(r) \/ RetireResources(r)
    BY <1>2, <2>1, <2>2, <2>3, <2>7 DEF FinishApply, PrepareGuard, ServePac, RetireResources
  <2> QED BY <1>6, <2>5, <2>6, <2>7 DEF Operation
<1>7. ~Environment BY DEF Environment
<1> QED BY <1>4, <1>5, <1>6, <1>7 DEF Next

\* Every step and every stutter keeps the invariant.
LEMMA NextAlive == Types /\ Types' /\ Registered /\ RoutesInv /\ [Next]_vars => RoutesInv'
<1> SUFFICES ASSUME Types, Types', Registered, RoutesInv, [Next]_vars, ~terminal' PROVE Alive'
  BY DEF RoutesInv
<1>1. ~terminal BY TerminationIsFinal
<1>2. Alive BY <1>1 DEF RoutesInv
<1>3. CASE UNCHANGED vars
  BY <1>2, <1>3, QuietAlive DEF vars, controller, coordinator, resources, native
<1>4. CASE Next
  BY <1>1, <1>2, <1>4, EnvironmentAlive, NativeAlive, OperationAlive DEF Next
<1> QED BY <1>3, <1>4

\* The invariant holds throughout.
LEMMA RoutesInvariant == Spec => []RoutesInv
<1>1. Spec => []Types BY InitTypes, NextTypes, PTL DEF Spec
<1> QED BY <1>1, RegisteredAreLive, InitAlive, NextAlive, PTL DEF Spec

-----------------------------------------------------------------------------
(* What follows                                                            *)

\* A session whose requests are allowed routes by the intent in force now, by
\* nothing else, and has no live connection opened under anything older.
THEOREM RoutesAreCurrent == Spec => []AllowedRoutesAreCurrent
<1>1. RoutesInv => AllowedRoutesAreCurrent
  BY DEF RoutesInv, Alive, AllowedRoutesAreCurrent, Allowed, FreshIsNative, ReadyIsCurrent
<1> QED BY <1>1, RoutesInvariant, PTL

\* The guard that is allowed to forward does so by the intent in force now, and
\* none of its live operations is older.
THEOREM GuardCurrent == Spec => []GuardIsCurrent
<1>1. RoutesInv => GuardIsCurrent
  BY KeyFacts, IntentAssumption DEF RoutesInv, Alive, GuardIsCurrent, PolicyIsServed
<1> QED BY <1>1, RoutesInvariant, PTL

-----------------------------------------------------------------------------
(***************************************************************************)
(* Proof of what a step of session routing does to sessions that are       *)
(* allowed: the shared resources do not change under them, the enrollment  *)
(* of another session does not touch them, and every step opens or closes  *)
(* the gate of RoutingGate the way that specification says.                *)
(*                                                                         *)
(* The argument looks at records only.  A step either leaves every record  *)
(* that may be used afterwards as it was (Closing), or changes only        *)
(* records that were of no use and are not barred (Granting).  What a      *)
(* record says of the routes is the invariant's business, before the step  *)
(* and after it.                                                           *)
(***************************************************************************)

\* A record that lets requests through, short of a termination.
Open(r) == ~r.poisoned /\ r.state \in {"initial", "ready"}

Closing == \A s \in Sessions : Open(record'[s]) => record'[s] = record[s]

Granting == \A s \in Sessions :
              \/ record'[s] = record[s]
              \/ ~Open(record[s]) /\ ~Bar(record[s]) /\ Open(record'[s])

\* Nobody is allowed while the shared resources are prepared, served, retired
\* or quarantined, and while everything is paused.
LEMMA NobodyOpen ==
  ASSUME Types, Alive, run.phase \in {"prepare", "serve", "retire", "quarantine"}
  PROVE  \A s \in Sessions : ~Open(record[s])
<1>1. policy # intent BY KeyFacts DEF Alive, PhasesFit, Types, CoordinatorType
<1>2. \A s \in Sessions : record[s].state # "ready" BY <1>1 DEF Alive, ReadyIsCurrent
<1>3. \A s \in Sessions : record[s].state # "initial" BY DEF Alive, FreshIsNative
<1> QED BY <1>2, <1>3 DEF Open

\* Which steps change the shared resources.
LEMMA ResourceSteps ==
  ASSUME Types, Alive, ~terminal, [Next]_vars, ~terminal',
         pac' # pac \/ guardRoute' # guardRoute
  PROVE  run.phase \in {"prepare", "serve", "retire", "quarantine"}
<1> USE DEF resources
<1>1. CASE UNCHANGED vars BY <1>1 DEF vars
<1>2. CASE Environment
  <2>1. CASE LatePrepare BY <2>1 DEF LatePrepare, Alive, PhasesFit
  <2>2. CASE PacServerLost \/ GuardServerLost
    BY <2>2 DEF PacServerLost, GuardServerLost, Settle
  <2> QED BY <1>2, <2>1, <2>2 DEF Environment, SetIntent, BeginCertificateUpdate, IntentChanged,
        Rebuild, AdoptDefault, Enroll, Unregister, RefetchPac, LateSetProxy
<1>3. ASSUME NEW s \in Sessions, NativeStep(s) PROVE FALSE
  BY <1>3 DEF NativeStep, SetProxy, ForceReload, Drain, ForceReloadAgain, DrainAll
<1>4. CASE Operation
  BY <1>4 DEF Operation, Reject, StartRebuild, StartEnroll, StartPause, PrepareGuard, ServePac,
        RetireResources, FinishPause, FinishApply, FinishQuarantine, FinishEnroll
<1> QED BY <1>1, <1>2, <1>3, <1>4 DEF Next

\* What every step may assume: types, live registrations and the invariant.
LEMMA Throughout == Spec => [](Types /\ Registered /\ RoutesInv)
<1>1. Spec => []Types BY InitTypes, NextTypes, PTL DEF Spec
<1> QED BY <1>1, RegisteredAreLive, RoutesInvariant, PTL

\* Short of a termination, the shared PAC body and the guard's route never
\* change while a session is allowed to use them.
THEOREM ResourcesStable == Spec => SharedResourcesStable
<1> DEFINE A == pac' # pac \/ guardRoute' # guardRoute => terminal' \/ \A s \in Sessions : ~Allowed(s)
<1>1. Types /\ Registered /\ RoutesInv /\ [Next]_vars => [A]_vars
  <2> SUFFICES ASSUME Types, RoutesInv, [Next]_vars, pac' # pac \/ guardRoute' # guardRoute,
                      ~terminal'
               PROVE  \A s \in Sessions : ~Allowed(s)
    OBVIOUS
  <2>1. ~terminal BY TerminationIsFinal
  <2>2. Alive BY <2>1 DEF RoutesInv
  <2>3. \A s \in Sessions : ~Open(record[s]) BY <2>1, <2>2, ResourceSteps, NobodyOpen
  <2> QED BY <2>3 DEF Allowed, Open
<1> QED BY <1>1, Throughout, PTL DEF Spec, SharedResourcesStable
-----------------------------------------------------------------------------
(* What a step does to the records                                         *)

\* The only sessions that may be open are active ones.
LEMMA OpenIsActive ==
  ASSUME Alive, NEW s \in Sessions, Open(record[s]) PROVE s \in Active
BY DEF Alive, FreshIsNative, ReadyIsCurrent, Open, Active

\* Withdrawing everything closes everything.
LEMMA WithdrawnCloses ==
  ASSUME Alive', Withdrawn PROVE \A s \in Sessions : ~Open(record'[s])
<1>1. SUFFICES ASSUME NEW s \in Sessions, Open(record'[s]) PROVE FALSE OBVIOUS
<1>2. s \in Active
  <2>1. s = Default \/ registration'[s] # 0
    BY <1>1 DEF Alive, FreshIsNative, ReadyIsCurrent, Open, Active
  <2> QED BY <2>1 DEF Withdrawn, Active
<1> QED BY <1>1, <1>2 DEF Withdrawn, Open

\* A transition to a state that lets nothing through closes.
LEMMA ShiftCloses ==
  ASSUME NEW S, NEW st, st \notin {"initial", "ready"}, NEW key, Shift(record, record', S, st, key)
  PROVE  Closing
BY DEF Shift, Closing, Open

\* A step that leaves the records alone closes.
LEMMA SameCloses == UNCHANGED controller \/ UNCHANGED record => Closing
BY DEF Closing, controller

\* A lane moves no record but its own; it opens one only at its end, and only
\* an enrollment does.
LEMMA NativeEffect ==
  ASSUME Types, Alive, ~terminal, NEW s \in Sessions, NativeStep(s), ~terminal'
  PROVE  /\ registration' = registration
         /\ \A x \in Sessions : x # s => record'[x] = record[x]
         /\ Closing \/ Granting
<1> USE DEF controller
<1>1. PICK r \in Outcome : \/ SetProxy(s, r) \/ ForceReload(s, r) \/ Drain(s, r)
                           \/ ForceReloadAgain(s, r) \/ DrainAll(s, r)
  BY DEF NativeStep
<1>2. /\ \A x \in Sessions : x # s => Poisoned(s, r)[x] = record[x]
      /\ Poisoned(s, r)[s] = record[s] \/ Poisoned(s, r)[s].poisoned
  BY DEF Poisoned, Types, ControllerType, Records, Record
<1>3. CASE SetProxy(s, r) \/ ForceReload(s, r)
  <2>1. record' = Poisoned(s, r) /\ registration' = registration
    BY <1>3 DEF SetProxy, ForceReload
  <2> QED BY <1>2, <2>1 DEF Closing, Open
<1>4. CASE DrainAll(s, r) BY <1>4, SameCloses DEF DrainAll, Settle
<1>5. CASE (Drain(s, r) \/ ForceReloadAgain(s, r)) /\ UNCHANGED controller BY <1>5, SameCloses
<1>6. CASE (Drain(s, r) \/ ForceReloadAgain(s, r)) /\ ~UNCHANGED controller
  <2>1. \E error \in Error : /\ Finish(s, record, error, FALSE)
                             /\ error = "none" => lane[s].pc = "reload2"
    <3>1. /\ "none" \in Error /\ "failed" \in Error /\ (r # "ok" => r \in Error)
          /\ lane[s].error \in Error
      BY DEF Error, Outcome, Types, WorkType, Lanes, Lane
    <3>2. CASE Drain(s, r)
      <4>1. r = "ok"
        <5>1. SUFFICES ASSUME r # "ok" PROVE FALSE OBVIOUS
        <5>2. Finish(s, Undrained(s), "failed", TRUE) BY <3>2, <5>1 DEF Drain
        <5>3. Settle(Undrained(s), registration, TRUE) BY <5>2 DEF Finish
        <5> QED BY <5>3 DEF Settle
      <4> DEFINE error == IF lane[s].error = "none" THEN "failed" ELSE lane[s].error
      <4>2. Finish(s, record, error, FALSE) BY <3>2, <4>1, <1>6 DEF Drain
      <4>3. error \in Error /\ error # "none" BY <3>1
      <4> HIDE DEF error
      <4> QED BY <4>2, <4>3
    <3>3. CASE ForceReloadAgain(s, r)
      <4> DEFINE error == IF r = "ok" THEN "none" ELSE r
      <4>1. Finish(s, Poisoned(s, r), error, FALSE) /\ lane[s].pc = "reload2"
        BY <3>3 DEF ForceReloadAgain
      <4>2. r # "timeout"
        <5>1. SUFFICES ASSUME r = "timeout" PROVE FALSE OBVIOUS
        <5>2. Finish(s, Poisoned(s, r), "timeout", FALSE) BY <4>1, <5>1
        <5>3. Settle(Poisoned(s, r), registration, TRUE) BY <5>2 DEF Finish
        <5> QED BY <5>3 DEF Settle
      <4>3. error \in Error BY <3>1
      <4> HIDE DEF error
      <4> QED BY <4>1, <4>2, <4>3 DEF Poisoned
    <3> QED BY <1>6, <3>2, <3>3
  <2>2. PICK error \in Error : /\ Finish(s, record, error, FALSE)
                               /\ error = "none" => lane[s].pc = "reload2"
    BY <2>1
  <2>3. /\ registration' = registration
        /\ \A x \in Sessions : x # s => record'[x] = record[x]
        /\ record'[s].poisoned = record[s].poisoned
        /\ \/ record'[s] = record[s] \/ record'[s].state = "quarantined"
           \/ /\ error = "none" /\ record[s].state # "retired"
              /\ record'[s].state = IF run.kind = "enroll" THEN "ready" ELSE "configured"
    BY <2>2, FinishStep
  <2>4. error = "none" => ~record[s].poisoned /\ record[s].state \notin {"initial", "ready"}
    BY <2>2 DEF Alive, LanesFit, Working
  <2> QED BY <2>3, <2>4 DEF Closing, Granting, Open, Bar
<1> QED BY <1>1, <1>3, <1>4, <1>5, <1>6
\* What the rest of the browser does: a changed intent closes everything, the
\* adopted default session opens, and an open session is touched by nothing
\* that leaves the intent and its registration alone.
LEMMA EnvironmentEffect ==
  ASSUME Types, Registered, Alive, Alive', ~terminal, Environment, ~terminal'
  PROVE  /\ Closing \/ Granting
         /\ intent' # intent => \A s \in Sessions : ~Open(record'[s])
         /\ run' = run
         /\ \A s \in Sessions : Open(record[s]) /\ intent' = intent /\ registration'[s] = registration[s]
              => record'[s] = record[s]
<1> DEFINE kept == \A s \in Sessions : Open(record[s]) /\ intent' = intent /\ registration'[s] = registration[s]
                     => record'[s] = record[s]
           effect == /\ Closing \/ Granting
                     /\ intent' # intent => \A s \in Sessions : ~Open(record'[s])
                     /\ run' = run /\ kept
<1> USE DEF controller, coordinator
<1>1. ASSUME NEW i \in Intents, IntentChanged(i), i # intent PROVE effect
  <2>1. intentEpoch # MaxEpoch
    <3>1. Settle(record, registration, TRUE) => terminal' BY DEF Settle
    <3> QED BY <1>1, <3>1 DEF IntentChanged
  <2>2. Withdrawn BY <1>1, <2>1, WithdrawStep DEF IntentChanged, Alive
  <2>3. \A s \in Sessions : ~Open(record'[s]) BY <2>2, WithdrawnCloses
  <2>4. intent' # intent /\ run' = run BY <1>1 DEF IntentChanged
  <2> QED BY <2>3, <2>4 DEF Closing
<1>2. ASSUME UNCHANGED <<controller, run, intent>> PROVE effect BY <1>2, SameCloses
<1>3. ASSUME NEW i \in Intents, SetIntent(i) \/ BeginCertificateUpdate(i) PROVE effect
  BY <1>1, <1>2, <1>3 DEF SetIntent, BeginCertificateUpdate
<1>4. CASE AdoptDefault
  <2>1. record[Default] \in Record /\ DOMAIN record = Sessions /\ Default \in Sessions
    BY SessionAssumption DEF Types, ControllerType, Records
  <2>2. /\ record[Default].state = "unknown"
        /\ record' = [record EXCEPT ![Default] = [record[Default] EXCEPT !.state = "initial"]]
        /\ intent' = intent /\ run' = run
    BY <1>4, <2>1 DEF AdoptDefault
  <2>3. /\ \A s \in Sessions : s # Default => record'[s] = record[s]
        /\ record'[Default].state = "initial"
        /\ record'[Default].poisoned = record[Default].poisoned
    BY <2>1, <2>2 DEF Record
  <2>4. ~record[Default].poisoned BY <2>1, <2>2 DEF Alive, LanesFit, Working
  <2>5. Granting BY <2>2, <2>3, <2>4 DEF Granting, Open, Bar
  <2> QED BY <2>2, <2>3, <2>5 DEF Open
<1>5. ASSUME NEW s \in Sessions, s # Default, NEW st \in {"enrolling", "retired"},
             NEW m \in Transitions(record, {s}, st, None), NEW g, g # registration[s],
             Settle(m.rec, [registration EXCEPT ![s] = g], m.dies), intent' = intent, run' = run
      PROVE  effect
  <2> DEFINE G == [registration EXCEPT ![s] = g]
  <2>1. record \in Records /\ st \in States /\ {s} \in SUBSET Sessions /\ None \in Keys \cup {None}
    BY <1>5 DEF Types, ControllerType, States
  <2>2. G[s] = g BY DEF Types, ControllerType, Tokens
  <2>3. Settle(m.rec, G, m.dies) BY <1>5
  <2> HIDE DEF G
  <2>4. Shift(record, record', {s}, st, None) /\ registration' = G BY <1>5, <2>1, <2>3, CleanMove
  <2>5. Closing BY <2>4, ShiftCloses
  <2>6. kept BY <1>5, <2>2, <2>4 DEF Shift
  <2> QED BY <1>5, <2>5, <2>6
<1>6. ASSUME NEW s \in Sessions, Enroll(s) PROVE effect
  <2>1. CASE registration[s] # 0 BY <1>2, <1>6, <2>1 DEF Enroll
  <2>2. CASE registration[s] = 0
    <3>1. s # Default /\ intent' = intent /\ run' = run BY <1>6 DEF Enroll
    <3>2. PICK m \in Transitions(record, {s}, "enrolling", None) :
            Settle(m.rec, [registration EXCEPT ![s] = m.rec[s].generation], m.dies)
      BY <1>6, <2>2 DEF Enroll
    <3>3. m.rec[s].generation # 0
      <4>1. record \in Records /\ "enrolling" \in States /\ {s} \in SUBSET Sessions
            /\ None \in Keys \cup {None}
        BY DEF Types, ControllerType, States
      <4> DEFINE G == [registration EXCEPT ![s] = m.rec[s].generation]
      <4>2. Settle(m.rec, G, m.dies) BY <3>2
      <4> HIDE DEF G
      <4>3. record' = m.rec /\ Shift(record, record', {s}, "enrolling", None)
        BY <4>1, <4>2, CleanMove
      <4>4. m.rec[s].generation = record[s].generation + 1 BY <4>3 DEF Shift
      <4>5. record[s].generation \in Nat BY <4>1, BoundAssumption DEF Records, Record
      <4> QED BY <4>4, <4>5
    <3> DEFINE g == m.rec[s].generation
    <3>4. g # registration[s] BY <2>2, <3>3
    <3>5. Settle(m.rec, [registration EXCEPT ![s] = g], m.dies) BY <3>2
    <3> HIDE DEF g, effect
    <3> QED BY <1>5, <3>1, <3>4, <3>5
  <2> QED BY <2>1, <2>2
<1>7. ASSUME NEW s \in Sessions, Unregister(s) PROVE effect
  <2>1. s # Default /\ intent' = intent /\ run' = run BY <1>7 DEF Unregister
  <2>2. PICK m \in Transitions(record, {s}, "retired", None) :
          Settle(m.rec, [registration EXCEPT ![s] = 0], m.dies)
    BY <1>7 DEF Unregister
  <2>3. CASE registration[s] # 0
    <3> HIDE DEF effect
    <3> QED BY <1>5, <2>1, <2>2, <2>3
  <2>4. CASE registration[s] = 0
    <3> DEFINE G == [registration EXCEPT ![s] = 0]
    <3>1. record \in Records /\ "retired" \in States /\ {s} \in SUBSET Sessions
          /\ None \in Keys \cup {None}
      BY DEF Types, ControllerType, States
    <3>2. Settle(m.rec, G, m.dies) BY <2>2
    <3> HIDE DEF G
    <3>3. Shift(record, record', {s}, "retired", None) BY <3>1, <3>2, CleanMove
    <3>4. ~Open(record[s]) BY <2>1, <2>4, OpenIsActive DEF Active
    <3>5. kept BY <3>3, <3>4 DEF Shift
    <3> QED BY <2>1, <3>3, <3>5, ShiftCloses
  <2> QED BY <2>3, <2>4
<1>8. CASE \/ Rebuild \/ LatePrepare
           \/ \E s \in Sessions : RefetchPac(s) \/ LateSetProxy(s)
  BY <1>2, <1>8 DEF Rebuild, LatePrepare, RefetchPac, LateSetProxy
<1>9. CASE PacServerLost \/ GuardServerLost
  BY <1>9 DEF PacServerLost, GuardServerLost, Settle
<1> QED BY <1>3, <1>4, <1>6, <1>7, <1>8, <1>9 DEF Environment
\* An enrollment moves no record but that of its own session.
Elsewhere == \A e, s \in Sessions :
               e # s /\ (Enrolling(run, e) \/ Enrolling(run', e)) => record'[s] = record[s]

\* What a step of an operation must do.
Effect == intent' = intent /\ (Closing \/ Granting) /\ Elsewhere

\* The catch block of recover() closes.
LEMMA QuarantineEffect ==
  ASSUME Types, Registered, Alive, Alive', NEW fatal \in BOOLEAN, Quarantine(fatal), ~terminal',
         intent' = intent, run.kind # "enroll" \/ run.phase # "apply"
  PROVE  Effect
<1>1. Withdrawn /\ run' = [Idle EXCEPT !.phase = "quarantine", !.fatal = fatal]
  BY QuarantineStep DEF Alive
<1>2. run'.kind = "rebuild" BY <1>1 DEF Idle
<1>3. Closing BY <1>1, WithdrawnCloses DEF Closing
<1> QED BY <1>2, <1>3 DEF Effect, Elsewhere, Enrolling

\* commit() opens the sessions it was configured for, and only those.
LEMMA PublishEffect ==
  ASSUME Types, Registered, Alive, Alive', NEW pacBody, NEW guard, Publish(pacBody, guard), ~terminal',
         intent' = intent, run.kind # "enroll" \/ run.phase # "apply"
  PROVE  Effect
<1>1. CASE Quarantine(FALSE) BY <1>1, QuarantineEffect
<1>2. CASE /\ Committable /\ run' = Idle
           /\ Shift(record, record', Tickets, "ready", Key(run.target))
  <2>1. \A s \in Tickets : record[s].state = "configured" /\ ~record[s].poisoned
    BY <1>2 DEF Committable
  <2>2. Granting BY <1>2, <2>1 DEF Granting, Shift, Open, Bar
  <2>3. run'.kind = "rebuild" BY <1>2 DEF Idle
  <2> QED BY <2>2, <2>3 DEF Effect, Elsewhere, Enrolling
<1> QED BY <1>1, <1>2, PublishStep DEF Alive

\* The operation leaves the queue: it withdraws the sessions it is about.
LEMMA StartEffect ==
  ASSUME Types, Registered, Alive, Alive', StartRebuild \/ StartPause \/ StartEnroll, ~terminal'
  PROVE  Effect
<1> USE DEF controller, coordinator
<1>1. run.phase = "idle" /\ ~terminal /\ intent' = intent
  BY DEF StartRebuild, StartPause, StartEnroll, Dequeue
<1>2. \A s \in Sessions : ~record[s].poisoned
  <2>1. \A s \in Sessions : lane[s].pc # "drain" BY <1>1 DEF Alive, PhasesFit
  <2> QED BY <2>1, NoPoison DEF Alive
<1>3. ASSUME NEW targets \in SUBSET Active, NEW key, NEW next, StartLanes(record, targets, key, next)
      PROVE  Closing /\ run' = next /\ \A s \in Sessions \ targets : record'[s] = record[s]
  <2>1. run' = next /\ Shift(record, record', Needed(targets, key), "updating", None)
    BY <1>2, <1>3, StartLanesStep DEF Alive
  <2>2. Needed(targets, key) \subseteq targets BY DEF Needed
  <2> QED BY <2>1, <2>2, ShiftCloses DEF Shift
<1>4. CASE StartRebuild
  <2> DEFINE prepared == policy = intent /\ Valid(policy, pac, guardUp)
             next == [Idle EXCEPT !.phase = IF prepared THEN "apply" ELSE "prepare",
                        !.target = intent, !.epoch = intentEpoch, !.prepared = prepared]
  <2>1. next.kind = "rebuild" BY DEF Idle
  <2>2. CASE prepared
    <3>1. StartLanes(record, Active, Key(intent), next) BY <1>4, <2>2 DEF StartRebuild
    <3> HIDE DEF next
    <3>2. Closing /\ run' = next BY <1>3, <3>1
    <3> QED BY <1>1, <2>1, <3>2 DEF Effect, Elsewhere, Enrolling
  <2>3. CASE ~prepared
    <3>1. PICK m \in Transitions(record, Withdrawable(record), "updating", None) :
            /\ Settle(m.rec, registration, m.dies)
            /\ run' = IF m.dies THEN Idle ELSE next
      BY <1>4, <2>3 DEF StartRebuild
    <3>2. Withdrawn /\ ~m.dies BY <3>1, WithdrawStep DEF Alive
    <3>3. Closing BY <3>2, WithdrawnCloses DEF Closing
    <3> QED BY <1>1, <2>1, <3>1, <3>2, <3>3 DEF Effect, Elsewhere, Enrolling
  <2> QED BY <2>2, <2>3
<1>5. CASE StartPause
  <2>1. PICK m \in Transitions(record, Withdrawable(record), "updating", None) :
          /\ Settle(m.rec, registration, m.dies)
          /\ run' = Idle \/ run' = [Idle EXCEPT !.phase = "pause", !.kind = "pause"]
    BY <1>5 DEF StartPause
  <2>2. Withdrawn BY <2>1, WithdrawStep DEF Alive
  <2>3. Closing BY <2>2, WithdrawnCloses DEF Closing
  <2>4. run' = Idle \/ run' = [Idle EXCEPT !.phase = "pause", !.kind = "pause"] BY <2>1
  <2>5. run'.phase # "apply"
    <3>1. CASE run' = Idle BY <3>1 DEF Idle
    <3>2. CASE run' = [Idle EXCEPT !.phase = "pause", !.kind = "pause"] BY <3>2 DEF Idle
    <3> QED BY <2>4, <3>1, <3>2
  <2> QED BY <1>1, <2>3, <2>5 DEF Effect, Elsewhere, Enrolling
<1>6. CASE StartEnroll
  <2> DEFINE op == Head(queue)
             startsDirect == policy = None /\ ~attempted /\ intent \in Direct /\ pac = None /\ ~guardUp
             chosen == IF startsDirect THEN intent ELSE policy
             next == [Idle EXCEPT !.phase = "apply", !.kind = "enroll", !.session = op.session,
                                  !.token = op.token, !.target = chosen]
  <2>1. op.session \in Sessions
    <3>1. queue # <<>> /\ queue \in Seq(Op) BY <1>6 DEF StartEnroll, Dequeue, Types, QueueType
    <3>2. op \in Op BY <3>1
    <3> QED BY <3>2 DEF Op
  <2>2. next.session = op.session BY DEF Idle
  <2>3. CASE UNCHANGED controller /\ run' = Idle
    <3>1. run'.kind = "rebuild" BY <2>3 DEF Idle
    <3> QED BY <1>1, <2>3, <3>1, SameCloses DEF Effect, Elsewhere, Enrolling
  <2>4. CASE IsRegistered(op.session, op.token) /\ StartLanes(record, {op.session}, Key(chosen), next)
    <3>1. {op.session} \in SUBSET Active BY <2>1, <2>4 DEF IsRegistered, Active
    <3> HIDE DEF next, chosen
    <3>2. /\ Closing /\ run' = next
          /\ \A s \in Sessions \ {op.session} : record'[s] = record[s]
      BY <1>3, <2>4, <3>1
    <3> QED BY <1>1, <2>2, <3>2 DEF Effect, Elsewhere, Enrolling
  <2>5. CASE CancelEnrollment(op.session, op.token) /\ run' = Idle
    <3>1. run'.kind = "rebuild" BY <2>5 DEF Idle
    <3> HIDE DEF op
    <3>2. UNCHANGED controller \/ Shift(record, record', {op.session}, "quarantined", None)
      BY <2>1, <2>5, CancelStep
    <3> QED BY <1>1, <3>1, <3>2, SameCloses, ShiftCloses DEF Effect, Elsewhere, Enrolling
  <2> QED BY <1>6, <2>3, <2>4, <2>5 DEF StartEnroll
<1> QED BY <1>4, <1>5, <1>6

\* Every step of an operation.
LEMMA OperationEffect ==
  ASSUME Types, Registered, Alive, Alive', ~terminal, Operation, ~terminal' PROVE Effect
<1> USE DEF controller, coordinator
<1>1. CASE Reject BY <1>1 DEF Reject
<1>2. CASE StartRebuild \/ StartPause \/ StartEnroll BY <1>2, StartEffect
<1>3. ASSUME run'.kind # "enroll" \/ run'.phase # "apply", run.kind # "enroll" \/ run.phase # "apply",
             intent' = intent, UNCHANGED controller
      PROVE  Effect
  BY <1>3, SameCloses DEF Effect, Elsewhere, Enrolling
<1>4. ASSUME NEW r \in Outcome, PrepareGuard(r) PROVE Effect
  <2>1. run.phase = "prepare" /\ intent' = intent BY <1>4 DEF PrepareGuard
  <2>2. CASE run' = [run EXCEPT !.phase = "serve"] /\ UNCHANGED controller
    <3>1. run'.phase = "serve" BY <2>2 DEF Types, WorkType, Run
    <3> QED BY <1>3, <2>1, <2>2, <3>1
  <2>3. CASE Quarantine(TRUE) \/ Quarantine(FALSE) BY <2>1, <2>3, QuarantineEffect
  <2> QED BY <1>4, <2>2, <2>3 DEF PrepareGuard
<1>5. ASSUME NEW r \in Outcome, ServePac(r) PROVE Effect
  <2>1. run.phase = "serve" /\ intent' = intent BY <1>5 DEF ServePac
  <2>2. \A s \in Sessions : lane[s].pc # "drain" BY <2>1 DEF Alive, PhasesFit
  <2> DEFINE next == [run EXCEPT !.phase = "apply"]
             fatal == r = "timeout"
  <2>3. CASE StartLanes(record, Active, Key(run.target), next)
    <3>1. next.kind # "enroll" BY <2>1 DEF Types, WorkType, Run, Alive, PhasesFit
    <3> HIDE DEF next
    <3>2. \A s \in Sessions : ~record[s].poisoned BY <2>2, NoPoison DEF Alive
    <3>3. run' = next /\ Shift(record, record', Needed(Active, Key(run.target)), "updating", None)
      BY <2>3, <3>2, StartLanesStep DEF Alive
    <3> QED BY <2>1, <3>1, <3>3, ShiftCloses DEF Effect, Elsewhere, Enrolling
  <2>4. fatal \in BOOLEAN OBVIOUS
  <2>5. CASE Quarantine(FALSE) \/ Quarantine(fatal)
    <3> HIDE DEF fatal
    <3> QED BY <2>1, <2>4, <2>5, QuarantineEffect
  <2> QED BY <1>5, <2>3, <2>5 DEF ServePac
<1>6. CASE FinishApply
  <2>1. run.phase = "apply" /\ run.kind = "rebuild" /\ intent' = intent BY <1>6 DEF FinishApply
  <2>2. CASE Quarantine(FALSE) \/ Publish(pac, guardUp)
    BY <2>1, <2>2, QuarantineEffect, PublishEffect
  <2>3. CASE run' = [run EXCEPT !.phase = "retire"] /\ UNCHANGED controller
    <3>1. run'.phase = "retire" BY <2>3 DEF Types, WorkType, Run
    <3> QED BY <1>3, <2>1, <2>3, <3>1
  <2> QED BY <1>6, <2>2, <2>3 DEF FinishApply
<1>7. ASSUME NEW r \in Outcome, RetireResources(r) PROVE Effect
  <2>1. run.phase = "retire" /\ intent' = intent BY <1>7 DEF RetireResources
  <2> DEFINE fatal == r = "timeout"
  <2>2. fatal \in BOOLEAN OBVIOUS
  <2>3. Publish(pac', guardUp') \/ Quarantine(fatal) BY <1>7 DEF RetireResources
  <2> HIDE DEF fatal
  <2> QED BY <2>1, <2>2, <2>3, PublishEffect, QuarantineEffect
<1>8. CASE FinishQuarantine \/ \E r \in Outcome : FinishPause(r)
  <2>1. /\ run.phase # "apply" /\ run' = Idle /\ intent' = intent
        /\ \E d : Settle(record, registration, d)
    BY <1>8 DEF FinishQuarantine, FinishPause
  <2>2. UNCHANGED controller BY <2>1 DEF Settle
  <2>3. run'.phase = "idle" BY <2>1 DEF Idle
  <2> QED BY <1>3, <2>1, <2>2, <2>3
<1>9. CASE FinishEnroll
  <2>1. /\ run.kind = "enroll" /\ run.phase = "apply" /\ run' = Idle /\ intent' = intent
        /\ run.session \in Sessions
        /\ CancelEnrollment(run.session, run.token) \/ UNCHANGED controller
    BY <1>9 DEF FinishEnroll, Types, WorkType, Run
  <2>2. UNCHANGED controller \/ Shift(record, record', {run.session}, "quarantined", None)
    BY <2>1, CancelStep
  <2>3. run'.kind = "rebuild" BY <2>1 DEF Idle
  <2>4. Elsewhere BY <2>2, <2>3 DEF Elsewhere, Enrolling, Shift
  <2> QED BY <2>1, <2>2, <2>4, SameCloses, ShiftCloses DEF Effect
<1> QED BY <1>1, <1>2, <1>4, <1>5, <1>6, <1>7, <1>8, <1>9 DEF Operation
-----------------------------------------------------------------------------
(* What follows                                                            *)

\* Every step and stutter closes or opens, and a changed intent closes all.
LEMMA StepEffect ==
  ASSUME Types, Registered, Alive, Alive', ~terminal, [Next]_vars, ~terminal'
  PROVE  /\ Closing \/ Granting
         /\ intent' # intent => \A s \in Sessions : ~Open(record'[s])
<1>1. CASE UNCHANGED vars BY <1>1, SameCloses DEF vars, controller, coordinator
<1>2. CASE Environment BY <1>2, EnvironmentEffect
<1>3. ASSUME NEW s \in Sessions, NativeStep(s)
      PROVE  intent' = intent /\ (Closing \/ Granting)
  <2>1. intent' = intent
    BY <1>3 DEF NativeStep, SetProxy, ForceReload, Drain, ForceReloadAgain, DrainAll, coordinator
  <2> QED BY <1>3, <2>1, NativeEffect
<1>4. CASE Operation BY <1>4, OperationEffect DEF Effect
<1> QED BY <1>1, <1>2, <1>3, <1>4 DEF Next

\* While one session is enrolled, no step moves the open record of another whose
\* registration it leaves alone, unless the intent changes.
LEMMA EnrollmentKeeps ==
  ASSUME Types, Registered, Alive, Alive', ~terminal, [Next]_vars, ~terminal',
         NEW e \in Sessions, NEW s \in Sessions, e # s, Enrolling(run, e) \/ Enrolling(run', e),
         intent' = intent, Open(record[s]), registration'[s] = registration[s]
  PROVE  record'[s] = record[s]
<1>1. CASE UNCHANGED vars BY <1>1 DEF vars, controller
<1>2. CASE Environment BY <1>2, EnvironmentEffect
<1>3. ASSUME NEW x \in Sessions, NativeStep(x) PROVE record'[s] = record[s]
  <2>1. lane[x].pc # "off" /\ run' = run
    BY <1>3 DEF NativeStep, SetProxy, ForceReload, Drain, ForceReloadAgain, DrainAll
  <2>2. x = e BY <2>1 DEF Alive, PhasesFit, Enrolling
  <2> QED BY <1>3, <2>2, NativeEffect
<1>4. CASE Operation BY <1>4, OperationEffect DEF Effect, Elsewhere
<1> QED BY <1>1, <1>2, <1>3, <1>4 DEF Next

\* An open session whose record stays has the connections it had.
LEMMA SameConnections ==
  ASSUME Alive, Alive', NEW s \in Sessions, Open(record[s]), record'[s] = record[s], intent' = intent
  PROVE  conns'[s] = conns[s]
BY DEF Open, Alive, FreshIsNative, ReadyIsCurrent

\* The invariant before a step and after it.
LEMMA BothEnds ==
  ASSUME Types, Types', Registered, RoutesInv, [Next]_vars, ~terminal'
  PROVE  ~terminal /\ Alive /\ Alive'
BY TerminationIsFinal, NextAlive DEF RoutesInv

\* Enrolling one session never takes permission or connections from another.
THEOREM EnrollmentLocal == Spec => EnrollmentIsLocal
<1> DEFINE A == \A e, s \in Sessions :
                  /\ e # s /\ (Enrolling(run, e) \/ Enrolling(run', e))
                  /\ intent' = intent /\ ~terminal'
                  /\ Allowed(s) /\ registration'[s] = registration[s]
                  => Allowed(s)' /\ conns'[s] = conns[s]
<1>1. Types /\ Registered /\ RoutesInv /\ [Next]_vars => [A]_vars
  <2> SUFFICES ASSUME Types, Registered, RoutesInv, [Next]_vars,
                      NEW e \in Sessions, NEW s \in Sessions, e # s,
                      Enrolling(run, e) \/ Enrolling(run', e), intent' = intent, ~terminal',
                      Allowed(s), registration'[s] = registration[s]
               PROVE  Allowed(s)' /\ conns'[s] = conns[s]
    OBVIOUS
  <2>1. ~terminal /\ Alive /\ Alive' BY NextTypes, BothEnds
  <2>2. Open(record[s]) BY DEF Allowed, Open
  <2>3. record'[s] = record[s] BY <2>1, <2>2, EnrollmentKeeps
  <2>4. conns'[s] = conns[s] BY <2>1, <2>2, <2>3, SameConnections
  <2>5. Allowed(s)' BY <2>2, <2>3 DEF Allowed, Open
  <2> QED BY <2>4, <2>5
<1> QED BY <1>1, Throughout, PTL DEF Spec, EnrollmentIsLocal

\* At the start every gate is closed.
LEMMA InitGate == Init => Gate!GateInit
BY IntentAssumption DEF Init, Gate!GateInit, Allowed, Barred

\* Every step and stutter is one that the gate takes, or none at all.
LEMMA NextGate ==
  ASSUME Types, Registered, RoutesInv, [Next]_vars PROVE Gate!GateNext
<1> DEFINE open == {s \in Sessions : Allowed(s)}
           retired == {s \in Sessions : Barred(s)}
<1>1. \A s \in Sessions : /\ s \in open <=> ~terminal /\ Open(record[s])
                          /\ s \in open' <=> ~terminal' /\ Open(record'[s])
                          /\ s \in retired <=> Bar(record[s])
                          /\ s \in retired' <=> Bar(record'[s])
  BY DEF Allowed, Barred, Open, Bar
<1>2. open \subseteq Sessions /\ open' \subseteq Sessions
      /\ retired \subseteq Sessions /\ retired' \subseteq Sessions
  OBVIOUS
<1>3. terminal => terminal' BY TerminationIsFinal
<1>4. retired \subseteq retired' BY <1>1, <1>2, NextHeld DEF Held
<1>5. terminal' => open' = {} BY <1>1, <1>2
<1>6. retired' \cap open' = {} BY <1>1, <1>2 DEF Bar, Open
<1>7. Gate!Steady <=> /\ \A s \in open \cap open' : conns'[s] = conns[s]
                      /\ retired \subseteq retired' /\ retired' \cap open' = {}
                      /\ terminal => terminal'
                      /\ terminal' => open' = {}
  BY DEF Gate!Steady
<1>8. Gate!Change <=> intent' # intent /\ open' = {} BY DEF Gate!Change
<1>9. Gate!Close <=> intent' = intent /\ open' \subseteq open BY DEF Gate!Close
<1>10. Gate!Grant <=> /\ intent' = intent /\ open \subseteq open'
                      /\ ~terminal' /\ retired' = retired
                      /\ \A s \in open' \ open : s \notin retired /\ \E r \in Serves(s, intent) : conns'[s] = {r}
  BY DEF Gate!Grant
<1> HIDE DEF open, retired
<1>11. CASE terminal' BY <1>3, <1>4, <1>5, <1>6, <1>7, <1>8, <1>9, <1>11 DEF Gate!GateNext
<1>12. CASE ~terminal'
  <2>1. ~terminal /\ Alive /\ Alive' BY <1>12, NextTypes, BothEnds
  <2>2. /\ Closing \/ Granting
        /\ intent' # intent => \A s \in Sessions : ~Open(record'[s])
    BY <1>12, <2>1, StepEffect
  <2>3. CASE intent' # intent
    <3>1. open' = {} BY <1>1, <1>2, <2>2, <2>3
    <3> QED BY <1>3, <1>4, <1>6, <1>7, <1>8, <2>3, <3>1 DEF Gate!GateNext
  <2>4. CASE intent' = intent
    <3>1. \A s \in open \cap open' : conns'[s] = conns[s]
      <4>1. ASSUME NEW s \in Sessions, Open(record[s]), Open(record'[s]) PROVE conns'[s] = conns[s]
        <5>1. record'[s] = record[s] BY <4>1, <2>2 DEF Closing, Granting
        <5> QED BY <4>1, <5>1, <2>1, <2>4, SameConnections
      <4> QED BY <4>1, <1>1, <1>2
    <3>2. Gate!Steady BY <1>3, <1>4, <1>5, <1>6, <1>7, <3>1
    <3>3. CASE Closing
      <4>1. open' \subseteq open BY <1>1, <1>2, <2>1, <3>3 DEF Closing
      <4> QED BY <1>9, <2>4, <3>2, <4>1 DEF Gate!GateNext
    <3>4. CASE Granting
      <4>1. open \subseteq open' BY <1>1, <1>2, <1>12, <3>4 DEF Granting
      <4>2. retired' = retired BY <1>1, <1>2, <3>4 DEF Granting, Open, Bar
      <4>3. ASSUME NEW s \in open' \ open
            PROVE  s \notin retired /\ \E r \in Serves(s, intent) : conns'[s] = {r}
        <5>1. s \in Sessions /\ Open(record'[s]) BY <1>1, <1>2, <4>3
        <5>2. s \notin retired BY <1>1, <5>1, <4>2 DEF Open, Bar
        <5>3. CASE record'[s].state = "initial"
          <6>1. s = Default /\ intent' = InitIntent /\ conns'[s] = {"native"}
            BY <2>1, <5>1, <5>3 DEF Alive, FreshIsNative
          <6> QED BY <2>4, <5>2, <6>1 DEF Serves
        <5>4. CASE record'[s].state = "ready"
          <6>1. conns'[s] = {Key(intent')} BY <2>1, <5>1, <5>4 DEF Alive, ReadyIsCurrent
          <6>2. Key(intent') = Key(intent) BY <2>4
          <6> QED BY <5>2, <6>1, <6>2 DEF Serves
        <5> QED BY <5>1, <5>3, <5>4 DEF Open
      <4> QED BY <1>10, <1>12, <2>4, <3>2, <4>1, <4>2, <4>3 DEF Gate!GateNext
    <3> QED BY <2>2, <3>3, <3>4
  <2> QED BY <2>3, <2>4
<1> QED BY <1>11, <1>12

\* The controller, the coordinator and network-manager.js implement the gate.
THEOREM GateImplemented == Spec => ImplementsGate
<1>1. Types /\ Registered /\ RoutesInv /\ [Next]_vars => [Gate!GateNext]_(Gate!gate)
  BY NextGate
<1> QED BY <1>1, InitGate, Throughout, PTL DEF Spec, ImplementsGate, Gate!GateSpec
=============================================================================
