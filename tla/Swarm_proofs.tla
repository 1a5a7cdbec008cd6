------------------------------- MODULE Swarm_proofs --------------------------
(***************************************************************************)
(* Proofs about the two components that publish on Swarm.  AntManager:     *)
(* whatever supersedes, crashes or times out, and however often, no chain  *)
(* bridge outlives its child, and the registry's entry for the bundled     *)
(* node is one that the close of a child withdraws.  PublishSetup: for any *)
(* number of purchases and windows, each is paid for at most once, and     *)
(* none is forgotten.                                                      *)
(***************************************************************************)
EXTENDS AntManager, PublishSetup, TLAPS

-----------------------------------------------------------------------------
(* AntManager                                                              *)

\* The last number is taken by a stop, never by a start.
LastIsAStop == start[MaxGen] = "none" /\ poll[MaxGen] = "off"

NodeInv == NodeTypeOK /\ LastIsAStop /\ BridgesAreOwned /\ EntryWillGo

\* Generations count from 1, and there is room for a stop after the last start.
LEMMA Numbers ==
  /\ MaxGen \in Nat /\ MaxGen \in Gens /\ 0 \in 0..MaxGen /\ Gens \subseteq 0..MaxGen /\ 0 \notin Gens
  /\ \A n \in 0..MaxGen : n # 0 => n \in Gens
  /\ \A n \in 0..MaxGen : n < MaxGen - 1 => n # MaxGen /\ n + 1 \in Gens \ {MaxGen}
  /\ \A n \in 0..MaxGen : n # MaxGen => n + 1 \in Gens
BY GenAssumption DEF Gens

\* Nothing has been started yet.
LEMMA NodeInitInv == NodeInit => NodeInv
<1> SUFFICES ASSUME NodeInit PROVE NodeInv OBVIOUS
<1>1. 0 \in 0..MaxGen BY Numbers
<1>2. start[MaxGen] = "none" /\ poll[MaxGen] = "off" BY Numbers DEF NodeInit
<1>3. NodeTypeOK BY <1>1 DEF NodeInit, NodeTypeOK
<1>4. QED BY <1>2, <1>3 DEF NodeInit, NodeInv, LastIsAStop, BridgesAreOwned, EntryWillGo

\* startAnt and its awaits up to the bridge touch neither children nor bridges,
\* and write no "bundled" into the registry.
LEMMA ShowInv ==
  ASSUME NodeInv, NodeTypeOK', LastIsAStop', UNCHANGED procVars,
         registry' = registry \/ registry' # "bundled"
  PROVE  NodeInv'
BY DEF NodeInv, procVars, BridgesAreOwned, EntryWillGo, Alive

\* A start, or one that is queued behind the stop under way.
LEMMA StartAntInv ==
  ASSUME NodeInv, StartAnt, queuedStart' \in BOOLEAN
  PROVE  NodeInv'
<1>1. NodeTypeOK /\ LastIsAStop BY DEF NodeInv
<1>2. UNCHANGED procVars /\ UNCHANGED <<config, healthTimer, checking>> BY DEF StartAnt
<1>3. CASE UNCHANGED <<showVars, generation, start>>
  <2>1. pendingStart' \in BOOLEAN BY <1>1, <1>3 DEF StartAnt, NodeTypeOK
  <2>2. NodeTypeOK' /\ LastIsAStop'
    BY <1>1, <1>2, <1>3, <2>1 DEF NodeTypeOK, LastIsAStop, procVars, showVars
  <2>3. QED BY <2>2, <1>2, <1>3, ShowInv DEF showVars
<1>4. CASE Room /\ generation' = generation + 1 /\ pendingStart' = FALSE
           /\ status \in {"stopped", "error"}
           /\ ~(UNCHANGED <<showVars, generation, start>>)
  <2>1. generation + 1 \in Gens \ {MaxGen} BY <1>1, <1>4, Numbers DEF NodeTypeOK, Room
  <2>2. PICK at \in {"ended", "external", "detect", "ports"} :
          start' = [start EXCEPT ![generation'] = at]
    BY <1>4 DEF StartAnt, BundledChecks
  <2>3. /\ status' \in {"stopped", "starting", "error"}
        /\ (mode' = mode /\ registry' = registry) \/ (mode' = "disabled" /\ registry' = "disabled")
    BY <1>4 DEF StartAnt, BundledChecks
  <2>4. start' \in [Gens -> {"none", "external", "detect", "ports", "bridge", "closing", "ended"}]
        /\ start'[MaxGen] = "none"
    BY <2>1, <2>2, <1>1, <1>4, Numbers DEF NodeTypeOK, LastIsAStop
  <2>5. generation' \in 0..MaxGen BY <2>1, <1>4, Numbers
  <2>6. NodeTypeOK' BY <1>1, <1>2, <1>4, <2>3, <2>4, <2>5 DEF NodeTypeOK, procVars, NotOwned
  <2>7. LastIsAStop' BY <1>1, <1>2, <2>4 DEF LastIsAStop, procVars
  <2>8. QED BY <2>3, <2>6, <2>7, <1>2, ShowInv
<1>5. QED BY <1>3, <1>4 DEF StartAnt

\* The awaits of a start before its child is spawned.
LEMMA AwaitInv ==
  ASSUME NodeInv, NEW g \in Gens,
         ExternalProbed(g) \/ Detected(g) \/ PortsResolved(g) \/ SpawnFailed(g)
  PROVE  NodeInv'
<1>1. NodeTypeOK /\ LastIsAStop BY DEF NodeInv
<1>2. start[g] # "none" BY DEF ExternalProbed, Detected, PortsResolved, SpawnFailed
<1>3. UNCHANGED <<config, generation, pendingStart, queuedStart, checking>> /\ UNCHANGED procVars
  BY DEF ExternalProbed, Detected, PortsResolved, SpawnFailed
<1>4. PICK at \in {"ended", "ports", "bridge"} : start' = [start EXCEPT ![g] = at]
  BY DEF ExternalProbed, Detected, PortsResolved, SpawnFailed, Adopt, StartFails, StartEnds, BundledChecks
<1>5. /\ status' \in {status, "running", "error", "starting"}
      /\ mode' \in {mode, "external", "reused", "bundled"}
      /\ registry' \in {registry, "external", "reused"}
      /\ healthTimer' \in {healthTimer, TRUE}
  BY DEF ExternalProbed, Detected, PortsResolved, SpawnFailed, Adopt, StartFails, StartEnds, BundledChecks
<1>6. g # MaxGen BY <1>1, <1>2 DEF LastIsAStop
<1>7. start' \in [Gens -> {"none", "external", "detect", "ports", "bridge", "closing", "ended"}]
      /\ start'[MaxGen] = "none"
  <2>1. start \in [Gens -> {"none", "external", "detect", "ports", "bridge", "closing", "ended"}]
        /\ start[MaxGen] = "none"
    BY <1>1 DEF NodeTypeOK, LastIsAStop
  <2>2. MaxGen \in Gens BY Numbers
  <2>3. QED BY <2>1, <2>2, <1>4, <1>6
<1>8. NodeTypeOK'
  <2>1. status' \in {"stopped", "starting", "running", "stopping", "error"} /\ healthTimer' \in BOOLEAN
    BY <1>1, <1>5 DEF NodeTypeOK
  <2>2. /\ mode' \in Owned \cup NotOwned \cup {"none"}
        /\ registry' \in Owned \cup NotOwned \cup {"none"}
    BY <1>1, <1>5 DEF NodeTypeOK, Owned, NotOwned
  <2>3. QED BY <1>1, <1>3, <1>7, <2>1, <2>2 DEF NodeTypeOK, procVars
<1>9. LastIsAStop' BY <1>1, <1>3, <1>7 DEF LastIsAStop, procVars
<1>10. QED BY <1>3, <1>5, <1>8, <1>9, ShowInv

\* The bridge of a start comes up, and its child is spawned.
LEMMA BridgeReadyInv ==
  ASSUME NodeInv, NEW g \in Gens, BridgeReady(g)
  PROVE  NodeInv'
<1>1. NodeTypeOK /\ LastIsAStop /\ BridgesAreOwned /\ EntryWillGo BY DEF NodeInv
<1>2. g # MaxGen BY <1>1 DEF LastIsAStop, BridgeReady
<1>3. UNCHANGED <<config, mode, registry, generation, pendingStart, queuedStart,
                  healthTimer, checking, forceKill, exitWaiters>>
  BY DEF BridgeReady
<1>4. PICK at \in {"ended", "closing"} : start' = [start EXCEPT ![g] = at] BY DEF BridgeReady
<1>5. status' \in {status, "error"} BY DEF BridgeReady
<1>6. start' \in [Gens -> {"none", "external", "detect", "ports", "bridge", "closing", "ended"}]
      /\ start'[MaxGen] = "none"
  BY <1>1, <1>2, <1>4, Numbers DEF NodeTypeOK, LastIsAStop
<1>7. CASE UNCHANGED <<antProcess, child, poll, bridges>> /\ chainBridge' \in {0, chainBridge}
  <2>1. NodeTypeOK' BY <1>1, <1>3, <1>5, <1>6, <1>7, Numbers DEF NodeTypeOK
  <2>2. QED BY <2>1, <1>1, <1>3, <1>6, <1>7
      DEF NodeInv, LastIsAStop, BridgesAreOwned, EntryWillGo, Alive
<1>8. CASE /\ bridges' = bridges \cup {g} /\ chainBridge' = g /\ antProcess' = g
           /\ child' = [child EXCEPT ![g] = "live"] /\ poll' = [poll EXCEPT ![g] = "idle"]
  <2>1. child' \in [Gens -> {"none", "live", "ending", "killed", "unborn", "gone"}]
        /\ child'[g] = "live" /\ \A h \in Gens \ {g} : child'[h] = child[h]
    BY <1>1, <1>8 DEF NodeTypeOK
  <2>2. poll' \in [Gens -> {"off", "idle", "asking"}] /\ poll'[MaxGen] = "off"
    BY <1>1, <1>2, <1>8, Numbers DEF NodeTypeOK, LastIsAStop
  <2>3. bridges' \subseteq Gens /\ antProcess' \in 0..MaxGen /\ chainBridge' \in 0..MaxGen
    BY <1>1, <1>8, Numbers DEF NodeTypeOK
  <2>4. NodeTypeOK' BY <1>1, <1>3, <1>5, <1>6, <2>1, <2>2, <2>3 DEF NodeTypeOK
  <2>5. BridgesAreOwned' BY <1>1, <1>8, <2>1 DEF BridgesAreOwned, Alive, NodeTypeOK
  <2>6. EntryWillGo' BY <1>8, <2>1, Numbers DEF EntryWillGo
  <2>7. QED BY <1>6, <2>2, <2>4, <2>5, <2>6 DEF NodeInv, LastIsAStop
<1>9. QED BY <1>7, <1>8 DEF BridgeReady

\* The synchronous part of stopAnt, and what its caller does with polls.
LEMMA StopAntInv ==
  ASSUME NodeInv, NEW after \in {"", "error"}, StopAnt(after), generation # MaxGen,
         poll' \in [Gens -> {"off", "idle", "asking"}], poll'[MaxGen] = "off"
  PROVE  NodeInv'
<1>1. NodeTypeOK /\ LastIsAStop /\ BridgesAreOwned /\ EntryWillGo BY DEF NodeInv
<1>2. /\ generation' = generation + 1 /\ bridges' = bridges \ {chainBridge} /\ chainBridge' = 0
      /\ pendingStart' = FALSE /\ healthTimer' = FALSE
      /\ UNCHANGED <<config, antProcess, queuedStart, start, checking>>
  BY DEF StopAnt
<1>3. generation' \in 0..MaxGen BY <1>1, <1>2, Numbers DEF NodeTypeOK
<1>4. /\ status' \in {"stopped", "stopping", "error"}
      /\ mode' \in {mode, "none"} /\ registry' \in {registry, "none"}
      /\ forceKill' \in {forceKill, TRUE}
  BY DEF StopAnt
<1>5. /\ child' \in [Gens -> {"none", "live", "ending", "killed", "unborn", "gone"}]
      /\ exitWaiters' \subseteq Gens
      /\ \A h \in Gens : child'[h] = child[h] \/ (child[h] = "live" /\ child'[h] = "ending")
  <2>1. CASE UNCHANGED <<child, exitWaiters>> BY <2>1, <1>1 DEF NodeTypeOK
  <2>2. CASE /\ antProcess # 0 /\ exitWaiters' = exitWaiters \cup {antProcess}
             /\ child' = [child EXCEPT ![antProcess] = IF @ = "live" THEN "ending" ELSE @]
    <3>1. antProcess \in Gens BY <2>2, <1>1, Numbers DEF NodeTypeOK
    <3>2. QED BY <3>1, <2>2, <1>1 DEF NodeTypeOK
  <2>3. QED BY <2>1, <2>2 DEF StopAnt
<1>6. chainBridge' \in 0..MaxGen /\ bridges' \subseteq Gens
  <2>1. 0 \in 0..MaxGen BY Numbers
  <2>2. bridges \subseteq Gens BY <1>1 DEF NodeTypeOK
  <2>3. QED BY <2>1, <2>2, <1>2
<1>7. NodeTypeOK' BY <1>1, <1>2, <1>3, <1>4, <1>5, <1>6 DEF NodeTypeOK
<1>8. BridgesAreOwned' BY <1>1, <1>2, <1>5, <1>6 DEF BridgesAreOwned, Alive
<1>9. EntryWillGo'
  <2>1. SUFFICES ASSUME registry' = "bundled" PROVE antProcess' # 0 /\ child'[antProcess'] # "gone"
    BY DEF EntryWillGo
  <2>2. registry = "bundled" BY <2>1, <1>4
  <2>3. antProcess # 0 /\ child[antProcess] # "gone" BY <2>2, <1>1 DEF EntryWillGo
  <2>4. antProcess \in Gens BY <2>3, <1>1, Numbers DEF NodeTypeOK
  <2>5. QED BY <2>3, <2>4, <1>2, <1>5
<1>10. QED BY <1>1, <1>2, <1>7, <1>8, <1>9 DEF NodeInv, LastIsAStop

\* Steps that change children but take none away from under a bridge.
LEMMA ForceKillInv == ASSUME NodeInv, ForceKill PROVE NodeInv'
<1>1. NodeTypeOK /\ LastIsAStop /\ BridgesAreOwned /\ EntryWillGo BY DEF NodeInv
<1>2. antProcess # 0 => antProcess \in Gens BY <1>1, Numbers DEF NodeTypeOK
<1>3. /\ child' \in [Gens -> {"none", "live", "ending", "killed", "unborn", "gone"}]
      /\ \A h \in Gens : child'[h] = child[h] \/ child'[h] = "killed"
  BY <1>1, <1>2 DEF ForceKill, NodeTypeOK
<1>4. NodeTypeOK' BY <1>1, <1>3 DEF NodeTypeOK, ForceKill
<1>5. BridgesAreOwned' BY <1>1, <1>3 DEF BridgesAreOwned, Alive, ForceKill, NodeTypeOK
<1>6. EntryWillGo' BY <1>1, <1>2, <1>3 DEF EntryWillGo, ForceKill
<1>7. QED BY <1>1, <1>4, <1>5, <1>6 DEF NodeInv, LastIsAStop, ForceKill

\* A child that exits takes its bridge and its entry with it.
LEMMA ClosedInv == ASSUME NodeInv, NEW g \in Gens, Closed(g) PROVE NodeInv'
<1>1. NodeTypeOK /\ LastIsAStop /\ BridgesAreOwned /\ EntryWillGo BY DEF NodeInv
<1>2. /\ child' \in [Gens -> {"none", "live", "ending", "killed", "unborn", "gone"}]
      /\ \A h \in Gens \ {g} : child'[h] = child[h]
  BY <1>1 DEF Closed, NodeTypeOK
<1>3. /\ bridges' = bridges \ {g} /\ chainBridge' \in {0, chainBridge}
      /\ antProcess' = (IF antProcess = g THEN 0 ELSE antProcess)
      /\ status' \in {status, "stopped"}
      /\ registry' = (IF antProcess = g THEN "none" ELSE registry)
      /\ exitWaiters' = exitWaiters \ {g}
      /\ UNCHANGED <<config, mode, generation, start, poll, checking>>
  BY DEF Closed, BridgeOf
<1>4. forceKill' \in BOOLEAN /\ healthTimer' \in BOOLEAN /\ queuedStart' \in BOOLEAN
      /\ pendingStart' \in BOOLEAN
  BY <1>1 DEF Closed, NodeTypeOK
<1>5. bridges' \subseteq Gens /\ antProcess' \in 0..MaxGen /\ chainBridge' \in 0..MaxGen
      /\ exitWaiters' \subseteq Gens
  BY <1>1, <1>3, Numbers DEF NodeTypeOK
<1>6. NodeTypeOK' BY <1>1, <1>2, <1>3, <1>4, <1>5 DEF NodeTypeOK
<1>7. BridgesAreOwned' BY <1>1, <1>2, <1>3 DEF BridgesAreOwned, Alive, NodeTypeOK
<1>8. EntryWillGo'
  <2>1. antProcess # 0 => antProcess \in Gens BY <1>1, Numbers DEF NodeTypeOK
  <2>2. QED BY <2>1, <1>1, <1>2, <1>3 DEF EntryWillGo
<1>9. QED BY <1>1, <1>3, <1>6, <1>7, <1>8 DEF NodeInv, LastIsAStop

\* A child that could not be spawned leaves no bridge.
LEMMA SpawnErrorInv == ASSUME NodeInv, NEW g \in Gens, SpawnError(g) PROVE NodeInv'
<1>1. NodeTypeOK /\ LastIsAStop /\ BridgesAreOwned /\ EntryWillGo BY DEF NodeInv
<1>2. /\ child' \in [Gens -> {"none", "live", "ending", "killed", "unborn", "gone"}]
      /\ child'[g] = "unborn" /\ \A h \in Gens \ {g} : child'[h] = child[h]
  BY <1>1 DEF SpawnError, NodeTypeOK
<1>3. /\ bridges' = bridges \ {g} /\ chainBridge' \in {0, chainBridge} /\ status' \in {status, "error"}
      /\ UNCHANGED <<config, mode, registry, generation, antProcess, pendingStart, queuedStart,
                     start, poll, healthTimer, checking, forceKill, exitWaiters>>
  BY DEF SpawnError, BridgeOf
<1>4. bridges' \subseteq Gens /\ chainBridge' \in 0..MaxGen BY <1>1, <1>3, Numbers DEF NodeTypeOK
<1>5. NodeTypeOK' BY <1>1, <1>2, <1>3, <1>4 DEF NodeTypeOK
<1>6. BridgesAreOwned' BY <1>1, <1>2, <1>3 DEF BridgesAreOwned, Alive, NodeTypeOK
<1>7. EntryWillGo'
  <2>1. antProcess # 0 => antProcess \in Gens BY <1>1, Numbers DEF NodeTypeOK
  <2>2. QED BY <2>1, <1>1, <1>2, <1>3 DEF EntryWillGo
<1>8. QED BY <1>1, <1>3, <1>5, <1>6, <1>7 DEF NodeInv, LastIsAStop

\* A poll runs only for a number that a start took.
LEMMA PollInv == ASSUME NodeInv, NEW g \in Gens, PollStep(g) PROVE NodeInv'
<1>1. NodeTypeOK /\ LastIsAStop /\ BridgesAreOwned /\ EntryWillGo BY DEF NodeInv
<1>2. g # MaxGen
  BY <1>1 DEF LastIsAStop, PollStep, PollTick, PollSuperseded, PollHealthy, PollUnhealthy,
              PollTimesOut, PollCurrent
<1>3. poll' \in [Gens -> {"off", "idle", "asking"}] /\ poll'[MaxGen] = "off"
  <2>1. PICK at \in {"off", "idle", "asking"} : poll' = [poll EXCEPT ![g] = at]
    BY DEF PollStep, PollTick, PollSuperseded, PollHealthy, PollUnhealthy, PollTimesOut
  <2>2. QED BY <2>1, <1>1, <1>2, Numbers DEF NodeTypeOK, LastIsAStop
<1>4. CASE PollTick(g) \/ PollSuperseded(g) \/ PollUnhealthy(g)
  <2>1. UNCHANGED <<config, showVars, generation, pendingStart, queuedStart, start, antProcess,
                    child, bridges, chainBridge, forceKill, exitWaiters, healthTimer, checking>>
    BY <1>4 DEF PollTick, PollSuperseded, PollUnhealthy
  <2>2. NodeTypeOK' BY <1>1, <1>3, <2>1 DEF NodeTypeOK, showVars
  <2>3. QED BY <1>1, <1>3, <2>1, <2>2
      DEF NodeInv, LastIsAStop, BridgesAreOwned, EntryWillGo, Alive, showVars
<1>5. CASE PollHealthy(g)
  <2>1. /\ UNCHANGED <<config, mode, generation, pendingStart, queuedStart, start, antProcess,
                       child, bridges, chainBridge, forceKill, exitWaiters, checking>>
        /\ registry' = "bundled" /\ status' = "running" /\ healthTimer' = TRUE
        /\ antProcess = g /\ Alive(g)
    BY <1>5 DEF PollHealthy, PollCurrent
  <2>2. NodeTypeOK' BY <1>1, <1>3, <2>1 DEF NodeTypeOK, Owned
  <2>3. EntryWillGo' BY <2>1, Numbers DEF EntryWillGo, Alive
  <2>4. QED BY <1>1, <1>3, <2>1, <2>2, <2>3 DEF NodeInv, LastIsAStop, BridgesAreOwned, Alive
<1>6. CASE PollTimesOut(g)
  <2>1. StopAnt("error") /\ generation # MaxGen
    BY <1>2, <1>6 DEF PollTimesOut, PollCurrent
  <2>2. QED BY <2>1, <1>3, StopAntInv
<1>7. QED BY <1>4, <1>5, <1>6 DEF PollStep

\* The health check only shows what it finds.
LEMMA HealthInv == ASSUME NodeInv, HealthTick \/ HealthAnswer PROVE NodeInv'
<1>1. NodeTypeOK /\ LastIsAStop BY DEF NodeInv
<1>2. UNCHANGED <<config, mode, registry, generation, pendingStart, queuedStart, start, healthTimer>>
      /\ UNCHANGED procVars
  BY DEF HealthTick, HealthAnswer, showVars
<1>3. status' \in {status, "error", "running"} /\ checking' \in BOOLEAN
  BY DEF HealthTick, HealthAnswer, showVars
<1>4. NodeTypeOK' BY <1>1, <1>2, <1>3 DEF NodeTypeOK, procVars
<1>5. QED BY <1>1, <1>2, <1>4, ShowInv DEF LastIsAStop, procVars

\* Every step keeps the invariant.
LEMMA NodeNextInv == NodeInv /\ [NodeNext]_nodeVars => NodeInv'
<1> SUFFICES ASSUME NodeInv, [NodeNext]_nodeVars PROVE NodeInv' OBVIOUS
<1>1. NodeTypeOK /\ LastIsAStop BY DEF NodeInv
<1>2. CASE UserStart
  BY <1>1, <1>2, StartAntInv DEF UserStart, NodeTypeOK
<1>3. CASE QueuedStart
  BY <1>3, StartAntInv DEF QueuedStart
<1>4. CASE UserStop
  <2>1. Room /\ generation \in 0..MaxGen /\ StopAnt("") /\ UNCHANGED poll
    BY <1>1, <1>4 DEF UserStop, NodeTypeOK
  <2>2. generation # MaxGen BY <2>1, Numbers DEF Room
  <2>3. poll' \in [Gens -> {"off", "idle", "asking"}] /\ poll'[MaxGen] = "off"
    BY <1>1, <2>1 DEF NodeTypeOK, LastIsAStop
  <2>4. QED BY <2>1, <2>2, <2>3, StopAntInv
<1>5. CASE UNCHANGED nodeVars
  BY <1>5 DEF nodeVars, NodeInv, NodeTypeOK, LastIsAStop, BridgesAreOwned, EntryWillGo, Alive
<1>6. ASSUME NEW g \in Gens, StartStep(g) PROVE NodeInv'
  BY <1>6, AwaitInv, BridgeReadyInv DEF StartStep
<1>7. QED
  BY <1>2, <1>3, <1>4, <1>5, <1>6, ForceKillInv, HealthInv, PollInv, ClosedInv, SpawnErrorInv DEF NodeNext

\* The invariant always holds.
LEMMA NodeAlways == NodeSpec => []NodeInv
BY NodeInitInv, NodeNextInv, PTL DEF NodeSpec

\* The manager's variables keep their types, for any number of starts and stops.
THEOREM NodeTypeCorrect == NodeSpec => []NodeTypeOK
<1>1. NodeInv => NodeTypeOK BY DEF NodeInv
<1>2. QED BY <1>1, NodeAlways, PTL

\* No chain bridge is open without the child it was made for, for any number of
\* starts and stops: each handler of a child closes its own (startAnt, stopAnt).
THEOREM BridgesOwned == NodeSpec => []BridgesAreOwned
<1>1. NodeInv => BridgesAreOwned BY DEF NodeInv
<1>2. QED BY <1>1, NodeAlways, PTL

\* The registry never sends pages to a bundled node whose close has already been
\* handled, for any number of starts and stops.
THEOREM EntryGoes == NodeSpec => []EntryWillGo
<1>1. NodeInv => EntryWillGo BY DEF NodeInv
<1>2. QED BY <1>1, NodeAlways, PTL

-----------------------------------------------------------------------------
(* PublishSetup                                                            *)

Phases == {"none", "quoting", "awaiting-funds", "executing", "confirming",
           "done", "failed", "rejected"}

\* The types, with no bound yet on the calls that are out.
Types ==
  /\ reused \in BOOLEAN /\ restart \in BOOLEAN
  /\ opSeq \in 0..MaxOps /\ operation \in 0..opSeq
  /\ kind \in [Ops -> Kinds \cup {"none"}]
  /\ phase \in [Ops -> Phases]
  /\ executed \subseteq Ops /\ uncertain \subseteq Ops
  /\ amountChecked \subseteq Ops /\ priced \subseteq Ops
  /\ quotes \in [Ops -> Nat] /\ nodeReads \in [Ops -> Nat]
  /\ quoteTimer \in 0..MaxOps /\ txTimer \in 0..MaxOps
  /\ write \in [Ops -> {"none", "before", "sent", "carried", "after"}]
  /\ fundingTx \in [Ops -> {"none", "pending", "ended"}]
  /\ txPoll \subseteq Ops
  /\ confirmPoll \in [Ops -> {"off", "timer", "asking"}]
  /\ watchers \subseteq Windows
  /\ dismissal \in [op : 0..MaxOps, viewers : SUBSET Windows]
  /\ paid \in [Ops -> Nat] /\ late \subseteq Ops

\* The current operation is one of those armed.
LEMMA OperationArmed ==
  ASSUME Types PROVE Ops \subseteq Nat /\ operation # 0 => operation \in Ops
BY BoundAssumption DEF Types, Ops

\* The confirm timers that are stopped.
LEMMA ConfirmStoppedType ==
  ASSUME Types
  PROVE  /\ ConfirmStopped \in [Ops -> {"off", "timer", "asking"}]
         /\ \A i \in Ops : confirmPoll[i] # "timer" => ConfirmStopped[i] = confirmPoll[i]
BY DEF Types, ConfirmStopped

\* What the ends of an answered call do with an operation is well typed.
LEMMA OutcomeTypes ==
  ASSUME Types, NEW i \in Ops
  PROVE  /\ \A ph \in Phases :
              Retry(i, ph) \/ (\E b \in BOOLEAN : End(i, ph, b)) =>
                /\ phase' \in [Ops -> Phases] /\ uncertain' \subseteq Ops
                /\ quoteTimer' \in 0..MaxOps /\ txTimer' \in 0..MaxOps
                /\ confirmPoll' \in [Ops -> {"off", "timer", "asking"}]
         /\ Execute(i) \/ ConfirmBatch(i) =>
              /\ phase' \in [Ops -> Phases] /\ uncertain' \subseteq Ops
              /\ quoteTimer' \in 0..MaxOps /\ txTimer' \in 0..MaxOps
              /\ confirmPoll' \in [Ops -> {"off", "timer", "asking"}]
         /\ Execute(i) =>
              /\ executed' \subseteq Ops
              /\ write' \in [Ops -> {"none", "before", "sent", "carried", "after"}]
<1>1. i \in 0..MaxOps /\ 0 \in 0..MaxOps BY BoundAssumption DEF Ops
<1>2. ASSUME NEW ph \in Phases, Retry(i, ph)
      PROVE  /\ phase' \in [Ops -> Phases] /\ uncertain' \subseteq Ops
             /\ quoteTimer' \in 0..MaxOps /\ txTimer' \in 0..MaxOps
             /\ confirmPoll' \in [Ops -> {"off", "timer", "asking"}]
  BY <1>1, <1>2 DEF Types, Retry
<1>3. ASSUME NEW ph \in Phases, NEW b \in BOOLEAN, End(i, ph, b)
      PROVE  /\ phase' \in [Ops -> Phases] /\ uncertain' \subseteq Ops
             /\ quoteTimer' \in 0..MaxOps /\ txTimer' \in 0..MaxOps
             /\ confirmPoll' \in [Ops -> {"off", "timer", "asking"}]
  BY <1>1, <1>3, ConfirmStoppedType DEF Types, End
<1>4. "executing" \in Phases /\ "confirming" \in Phases BY DEF Phases
<1>5. ASSUME Execute(i) \/ ConfirmBatch(i)
      PROVE  /\ phase' \in [Ops -> Phases] /\ uncertain' \subseteq Ops
             /\ quoteTimer' \in 0..MaxOps /\ txTimer' \in 0..MaxOps
             /\ confirmPoll' \in [Ops -> {"off", "timer", "asking"}]
  <2>1. CASE Execute(i) BY <1>1, <1>4, <2>1 DEF Types, Execute
  <2>2. CASE ConfirmBatch(i) BY <1>1, <1>4, <2>2 DEF Types, ConfirmBatch
  <2> QED BY <1>5, <2>1, <2>2
<1>6. Execute(i) =>
              /\ executed' \subseteq Ops
              /\ write' \in [Ops -> {"none", "before", "sent", "carried", "after"}]
  BY DEF Types, Execute
<1> QED BY <1>2, <1>3, <1>5, <1>6
\* Every step keeps the types.
LEMMA NextTypes == Types /\ [Next]_vars => Types'
<1> SUFFICES ASSUME Types, [Next]_vars PROVE Types' OBVIOUS
<1>0. /\ {"quoting", "awaiting-funds", "executing", "confirming", "done", "failed", "rejected"}
           \subseteq Phases
      /\ \A i \in Ops : phase[i] \in Phases
      /\ TRUE \in BOOLEAN /\ FALSE \in BOOLEAN
  BY DEF Types, Phases
<1>1. ASSUME NEW k \in Kinds, Arm(k) PROVE Types'
  <2>1. opSeq + 1 \in Ops /\ opSeq + 1 \in 0..MaxOps /\ 0 \in 0..MaxOps
        /\ opSeq' = opSeq + 1 /\ operation' = opSeq + 1 /\ opSeq + 1 \in 0..(opSeq + 1)
    BY <1>1, BoundAssumption DEF Arm, Types, Ops
  <2>2. kind' \in [Ops -> Kinds \cup {"none"}] /\ phase' \in [Ops -> Phases]
        /\ quotes' \in [Ops -> Nat]
    BY <1>0, <1>1, <2>1 DEF Arm, Types
  <2>3. operation' \in 0..opSeq' /\ opSeq' \in 0..MaxOps /\ quoteTimer' \in 0..MaxOps
        /\ txTimer' \in 0..MaxOps
    BY <1>1, <2>1 DEF Arm
  <2> QED BY <1>1, <2>2, <2>3 DEF Arm, Types, screenVars
<1>2. CASE QuoteTick
  <2>1. quoteTimer \in Ops /\ 0 \in 0..MaxOps BY <1>2, BoundAssumption DEF QuoteTick, Types, Ops
  <2>2. quotes' \in [Ops -> Nat] BY <1>2, <2>1 DEF QuoteTick, Types
  <2> QED BY <1>2, <2>1, <2>2 DEF QuoteTick, Types, opVars, screenVars
<1>3. ASSUME NEW i \in Ops, QuoteAnswered(i) PROVE Types'
  <2>1. quotes' \in [Ops -> Nat] BY <1>3 DEF QuoteAnswered, Types
  <2>2. nodeReads' \in [Ops -> Nat] BY <1>3 DEF QuoteAnswered, Types
  <2>3. \/ UNCHANGED <<phase, uncertain, executed, quoteTimer, txTimer, confirmPoll, write>>
        \/ UNCHANGED <<executed, write>> /\ \E ph \in Phases : Retry(i, ph) \/ End(i, ph, FALSE)
        \/ Execute(i)
    BY <1>0, <1>3 DEF QuoteAnswered, Superseded, Unread, Refused, AlreadyFull, Short, PriceAmount
  <2>4. /\ phase' \in [Ops -> Phases] /\ uncertain' \subseteq Ops
        /\ quoteTimer' \in 0..MaxOps /\ txTimer' \in 0..MaxOps
        /\ confirmPoll' \in [Ops -> {"off", "timer", "asking"}]
        /\ executed' \subseteq Ops
        /\ write' \in [Ops -> {"none", "before", "sent", "carried", "after"}]
    BY <1>0, <2>3, OutcomeTypes DEF Types
  <2> QED BY <1>3, <2>1, <2>2, <2>4 DEF QuoteAnswered, Types, screenVars
<1>4. ASSUME NEW i \in Ops, NodeAnswered(i) PROVE Types'
  <2>1. nodeReads' \in [Ops -> Nat] /\ amountChecked' \subseteq Ops
    BY <1>4 DEF NodeAnswered, Types
  <2>2. \/ UNCHANGED <<phase, uncertain, executed, quoteTimer, txTimer, confirmPoll, write>>
        \/ UNCHANGED <<executed, write>> /\ \E ph \in Phases : Retry(i, ph) \/ End(i, ph, FALSE)
        \/ Execute(i)
    BY <1>0, <1>4 DEF NodeAnswered, Superseded, Unread, Refused, AlreadyFull, Short, PriceAmount
  <2>3. /\ phase' \in [Ops -> Phases] /\ uncertain' \subseteq Ops
        /\ quoteTimer' \in 0..MaxOps /\ txTimer' \in 0..MaxOps
        /\ confirmPoll' \in [Ops -> {"off", "timer", "asking"}]
        /\ executed' \subseteq Ops
        /\ write' \in [Ops -> {"none", "before", "sent", "carried", "after"}]
    BY <1>0, <2>2, OutcomeTypes DEF Types
  <2> QED BY <1>4, <2>1, <2>3 DEF NodeAnswered, Types, screenVars
<1>5. ASSUME NEW i \in Ops, StampsRead(i) \/ Carry(i) \/ CarryLate(i) PROVE Types'
  <2>1. write' \in [Ops -> {"none", "before", "sent", "carried", "after"}] /\ paid' \in [Ops -> Nat]
        /\ late' \subseteq Ops
    BY <1>5 DEF StampsRead, Carry, CarryLate, callVars, Types
  <2> QED BY <1>5, <2>1 DEF StampsRead, Carry, CarryLate, callVars, opVars, screenVars, Types
<1>6. ASSUME NEW i \in Ops, WriteAnswered(i) PROVE Types'
  <2>1. \/ \E ph \in Phases : Retry(i, ph) \/ End(i, ph, FALSE)
        \/ ConfirmBatch(i)
    BY <1>0, <1>6 DEF WriteAnswered, WriteBusy, WriteShort, WriteRefused, WriteOk
  <2>2. /\ phase' \in [Ops -> Phases] /\ uncertain' \subseteq Ops
        /\ quoteTimer' \in 0..MaxOps /\ txTimer' \in 0..MaxOps
        /\ confirmPoll' \in [Ops -> {"off", "timer", "asking"}]
    BY <1>0, <2>1, OutcomeTypes
  <2>3. write' \in [Ops -> {"none", "before", "sent", "carried", "after"}]
    BY <1>6 DEF WriteAnswered, Types
  <2>4. executed' \subseteq Ops /\ priced' \subseteq Ops
    BY <1>6 DEF WriteAnswered, WriteBusy, WriteShort, WriteRefused, WriteOk, Types
  <2> QED BY <1>6, <2>2, <2>3, <2>4 DEF WriteAnswered, Types, screenVars
<1>7. ASSUME NEW i \in Ops, WriteUnanswered(i) PROVE Types'
  <2>1. \/ UNCHANGED <<phase, uncertain, quoteTimer, txTimer, confirmPoll>>
        \/ \E ph \in Phases : End(i, ph, TRUE)
    BY <1>0, <1>7 DEF WriteUnanswered, Doubt
  <2>2. /\ phase' \in [Ops -> Phases] /\ uncertain' \subseteq Ops
        /\ quoteTimer' \in 0..MaxOps /\ txTimer' \in 0..MaxOps
        /\ confirmPoll' \in [Ops -> {"off", "timer", "asking"}]
    BY <1>0, <2>1, OutcomeTypes DEF Types
  <2>3. write' \in [Ops -> {"none", "before", "sent", "carried", "after"}]
    BY <1>7 DEF WriteUnanswered, Doubt, Types
  <2>4. executed' = executed BY <1>7 DEF WriteUnanswered, Doubt
  <2>5. late' = late \/ late' = late \cup {i} BY <1>7 DEF WriteUnanswered
  <2> QED BY <1>7, <2>2, <2>3, <2>4, <2>5 DEF WriteUnanswered, Types, screenVars
<1>8. ASSUME NEW i \in Ops, StampsReadAgain(i) PROVE Types'
  <2>1. ConfirmBatch(i) \/ \E ph \in Phases : End(i, ph, TRUE)
    BY <1>0, <1>8 DEF StampsReadAgain
  <2>2. /\ phase' \in [Ops -> Phases] /\ uncertain' \subseteq Ops
        /\ quoteTimer' \in 0..MaxOps /\ txTimer' \in 0..MaxOps
        /\ confirmPoll' \in [Ops -> {"off", "timer", "asking"}]
    BY <1>0, <2>1, OutcomeTypes
  <2>3. write' \in [Ops -> {"none", "before", "sent", "carried", "after"}]
    BY <1>8 DEF StampsReadAgain, Types
  <2> QED BY <1>8, <2>2, <2>3 DEF StampsReadAgain, Types, screenVars
<1>9. ASSUME NEW i \in Ops, ConfirmTick(i) \/ ConfirmAgain(i) PROVE Types'
  <2>1. confirmPoll' \in [Ops -> {"off", "timer", "asking"}]
    BY <1>9 DEF ConfirmTick, ConfirmAgain, Types
  <2> QED BY <1>9, <2>1 DEF ConfirmTick, ConfirmAgain, opVars, screenVars, Types
<1>10. ASSUME NEW i \in Ops, Confirmed(i) PROVE Types'
  <2>1. phase' \in [Ops -> Phases] BY <1>0, <1>10 DEF Confirmed, Types
  <2>2. confirmPoll' \in [Ops -> {"off", "timer", "asking"}]
    BY <1>10, ConfirmStoppedType DEF Confirmed
  <2>3. quoteTimer' \in 0..MaxOps /\ txTimer' \in 0..MaxOps
    BY <1>10, BoundAssumption DEF Confirmed
  <2> QED BY <1>10, <2>1, <2>2, <2>3 DEF Confirmed, Types, screenVars
<1>11. CASE TrackFundingTx
  <2>1. operation \in Ops /\ 0 \in 0..MaxOps
    BY <1>11, BoundAssumption DEF TrackFundingTx, Types, Ops
  <2>2. fundingTx' \in [Ops -> {"none", "pending", "ended"}] /\ txPoll' \subseteq Ops
    BY <1>11, <2>1 DEF TrackFundingTx, Types
  <2> QED BY <1>11, <2>1, <2>2 DEF TrackFundingTx, Types, opVars, screenVars
<1>12. CASE TxTick
  <2>1. txTimer \in Ops /\ 0 \in 0..MaxOps BY <1>12, BoundAssumption DEF TxTick, Types, Ops
  <2> QED BY <1>12, <2>1 DEF TxTick, Types, opVars, screenVars
<1>13. ASSUME NEW i \in Ops, TxAnswered(i) PROVE Types'
  <2>1. i \in 0..MaxOps /\ 0 \in 0..MaxOps BY BoundAssumption DEF Ops
  <2>2. fundingTx' \in [Ops -> {"none", "pending", "ended"}] /\ txPoll' \subseteq Ops
    BY <1>13 DEF TxAnswered, Types
  <2>3. quotes' \in [Ops -> Nat] BY <1>13 DEF TxAnswered, Types
  <2>4. quoteTimer' \in 0..MaxOps /\ txTimer' \in 0..MaxOps BY <1>13, <2>1 DEF TxAnswered, Types
  <2> QED BY <1>13, <2>2, <2>3, <2>4 DEF TxAnswered, Types, opVars, screenVars
<1>14. 0 \in 0..opSeq /\ 0 \in 0..MaxOps /\ operation \in 0..MaxOps BY BoundAssumption DEF Types
<1>15. Drop \/ Keep => /\ operation' \in 0..opSeq
                       /\ quoteTimer' \in 0..MaxOps /\ txTimer' \in 0..MaxOps
                       /\ confirmPoll' \in [Ops -> {"off", "timer", "asking"}]
  BY <1>14, ConfirmStoppedType DEF Drop, Keep, Types
<1>16. CASE Cancel BY <1>15, <1>16 DEF Cancel, Types, screenVars
<1>17. ASSUME NEW w \in Windows, Dismiss(w) PROVE Types'
  <2>1. Left(operation) \subseteq Windows BY DEF Left, Types
  <2>2. dismissal' \in [op : 0..MaxOps, viewers : SUBSET Windows]
    BY <1>14, <1>17, <2>1 DEF Dismiss
  <2>3. Drop \/ Keep BY <1>17 DEF Dismiss
  <2> QED BY <1>15, <1>17, <2>2, <2>3 DEF Dismiss, Types
<1>18. ASSUME NEW w \in Windows, WatchOn(w) \/ WatchOff(w) PROVE Types'
  <2>1. (Drop \/ Keep) /\ watchers' \subseteq Windows
    BY <1>18 DEF WatchOn, WatchOff, Settle, Types
  <2> QED BY <1>15, <1>18, <2>1 DEF WatchOn, WatchOff, Types
<1>19. CASE RestartNode \/ Restarted
  BY <1>19 DEF RestartNode, Restarted, Types, opVars, callVars, screenVars
<1>20. CASE UNCHANGED vars BY <1>20 DEF vars, Types, opVars, callVars, screenVars
<1> QED
  BY <1>1, <1>2, <1>3, <1>4, <1>5, <1>6, <1>7, <1>8, <1>9, <1>10, <1>11, <1>12, <1>13, <1>16,
     <1>17, <1>18, <1>19, <1>20 DEF Next, OpStep
-----------------------------------------------------------------------------
(* What a step does with a purchase                                        *)

EndPhases == {"done", "failed", "rejected"}

Unpaid(i) == paid[i] = 0 /\ i \notin late

\* Only the current operation is being paid for, and just then its write is out.
Writes == \A i \in Ops :
  /\ write[i] # "none" <=> phase[i] = "executing"
  /\ phase[i] = "executing" => operation = i

\* Operations are numbered as they are armed.
Fresh == \A i \in Ops : i > opSeq => phase[i] = "none"

\* What has left the wallet, or may yet leave it.
Money == \A i \in Ops :
  /\ phase[i] \in QuotingPhases \cup {"none"} \/ write[i] \in {"before", "sent"} => Unpaid(i)
  /\ write[i] = "carried" => paid[i] = 1 /\ i \notin late
  /\ paid[i] \in {0, 1} /\ (i \in late => paid[i] = 0)
  /\ i \in uncertain => phase[i] = "failed"

\* The current operation goes on to ph, with w for its write.
Turn(i, ph, w) ==
  /\ i \in Ops /\ operation = i
  /\ phase' = [phase EXCEPT ![i] = ph] /\ write' = [write EXCEPT ![i] = w]
  /\ UNCHANGED <<opSeq, operation>>

Unspent == UNCHANGED <<uncertain, paid, late>>

\* Nothing is paid: it is tried again, given up, or found to be needless.
Back(i) ==
  \/ /\ phase[i] \in QuotingPhases \/ write[i] = "sent"
     /\ \E ph \in QuotingPhases \cup {"failed"} : Turn(i, ph, "none")
     /\ Unspent
  \/ phase[i] \in QuotingPhases /\ Turn(i, "done", "none") /\ Unspent

Forward(i) ==
  \/ /\ phase[i] \in QuotingPhases
     /\ \E w \in {"before", "sent"} : Turn(i, "executing", w)
     /\ uncertain' = uncertain \ {i} /\ UNCHANGED <<paid, late>>
  \/ /\ write[i] = "before" /\ Turn(i, "executing", "sent") /\ Unspent
  \/ /\ write[i] = "carried" /\ \E ph \in {"confirming", "done"} : Turn(i, ph, "none")
     /\ Unspent
  \/ /\ write[i] = "after" /\ Turn(i, "confirming", "none") /\ Unspent
  \/ /\ phase[i] = "confirming" /\ \E ph \in {"done", "rejected"} : Turn(i, ph, "none")
     /\ Unspent

Doubted(i) ==
  /\ write[i] \in {"sent", "carried", "after"} /\ UNCHANGED paid
  /\ late' = late \/ (write[i] = "sent" /\ late' = late \cup {i})
  /\ \/ Turn(i, "executing", "after") /\ UNCHANGED uncertain
     \/ Turn(i, "failed", "none") /\ uncertain' = uncertain \cup {i}

Carried(i) ==
  /\ i \in Ops /\ UNCHANGED <<opSeq, operation, phase, uncertain>>
  /\ paid' = [paid EXCEPT ![i] = @ + 1]
  /\ \/ write[i] = "sent" /\ write' = [write EXCEPT ![i] = "carried"] /\ UNCHANGED late
     \/ i \in late /\ late' = late \ {i} /\ UNCHANGED write

Armed ==
  /\ opSeq + 1 \in Ops /\ opSeq' = opSeq + 1 /\ operation' = opSeq + 1
  /\ operation # 0 => phase[operation] \notin {"executing", "confirming"}
  /\ phase' = [phase EXCEPT ![opSeq + 1] = "quoting"]
  /\ UNCHANGED <<write, uncertain, paid, late>>

Still ==
  /\ UNCHANGED <<opSeq, phase, write, uncertain, paid, late>>
  /\ operation' = operation \/ (operation' = 0 /\ phase[operation] # "executing")

\* How an answered price moves the operation on: not at all, to another attempt, to
\* its end, or to its payment.
Priced(i) ==
  \/ /\ UNCHANGED <<phase, uncertain, executed, quoteTimer, txTimer, confirmPoll, write>>
     /\ Quoting(i) => quotes'[i] + nodeReads'[i] = quotes[i] + nodeReads[i]
  \/ /\ Quoting(i) /\ UNCHANGED <<executed, write>>
     /\ \/ \E ph \in QuotingPhases : Retry(i, ph)
        \/ \E ph \in {"failed", "done"} : End(i, ph, FALSE)
  \/ Quoting(i) /\ Execute(i)

\* Every answer to a call that prices the operation is one of these.
LEMMA AnswerPrices ==
  ASSUME Types, NEW i \in Ops, QuoteAnswered(i) \/ NodeAnswered(i)
  PROVE  /\ Priced(i)
         /\ UNCHANGED <<opSeq, operation, paid, late, watchers, dismissal>>
         /\ \A j \in Ops \ {i} : quotes'[j] = quotes[j] /\ nodeReads'[j] = nodeReads[j]
<1>1. Quoting(i) => phase[i] \in QuotingPhases BY DEF Quoting
<1>2. "awaiting-funds" \in QuotingPhases BY DEF QuotingPhases
<1>3. CASE QuoteAnswered(i)
  <2>1. /\ \/ ~Quoting(i) /\ Superseded(i)
           \/ Quoting(i) /\ (Unread(i) \/ Refused(i) \/ AlreadyFull(i) \/ Execute(i) \/ Short(i))
           \/ /\ UNCHANGED <<phase, uncertain, executed, quoteTimer, txTimer, confirmPoll, write>>
              /\ nodeReads' = [nodeReads EXCEPT ![i] = @ + 1]
        /\ quotes[i] > 0 /\ quotes' = [quotes EXCEPT ![i] = @ - 1]
        /\ nodeReads' = nodeReads \/ nodeReads' = [nodeReads EXCEPT ![i] = @ + 1]
    BY <1>3 DEF QuoteAnswered, PriceAmount, Superseded
  <2>2. ASSUME nodeReads' = [nodeReads EXCEPT ![i] = @ + 1]
        PROVE  quotes'[i] + nodeReads'[i] = quotes[i] + nodeReads[i]
    BY <2>1, <2>2 DEF Types
  <2>3. Priced(i)
    BY <1>1, <1>2, <2>1, <2>2 DEF Priced, Superseded, Unread, Refused, AlreadyFull, Short
  <2>4. \A j \in Ops \ {i} : quotes'[j] = quotes[j] /\ nodeReads'[j] = nodeReads[j]
    BY <2>1 DEF Types
  <2> QED BY <1>3, <2>3, <2>4 DEF QuoteAnswered, screenVars
<1>4. CASE NodeAnswered(i)
  <2>1. /\ \/ ~Quoting(i) /\ Superseded(i)
           \/ Quoting(i) /\ (Unread(i) \/ Refused(i) \/ Execute(i) \/ Short(i))
        /\ nodeReads' = [nodeReads EXCEPT ![i] = @ - 1] /\ quotes' = quotes
    BY <1>4 DEF NodeAnswered, PriceAmount, Superseded
  <2>2. Priced(i)
    BY <1>1, <1>2, <2>1 DEF Priced, Superseded, Unread, Refused, Short
  <2>3. \A j \in Ops \ {i} : quotes'[j] = quotes[j] /\ nodeReads'[j] = nodeReads[j]
    BY <2>1 DEF Types
  <2> QED BY <1>4, <2>2, <2>3 DEF NodeAnswered, screenVars
<1> QED BY <1>3, <1>4

\* Every step is one of these.
LEMMA Moves ==
  ASSUME Types, Writes, [Next]_vars
  PROVE  Still \/ Armed \/ \E i \in Ops : Back(i) \/ Forward(i) \/ Doubted(i) \/ Carried(i)
<1>0. \A i \in Ops : phase[i] \in Phases /\ write[i] \in {"none", "before", "sent", "carried", "after"}
  BY DEF Types
<1>1. ASSUME NEW k \in Kinds, Arm(k) PROVE Armed
  <2>1. opSeq + 1 \in Ops BY <1>1, BoundAssumption DEF Arm, Types, Ops
  <2>2. opSeq' = opSeq + 1 /\ operation' = opSeq + 1 BY <1>1 DEF Arm
  <2> QED BY <1>1, <2>1, <2>2 DEF Arm, Armable, Armed
<1>2. ASSUME NEW i \in Ops, QuoteAnswered(i) \/ NodeAnswered(i)
      PROVE  Still \/ Back(i) \/ Forward(i)
  <2>1. Priced(i) /\ UNCHANGED <<opSeq, operation, paid, late>> BY <1>2, AnswerPrices
  <2>2. CASE UNCHANGED <<phase, uncertain, write>> BY <2>1, <2>2 DEF Still
  <2>3. Quoting(i) => /\ phase[i] \in QuotingPhases /\ operation = i
                      /\ write[i] = "none" /\ [write EXCEPT ![i] = "none"] = write
    BY DEF Quoting, QuotingPhases, Writes, Types
  <2>4. CASE /\ Quoting(i) /\ UNCHANGED <<executed, write>>
             /\ \/ \E ph \in QuotingPhases : Retry(i, ph)
                \/ \E ph \in {"failed", "done"} : End(i, ph, FALSE)
    <3>1. \E ph \in QuotingPhases \cup {"failed", "done"} : phase' = [phase EXCEPT ![i] = ph]
      BY <2>4 DEF Retry, End
    <3>2. uncertain' = uncertain BY <2>4 DEF Retry, End
    <3>3. \E ph \in QuotingPhases \cup {"failed", "done"} : Turn(i, ph, "none")
      BY <2>1, <2>3, <2>4, <3>1 DEF Turn
    <3> QED BY <2>1, <2>3, <2>4, <3>2, <3>3 DEF Back, Unspent
  <2>5. CASE Quoting(i) /\ Execute(i) BY <2>1, <2>3, <2>5 DEF Execute, Forward, Turn
  <2> QED BY <2>1, <2>2, <2>4, <2>5 DEF Priced
<1>3. ASSUME NEW i \in Ops, StampsRead(i) PROVE Forward(i)
  <2>1. operation = i /\ phase[i] = "executing" BY <1>3 DEF StampsRead, Writes
  <2>2. phase = [phase EXCEPT ![i] = "executing"] BY <2>1 DEF Types
  <2> QED BY <1>3, <2>1, <2>2 DEF StampsRead, opVars, Forward, Turn, Unspent
<1>4. ASSUME NEW i \in Ops, Carry(i) \/ CarryLate(i) PROVE Carried(i)
  BY <1>4 DEF Carry, CarryLate, Carried, opVars, callVars
<1>5. ASSUME NEW i \in Ops, WriteAnswered(i) PROVE Back(i) \/ Forward(i)
  <2>1. /\ operation = i /\ write' = [write EXCEPT ![i] = "none"]
        /\ UNCHANGED <<opSeq, operation, paid, late>>
    BY <1>5 DEF WriteAnswered
  <2>2. CASE WriteBusy(i) \/ WriteShort(i) \/ WriteRefused(i)
    <3>1. /\ write[i] = "sent" /\ uncertain' = uncertain
          /\ \E ph \in QuotingPhases \cup {"failed"} : phase' = [phase EXCEPT ![i] = ph]
      BY <2>2 DEF WriteBusy, WriteShort, WriteRefused, Retry, End, QuotingPhases
    <3> QED BY <2>1, <3>1 DEF Back, Turn, Unspent
  <2>3. CASE WriteOk(i)
    <3>1. /\ write[i] = "carried" /\ uncertain' = uncertain
          /\ \E ph \in {"confirming", "done"} : phase' = [phase EXCEPT ![i] = ph]
      BY <2>3 DEF WriteOk, ConfirmBatch, End
    <3> QED BY <2>1, <3>1 DEF Forward, Turn, Unspent
  <2> QED BY <1>5, <2>2, <2>3 DEF WriteAnswered
<1>6. ASSUME NEW i \in Ops, WriteUnanswered(i) PROVE Doubted(i)
  <2>1. operation = i /\ phase[i] = "executing" BY <1>6 DEF WriteUnanswered, Writes
  <2>2. phase = [phase EXCEPT ![i] = "executing"] BY <2>1 DEF Types
  <2>3. write[i] = "sent" => late' = late \/ late' = late \cup {i} BY <1>6 DEF WriteUnanswered
  <2>4. write[i] # "sent" => late' = late BY <1>6 DEF WriteUnanswered
  <2>5. /\ write[i] \in {"sent", "carried"} /\ UNCHANGED <<opSeq, operation, paid>> /\ Doubt(i)
        /\ late' = late \/ (write[i] = "sent" /\ late' = late \cup {i})
    BY <1>6, <2>3, <2>4 DEF WriteUnanswered
  <2> QED BY <2>1, <2>2, <2>5 DEF Doubt, End, Doubted, Turn
<1>7. ASSUME NEW i \in Ops, StampsReadAgain(i) PROVE Forward(i) \/ Doubted(i)
  <2>1. /\ operation = i /\ write[i] = "after" /\ write' = [write EXCEPT ![i] = "none"]
        /\ UNCHANGED <<opSeq, operation, paid, late>>
    BY <1>7 DEF StampsReadAgain
  <2>2. CASE ConfirmBatch(i) BY <2>1, <2>2 DEF ConfirmBatch, Forward, Turn, Unspent
  <2>3. CASE End(i, "failed", TRUE) BY <2>1, <2>3 DEF End, Doubted, Turn
  <2> QED BY <1>7, <2>2, <2>3 DEF StampsReadAgain
<1>8. ASSUME NEW i \in Ops, Confirmed(i) PROVE Forward(i)
  <2>1. operation = i /\ phase[i] = "confirming" BY <1>8 DEF Confirmed, Confirming
  <2>2. write = [write EXCEPT ![i] = "none"] BY <2>1 DEF Writes, Types
  <2> QED BY <1>8, <2>1, <2>2 DEF Confirmed, Forward, Turn, Unspent
<1>9. ASSUME NEW i \in Ops, ConfirmTick(i) \/ ConfirmAgain(i) \/ TxAnswered(i) PROVE Still
  BY <1>9 DEF ConfirmTick, ConfirmAgain, TxAnswered, Still, opVars
<1>10. CASE QuoteTick \/ TrackFundingTx \/ TxTick \/ RestartNode \/ Restarted \/ UNCHANGED vars
  BY <1>10 DEF QuoteTick, TrackFundingTx, TxTick, RestartNode, Restarted, vars, Still, opVars, callVars
<1>11. CASE Cancel BY <1>11 DEF Cancel, Drop, Still
<1>12. ASSUME NEW w \in Windows, Dismiss(w) \/ WatchOn(w) \/ WatchOff(w) PROVE Still
  <2>1. CASE Keep BY <1>12, <2>1 DEF Dismiss, WatchOn, WatchOff, Keep, Still
  <2>2. CASE Drop /\ Finished
    BY <1>12, <2>2 DEF Dismiss, WatchOn, WatchOff, Drop, Finished, Still
  <2> QED BY <1>12, <2>1, <2>2 DEF Dismiss, WatchOn, WatchOff, Settle
<1> QED
  BY <1>1, <1>2, <1>3, <1>4, <1>5, <1>6, <1>7, <1>8, <1>9, <1>10, <1>11, <1>12 DEF Next, OpStep
-----------------------------------------------------------------------------
(* What was paid, and the promise                                          *)

Core == Types /\ Writes /\ Fresh /\ Money

\* The phases of a purchase are distinct, and so are the marks of its write.
LEMMA PhaseFacts ==
  /\ QuotingPhases = {"quoting", "awaiting-funds"}
  /\ "executing" \notin QuotingPhases /\ "none" \notin QuotingPhases
BY DEF QuotingPhases

\* The current operation is followed by no other that was armed.
LEMMA TurnFresh ==
  ASSUME Types, Fresh, NEW i \in Ops, operation = i
  PROVE  ~(i > opSeq)
BY BoundAssumption DEF Types, Ops

\* Every step keeps the bookkeeping of what was paid.
LEMMA NextCore == Core /\ [Next]_vars => Core'
<1> SUFFICES ASSUME Core, [Next]_vars PROVE Core' OBVIOUS
<1>1. Types /\ Writes /\ Fresh /\ Money /\ Types' BY NextTypes DEF Core
<1>2. /\ phase \in [Ops -> Phases] /\ paid \in [Ops -> Nat]
      /\ write \in [Ops -> {"none", "before", "sent", "carried", "after"}]
  BY <1>1 DEF Types
<1>3. CASE Still
  <2>1. Writes' BY <1>1, <1>3, PhaseFacts DEF Still, Writes, Ops
  <2>2. Fresh' /\ Money' BY <1>1, <1>3 DEF Still, Fresh, Money, Unpaid
  <2> QED BY <1>1, <2>1, <2>2 DEF Core
<1>4. CASE Armed
  <2> DEFINE n == opSeq + 1
  <2>1. /\ n \in Ops /\ n > opSeq /\ operation' = n /\ opSeq' = n
        /\ phase' = [phase EXCEPT ![n] = "quoting"]
        /\ UNCHANGED <<write, uncertain, paid, late>>
    BY <1>1, <1>4, BoundAssumption DEF Armed, Types, Ops
  <2>2. \A i \in Ops : i > n => i > opSeq /\ i # n
    BY <1>1, BoundAssumption DEF Types, Ops
  <2> HIDE DEF n
  <2>3. phase[n] = "none" /\ write[n] = "none" BY <1>1, <1>2, <2>1 DEF Fresh, Writes
  <2>4. \A i \in Ops \ {n} : phase'[i] = phase[i] /\ phase[i] # "executing"
    <3>1. operation # 0 => phase[operation] # "executing" BY <1>4 DEF Armed
    <3>2. 0 \notin Ops BY DEF Ops
    <3> QED BY <1>1, <1>2, <2>1, <3>1, <3>2 DEF Writes
  <2>5. phase'[n] = "quoting" BY <1>2, <2>1
  <2>6. Writes' BY <1>1, <2>1, <2>3, <2>4, <2>5 DEF Writes
  <2>7. Fresh' BY <1>1, <2>1, <2>2, <2>4 DEF Fresh
  <2>8. Unpaid(n) /\ n \notin uncertain BY <1>1, <2>1, <2>3 DEF Money
  <2>9. Money' BY <1>1, <2>1, <2>3, <2>4, <2>5, <2>8 DEF Money, Unpaid
  <2> QED BY <1>1, <2>6, <2>7, <2>9 DEF Core
<1>5. ASSUME NEW i \in Ops, NEW ph, NEW w, Turn(i, ph, w), w # "none" <=> ph = "executing", ph # "none"
      PROVE  /\ Writes' /\ Fresh'
             /\ phase'[i] = ph /\ write'[i] = w
             /\ \A j \in Ops \ {i} : phase'[j] = phase[j] /\ write'[j] = write[j]
  <2>1. phase'[i] = ph /\ write'[i] = w BY <1>2, <1>5 DEF Turn
  <2>2. \A j \in Ops \ {i} : phase'[j] = phase[j] /\ write'[j] = write[j] BY <1>2, <1>5 DEF Turn
  <2>3. operation' = i /\ operation = i /\ opSeq' = opSeq BY <1>5 DEF Turn
  <2>4. Writes' BY <1>1, <1>5, <2>1, <2>2, <2>3 DEF Writes
  <2>5. Fresh' BY <1>1, <2>2, <2>3, TurnFresh DEF Fresh
  <2> QED BY <2>1, <2>2, <2>4, <2>5
<1>6. ASSUME NEW i \in Ops, Back(i) PROVE Core'
  <2>1. PICK ph \in QuotingPhases \cup {"failed", "done"} : Turn(i, ph, "none")
    BY <1>6 DEF Back
  <2>2. Unpaid(i) /\ Unspent /\ i \notin uncertain
    BY <1>1, <1>6, PhaseFacts DEF Back, Money, Writes
  <2>3. "none" # "none" <=> ph = "executing" BY PhaseFacts
  <2>4. ph # "none" BY PhaseFacts
  <2>5. Writes' /\ Fresh' /\ phase'[i] = ph /\ write'[i] = "none"
        /\ \A j \in Ops \ {i} : phase'[j] = phase[j] /\ write'[j] = write[j]
    BY <1>5, <2>1, <2>3, <2>4
  <2>6. Money' BY <1>1, <2>2, <2>5 DEF Money, Unspent, Unpaid
  <2> QED BY <1>1, <2>5, <2>6 DEF Core
<1>7. ASSUME NEW i \in Ops, Forward(i) PROVE Core'
  <2>1. CASE /\ phase[i] \in QuotingPhases
             /\ \E w \in {"before", "sent"} : Turn(i, "executing", w)
             /\ uncertain' = uncertain \ {i} /\ UNCHANGED <<paid, late>>
    <3>1. PICK w \in {"before", "sent"} : Turn(i, "executing", w) BY <2>1
    <3>2. Writes' /\ Fresh' /\ phase'[i] = "executing" /\ write'[i] = w
          /\ \A j \in Ops \ {i} : phase'[j] = phase[j] /\ write'[j] = write[j]
      BY <1>5, <3>1
    <3>3. Unpaid(i) BY <1>1, <2>1 DEF Money
    <3>4. Money' BY <1>1, <2>1, <3>2, <3>3, PhaseFacts DEF Money, Unpaid
    <3> QED BY <1>1, <3>2, <3>4 DEF Core
  <2>2. CASE write[i] = "before" /\ Turn(i, "executing", "sent") /\ Unspent
    <3>1. Writes' /\ Fresh' /\ phase'[i] = "executing" /\ write'[i] = "sent"
          /\ \A j \in Ops \ {i} : phase'[j] = phase[j] /\ write'[j] = write[j]
      BY <1>5, <2>2
    <3>2. Money' BY <1>1, <2>2, <3>1, PhaseFacts DEF Money, Unpaid, Unspent, Writes
    <3> QED BY <1>1, <3>1, <3>2 DEF Core
  <2>3. ASSUME NEW ph \in {"confirming", "done", "rejected"}, Turn(i, ph, "none"), Unspent,
               phase[i] \in {"executing", "confirming"}
        PROVE  Core'
    <3>1. Writes' /\ Fresh' /\ phase'[i] = ph /\ write'[i] = "none"
          /\ \A j \in Ops \ {i} : phase'[j] = phase[j] /\ write'[j] = write[j]
      BY <1>5, <2>3
    <3>2. Money' BY <1>1, <2>3, <3>1, PhaseFacts DEF Money, Unpaid, Unspent
    <3> QED BY <1>1, <3>1, <3>2 DEF Core
  <2>4. write[i] \in {"carried", "after"} => phase[i] = "executing" BY <1>1 DEF Writes
  <2> QED BY <1>7, <2>1, <2>2, <2>3, <2>4 DEF Forward
<1>8. ASSUME NEW i \in Ops, Doubted(i) PROVE Core'
  <2>1. /\ phase[i] = "executing" /\ paid' = paid
        /\ late' = late \/ (write[i] = "sent" /\ late' = late \cup {i})
    BY <1>1, <1>8 DEF Doubted, Writes
  <2>2. \A j \in Ops \ {i} : Unpaid(j)' <=> Unpaid(j) BY <2>1 DEF Unpaid
  <2>3. i \in late' => paid[i] = 0 BY <1>1, <2>1 DEF Money, Unpaid
  <2>4. CASE Turn(i, "executing", "after") /\ UNCHANGED uncertain
    <3>1. Writes' /\ Fresh' /\ phase'[i] = "executing" /\ write'[i] = "after"
          /\ \A j \in Ops \ {i} : phase'[j] = phase[j] /\ write'[j] = write[j]
      BY <1>5, <2>4
    <3>2. Money' BY <1>1, <2>1, <2>2, <2>3, <2>4, <3>1, PhaseFacts DEF Money
    <3> QED BY <1>1, <3>1, <3>2 DEF Core
  <2>5. CASE Turn(i, "failed", "none") /\ uncertain' = uncertain \cup {i}
    <3>1. Writes' /\ Fresh' /\ phase'[i] = "failed" /\ write'[i] = "none"
          /\ \A j \in Ops \ {i} : phase'[j] = phase[j] /\ write'[j] = write[j]
      BY <1>5, <2>5
    <3>2. Money' BY <1>1, <2>1, <2>2, <2>3, <2>5, <3>1, PhaseFacts DEF Money
    <3> QED BY <1>1, <3>1, <3>2 DEF Core
  <2> QED BY <1>8, <2>4, <2>5 DEF Doubted
<1>9. ASSUME NEW i \in Ops, Carried(i) PROVE Core'
  <2>1. /\ UNCHANGED <<opSeq, operation, phase, uncertain>>
        /\ \A j \in Ops \ {i} : paid'[j] = paid[j] /\ write'[j] = write[j] /\ (j \in late' <=> j \in late)
        /\ paid[i] = 0 /\ paid'[i] = 1 /\ i \notin late'
    BY <1>1, <1>2, <1>9 DEF Carried, Money, Unpaid
  <2>2. \/ write[i] = "sent" /\ write'[i] = "carried"
        \/ i \in late /\ write'[i] = write[i]
    BY <1>2, <1>9 DEF Carried
  <2>3. Writes' BY <1>1, <2>1, <2>2 DEF Writes
  <2>4. Fresh' BY <1>1, <2>1 DEF Fresh
  <2>5. phase[i] \notin QuotingPhases \cup {"none"} BY <1>1, <2>2, PhaseFacts DEF Writes, Money, Unpaid
  <2>6. write'[i] \notin {"before", "sent"} BY <1>1, <2>2 DEF Money, Unpaid
  <2>7. Money' BY <1>1, <2>1, <2>2, <2>5, <2>6 DEF Money, Unpaid
  <2> QED BY <1>1, <2>3, <2>4, <2>7 DEF Core
<1> QED BY <1>1, <1>3, <1>4, <1>6, <1>7, <1>8, <1>9, Moves

\* The bookkeeping starts right.
LEMMA InitCore == Init => Core
<1> SUFFICES ASSUME Init PROVE Core OBVIOUS
<1>1. Types
  <2>1. 0 \in 0..MaxOps /\ 0 \in 0..0 BY BoundAssumption
  <2>2. /\ kind \in [Ops -> Kinds \cup {"none"}] /\ phase \in [Ops -> Phases]
        /\ quotes \in [Ops -> Nat] /\ nodeReads \in [Ops -> Nat] /\ paid \in [Ops -> Nat]
    BY DEF Init, Phases
  <2>3. /\ write \in [Ops -> {"none", "before", "sent", "carried", "after"}]
        /\ fundingTx \in [Ops -> {"none", "pending", "ended"}]
        /\ confirmPoll \in [Ops -> {"off", "timer", "asking"}]
    BY DEF Init
  <2>4. dismissal \in [op : 0..MaxOps, viewers : SUBSET Windows] BY <2>1 DEF Init
  <2> QED BY <2>1, <2>2, <2>3, <2>4 DEF Init, Types
<1>2. Writes /\ Fresh /\ Money BY DEF Init, Writes, Fresh, Money, Unpaid
<1> QED BY <1>1, <1>2 DEF Core

\* The bookkeeping is right throughout.
LEMMA AlwaysCore == Spec => []Core
BY InitCore, NextCore, PTL DEF Spec
\* What the promise shows of a purchase.
Shown(i) ==
  CASE phase[i] = "none" -> "none"
    [] phase[i] \in QuotingPhases -> "open"
    [] phase[i] = "executing" -> "paying"
    [] phase[i] = "confirming" -> "bought"
    [] phase[i] = "failed" -> IF i \in uncertain THEN "unsure" ELSE "failed"
    [] OTHER -> phase[i]

Stage == [i \in Ops |-> Shown(i)]

\* What is shown in each phase.
LEMMA Stages ==
  ASSUME Types, NEW i \in Ops
  PROVE  /\ phase[i] = "none" <=> Stage[i] = "none"
         /\ phase[i] \in QuotingPhases <=> Stage[i] = "open"
         /\ phase[i] = "executing" <=> Stage[i] = "paying"
         /\ phase[i] = "confirming" <=> Stage[i] = "bought"
         /\ phase[i] = "done" <=> Stage[i] = "done"
         /\ phase[i] = "rejected" <=> Stage[i] = "rejected"
         /\ phase[i] = "failed" /\ i \in uncertain <=> Stage[i] = "unsure"
         /\ phase[i] = "failed" /\ i \notin uncertain <=> Stage[i] = "failed"
<1>1. phase[i] \in Phases BY DEF Types
<1>2. Stage[i] = Shown(i) BY DEF Stage
<1> QED BY <1>1, <1>2 DEF Shown, Phases, QuotingPhases

\* The same of the next state.
LEMMA StagesNext ==
  ASSUME Types', NEW i \in Ops
  PROVE  /\ phase'[i] = "none" <=> Stage'[i] = "none"
         /\ phase'[i] \in QuotingPhases <=> Stage'[i] = "open"
         /\ phase'[i] = "executing" <=> Stage'[i] = "paying"
         /\ phase'[i] = "confirming" <=> Stage'[i] = "bought"
         /\ phase'[i] = "done" <=> Stage'[i] = "done"
         /\ phase'[i] = "rejected" <=> Stage'[i] = "rejected"
         /\ phase'[i] = "failed" /\ i \in uncertain' <=> Stage'[i] = "unsure"
         /\ phase'[i] = "failed" /\ i \notin uncertain' <=> Stage'[i] = "failed"
<1>1. phase'[i] \in Phases BY DEF Types
<1>2. Stage'[i] = Shown(i)' BY DEF Stage
<1> QED BY <1>1, <1>2 DEF Shown, Phases, QuotingPhases

\* A step shows a change of one purchase at most.
LEMMA OneShown ==
  ASSUME NEW i \in Ops, NEW from, NEW to, Stage[i] \in from, Stage'[i] \in to,
         \A j \in Ops \ {i} : phase'[j] = phase[j] /\ (j \in uncertain' <=> j \in uncertain)
  PROVE  Promise!Enter(i, from, to)
<1>1. \A j \in Ops \ {i} : Shown(j)' = Shown(j) BY DEF Shown
<1>2. Stage' = [j \in Ops |-> Stage'[j]] /\ Stage = [j \in Ops |-> Stage[j]] BY DEF Stage
<1>3. \A j \in Ops \ {i} : Stage'[j] = Stage[j] BY <1>1 DEF Stage
<1>4. Stage' = [Stage EXCEPT ![i] = Stage'[i]] BY <1>2, <1>3
<1>5. Promise!Enter(i, from, to) <=>
        Stage[i] \in from /\ \E s \in to : Stage' = [Stage EXCEPT ![i] = s]
  BY DEF Promise!Enter, Stage, Shown
<1> HIDE DEF Stage
<1> QED BY <1>4, <1>5

\* Every step of the setup is one the promise allows, or shows nothing.
LEMMA NextPromise ==
  ASSUME Core, Core', [Next]_vars
  PROVE  [Promise!Next]_(Promise!vars)
<1>1. Types /\ Writes /\ Fresh /\ Money /\ Types' BY DEF Core
<1>2. /\ phase \in [Ops -> Phases] /\ paid \in [Ops -> Nat]
      /\ write \in [Ops -> {"none", "before", "sent", "carried", "after"}]
  BY <1>1 DEF Types
<1>3. Promise!vars = <<Stage, late, paid>> /\ Promise!vars' = <<Stage', late', paid'>>
  BY DEF Promise!vars, Stage, Shown
<1>4. ASSUME NEW i \in Ops, NEW ph, NEW w, Turn(i, ph, w)
      PROVE  phase'[i] = ph /\ \A j \in Ops \ {i} : phase'[j] = phase[j]
  BY <1>2, <1>4 DEF Turn
<1>5. CASE Still
  <2>1. Stage' = Stage /\ late' = late /\ paid' = paid BY <1>5 DEF Still, Stage, Shown
  <2> QED BY <1>3, <2>1
<1>6. CASE Armed
  <2>0. PICK n \in Ops : n = opSeq + 1 BY <1>6 DEF Armed
  <2>1. /\ n \in Ops /\ n > opSeq /\ phase' = [phase EXCEPT ![n] = "quoting"]
        /\ UNCHANGED <<write, uncertain, paid, late>>
    BY <1>1, <1>6, <2>0, BoundAssumption DEF Armed, Types, Ops
  <2>2. phase[n] = "none" /\ phase'[n] = "quoting" /\ \A j \in Ops \ {n} : phase'[j] = phase[j]
    BY <1>1, <1>2, <2>1 DEF Fresh
  <2>3. Stage[n] = "none" /\ Stage'[n] = "open"
    BY <1>1, <2>1, <2>2, Stages, StagesNext, PhaseFacts
  <2>4. Promise!Enter(n, {"none"}, {"open"}) BY <2>1, <2>2, <2>3, OneShown
  <2>5. Promise!Ask(n) BY <2>1, <2>4 DEF Promise!Ask
  <2>6. Promise!Next BY <2>1, <2>5 DEF Promise!Next
  <2> QED BY <2>6
<1>7. ASSUME NEW i \in Ops, Back(i) PROVE Promise!Next
  <2>1. Unspent /\ Unpaid(i) /\ i \notin uncertain
    BY <1>1, <1>7, PhaseFacts DEF Back, Money, Writes
  <2>2. Promise!Untouched(i) BY <2>1 DEF Promise!Untouched, Unpaid
  <2>3. CASE /\ phase[i] \in QuotingPhases \/ write[i] = "sent"
             /\ \E ph \in QuotingPhases \cup {"failed"} : Turn(i, ph, "none")
    <3>1. PICK ph \in QuotingPhases \cup {"failed"} : Turn(i, ph, "none") BY <2>3
    <3>2. phase'[i] = ph /\ \A j \in Ops \ {i} : phase'[j] = phase[j] BY <1>4, <3>1
    <3>3. Stage[i] \in {"open", "paying"} BY <1>1, <2>3, Stages DEF Writes
    <3>4. Stage'[i] \in {"open", "failed"} BY <1>1, <2>1, <3>2, StagesNext DEF Unspent
    <3>5. Promise!Enter(i, {"open", "paying"}, {"open", "failed"})
      BY <2>1, <3>2, <3>3, <3>4, OneShown DEF Unspent
    <3>6. Promise!BackOut(i) BY <2>1, <2>2, <3>5 DEF Promise!BackOut, Unspent
    <3> QED BY <3>6 DEF Promise!Next
  <2>4. CASE phase[i] \in QuotingPhases /\ Turn(i, "done", "none")
    <3>1. phase'[i] = "done" /\ \A j \in Ops \ {i} : phase'[j] = phase[j] BY <1>4, <2>4
    <3>2. Stage[i] = "open" /\ Stage'[i] = "done" BY <1>1, <2>4, <3>1, Stages, StagesNext
    <3>3. Promise!Enter(i, {"open"}, {"done"}) BY <2>1, <3>1, <3>2, OneShown DEF Unspent
    <3>4. Promise!Needless(i) BY <2>1, <3>3 DEF Promise!Needless, Unspent
    <3> QED BY <3>4 DEF Promise!Next
  <2> QED BY <1>7, <2>3, <2>4 DEF Back
<1>8. ASSUME NEW i \in Ops, Forward(i) PROVE Promise!Next \/ UNCHANGED <<Stage, late, paid>>
  <2>1. CASE /\ phase[i] \in QuotingPhases
             /\ \E w \in {"before", "sent"} : Turn(i, "executing", w)
             /\ uncertain' = uncertain \ {i} /\ UNCHANGED <<paid, late>>
    <3>1. phase'[i] = "executing" /\ \A j \in Ops \ {i} : phase'[j] = phase[j] BY <1>4, <2>1
    <3>2. Stage[i] = "open" /\ Stage'[i] = "paying" BY <1>1, <2>1, <3>1, Stages, StagesNext
    <3>3. Promise!Enter(i, {"open"}, {"paying"}) BY <2>1, <3>1, <3>2, OneShown
    <3>4. \A j \in Ops : Stage[j] # "paying"
      <4>1. operation = i /\ phase[i] # "executing" BY <2>1, PhaseFacts DEF Turn
      <4> QED BY <1>1, <4>1, Stages DEF Writes
    <3>5. (\A j \in Ops : Stage[j] # "paying") /\ Promise!Enter(i, {"open"}, {"paying"})
          /\ UNCHANGED <<late, paid>> => Promise!Begin(i)
      BY DEF Promise!Begin, Stage, Shown
    <3> QED BY <2>1, <3>3, <3>4, <3>5 DEF Promise!Next
  <2>2. CASE write[i] = "before" /\ Turn(i, "executing", "sent") /\ Unspent
    <3>1. phase'[i] = "executing" /\ \A j \in Ops \ {i} : phase'[j] = phase[j] BY <1>4, <2>2
    <3>2. phase[i] = "executing" BY <1>1, <2>2 DEF Writes
    <3>3. Stage' = Stage BY <2>2, <3>1, <3>2 DEF Unspent, Stage, Shown
    <3> QED BY <2>2, <3>3 DEF Unspent
  <2>3. CASE write[i] = "carried" /\ (\E ph \in {"confirming", "done"} : Turn(i, ph, "none")) /\ Unspent
    <3>1. PICK ph \in {"confirming", "done"} : Turn(i, ph, "none") BY <2>3
    <3>2. phase'[i] = ph /\ \A j \in Ops \ {i} : phase'[j] = phase[j] BY <1>4, <3>1
    <3>3. Stage[i] = "paying" /\ Stage'[i] \in {"bought", "done"}
      BY <1>1, <2>3, <3>2, Stages, StagesNext DEF Writes
    <3>4. Promise!Enter(i, {"paying"}, {"bought", "done"}) BY <2>3, <3>2, <3>3, OneShown DEF Unspent
    <3>5. paid[i] = 1 BY <1>1, <2>3 DEF Money
    <3>6. Promise!Succeed(i) BY <2>3, <3>4, <3>5 DEF Promise!Succeed, Unspent
    <3> QED BY <3>6 DEF Promise!Next
  <2>4. CASE write[i] = "after" /\ Turn(i, "confirming", "none") /\ Unspent
    <3>1. phase'[i] = "confirming" /\ \A j \in Ops \ {i} : phase'[j] = phase[j] BY <1>4, <2>4
    <3>2. Stage[i] = "paying" /\ Stage'[i] = "bought"
      BY <1>1, <2>4, <3>1, Stages, StagesNext DEF Writes
    <3>3. Promise!Enter(i, {"paying"}, {"bought"}) BY <2>4, <3>1, <3>2, OneShown DEF Unspent
    <3>4. Promise!Find(i) BY <2>4, <3>3 DEF Promise!Find, Unspent
    <3> QED BY <3>4 DEF Promise!Next
  <2>5. CASE phase[i] = "confirming" /\ (\E ph \in {"done", "rejected"} : Turn(i, ph, "none")) /\ Unspent
    <3>1. PICK ph \in {"done", "rejected"} : Turn(i, ph, "none") BY <2>5
    <3>2. phase'[i] = ph /\ \A j \in Ops \ {i} : phase'[j] = phase[j] BY <1>4, <3>1
    <3>3. Stage[i] = "bought" /\ Stage'[i] \in {"done", "rejected"}
      BY <1>1, <2>5, <3>2, Stages, StagesNext
    <3>4. Promise!Enter(i, {"bought"}, {"done", "rejected"}) BY <2>5, <3>2, <3>3, OneShown DEF Unspent
    <3>5. Promise!Confirm(i) BY <2>5, <3>4 DEF Promise!Confirm, Unspent
    <3> QED BY <3>5 DEF Promise!Next
  <2> QED BY <1>8, <2>1, <2>2, <2>3, <2>4, <2>5 DEF Forward
<1>9. ASSUME NEW i \in Ops, Doubted(i) PROVE Promise!Next
  <2>1. /\ phase[i] = "executing" /\ paid' = paid /\ late \subseteq Ops
        /\ late' = late \/ (write[i] = "sent" /\ late' = late \cup {i})
    BY <1>1, <1>9 DEF Doubted, Writes, Types
  <2>2. write[i] = "sent" => paid[i] = 0 BY <1>1 DEF Money, Unpaid
  <2>3. late' \in {late, late \cup (IF paid[i] = 0 THEN {i} ELSE {})} BY <2>1, <2>2
  <2>4. /\ phase'[i] \in {"executing", "failed"} /\ \A j \in Ops \ {i} : phase'[j] = phase[j]
        /\ phase'[i] = "failed" => i \in uncertain'
        /\ \A j \in Ops \ {i} : j \in uncertain' <=> j \in uncertain
    <3>1. CASE Turn(i, "executing", "after") /\ UNCHANGED uncertain BY <1>4, <3>1
    <3>2. CASE Turn(i, "failed", "none") /\ uncertain' = uncertain \cup {i} BY <1>4, <3>2
    <3> QED BY <1>9, <3>1, <3>2 DEF Doubted
  <2>5. Stage[i] = "paying" /\ Stage'[i] \in {"paying", "unsure"}
    BY <1>1, <2>1, <2>4, Stages, StagesNext
  <2>6. Promise!Enter(i, {"paying"}, {"paying", "unsure"}) BY <2>4, <2>5, OneShown
  <2>7. Promise!Doubt(i) BY <2>1, <2>3, <2>6 DEF Promise!Doubt
  <2> QED BY <2>7 DEF Promise!Next
<1>10. ASSUME NEW i \in Ops, Carried(i) PROVE Promise!Next
  <2>1. Stage' = Stage BY <1>10 DEF Carried, Stage, Shown
  <2>2. paid[i] = 0 BY <1>1, <1>10 DEF Carried, Money, Unpaid
  <2>3. paid' = [paid EXCEPT ![i] = 1] BY <1>2, <1>10, <2>2 DEF Carried
  <2>4. late' = late \ {i} BY <1>1, <1>10 DEF Carried, Money, Unpaid
  <2>5. Stage[i] = "paying" \/ i \in late BY <1>1, <1>10, Stages DEF Carried, Writes
  <2>6. Promise!Pay(i) <=> /\ paid[i] = 0 /\ (Stage[i] = "paying" \/ i \in late)
                           /\ paid' = [paid EXCEPT ![i] = 1] /\ late' = late \ {i}
                           /\ Stage' = Stage
    BY DEF Promise!Pay, Stage, Shown
  <2> QED BY <2>1, <2>2, <2>3, <2>4, <2>5, <2>6 DEF Promise!Next
<1> QED BY <1>1, <1>3, <1>5, <1>6, <1>7, <1>8, <1>9, <1>10, Moves

\* Each purchase is paid for at most once, one at a time, and is reported as failed
\* for certain only if nothing was paid or will be: for any number of purchases,
\* whatever the node answers, and whenever it is restarted or windows close.
THEOREM PromiseKept == Spec => ImplementsPromise
<1>1. ASSUME Init PROVE Promise!Init
  <2>1. Core BY <1>1, InitCore
  <2>2. \A i \in Ops : Shown(i) = "none" BY <1>1 DEF Init, Shown, QuotingPhases
  <2>3. Stage = [i \in Ops |-> "none"] BY <2>2 DEF Stage
  <2>4. Promise!Init <=> /\ Stage = [i \in Ops |-> "none"] /\ late = {}
                         /\ paid = [i \in Ops |-> 0]
    BY DEF Promise!Init, Stage, Shown
  <2> QED BY <1>1, <2>3, <2>4 DEF Init
<1>2. Core /\ Core' /\ [Next]_vars => [Promise!Next]_(Promise!vars) BY NextPromise
<1> QED BY <1>1, <1>2, AlwaysCore, PTL DEF Spec, ImplementsPromise, Promise!Spec
-----------------------------------------------------------------------------
(* Results that were dismissed                                             *)

\* What has ended stays as it ended.
LEMMA EndStays ==
  ASSUME Core, [Next]_vars, NEW i \in Ops, phase[i] \in EndPhases
  PROVE  phase'[i] = phase[i]
<1>1. Types /\ Writes /\ Fresh /\ Money /\ phase \in [Ops -> Phases] BY DEF Core, Types
<1>2. phase[i] \notin QuotingPhases \cup {"none", "executing", "confirming"}
  BY DEF EndPhases, QuotingPhases
<1>3. ASSUME NEW j \in Ops, NEW ph, NEW w, Turn(j, ph, w), j # i PROVE phase'[i] = phase[i]
  BY <1>1, <1>3 DEF Turn
<1>4. ASSUME NEW j \in Ops, Back(j) \/ Forward(j) \/ Doubted(j) PROVE phase'[i] = phase[i]
  <2>1. phase[j] \in QuotingPhases \cup {"executing", "confirming"}
    BY <1>1, <1>4 DEF Back, Forward, Doubted, Writes
  <2>2. \E ph, w : Turn(j, ph, w) BY <1>4 DEF Back, Forward, Doubted
  <2> QED BY <1>2, <1>3, <2>1, <2>2
<1>5. CASE Armed
  <2>1. phase[opSeq + 1] = "none" BY <1>1, <1>5, BoundAssumption DEF Armed, Fresh, Types, Ops
  <2> QED BY <1>1, <1>2, <1>5, <2>1 DEF Armed
<1>6. ASSUME NEW j \in Ops, Carried(j) PROVE phase'[i] = phase[i] BY <1>6 DEF Carried
<1> QED BY <1>1, <1>4, <1>5, <1>6, Moves DEF Still

\* Only the windows change what is shown and what was left.
LEMMA ScreenSteps ==
  ASSUME [Next]_vars
  PROVE  \/ UNCHANGED <<watchers, dismissal>>
         \/ \E w \in Windows : Dismiss(w) \/ WatchOn(w) \/ WatchOff(w)
<1>1. ASSUME NEW i \in Ops, OpStep(i) PROVE UNCHANGED <<watchers, dismissal>>
  BY <1>1 DEF OpStep, QuoteAnswered, NodeAnswered, StampsRead, Carry, CarryLate, WriteAnswered,
              WriteUnanswered, StampsReadAgain, ConfirmTick, ConfirmAgain, Confirmed, TxAnswered,
              screenVars
<1>2. ASSUME NEW k \in Kinds, Arm(k) PROVE UNCHANGED <<watchers, dismissal>>
  BY <1>2 DEF Arm, screenVars
<1>3. CASE QuoteTick \/ TrackFundingTx \/ TxTick \/ Cancel \/ RestartNode \/ Restarted
  BY <1>3 DEF QuoteTick, TrackFundingTx, TxTick, Cancel, RestartNode, Restarted, screenVars
<1>4. CASE UNCHANGED vars BY <1>4 DEF vars, screenVars
<1> QED BY <1>1, <1>2, <1>3, <1>4 DEF Next

\* A result that was left is one: its operation has ended.
LeftIsResult == dismissal.op # 0 => phase[dismissal.op] \in EndPhases

\* Every step keeps that, and drops a result once no window shows it.
LEMMA NextResults ==
  ASSUME Core, LeftIsResult, DismissedResultsGo, [Next]_vars
  PROVE  LeftIsResult' /\ DismissedResultsGo'
<1>1. Types /\ Types' BY NextTypes DEF Core
<1>2. dismissal \in [op : 0..MaxOps, viewers : SUBSET Windows] /\ operation \in 0..opSeq
      /\ opSeq \in 0..MaxOps
  BY <1>1 DEF Types
<1>3. dismissal.op # 0 => dismissal.op \in Ops BY <1>2 DEF Ops
<1>4. dismissal.op # 0 => phase'[dismissal.op] \in EndPhases BY <1>3, EndStays DEF LeftIsResult
<1>5. Finished <=> operation # 0 /\ phase[operation] \in EndPhases BY DEF Finished, EndPhases
<1>6. Finished' <=> operation' # 0 /\ phase'[operation'] \in EndPhases BY DEF Finished, EndPhases
<1>7. Left(operation) # {} => dismissal.op = operation BY DEF Left
<1>8. CASE UNCHANGED <<watchers, dismissal>>
  <2>1. LeftIsResult' BY <1>4, <1>8 DEF LeftIsResult
  <2>2. operation' \in {operation, 0} \/ phase'[operation'] = "quoting"
    <3>1. Still \/ Armed \/ \E i \in Ops : Back(i) \/ Forward(i) \/ Doubted(i) \/ Carried(i)
      BY Moves DEF Core
    <3>2. CASE Armed BY <1>1, <3>2 DEF Armed, Types
    <3>3. CASE \E i \in Ops : Back(i) \/ Forward(i) \/ Doubted(i) \/ Carried(i)
      BY <3>3 DEF Back, Forward, Doubted, Carried, Turn
    <3> QED BY <3>1, <3>2, <3>3 DEF Still
  <2>3. CASE operation' = operation
    <3>1. Left(operation)' = Left(operation) BY <1>8, <2>3 DEF Left
    <3>2. Finished' /\ Left(operation) # {} => Finished
      BY <1>5, <1>6, <1>7, <2>3 DEF LeftIsResult
    <3> QED BY <1>8, <2>1, <3>1, <3>2 DEF DismissedResultsGo
  <2>4. CASE operation' = 0 \/ phase'[operation'] = "quoting"
    <3>1. ~Finished' BY <1>6, <2>4 DEF EndPhases
    <3> QED BY <2>1, <3>1 DEF DismissedResultsGo
  <2> QED BY <2>2, <2>3, <2>4
<1>9. Drop => ~Finished' BY <1>6 DEF Drop
<1>10. Keep => operation' = operation BY DEF Keep
<1>11. ASSUME NEW w \in Windows, Dismiss(w) PROVE LeftIsResult' /\ DismissedResultsGo'
  <2>1. /\ Finished /\ phase' = phase /\ watchers' = watchers
        /\ dismissal' = [op |-> operation, viewers |-> Left(operation) \cup {w}]
        /\ IF watchers \subseteq dismissal'.viewers THEN Drop ELSE Keep
    BY <1>11 DEF Dismiss
  <2>2. dismissal'.op = operation BY <2>1
  <2>3. LeftIsResult' BY <1>5, <2>1, <2>2 DEF LeftIsResult
  <2>4. CASE watchers \subseteq dismissal'.viewers
    BY <1>9, <2>1, <2>3, <2>4 DEF DismissedResultsGo
  <2>5. CASE ~(watchers \subseteq dismissal'.viewers)
    <3>1. Left(operation)' = dismissal'.viewers BY <1>10, <2>1, <2>2, <2>5 DEF Left
    <3> QED BY <2>1, <2>3, <2>5, <3>1 DEF DismissedResultsGo
  <2> QED BY <2>4, <2>5
<1>12. ASSUME NEW w \in Windows, WatchOn(w) PROVE LeftIsResult' /\ DismissedResultsGo'
  <2>1. /\ operation' = operation /\ phase' = phase /\ dismissal' = dismissal
        /\ watchers \subseteq watchers'
    BY <1>10, <1>12 DEF WatchOn
  <2>2. Left(operation)' = Left(operation) /\ (Finished' <=> Finished) BY <2>1 DEF Left, Finished
  <2> QED BY <2>1, <2>2 DEF LeftIsResult, DismissedResultsGo
<1>13. ASSUME NEW w \in Windows, WatchOff(w) PROVE LeftIsResult' /\ DismissedResultsGo'
  <2>1. phase' = phase /\ dismissal' = dismissal /\ Settle BY <1>13 DEF WatchOff
  <2>2. LeftIsResult' BY <2>1 DEF LeftIsResult
  <2>3. CASE Finished /\ Left(operation) # {} /\ watchers' \subseteq Left(operation)
    BY <1>9, <2>1, <2>2, <2>3 DEF Settle, DismissedResultsGo
  <2>4. CASE ~(Finished /\ Left(operation) # {} /\ watchers' \subseteq Left(operation))
    <3>1. operation' = operation BY <1>10, <2>1, <2>4 DEF Settle
    <3>2. Left(operation)' = Left(operation) /\ (Finished' <=> Finished)
      BY <2>1, <3>1 DEF Left, Finished
    <3> QED BY <2>2, <2>4, <3>2 DEF DismissedResultsGo
  <2> QED BY <2>3, <2>4
<1> QED BY <1>8, <1>11, <1>12, <1>13, ScreenSteps

\* A result that someone has left stays only as long as another window, which has
\* not, shows it, for any number of windows.
THEOREM ResultsGo == Spec => []DismissedResultsGo
<1>1. Init => LeftIsResult /\ DismissedResultsGo
  BY DEF Init, LeftIsResult, DismissedResultsGo, Finished
<1>2. Core /\ LeftIsResult /\ DismissedResultsGo /\ [Next]_vars => (LeftIsResult /\ DismissedResultsGo)'
  BY NextResults
<1> QED BY <1>1, <1>2, AlwaysCore, PTL DEF Spec
-----------------------------------------------------------------------------
(* What moves a purchase on                                                *)

\* The operation i is ended, or has what moves it on.
Moving(i) ==
  /\ phase[i] \in QuotingPhases => quoteTimer = i \/ quotes[i] + nodeReads[i] > 0
  /\ phase[i] = "executing" => write[i] # "none"
  /\ phase[i] = "confirming" => confirmPoll[i] # "off"

\* An answered price leaves a timer, a payment, or nothing to wait for.
LEMMA PricedMoves ==
  ASSUME Core, Core', NEW i \in Ops, Moving(i), Priced(i), Quoting(i)
  PROVE  Moving(i)'
<1>1. Types /\ Types' /\ Writes' /\ phase[i] \in QuotingPhases BY DEF Core, Quoting
<1>2. phase'[i] \in Phases BY <1>1 DEF Types
<1>3. phase'[i] = "executing" => write'[i] # "none" BY <1>1 DEF Writes
<1>4. CASE /\ UNCHANGED <<phase, uncertain, executed, quoteTimer, txTimer, confirmPoll, write>>
           /\ Quoting(i) => quotes'[i] + nodeReads'[i] = quotes[i] + nodeReads[i]
  BY <1>3, <1>4 DEF Moving
<1>5. CASE \E ph \in QuotingPhases : Retry(i, ph)
  <2>1. quoteTimer' = i /\ phase'[i] \in QuotingPhases BY <1>1, <1>5 DEF Retry, Types
  <2> QED BY <2>1, <1>3 DEF Moving, QuotingPhases
<1>6. CASE \E ph \in {"failed", "done"} : End(i, ph, FALSE)
  <2>1. phase'[i] \in {"failed", "done"} BY <1>1, <1>6 DEF End, Types
  <2> QED BY <2>1 DEF Moving, QuotingPhases
<1>7. CASE Execute(i)
  <2>1. phase'[i] = "executing" BY <1>1, <1>7 DEF Execute, Types
  <2> QED BY <2>1, <1>3 DEF Moving, QuotingPhases
<1> QED BY <1>4, <1>5, <1>6, <1>7 DEF Priced

\* Every step keeps what moves the current operation on.
LEMMA NextMoving ==
  ASSUME Core, NothingIsForgotten, [Next]_vars
  PROVE  NothingIsForgotten'
<1>1. Core' /\ Types /\ Types' /\ Writes /\ Writes' BY NextCore DEF Core
<1>2. NothingIsForgotten <=> (operation # 0 => Moving(operation))
  BY DEF NothingIsForgotten, Moving
<1>3. NothingIsForgotten' <=> (operation' # 0 => Moving(operation)')
  BY DEF NothingIsForgotten, Moving
<1>4. /\ phase \in [Ops -> Phases] /\ confirmPoll \in [Ops -> {"off", "timer", "asking"}]
      /\ quotes \in [Ops -> Nat] /\ nodeReads \in [Ops -> Nat] /\ quoteTimer \in 0..MaxOps
      /\ quotes' \in [Ops -> Nat] /\ nodeReads' \in [Ops -> Nat]
      /\ operation \in Nat /\ opSeq \in Nat
      /\ operation # 0 => operation \in Ops
  <2>1. /\ operation \in Nat /\ opSeq \in Nat /\ opSeq \in 0..MaxOps /\ operation \in 0..opSeq
    BY <1>1, BoundAssumption DEF Types
  <2>2. operation # 0 => operation \in Ops BY <2>1, BoundAssumption DEF Ops
  <2> QED BY <1>1, <2>1, <2>2 DEF Types
<1>5. ASSUME NEW i \in Ops, operation' = i, phase'[i] \in QuotingPhases =>
               quoteTimer' = i \/ quotes'[i] + nodeReads'[i] > 0,
             phase'[i] = "confirming" => confirmPoll'[i] # "off"
      PROVE  NothingIsForgotten'
  BY <1>1, <1>3, <1>5 DEF Writes, Moving
<1>6. ASSUME operation' = operation, phase' = phase, confirmPoll' = confirmPoll,
             quoteTimer' = quoteTimer,
             operation # 0 => quotes'[operation] + nodeReads'[operation] = quotes[operation] + nodeReads[operation]
      PROVE  NothingIsForgotten'
  BY <1>1, <1>2, <1>3, <1>4, <1>6 DEF Moving, Writes
<1>7. ASSUME NEW k \in Kinds, Arm(k) PROVE NothingIsForgotten'
  <2>1. PICK n \in Ops : n = opSeq + 1 BY <1>7, BoundAssumption, <1>4 DEF Arm, Ops
  <2>2. operation' = n /\ phase'[n] = "quoting" /\ quotes'[n] = 1 /\ nodeReads' = nodeReads
    BY <1>4, <1>7, <2>1 DEF Arm
  <2>3. quotes'[n] + nodeReads'[n] > 0 BY <1>4, <2>2
  <2> QED BY <1>5, <2>2, <2>3
<1>8. CASE QuoteTick
  <2>1. /\ quoteTimer \in Ops /\ quotes' = [quotes EXCEPT ![quoteTimer] = @ + 1]
        /\ nodeReads' = nodeReads /\ operation' = operation /\ phase' = phase
        /\ confirmPoll' = confirmPoll
    BY <1>4, <1>8 DEF QuoteTick, opVars, Ops
  <2>2. CASE operation = quoteTimer
    <3>1. quotes'[operation] + nodeReads'[operation] > 0 BY <1>4, <2>1, <2>2
    <3>2. operation \in Ops /\ operation # 0 BY <2>1, <2>2 DEF Ops
    <3> QED BY <1>1, <1>2, <1>3, <1>4, <2>1, <3>1, <3>2 DEF Moving, Writes
  <2>3. CASE operation # quoteTimer
    <3>1. operation # 0 => quotes'[operation] = quotes[operation] BY <1>4, <2>1, <2>3
    <3> QED BY <1>1, <1>2, <1>3, <1>4, <2>1, <2>3, <3>1 DEF Moving, Writes
  <2> QED BY <2>2, <2>3
<1>9. ASSUME NEW i \in Ops, QuoteAnswered(i) \/ NodeAnswered(i) PROVE NothingIsForgotten'
  <2>1. /\ Priced(i) /\ operation' = operation
        /\ \A j \in Ops \ {i} : quotes'[j] = quotes[j] /\ nodeReads'[j] = nodeReads[j]
    BY <1>1, <1>9, AnswerPrices
  <2>2. CASE Quoting(i)
    <3>1. operation = i BY <2>2 DEF Quoting
    <3> QED BY <1>1, <1>2, <1>3, <2>1, <2>2, <3>1, PricedMoves DEF Ops
  <2>3. CASE ~Quoting(i)
    <3>1. UNCHANGED <<phase, quoteTimer, confirmPoll>> BY <2>1, <2>3 DEF Priced
    <3>2. CASE operation = i
      <4>1. phase[i] \notin QuotingPhases BY <2>3, <3>2 DEF Quoting
      <4>2. 0 \notin Ops BY DEF Ops
      <4> QED BY <1>1, <1>2, <1>5, <2>1, <3>1, <3>2, <4>1, <4>2 DEF Moving
    <3>3. CASE operation # i BY <1>4, <1>6, <2>1, <3>1, <3>3
    <3> QED BY <3>2, <3>3
  <2> QED BY <2>2, <2>3
<1>10. ASSUME NEW i \in Ops, StampsRead(i) \/ Carry(i) \/ CarryLate(i) PROVE NothingIsForgotten'
  <2>1. UNCHANGED <<operation, phase, confirmPoll, quoteTimer, quotes, nodeReads>>
    BY <1>10 DEF StampsRead, Carry, CarryLate, opVars, callVars
  <2> QED BY <1>6, <2>1
<1>11. ASSUME NEW i \in Ops, operation = i, operation' = i,
              \/ \E ph \in Phases : Retry(i, ph) /\ ph # "confirming"
              \/ \E ph \in EndPhases, b \in BOOLEAN : End(i, ph, b)
              \/ ConfirmBatch(i)
       PROVE  NothingIsForgotten'
  <2>1. CASE \E ph \in Phases : Retry(i, ph) /\ ph # "confirming"
    <3>1. quoteTimer' = i /\ phase'[i] # "confirming" BY <1>4, <2>1 DEF Retry
    <3> QED BY <1>5, <1>11, <3>1
  <2>2. CASE \E ph \in EndPhases, b \in BOOLEAN : End(i, ph, b)
    <3>1. phase'[i] \in EndPhases BY <1>4, <2>2 DEF End
    <3> QED BY <1>5, <1>11, <3>1 DEF EndPhases, QuotingPhases
  <2>3. CASE ConfirmBatch(i)
    <3>1. phase'[i] = "confirming" /\ confirmPoll'[i] = "asking" BY <1>4, <2>3 DEF ConfirmBatch
    <3> QED BY <1>5, <1>11, <3>1 DEF QuotingPhases
  <2> QED BY <1>11, <2>1, <2>2, <2>3
<1>12. ASSUME NEW i \in Ops, WriteAnswered(i) PROVE NothingIsForgotten'
  <2>1. /\ operation = i /\ operation' = i
        /\ \/ \E ph \in {"quoting", "awaiting-funds"} : Retry(i, ph)
           \/ \E ph \in {"failed", "done"} : End(i, ph, FALSE)
           \/ ConfirmBatch(i)
    BY <1>12 DEF WriteAnswered, WriteBusy, WriteShort, WriteRefused, WriteOk
  <2>2. {"quoting", "awaiting-funds"} \subseteq Phases \ {"confirming"} BY DEF Phases
  <2>3. {"failed", "done"} \subseteq EndPhases /\ FALSE \in BOOLEAN BY DEF EndPhases
  <2> QED BY <1>11, <2>1, <2>2, <2>3
<1>13. ASSUME NEW i \in Ops, WriteUnanswered(i) \/ StampsReadAgain(i) PROVE NothingIsForgotten'
  <2>1. /\ operation = i /\ operation' = i
        /\ \/ UNCHANGED <<phase, quoteTimer, confirmPoll, quotes, nodeReads>>
           \/ End(i, "failed", TRUE)
           \/ ConfirmBatch(i)
    BY <1>13 DEF WriteUnanswered, Doubt, StampsReadAgain
  <2>2. "failed" \in EndPhases /\ TRUE \in BOOLEAN BY DEF EndPhases
  <2> QED BY <1>6, <1>11, <2>1, <2>2
<1>14. ASSUME NEW i \in Ops, ConfirmTick(i) \/ ConfirmAgain(i) PROVE NothingIsForgotten'
  <2>1. /\ UNCHANGED <<operation, phase, quoteTimer, quotes, nodeReads>>
        /\ \/ confirmPoll' = [confirmPoll EXCEPT ![i] = "asking"]
           \/ Confirming(i) /\ confirmPoll' = [confirmPoll EXCEPT ![i] = "timer"]
           \/ ~Confirming(i) /\ confirmPoll' = [confirmPoll EXCEPT ![i] = "off"]
    BY <1>14 DEF ConfirmTick, ConfirmAgain, opVars
  <2>2. ASSUME operation # 0, phase[operation] = "confirming" PROVE confirmPoll'[operation] # "off"
    BY <1>2, <1>4, <2>1, <2>2 DEF Moving, Confirming
  <2> QED BY <1>1, <1>2, <1>3, <1>4, <2>1, <2>2 DEF Moving, Writes
<1>15. ASSUME NEW i \in Ops, Confirmed(i) PROVE NothingIsForgotten'
  <2>1. operation' = i /\ phase'[i] \in {"done", "rejected"}
    BY <1>4, <1>15 DEF Confirmed, Confirming
  <2> QED BY <1>5, <2>1 DEF QuotingPhases
<1>16. CASE TrackFundingTx \/ TxTick \/ RestartNode \/ Restarted \/ UNCHANGED vars
  <2>1. UNCHANGED <<operation, phase, confirmPoll, quoteTimer, quotes, nodeReads>>
    BY <1>16 DEF TrackFundingTx, TxTick, RestartNode, Restarted, vars, opVars, callVars
  <2> QED BY <1>6, <2>1
<1>17. ASSUME NEW i \in Ops, TxAnswered(i) PROVE NothingIsForgotten'
  <2>1. UNCHANGED <<operation, phase, confirmPoll, nodeReads>> BY <1>17 DEF TxAnswered, opVars
  <2>2. CASE quoteTimer' = quoteTimer /\ quotes' = quotes BY <1>6, <2>1, <2>2
  <2>3. CASE operation = i /\ quotes' = [quotes EXCEPT ![i] = @ + 1]
    <3>1. quotes'[i] + nodeReads'[i] > 0 BY <1>4, <2>1, <2>3
    <3>2. operation # 0 BY <2>3 DEF Ops
    <3> QED BY <1>2, <1>5, <2>1, <2>3, <3>1, <3>2 DEF Moving
  <2> QED BY <1>17, <2>2, <2>3 DEF TxAnswered
<1>18. CASE Drop BY <1>3, <1>18 DEF Drop
<1>19. ASSUME Keep, UNCHANGED <<phase, quotes, nodeReads>> PROVE NothingIsForgotten'
  BY <1>6, <1>19 DEF Keep
<1>20. CASE Cancel BY <1>18, <1>20 DEF Cancel
<1>21. ASSUME NEW w \in Windows, Dismiss(w) \/ WatchOn(w) \/ WatchOff(w) PROVE NothingIsForgotten'
  BY <1>18, <1>19, <1>21 DEF Dismiss, WatchOn, WatchOff, Settle
<1> QED
  BY <1>7, <1>8, <1>9, <1>10, <1>12, <1>13, <1>14, <1>15, <1>16, <1>17, <1>20, <1>21
     DEF Next, OpStep

\* A purchase under way always has a timer or a call of its own that moves it on:
\* no answer, cancel, restart or closing window leaves it where only cancelling
\* helps.
THEOREM NoneForgotten == Spec => []NothingIsForgotten
<1>1. Init => NothingIsForgotten BY DEF Init, NothingIsForgotten
<1>2. Core /\ NothingIsForgotten /\ [Next]_vars => NothingIsForgotten' BY NextMoving
<1> QED BY <1>1, <1>2, AlwaysCore, PTL DEF Spec
-----------------------------------------------------------------------------
(* How many calls price an operation at once                               *)

One(b) == IF b THEN 1 ELSE 0

\* What may yet ask for the price of i, or is doing so; a confirmed payment of
\* the user's adds one, once.
Asking(i) == quotes[i] + nodeReads[i] + One(quoteTimer = i) + One(write[i] # "none")

Bounded == \A i \in Ops : Asking(i) <= 1 + One(fundingTx[i] = "ended")

\* Nothing asks for an operation before it is armed.
Unasked == \A i \in Ops : i > opSeq => Asking(i) = 0

\* A payment that is asked about is pending, and asked about once at a time.
Followed == \A i \in Ops :
  /\ i \in txPoll \/ txTimer = i => fundingTx[i] = "pending"
  /\ ~(i \in txPoll /\ txTimer = i)

Few == Bounded /\ Unasked /\ Followed

\* What a step does to what asks for one price.
LEMMA AskingMoves ==
  ASSUME Types, Types', NEW i \in Ops
  PROVE  /\ Asking(i) \in Nat /\ Asking(i)' \in Nat
         /\ Asking(i) = quotes[i] + nodeReads[i] + One(quoteTimer = i) + One(write[i] # "none")
         /\ Asking(i)' = quotes'[i] + nodeReads'[i] + One(quoteTimer' = i) + One(write'[i] # "none")
         /\ quotes[i] \in Nat /\ nodeReads[i] \in Nat /\ quotes'[i] \in Nat /\ nodeReads'[i] \in Nat
BY DEF Asking, Types, One

\* Payments are followed one receipt at a time.
LEMMA NextFollowed ==
  ASSUME Types, Followed, [Next]_vars
  PROVE  /\ Followed'
         /\ \A i \in Ops : fundingTx[i] = "ended" => fundingTx'[i] = "ended"
         /\ \A i \in Ops : TxAnswered(i) => fundingTx[i] = "pending"
<1>1. fundingTx \in [Ops -> {"none", "pending", "ended"}] /\ 0 \notin Ops BY DEF Types, Ops
<1>2. ASSUME txPoll' = txPoll, txTimer' \in {txTimer, 0}, fundingTx' = fundingTx
      PROVE  Followed'
  BY <1>1, <1>2 DEF Followed
<1>3. ASSUME NEW i \in Ops, TxAnswered(i)
      PROVE  /\ Followed' /\ fundingTx[i] = "pending"
             /\ \A j \in Ops : fundingTx[j] = "ended" => fundingTx'[j] = "ended"
  BY <1>1, <1>3 DEF TxAnswered, Followed
<1>4. CASE TrackFundingTx
  <2>1. operation \in Ops BY <1>4, BoundAssumption DEF TrackFundingTx, Types, Ops
  <2>2. /\ fundingTx[operation] = "none" /\ fundingTx' = [fundingTx EXCEPT ![operation] = "pending"]
        /\ txPoll' = txPoll \cup {operation} /\ txTimer' = 0
    BY <1>4 DEF TrackFundingTx
  <2> QED BY <1>1, <2>1, <2>2 DEF Followed, TxAnswered
<1>5. CASE TxTick
  <2>1. txTimer \in Ops /\ txPoll' = txPoll \cup {txTimer} /\ txTimer' = 0 /\ fundingTx' = fundingTx
    BY <1>5 DEF TxTick, Types, Ops
  <2> QED BY <1>1, <2>1 DEF Followed, TxAnswered
<1>6. ASSUME txPoll' = txPoll, txTimer' \in {txTimer, 0}, fundingTx' = fundingTx
      PROVE  /\ Followed'
             /\ \A i \in Ops : fundingTx[i] = "ended" => fundingTx'[i] = "ended"
             /\ \A i \in Ops : TxAnswered(i) => fundingTx[i] = "pending"
  BY <1>2, <1>3, <1>6
<1>7. ASSUME NEW i \in Ops, OpStep(i), ~TxAnswered(i)
      PROVE  txPoll' = txPoll /\ txTimer' \in {txTimer, 0} /\ fundingTx' = fundingTx
  BY <1>7 DEF OpStep, QuoteAnswered, NodeAnswered, StampsRead, Carry, CarryLate, WriteAnswered,
              WriteUnanswered, StampsReadAgain, ConfirmTick, ConfirmAgain, Confirmed, callVars,
              Superseded, Unread, Refused, AlreadyFull, Short, PriceAmount, Retry, End, Execute,
              WriteBusy, WriteShort, WriteRefused, WriteOk, ConfirmBatch, Doubt
<1>8. ASSUME NEW k \in Kinds, Arm(k)
      PROVE  txPoll' = txPoll /\ txTimer' \in {txTimer, 0} /\ fundingTx' = fundingTx
  BY <1>8 DEF Arm
<1>9. ASSUME NEW w \in Windows, Dismiss(w) \/ WatchOn(w) \/ WatchOff(w)
      PROVE  txPoll' = txPoll /\ txTimer' \in {txTimer, 0} /\ fundingTx' = fundingTx
  BY <1>9 DEF Dismiss, WatchOn, WatchOff, Settle, Drop, Keep
<1>10. CASE QuoteTick \/ Cancel \/ RestartNode \/ Restarted \/ UNCHANGED vars
  <2>1. txPoll' = txPoll /\ txTimer' \in {txTimer, 0} /\ fundingTx' = fundingTx
    BY <1>10 DEF QuoteTick, Cancel, Drop, RestartNode, Restarted, vars, callVars
  <2> QED BY <1>6, <2>1
<1> QED BY <1>3, <1>4, <1>5, <1>6, <1>7, <1>8, <1>9, <1>10 DEF Next

\* Fewer calls, no new timer and no new write leave no more that asks for the price.
LEMMA AskingLess ==
  ASSUME Types, Types', NEW i \in Ops,
         quotes'[i] + nodeReads'[i] <= quotes[i] + nodeReads[i],
         quoteTimer' = i => quoteTimer = i, write'[i] # "none" => write[i] # "none"
  PROVE  Asking(i)' <= Asking(i)
<1>1. One(quoteTimer' = i) <= One(quoteTimer = i) /\ One(write'[i] # "none") <= One(write[i] # "none")
  BY DEF One
<1>2. /\ One(quoteTimer' = i) \in Nat /\ One(quoteTimer = i) \in Nat
      /\ One(write'[i] # "none") \in Nat /\ One(write[i] # "none") \in Nat
  BY DEF One
<1> QED BY <1>1, <1>2, AskingMoves

\* An answered call is over before what it brings about starts.
LEMMA AnswerCounts ==
  ASSUME Types, Types', NEW k \in Ops, QuoteAnswered(k) \/ NodeAnswered(k)
  PROVE  /\ \A i \in Ops : Asking(i)' <= Asking(i)
         /\ opSeq' = opSeq
<1>1. /\ quotes \in [Ops -> Nat] /\ nodeReads \in [Ops -> Nat]
      /\ write \in [Ops -> {"none", "before", "sent", "carried", "after"}]
  BY DEF Types
<1>2. /\ opSeq' = opSeq
      /\ \A j \in Ops \ {k} : quotes'[j] = quotes[j] /\ nodeReads'[j] = nodeReads[j]
  BY AnswerPrices
<1>3. \/ quoteTimer' = quoteTimer /\ write' = write
      \/ quoteTimer' \in {0, k} /\ write' = write
      \/ quoteTimer' = 0 /\ \A j \in Ops \ {k} : write'[j] = write[j]
  BY <1>1, AnswerPrices DEF Priced, Retry, End, Execute
<1>4. \/ quoteTimer' = quoteTimer /\ write' = write
         /\ quotes'[k] + nodeReads'[k] <= quotes[k] + nodeReads[k]
      \/ quotes'[k] + nodeReads'[k] + 1 = quotes[k] + nodeReads[k]
  <2>1. CASE QuoteAnswered(k)
    <3>1. quotes[k] > 0 /\ quotes' = [quotes EXCEPT ![k] = @ - 1] BY <2>1 DEF QuoteAnswered
    <3>2. \/ nodeReads' = nodeReads
          \/ nodeReads' = [nodeReads EXCEPT ![k] = @ + 1] /\ quoteTimer' = quoteTimer /\ write' = write
      BY <2>1 DEF QuoteAnswered
    <3> QED BY <1>1, <3>1, <3>2
  <2>2. CASE NodeAnswered(k)
    <3>1. nodeReads[k] > 0 /\ nodeReads' = [nodeReads EXCEPT ![k] = @ - 1] /\ quotes' = quotes
      BY <2>2 DEF NodeAnswered
    <3> QED BY <1>1, <3>1
  <2> QED BY <2>1, <2>2
<1>5. ASSUME NEW j \in Ops \ {k} PROVE Asking(j)' <= Asking(j)
  <2>1. quotes'[j] + nodeReads'[j] <= quotes[j] + nodeReads[j] BY <1>1, <1>2
  <2>2. write'[j] = write[j] BY <1>3
  <2>3. quoteTimer' = j => quoteTimer = j BY <1>3 DEF Ops
  <2> QED BY <2>1, <2>2, <2>3, AskingLess
<1>6. Asking(k)' <= Asking(k)
  <2>1. CASE /\ quoteTimer' = quoteTimer /\ write' = write
             /\ quotes'[k] + nodeReads'[k] <= quotes[k] + nodeReads[k]
    BY <2>1, AskingLess
  <2>2. CASE quotes'[k] + nodeReads'[k] + 1 = quotes[k] + nodeReads[k]
    <3>1. /\ One(quoteTimer' = k) + One(write'[k] # "none")
               <= One(quoteTimer = k) + One(write[k] # "none") + 1
      <4>1. CASE quoteTimer' = quoteTimer /\ write' = write BY <4>1 DEF One
      <4>2. CASE write' = write BY <4>2 DEF One
      <4>3. CASE quoteTimer' = 0
        <5>1. 0 # k BY DEF Ops
        <5> QED BY <4>3, <5>1 DEF One
      <4> QED BY <1>3, <4>1, <4>2, <4>3
    <3>2. /\ One(quoteTimer' = k) \in Nat /\ One(write'[k] # "none") \in Nat
          /\ One(quoteTimer = k) \in Nat /\ One(write[k] # "none") \in Nat
      BY DEF One
    <3> QED BY <2>2, <3>1, <3>2, AskingMoves
  <2> QED BY <1>4, <2>1, <2>2
<1> QED BY <1>2, <1>5, <1>6

\* What asks for the price of an operation is passed on, never doubled, but by the
\* user's own payment.
LEMMA NextAsking ==
  ASSUME Core, Followed, [Next]_vars
  PROVE  \/ opSeq' = opSeq /\ \A i \in Ops : Asking(i)' <= Asking(i)
         \/ /\ opSeq' = opSeq + 1
            /\ \A i \in Ops : IF i = opSeq' THEN quotes'[i] = 1 /\ nodeReads'[i] = nodeReads[i]
                                                 /\ quoteTimer' # i /\ write'[i] = write[i]
                              ELSE Asking(i)' <= Asking(i)
         \/ \E k \in Ops :
              /\ opSeq' = opSeq /\ operation = k /\ fundingTx[k] = "pending" /\ fundingTx'[k] = "ended"
              /\ Asking(k)' <= Asking(k) + 1
              /\ \A i \in Ops \ {k} : Asking(i)' <= Asking(i)
<1>1. Types /\ Types' BY NextTypes DEF Core
<1>2. /\ quotes \in [Ops -> Nat] /\ nodeReads \in [Ops -> Nat] /\ 0 \notin Ops
      /\ write \in [Ops -> {"none", "before", "sent", "carried", "after"}]
      /\ fundingTx \in [Ops -> {"none", "pending", "ended"}] /\ opSeq \in Nat
  <2>1. opSeq \in Nat /\ 0 \notin Ops BY <1>1, BoundAssumption DEF Types, Ops
  <2> QED BY <1>1, <2>1 DEF Types
<1>3. ASSUME UNCHANGED <<opSeq, quotes, nodeReads>>, quoteTimer' \in {quoteTimer, 0},
             \A i \in Ops : write'[i] # "none" => write[i] # "none"
      PROVE  opSeq' = opSeq /\ \A i \in Ops : Asking(i)' <= Asking(i)
  <2>1. ASSUME NEW i \in Ops PROVE Asking(i)' <= Asking(i)
    <3>1. quotes'[i] + nodeReads'[i] <= quotes[i] + nodeReads[i] BY <1>2, <1>3
    <3>2. quoteTimer' = i => quoteTimer = i BY <1>2, <1>3
    <3> QED BY <1>1, <1>3, <3>1, <3>2, AskingLess
  <2> QED BY <1>3, <2>1
<1>4. ASSUME NEW k \in Kinds, Arm(k)
      PROVE  /\ opSeq' = opSeq + 1
             /\ \A i \in Ops : IF i = opSeq' THEN quotes'[i] = 1 /\ nodeReads'[i] = nodeReads[i]
                                                  /\ quoteTimer' # i /\ write'[i] = write[i]
                               ELSE Asking(i)' <= Asking(i)
  <2>1. /\ opSeq' = opSeq + 1 /\ quotes' = [quotes EXCEPT ![opSeq'] = 1] /\ quoteTimer' = 0
        /\ nodeReads' = nodeReads /\ write' = write
    BY <1>4 DEF Arm
  <2>2. ASSUME NEW i \in Ops, i # opSeq' PROVE Asking(i)' <= Asking(i)
    <3>1. quotes'[i] + nodeReads'[i] <= quotes[i] + nodeReads[i] BY <1>2, <2>1, <2>2
    <3> QED BY <1>1, <1>2, <2>1, <3>1, AskingLess
  <2>3. \A i \in Ops : i = opSeq' => quotes'[i] = 1 /\ quoteTimer' # i BY <1>2, <2>1
  <2> QED BY <2>1, <2>2, <2>3
<1>5. CASE QuoteTick
  <2>1. /\ quoteTimer \in Ops /\ quotes' = [quotes EXCEPT ![quoteTimer] = @ + 1]
        /\ nodeReads' = nodeReads /\ write' = write /\ opSeq' = opSeq /\ quoteTimer' = 0
    BY <1>1, <1>5 DEF QuoteTick, opVars, Ops, Types
  <2>2. ASSUME NEW i \in Ops PROVE Asking(i)' <= Asking(i)
    <3>1. CASE i = quoteTimer
      <4>1. quotes'[i] = quotes[i] + 1 /\ One(quoteTimer = i) = 1 /\ One(quoteTimer' = i) = 0
        BY <1>2, <2>1, <3>1 DEF One
      <4>2. One(write'[i] # "none") = One(write[i] # "none") /\ nodeReads'[i] = nodeReads[i] BY <2>1
      <4> QED BY <1>1, <4>1, <4>2, AskingMoves
    <3>2. CASE i # quoteTimer
      <4>1. quotes'[i] + nodeReads'[i] <= quotes[i] + nodeReads[i] BY <1>2, <2>1, <3>2
      <4> QED BY <1>1, <1>2, <2>1, <4>1, AskingLess
    <3> QED BY <3>1, <3>2
  <2> QED BY <2>1, <2>2
<1>6. ASSUME NEW k \in Ops, WriteAnswered(k)
      PROVE  opSeq' = opSeq /\ \A i \in Ops : Asking(i)' <= Asking(i)
  <2>1. /\ opSeq' = opSeq /\ quotes' = quotes /\ nodeReads' = nodeReads
        /\ write[k] # "none" /\ write' = [write EXCEPT ![k] = "none"]
        /\ quoteTimer' \in {quoteTimer, 0, k}
    BY <1>6 DEF WriteAnswered, WriteBusy, WriteShort, WriteRefused, WriteOk, Retry, End, ConfirmBatch
  <2>2. ASSUME NEW i \in Ops, i # k PROVE Asking(i)' <= Asking(i)
    <3>1. quotes'[i] + nodeReads'[i] <= quotes[i] + nodeReads[i] BY <1>2, <2>1
    <3>2. write'[i] = write[i] /\ (quoteTimer' = i => quoteTimer = i) BY <1>2, <2>1, <2>2
    <3> QED BY <1>1, <3>1, <3>2, AskingLess
  <2>3. Asking(k)' <= Asking(k)
    <3>1. write'[k] = "none" BY <1>2, <2>1
    <3>2. One(write'[k] # "none") = 0 /\ One(write[k] # "none") = 1 BY <2>1, <3>1 DEF One
    <3>3. One(quoteTimer' = k) <= 1 /\ One(quoteTimer = k) >= 0 /\ One(quoteTimer' = k) \in Nat
          /\ One(quoteTimer = k) \in Nat
      BY DEF One
    <3> QED BY <1>1, <1>2, <2>1, <3>2, <3>3, AskingMoves
  <2> QED BY <2>1, <2>2, <2>3
<1>7. ASSUME NEW k \in Ops,
             \/ StampsRead(k) \/ Carry(k) \/ CarryLate(k) \/ WriteUnanswered(k) \/ StampsReadAgain(k)
             \/ ConfirmTick(k) \/ ConfirmAgain(k) \/ Confirmed(k)
      PROVE  opSeq' = opSeq /\ \A i \in Ops : Asking(i)' <= Asking(i)
  <2>1. UNCHANGED <<opSeq, quotes, nodeReads>> /\ quoteTimer' \in {quoteTimer, 0}
    BY <1>7 DEF StampsRead, Carry, CarryLate, WriteUnanswered, Doubt, End, StampsReadAgain,
                ConfirmBatch, ConfirmTick, ConfirmAgain, Confirmed, opVars, callVars
  <2>2. \/ write' = write
        \/ write[k] # "none" /\ \E w : write' = [write EXCEPT ![k] = w]
    BY <1>7 DEF StampsRead, Carry, CarryLate, WriteUnanswered, Doubt, StampsReadAgain,
                ConfirmTick, ConfirmAgain, Confirmed, opVars, callVars
  <2>3. \A i \in Ops : write'[i] # "none" => write[i] # "none" BY <1>2, <2>2
  <2> QED BY <1>3, <2>1, <2>3
<1>8. CASE \/ TrackFundingTx \/ TxTick \/ Cancel \/ RestartNode \/ Restarted \/ UNCHANGED vars
           \/ \E w \in Windows : Dismiss(w) \/ WatchOn(w) \/ WatchOff(w)
  <2>1. UNCHANGED <<opSeq, quotes, nodeReads, write>> /\ quoteTimer' \in {quoteTimer, 0}
    BY <1>8 DEF TrackFundingTx, TxTick, Cancel, RestartNode, Restarted, vars, Dismiss, WatchOn,
                WatchOff, Settle, Drop, Keep, opVars, callVars
  <2> QED BY <1>3, <2>1
<1>9. ASSUME NEW k \in Ops, TxAnswered(k)
      PROVE  \/ opSeq' = opSeq /\ \A i \in Ops : Asking(i)' <= Asking(i)
             \/ /\ opSeq' = opSeq /\ operation = k /\ fundingTx[k] = "pending" /\ fundingTx'[k] = "ended"
                /\ Asking(k)' <= Asking(k) + 1
                /\ \A i \in Ops \ {k} : Asking(i)' <= Asking(i)
  <2>1. fundingTx[k] = "pending" BY <1>1, <1>9, NextFollowed
  <2>2. UNCHANGED <<opSeq, nodeReads, write>> BY <1>9 DEF TxAnswered, opVars
  <2>3. CASE quotes' = quotes /\ quoteTimer' = quoteTimer BY <1>3, <2>2, <2>3
  <2>4. CASE /\ operation = k /\ fundingTx' = [fundingTx EXCEPT ![k] = "ended"]
             /\ quoteTimer' = 0 /\ quotes' = [quotes EXCEPT ![k] = @ + 1]
    <3>1. fundingTx'[k] = "ended" BY <1>2, <2>4
    <3>2. ASSUME NEW i \in Ops \ {k} PROVE Asking(i)' <= Asking(i)
      <4>1. quotes'[i] + nodeReads'[i] <= quotes[i] + nodeReads[i] BY <1>2, <2>2, <2>4
      <4> QED BY <1>1, <1>2, <2>2, <2>4, <4>1, AskingLess
    <3>3. Asking(k)' <= Asking(k) + 1
      <4>1. quotes'[k] = quotes[k] + 1 /\ nodeReads'[k] = nodeReads[k] BY <1>2, <2>2, <2>4
      <4>2. One(quoteTimer' = k) = 0 /\ One(write'[k] # "none") = One(write[k] # "none")
        BY <1>2, <2>2, <2>4 DEF One
      <4>3. One(quoteTimer = k) \in Nat /\ One(write[k] # "none") \in Nat BY DEF One
      <4> QED BY <1>1, <4>1, <4>2, <4>3, AskingMoves
    <3> QED BY <2>1, <2>2, <2>4, <3>1, <3>2, <3>3
  <2> QED BY <1>9, <2>3, <2>4 DEF TxAnswered
<1>10. ASSUME NEW k \in Ops, QuoteAnswered(k) \/ NodeAnswered(k)
       PROVE  opSeq' = opSeq /\ \A i \in Ops : Asking(i)' <= Asking(i)
  BY <1>1, <1>10, AnswerCounts
<1> QED
  BY <1>4, <1>5, <1>6, <1>7, <1>8, <1>9, <1>10 DEF Next, OpStep

\* So few calls ask for a price, in every next state.
LEMMA NextFew ==
  ASSUME Core, Few, [Next]_vars
  PROVE  Few'
<1>1. Core' /\ Types /\ Types' /\ Fresh /\ Writes /\ Followed BY NextCore DEF Core, Few
<1>2. /\ Followed' /\ \A i \in Ops : fundingTx[i] = "ended" => fundingTx'[i] = "ended"
  BY <1>1, NextFollowed
<1>3. \A i \in Ops : /\ Asking(i) \in Nat /\ Asking(i)' \in Nat
                     /\ Asking(i) <= 1 + One(fundingTx[i] = "ended")
                     /\ i > opSeq => Asking(i) = 0
  BY <1>1, AskingMoves DEF Few, Bounded, Unasked
<1>4. opSeq \in Nat /\ Ops \subseteq Nat /\ operation \in 0..opSeq
  BY <1>1, BoundAssumption DEF Types, Ops
<1>5. ASSUME NEW i \in Ops, Asking(i)' <= Asking(i), opSeq' \in {opSeq, opSeq + 1}
      PROVE  Asking(i)' <= 1 + One(fundingTx'[i] = "ended") /\ (i > opSeq' => Asking(i)' = 0)
  <2>1. One(fundingTx[i] = "ended") <= One(fundingTx'[i] = "ended") BY <1>2 DEF One
  <2>2. One(fundingTx[i] = "ended") \in Nat /\ One(fundingTx'[i] = "ended") \in Nat BY DEF One
  <2>3. Asking(i)' <= 1 + One(fundingTx'[i] = "ended") BY <1>3, <1>5, <2>1, <2>2
  <2>4. i > opSeq' => i > opSeq BY <1>4, <1>5
  <2>5. i > opSeq' => Asking(i)' = 0 BY <1>3, <1>5, <2>4
  <2> QED BY <2>3, <2>5
<1>6. ASSUME \A i \in Ops : /\ Asking(i)' <= 1 + One(fundingTx'[i] = "ended")
                            /\ i > opSeq' => Asking(i)' = 0
      PROVE  Few'
  BY <1>2, <1>6 DEF Few, Bounded, Unasked
<1>7. CASE opSeq' = opSeq /\ \A i \in Ops : Asking(i)' <= Asking(i) BY <1>5, <1>6, <1>7
<1>8. CASE /\ opSeq' = opSeq + 1
           /\ \A i \in Ops : IF i = opSeq' THEN quotes'[i] = 1 /\ nodeReads'[i] = nodeReads[i]
                                                /\ quoteTimer' # i /\ write'[i] = write[i]
                             ELSE Asking(i)' <= Asking(i)
  <2>1. ASSUME NEW i \in Ops, i = opSeq' PROVE Asking(i)' <= 1 /\ ~(i > opSeq')
    <3>1. i > opSeq /\ Asking(i) = 0 BY <1>3, <1>4, <1>8, <2>1
    <3>2. nodeReads[i] = 0 /\ One(write[i] # "none") = 0
      <4>1. One(quoteTimer = i) \in Nat /\ One(write[i] # "none") \in Nat BY DEF One
      <4> QED BY <1>1, <3>1, <4>1, AskingMoves
    <3>3. One(quoteTimer' = i) = 0 /\ One(write'[i] # "none") = 0 BY <1>8, <2>1, <3>2 DEF One
    <3>4. quotes'[i] = 1 /\ nodeReads'[i] = 0 BY <1>8, <2>1, <3>2
    <3>5. Asking(i)' = 1 BY <1>1, <3>3, <3>4, AskingMoves
    <3> QED BY <1>4, <2>1, <3>5
  <2>2. \A i \in Ops : One(fundingTx'[i] = "ended") \in Nat BY DEF One
  <2>3. \A i \in Ops : i = opSeq' => Asking(i)' <= 1 + One(fundingTx'[i] = "ended")
    BY <1>3, <2>1, <2>2
  <2> QED BY <1>5, <1>6, <1>8, <2>1, <2>3
<1>9. ASSUME NEW k \in Ops, opSeq' = opSeq, operation = k, fundingTx[k] = "pending",
             fundingTx'[k] = "ended", Asking(k)' <= Asking(k) + 1,
             \A i \in Ops \ {k} : Asking(i)' <= Asking(i)
      PROVE  Few'
  <2>1. One(fundingTx[k] = "ended") = 0 /\ One(fundingTx'[k] = "ended") = 1 BY <1>9 DEF One
  <2>2. Asking(k)' <= 1 + One(fundingTx'[k] = "ended") BY <1>3, <1>9, <2>1
  <2>3. ~(k > opSeq') BY <1>4, <1>9
  <2> QED BY <1>5, <1>6, <1>9, <2>2, <2>3
<1> QED BY <1>1, <1>7, <1>8, <1>9, NextAsking

\* Few calls are out at the start: none.
LEMMA InitFew == Init => Few
BY DEF Init, Few, Bounded, Unasked, Followed, Asking, One, Ops

\* The setup's variables keep their types, for any number of operations: at most
\* two calls price one operation at a time.
THEOREM TypeCorrect == Spec => []TypeOK
<1>1. Core /\ Few => TypeOK
  <2> SUFFICES ASSUME Core, Few PROVE TypeOK OBVIOUS
  <2>1. Types /\ Money BY DEF Core
  <2>2. ASSUME NEW i \in Ops PROVE quotes[i] \in 0..2 /\ nodeReads[i] \in 0..2 /\ paid[i] \in 0..2
    <3>1. /\ quotes[i] \in Nat /\ nodeReads[i] \in Nat
          /\ One(quoteTimer = i) \in Nat /\ One(write[i] # "none") \in Nat
          /\ One(fundingTx[i] = "ended") \in 0..1
      BY <2>1 DEF Types, One
    <3>2. Asking(i) <= 2 /\ Asking(i) = quotes[i] + nodeReads[i] + One(quoteTimer = i) + One(write[i] # "none")
      BY <3>1 DEF Few, Bounded, Asking
    <3>3. paid[i] \in 0..2 BY <2>1 DEF Money
    <3> QED BY <3>1, <3>2, <3>3
  <2>3. quotes \in [Ops -> 0..2] /\ nodeReads \in [Ops -> 0..2] /\ paid \in [Ops -> 0..2]
    BY <2>1, <2>2 DEF Types
  <2> QED BY <2>1, <2>3 DEF Types, TypeOK, Phases
<1>2. Core /\ Few /\ [Next]_vars => Few' BY NextFew
<1> QED BY <1>1, <1>2, InitFew, AlwaysCore, PTL DEF Spec
=============================================================================
