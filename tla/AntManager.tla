----------------------------- MODULE AntManager -----------------------------
(***************************************************************************)
(* The manager of the Swarm node (ant-manager.js): one antd child that the *)
(* browser spawns, or a node it finds or is pointed to.  startAnt is a     *)
(* program with several awaits; each start and each stop takes a number    *)
(* (startGeneration), by which an earlier start learns that it has been    *)
(* superseded.  A start, its chain bridge and its child have that number   *)
(* as their name.                                                          *)
(*                                                                         *)
(* Left out: which ports, configuration and messages.                      *)
(***************************************************************************)
EXTENDS Naturals, FiniteSets

CONSTANTS
  Configs,  \* nodes.bee.mode of profiles: "managed", "legacy", "external", "disabled"
  MaxGen    \* how often the node is started or stopped (a bound)

ASSUME ConfigAssumption == Configs \subseteq {"managed", "legacy", "external", "disabled"}
ASSUME GenAssumption == MaxGen \in Nat \ {0}

Gens == 1..MaxGen

VARIABLES
  config,       \* getProfileAntConfig().mode; "legacy" when the profile has none
  status,       \* currentState
  mode,         \* currentMode
  registry,     \* the mode the service registry shows for 'ant'
  generation,   \* startGeneration
  antProcess,   \* the start whose child is antProcess, or 0
  pendingStart,
  queuedStart,  \* the timer that carries out a pendingStart after a close
  start,        \* per start: the await startAnt is at
  child,        \* per start: its antd process
  poll,         \* per start: the interval that waits for health
  bridges,      \* starts whose chain bridge is open
  chainBridge,  \* the start whose bridge is chainBridge, or 0
  healthTimer,  \* healthCheckInterval is set
  checking,     \* a health check it made has not been answered
  forceKill,    \* forceKillTimeout is set
  exitWaiters   \* children a promise of stopAnt waits for

nodeVars == <<config, status, mode, registry, generation, antProcess, pendingStart,
              queuedStart, start, child, poll, bridges, chainBridge, healthTimer,
              checking, forceKill, exitWaiters>>

showVars == <<status, mode, registry>>
procVars == <<antProcess, child, poll, bridges, chainBridge, forceKill, exitWaiters>>

\* The last number is kept for the stop that a time-out makes.
Room == generation < MaxGen - 1

Owned == {"bundled"}
NotOwned == {"reused", "external", "disabled"}

NodeTypeOK ==
  /\ config \in Configs
  /\ status \in {"stopped", "starting", "running", "stopping", "error"}
  /\ mode \in Owned \cup NotOwned \cup {"none"}
  /\ registry \in Owned \cup NotOwned \cup {"none"}
  /\ generation \in 0..MaxGen /\ antProcess \in 0..MaxGen /\ chainBridge \in 0..MaxGen
  /\ pendingStart \in BOOLEAN /\ queuedStart \in BOOLEAN
  /\ start \in [Gens -> {"none", "external", "detect", "ports", "bridge", "closing", "ended"}]
  /\ child \in [Gens -> {"none", "live", "ending", "killed", "unborn", "gone"}]
  /\ poll \in [Gens -> {"off", "idle", "asking"}]
  /\ bridges \subseteq Gens /\ exitWaiters \subseteq Gens
  /\ healthTimer \in BOOLEAN /\ checking \in BOOLEAN /\ forceKill \in BOOLEAN

NodeInit ==
  /\ config \in Configs
  /\ status = "stopped" /\ mode = "none" /\ registry = "none"
  /\ generation = 0 /\ antProcess = 0 /\ pendingStart = FALSE /\ queuedStart = FALSE
  /\ start = [g \in Gens |-> "none"]
  /\ child = [g \in Gens |-> "none"]
  /\ poll = [g \in Gens |-> "off"]
  /\ bridges = {} /\ chainBridge = 0
  /\ healthTimer = FALSE /\ checking = FALSE /\ forceKill = FALSE /\ exitWaiters = {}

Alive(g) == child[g] \in {"live", "ending", "killed"}

\* Whether a request to the node's API can be answered.  A node that is not
\* ours is there whatever the browser does.
Reachable == \/ \E g \in Gens : Alive(g)
             \/ config \in {"legacy", "external"}

-----------------------------------------------------------------------------
(* startAnt                                                                *)

\* The checks of step 2 that need no await: the migration, the binary and the
\* injected keystore.  Any of them ends the start with an error.
BundledChecks(g) ==
  \/ /\ start' = [start EXCEPT ![g] = "ended"]
     /\ status' = "error"
  \/ /\ start' = [start EXCEPT ![g] = "ports"]
     /\ status' = "starting"

\* startAnt up to its first await.
StartAnt ==
  /\ UNCHANGED <<config, procVars, healthTimer, checking>>
  /\ \/ /\ status \in {"running", "starting"}
        /\ UNCHANGED <<showVars, generation, pendingStart, start>>
     \/ /\ status = "stopping"
        /\ pendingStart' = TRUE
        /\ UNCHANGED <<showVars, generation, start>>
     \/ /\ status \in {"stopped", "error"} /\ Room
        /\ pendingStart' = FALSE
        /\ generation' = generation + 1
        /\ \/ /\ config = "disabled"
              /\ start' = [start EXCEPT ![generation'] = "ended"]
              /\ status' = "stopped" /\ mode' = "disabled" /\ registry' = "disabled"
           \/ /\ config \in {"external", "legacy"}
              /\ start' = [start EXCEPT ![generation'] =
                              IF config = "external" THEN "external" ELSE "detect"]
              /\ status' = "starting" /\ UNCHANGED <<mode, registry>>
           \/ /\ config = "managed"
              /\ BundledChecks(generation') /\ UNCHANGED <<mode, registry>>

\* A node that is not ours answers: the manager only takes note of it.
Adopt(g, m) ==
  /\ start' = [start EXCEPT ![g] = "ended"]
  /\ mode' = m /\ registry' = m
  /\ status' = "running" /\ healthTimer' = TRUE

StartFails(g) ==
  /\ start' = [start EXCEPT ![g] = "ended"]
  /\ status' = "error"
  /\ UNCHANGED <<mode, registry, healthTimer>>

\* The rest of startExternalAnt, which asks for no generation.
ExternalProbed(g) ==
  /\ start[g] = "external"
  /\ Adopt(g, "external") \/ StartFails(g)
  /\ UNCHANGED <<config, generation, pendingStart, queuedStart, procVars, checking>>

StartEnds(g) ==
  /\ start' = [start EXCEPT ![g] = "ended"]
  /\ UNCHANGED <<status, mode, registry, healthTimer>>

\* detectExistingDaemon has looked at the default port.  Without a conflict
\* there is nothing more to await before the bridge; an await that does not
\* change anything stands for none.
Detected(g) ==
  /\ start[g] = "detect"
  /\ IF g # generation THEN StartEnds(g)
     ELSE Adopt(g, "reused") \/ (BundledChecks(g) /\ UNCHANGED <<mode, registry, healthTimer>>)
  /\ UNCHANGED <<config, generation, pendingStart, queuedStart, procVars, checking>>

\* Ports have been looked for and the assignment saved.  Running out of ports
\* is an error whether or not the start has been superseded.
PortsResolved(g) ==
  /\ start[g] = "ports"
  /\ \/ StartFails(g)
     \/ g # generation /\ StartEnds(g)
     \/ /\ g = generation
        /\ start' = [start EXCEPT ![g] = "bridge"]
        /\ mode' = "bundled"
        /\ UNCHANGED <<status, registry, healthTimer>>
     \/ /\ g = generation                            \* ensureConfig throws
        /\ start' = [start EXCEPT ![g] = "ended"]
        /\ mode' = "bundled" /\ status' = "error"
        /\ UNCHANGED <<registry, healthTimer>>
  /\ UNCHANGED <<config, generation, pendingStart, queuedStart, procVars, checking>>

\* startAntChainBridge has resolved or rejected; the child is spawned with the
\* bridge's URL.  A superseded start closes the bridge it was given.
BridgeReady(g) ==
  /\ start[g] = "bridge"
  /\ \/ /\ g # generation
        /\ start' = [start EXCEPT ![g] = "ended"]
        /\ UNCHANGED <<status, antProcess, child, poll, bridges, chainBridge>>
     \/ /\ g = generation                            \* no bridge
        /\ start' = [start EXCEPT ![g] = "ended"]
        /\ status' = "error"
        /\ UNCHANGED <<antProcess, child, poll, bridges, chainBridge>>
     \/ /\ g = generation                            \* spawn
        /\ start' = [start EXCEPT ![g] = "ended"]
        /\ bridges' = bridges \cup {g} /\ chainBridge' = g
        /\ child' = [child EXCEPT ![g] = "live"]
        /\ antProcess' = g
        /\ poll' = [poll EXCEPT ![g] = "idle"]
        /\ UNCHANGED status
     \/ /\ g = generation                            \* spawn throws
        /\ start' = [start EXCEPT ![g] = "closing"]
        /\ chainBridge' = 0
        /\ UNCHANGED <<status, antProcess, child, poll, bridges>>
  /\ UNCHANGED <<config, mode, registry, generation, pendingStart, queuedStart,
                 healthTimer, checking, forceKill, exitWaiters>>

\* The catch of the spawn, after closing the bridge.
SpawnFailed(g) ==
  /\ start[g] = "closing"
  /\ StartFails(g)
  /\ UNCHANGED <<config, generation, pendingStart, queuedStart, procVars, checking>>

-----------------------------------------------------------------------------
(* stopAnt                                                                 *)

\* What stopAnt does before its promise, and the promise's executor; after is
\* the status its caller goes on to set, or "" when it sets none.
StopAnt(after) ==
  LET put(s) == status' = IF after = "" THEN s ELSE after
  IN  /\ generation' = generation + 1
      /\ bridges' = bridges \ {chainBridge} /\ chainBridge' = 0
      /\ pendingStart' = FALSE
      /\ healthTimer' = FALSE
      /\ \/ /\ mode \in NotOwned
            /\ put("stopped") /\ registry' = "none" /\ mode' = "none"
            /\ UNCHANGED <<child, forceKill, exitWaiters>>
         \/ /\ mode \notin NotOwned /\ antProcess = 0
            /\ put("stopped") /\ registry' = "none"
            /\ UNCHANGED <<mode, child, forceKill, exitWaiters>>
         \/ /\ mode \notin NotOwned /\ antProcess # 0
            /\ exitWaiters' = exitWaiters \cup {antProcess}
            /\ put("stopping")
            /\ child' = [child EXCEPT ![antProcess] = IF @ = "live" THEN "ending" ELSE @]
            /\ forceKill' = TRUE
            /\ UNCHANGED <<mode, registry>>
      /\ UNCHANGED <<config, antProcess, queuedStart, start, checking>>

\* The five seconds are over: whatever is antProcess by now is killed.
ForceKill ==
  /\ forceKill
  /\ forceKill' = FALSE
  /\ child' = IF antProcess = 0 THEN child ELSE [child EXCEPT ![antProcess] = "killed"]
  /\ UNCHANGED <<config, status, mode, registry, generation, antProcess, pendingStart,
                 queuedStart, start, poll, bridges, chainBridge, healthTimer, checking,
                 exitWaiters>>

-----------------------------------------------------------------------------
(* The child's events                                                      *)

\* Fault: closes whatever bridge is the manager's.
BridgeOfManager(g) == {chainBridge}

\* A child's handlers close the bridge of their own closure.
BridgeOf(g) == {g}

\* 'close'.  The handler of startAnt runs first, and for the child it is about
\* that of stopAnt after it.
Closed(g) ==
  /\ Alive(g) \/ child[g] = "unborn"
  /\ child' = [child EXCEPT ![g] = "gone"]
  /\ bridges' = bridges \ BridgeOf(g)
  /\ chainBridge' = IF chainBridge = g THEN 0 ELSE chainBridge
  /\ exitWaiters' = exitWaiters \ {g}
  /\ LET mine == antProcess = g
         waited == g \in exitWaiters
     IN  /\ antProcess' = IF mine THEN 0 ELSE antProcess
         /\ forceKill' = (forceKill /\ ~mine /\ ~waited)
         /\ healthTimer' = (healthTimer /\ ~mine /\ ~waited)
         /\ status' = IF mine THEN "stopped" ELSE status
         /\ registry' = IF mine THEN "none" ELSE registry
         /\ queuedStart' = (queuedStart \/ (mine /\ pendingStart))
         /\ pendingStart' = (pendingStart /\ ~mine)
  /\ UNCHANGED <<config, mode, generation, start, poll, checking>>

\* 'error': the binary could not be run; 'close' still follows.
SpawnError(g) ==
  /\ child[g] = "live" /\ poll[g] = "idle"
  /\ child' = [child EXCEPT ![g] = "unborn"]
  /\ bridges' = bridges \ BridgeOf(g)
  /\ chainBridge' = IF chainBridge = g THEN 0 ELSE chainBridge
  /\ status' = IF antProcess = g THEN "error" ELSE status
  /\ UNCHANGED <<config, mode, registry, generation, antProcess, pendingStart, queuedStart,
                 start, poll, healthTimer, checking, forceKill, exitWaiters>>

-----------------------------------------------------------------------------
(* Health                                                                  *)

\* The interval of startAnt, up to its await.
PollTick(g) ==
  /\ poll[g] = "idle"
  /\ poll' = [poll EXCEPT ![g] =
        IF g # generation \/ antProcess # g \/ status \in {"stopped", "error"}
        THEN "off" ELSE "asking"]
  /\ UNCHANGED <<config, showVars, generation, pendingStart, queuedStart, start, antProcess,
                 child, bridges, chainBridge, forceKill, exitWaiters, healthTimer, checking>>

PollSuperseded(g) ==
  /\ poll[g] = "asking"
  /\ g # generation \/ antProcess # g
  /\ poll' = [poll EXCEPT ![g] = "off"]
  /\ UNCHANGED <<config, showVars, generation, pendingStart, queuedStart, start, antProcess,
                 child, bridges, chainBridge, forceKill, exitWaiters, healthTimer, checking>>

\* Fault: what was checked before the await is not checked after it.
PollAnswered(g) == poll[g] = "asking"

PollCurrent(g) == poll[g] = "asking" /\ g = generation /\ antProcess = g

PollHealthy(g) ==
  /\ PollCurrent(g) /\ Alive(g)
  /\ poll' = [poll EXCEPT ![g] = "off"]
  /\ registry' = "bundled" /\ status' = "running" /\ healthTimer' = TRUE
  /\ UNCHANGED <<config, mode, generation, pendingStart, queuedStart, start, antProcess,
                 child, bridges, chainBridge, forceKill, exitWaiters, checking>>

\* Fewer than 60 attempts so far.
PollUnhealthy(g) ==
  /\ PollCurrent(g)
  /\ poll' = [poll EXCEPT ![g] = "idle"]
  /\ UNCHANGED <<config, showVars, generation, pendingStart, queuedStart, start, antProcess,
                 child, bridges, chainBridge, forceKill, exitWaiters, healthTimer, checking>>

\* Fault: gives up without saying so.
PollGivesUp(g) ==
  /\ PollCurrent(g)
  /\ poll' = [poll EXCEPT ![g] = "off"]
  /\ UNCHANGED <<config, showVars, generation, pendingStart, queuedStart, start, antProcess,
                 child, bridges, chainBridge, forceKill, exitWaiters, healthTimer, checking>>

\* The 60th: stopAnt() is not awaited, and the error is shown over its status.
PollTimesOut(g) ==
  /\ PollCurrent(g)
  /\ poll' = [poll EXCEPT ![g] = "off"]
  /\ StopAnt("error")

HealthTick ==
  /\ healthTimer /\ ~checking
  /\ checking' = TRUE
  /\ UNCHANGED <<config, showVars, generation, pendingStart, queuedStart, start, procVars,
                 healthTimer>>

\* Both answers act on the status there is by then, the timer cleared or not.
HealthAnswer ==
  /\ checking
  /\ checking' = FALSE
  /\ \/ status' = IF status = "running" THEN "error" ELSE status
     \/ /\ Reachable
        /\ status' = IF status = "error" THEN "running" ELSE status
  /\ UNCHANGED <<config, mode, registry, generation, pendingStart, queuedStart, start,
                 procVars, healthTimer>>

-----------------------------------------------------------------------------
(* Callers                                                                 *)

\* The toggle, the launch, onboarding and the identity's lifecycle hooks.
UserStart == StartAnt /\ UNCHANGED queuedStart
UserStop == Room /\ StopAnt("") /\ UNCHANGED poll

\* The timer behind a pendingStart.
QueuedStart == queuedStart /\ queuedStart' = FALSE /\ StartAnt

\* Every await of a start ends: the probes have time-outs.
StartStep(g) ==
  ExternalProbed(g) \/ Detected(g) \/ PortsResolved(g) \/ BridgeReady(g) \/ SpawnFailed(g)

PollStep(g) ==
  PollTick(g) \/ PollSuperseded(g) \/ PollHealthy(g) \/ PollUnhealthy(g) \/ PollTimesOut(g)

NodeNext ==
  \/ UserStart \/ UserStop \/ QueuedStart \/ ForceKill \/ HealthTick \/ HealthAnswer
  \/ \E g \in Gens : StartStep(g) \/ PollStep(g) \/ Closed(g) \/ SpawnError(g)

\* The attempts of a poll are counted, so that one that keeps asking ends
\* healthy or timed out.
Fairness ==
  \A g \in Gens :
    /\ WF_nodeVars(StartStep(g))
    /\ WF_nodeVars(PollStep(g))
    /\ SF_nodeVars(PollHealthy(g) \/ PollTimesOut(g))

NodeSpec == NodeInit /\ [][NodeNext]_nodeVars /\ Fairness

-----------------------------------------------------------------------------
(* Properties                                                              *)

\* A chain bridge, which forwards the transactions its capability path is
\* given, is open only as long as the child that path was made for.
BridgesAreOwned == \A g \in bridges : Alive(g)

\* While the service registry sends pages to the bundled node, the close of the
\* manager's child is still to come and will take the entry back: no stop,
\* crash, time-out or second start leaves an entry that nothing withdraws.
EntryWillGo == registry = "bundled" => antProcess # 0 /\ child[antProcess] # "gone"

\* A status of "starting" is left in the end, so that waitForStartSettled and
\* those who show a spinner need no time-out of their own.
StartSettles == status = "starting" ~> status # "starting"
=============================================================================
