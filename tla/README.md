# A formal model of Freedom Browser

TLA+ specifications of the parts of Freedom Browser where the order of events
decides whether the browser is correct: fail-closed routing of its sessions, the
dispatcher of Electron's request events, the host of its worker threads, the
filter lists and their engine, x402 payments, the Swarm node and the purchases it
is set up with, and the Handshake resolver. TLC checks each on small
instances; TLAPS proves some of the results for instances of every size.

Freedom Browser is an Electron application. Its main process is one event loop
in JavaScript: a handler runs without interruption up to its next `await`, and
anything may happen before it goes on. Almost every mistake this project looks
for lives in such a gap. So an action of a module is what one handler does
between two awaits, all the calls it makes included, and what it read before an
await is kept in a variable, as the code keeps it in a local.

Paths below are relative to the root of the repository.

## 1. The system

### 1.1 Components that are modelled

**Session routing** (`src/main/session-proxy-controller.js`,
`session-routing-coordinator.js`, `session-routing-operation.js`,
`network-manager.js`, `hns-guard-resources.js`). Decides how every Electron
session reaches the network: directly, through a proxy the user set, the dVPN,
or a PAC script that sends Handshake names to a local guard.
- *State.* A record for each session (state, generation, key of the policy it
  has, poisoned or not), its registration token, the terminal flag and the
  promise chain of operations; the intent and its epoch, the committed policy;
  the shared PAC server's body, the HNS guard with its route and connections; in
  Chromium, the configuration of each session and its open connections.
- *Operations.* `enroll`, `unregister`, `adoptDefault`, `recover` (rebuild),
  `pauseAll` and `quarantineAll`, `intentChanged` from each setter,
  `beginHnsCertificateUpdate`, `terminate`.
- *Interaction.* Setters of other managers change the intent; private windows
  enroll and unregister; the request dispatcher reads `getPolicy()`. Native calls
  (`setProxy`, `forceReloadProxyConfig`, `closeAllConnections`) are awaited under
  deadlines and cannot be cancelled.
- *Hard.* Everything interleaves with a rebuild; late native calls; shared
  resources; generations that run out; one failed session among several.
- *Correct when* a session whose requests are let through has no connection
  under anything but the current intent, a session once retired or poisoned
  never comes back, and the queue of operations never wedges.

**Request dispatch** (`src/main/webrequest-dispatcher.js`). Electron allows one
listener per event and session; the dispatcher owns it and runs registered
consumers in order.
- *State.* The registry of handlers, whether it is closed, a binding per session,
  the permit of each listener that is running.
- *Operations.* `registerWebRequestHandler`, `attachWebRequestDispatcher`, and
  the listeners: consumer after consumer, each awaited.
- *Interaction.* Session routing attaches it in `enroll` and gives it
  `getRequestPolicy`; the on-chain guard, the request rewriter, ad blocking and
  x402 are consumers.
- *Hard.* The permission comes and goes while a consumer is awaited; redirects
  skip later consumers; consumers throw.
- *Correct when* a request proceeds only under one unbroken permission, past
  every gate, and every callback is called.

**Task worker host** (`src/main/task-worker-host.js`). A FIFO of requests for
one lazily spawned worker thread, with fallback to the caller.
- *State.* The queue, the worker entry (current request, online, answered), the
  disabled flag, a timer per request and one for the start.
- *Operations.* `run`, `stop`, aborts, the worker's events, the timers.
- *Hard.* Every event races every other; `postMessage` and `spawn` throw inside
  `dispatch`, which recurs; late answers of terminated workers.
- *Correct when* every request settles exactly once, for the right reason.

**Filter-list updates** (`src/main/adblock/update-manager.js`,
`update-manifest.js`, `update-scheduler.js`). Reads a signed manifest from a
Swarm feed, downloads lists, and promotes a staged directory.
- *State.* The directories `updated`, `updated.next`, `updated.prev`; the cycle.
- *Hard.* Crashes and failures between renames, feeds that go back in time,
  settings that change under way.
- *Correct when* what is served is of one version, intact, complete, and not
  older than what it replaces.

**Filter engine** (`src/main/adblock/service.js`, `engine-build-host.js`,
`engine-build.js`). Compiles the lists in a worker and serves requests.
- *State.* The settings, the chain of refreshes, the rebuild under way, the
  engine, the cache of serialized engines, the hold for the first engine.
- *Hard.* Settings and lists are read at several points of one rebuild; workers
  hang; holds follow one another.
- *Correct when* the last refresh decides the engine, and no page waits for an
  engine longer than promised.

**x402 payments** (`src/main/x402/intercept.js`, `ipc.js`, `permissions.js`,
`sign-flow.js`, `payment-utils.js`, and in the sidebar
`src/renderer/lib/wallet/dapp-x402.js`, `vault-unlock.js`, `signature-flight.js`).
Pays for resources that answer 402, after a click or under an allowance.
- *State.* Per tab: the detection, the waits for the vault, the resume token;
  pending approvals, signed headers in a queue per retry shape, requests whose
  answer is awaited, the allowance and what of it is spent; in the sidebar one
  card, one unlock prompt and one signature flight.
- *Interaction.* Consumers of the dispatcher on both sides of a request; events
  to the sidebar and calls from it, whose answers take their time.
- *Hard.* Several requests, tabs and cards at once over two processes, with
  timeouts, slow signatures, closing tabs, and money.
- *Correct when* only what the user agreed to is signed, nothing is paid twice or
  beyond the allowance, and each payment is accounted for.

**Swarm node manager** (`src/main/ant-manager.js`). Runs an `antd` child, or uses a
node that it finds or is pointed to.
- *State.* Status and mode, the number of the last start or stop, the current
  child, its chain bridge, timers for health, for killing and for a queued start,
  and the entry of the service registry that sends pages to the node.
- *Operations.* `startAnt`, `stopAnt`, the child's `close` and `error`, the poll of a
  start, the health interval.
- *Interaction.* The registry's entry routes `bzz:` pages; the publish setup asks for
  restarts; a chain bridge forwards the node's transactions.
- *Hard.* A start awaits probes, ports, the bridge and health, while stops, other
  starts, crashes and time-outs go on; a time-out stops without waiting.
- *Correct when* no bridge outlives its child, no entry of the registry is left for
  a node that is gone, and "starting" ends.

**Publish setup** (`src/main/swarm/publish-setup-service.js`, `ant-storage-api.js`).
The one purchase a node's postage is set up with.
- *State.* The operation with its phase, flags and timers, the user's own payment,
  the windows that show the screen and who left its result.
- *Operations.* `arm`, `cancel`, `dismiss`, `watch`, `trackFundingTx`, `restartNode`, and
  the calls they start: quotes, one write, the confirmation of a batch.
- *Interaction.* HTTP to the node, receipts of a chain, windows.
- *Hard.* A write without an answer may still be carried out; two quotes at once;
  cancelling between any two awaits.
- *Correct when* nothing is paid twice, nothing that may be paid is reported as
  merely failed, and no purchase is stranded.

**Handshake resolver and what is forwarded to it** (`src/main/hns-manager.js`,
`hns-authority.js`, `hns-native-custody.js`, `hns-validator-transport.js`,
`hns-network-monitor.js`, `hns-guard-forwarding.js`).
- *State.* The generation with its status, teardown and recovery, restarts, custody
  of its processes, the custody journal on disk, three leases, whether it is
  published; the guard's route; a forwarded pair of connections.
- *Operations.* `startHns`, `stopHns`, `invalidateHnsGeneration`, `maybeRestart`,
  `activateGeneration`, the probes, the child's events, the network monitor;
  `connect` and `request` of the guard.
- *Interaction.* Sets the upstream and the protection in session routing, which
  commits them with a rebuild; the guard asks whether the generation still holds
  every time it uses the route.
- *Hard.* Almost every event retires the generation while something is awaited; a
  helper launches a resolver the browser does not see; the browser may die.
- *Correct when* there is one generation of processes at most, a retired one answers
  nothing, and a wanted resolver is started again.

### 1.2 How they fit together

Session routing grants a permission; request dispatch enforces it at every
callback; x402 and ad blocking are consumers of dispatch. The worker host and
the engine's build host are the two patterns by which the main process hands
work to threads. The updater promotes directories from which the engine is
built, and rolls back when the build is rejected. Each module has the part of
its neighbour it needs as an environment, except the Handshake resolver, whose
life (`HnsManager`) and whose guard (`HnsForwarding`) are composed: `RequestDispatch` has `Admit`,
`Withdraw` and `Terminate` for what session routing does to one session;
`AdblockUpdate` has `Activate(ok)` for the engine; `AdblockEngine` has
`ListsChange` for the updater; `SessionRouting` has `SetIntent` for everything
that calls a setter, and `HnsManager` has `Commit` for the rebuild that follows;
`PublishSetup` has `RestartNode` for the node manager.

### 1.3 Components that are not modelled

| component | why not |
|---|---|
| Routing feedback (`session-routing-feedback.js`, `-notice.js`, `-termination.js`) | notices and the exit dialog; the termination they carry out is where `Environment` stops |
| Spaces, ENS and Tezos names | look-ups whose trust decision is a function of the answers |
| dVPN (`dvpn-manager.js`) | nothing in the renderer calls its bridge (`preload.js`) |
| The other node managers (IPFS, Bee, Radicle, Tor) | of the pattern of the Ant node's, which is modelled |
| Myotis light client | planned: checkpoints and their recovery |
| Other worker hosts | the pattern of the task worker host |
| Allow list, request classification | pure functions and one file |
| Wallet and signing, prompts | planned in part: confirmation tokens and the prompt queue |
| Identity and vault | cryptography; locking shows as a signature that finds the vault locked |
| Payment history | a row per append, counted by `X402Payments` |
| Swarm content | publishing, feeds and messages over an external node; its lock is a promise chain |
| Chain data and networks | planned last: fallback and agreement between sources |
| On-chain apps | rendering of fetched documents |
| Permissions and pop-ups, downloads, profiles | planned: prompts that outlive pages, items against Chromium's events, the profile lock |
| Private windows | their enrollment and retirement are in `SessionRouting` |
| History, bookmarks, favicons, settings | synchronous stores |
| Calls and bridges; windows, tabs, navigation | external programs; the DOM and Chromium |

## 2. The modules

| module | models | state ↔ code | actions ↔ code |
|---|---|---|---|
| `RoutingGate` | the promise of session routing, abstractly: a gate per session | – | `Change`, `Grant`, `Close` |
| `SessionRouting` | controller, coordinator and the hooks of the network manager; implements `RoutingGate` | `record`, `registration` ↔ the `records` and `sessions` maps; `queue` ↔ the pending promise; `policy`, `intentEpoch` ↔ the coordinator's; `run`, `lane` ↔ the locals of an operation and of each `applyTargets` lane; `applied`, `conns`, `late` ↔ Chromium | an action per setter and caller; per await of an operation one action with its outcome (`ok`, `failed`, `timeout`) |
| `RequestDispatch`, `MCRequestDispatch` | registration, attachment and listeners | `handlers`, `binding` ↔ `handlers`, `sessionBindings`; `listening`, `chain` ↔ Electron's listeners and the arrays they close over; `req` ↔ a listener's locals | `Register`, `Attach`, `Raise` (listener up to its first await), `Return` (a consumer's answer up to the next) |
| `RequestPromise` | what the worker host promises its callers | – | `One`, `Abandon`, `Stopped` under `Final` |
| `TaskWorkerHost` | the host; implements `RequestPromise` | `queue`, `entry`, `disabled`, `timers` ↔ the variables of `createTaskWorkerHost`; `outcome` ↔ the promises | `Run`, `Abort`, `Stop`, `Online`, `Answer`, `Died`, `StartTimeout`, `RequestTimeout` |
| `AdblockUpdate`, `MCAdblockUpdate` | one update cycle, file operation by file operation | `updated`, `next`, `prev` ↔ the directories; `cycle` ↔ the locals of `runUpdateOnce` | an action per await that reaches the disk or the network; `Break` is a failure or a crash |
| `AdblockEngine` | rebuilds, cache and hold | `build` ↔ the locals of `rebuildEngineOnce`; `queued` ↔ `refreshChain`; `hold`, `left` ↔ `engineWait`, `holdBudgetLeftMs` | an action per await of a rebuild; `Request` for a consumer |
| `X402Payments`, `MCX402Payments` | main's maps and the sidebar, joined by two channels | `slot`, `waiter`, `resume`, `armed`, `pending` ↔ `detectedPayments`, `pendingUnlockWaits`, `pendingUnlockResume`, `awaitingResponse`, `pendingPayments` | `Issue`/`Follow` (inject), `Detect`, `SignOk`/`SignFails`/`SignLocked`, the IPC handlers, the sidebar's handlers and the user |
| `AntManager` | the node manager | `start`, `poll` ↔ where each `startAnt` and its interval are; `child`, `bridges`, `antProcess`, `chainBridge` ↔ the children, theirs and the manager's; `generation` ↔ `startGeneration` | `StartAnt` and one action per await of it; `StopAnt`; `Closed`, `SpawnError`; `Poll…`, `HealthTick`, `HealthAnswer` |
| `PurchasePromise` | what a purchase promises: a stage, how often it was paid, a write that is loose | – | `Ask`, `Begin`, `Pay`, `Succeed`, `BackOut`, `Doubt` |
| `PublishSetup`, `MCPublishSetup` | the setup; implements `PurchasePromise` | `operation`, `kind`, `phase`, `executed`, `uncertain` ↔ the fields of `operation`; `quotes`, `nodeReads`, `write`, `txPoll`, `confirmPoll` ↔ calls that are awaited | `Arm`, `Cancel`, `Dismiss`, `Watch…`; an action per await with its answers; `Carry` is the chain |
| `ResolverPromise` | what the resolver promises, abstractly | – | `Start`, `Serve`, `Withdraw`, `Lose`, `Gone` |
| `HnsManager` | the resolver's generations | `status`, `gen`, `pendingStart`, `restarts`, `recovery`, `authority` ↔ the variables of `hns-manager.js`; `starts`, `activations` ↔ where `startHns` and `activateGeneration` await; `teardown` ↔ the parts of `helperTeardown`; `helper`, `native`, `journal` ↔ processes and disk | `UserStart`, `UserStop`, the awaits of a start, teardown part by part, `NetworkChanges`, leases and probes, `Crash` |
| `HnsForwarding` | the guard's forwarding, over `HnsManager`; implements `ResolverPromise` | `pair` ↔ the locals of `connect` and `request` | `Connect`, `Connected`, `Answered`, `PairEnds` |
| `SessionRouting_proofs`, `RequestDispatch_proofs`, `TaskWorkerHost_proofs`, `AdblockUpdate_proofs`, `AdblockEngine_proofs`, `Swarm_proofs` (`AntManager` and `PublishSetup`), `X402Payments_proofs`, `HnsForwarding_proofs` | theorems and proofs | | |

Operators commented *Fault:* are not part of any specification. Each is a
mistake a later edit of the code could make, written beside the definition it
would replace; with it in place the property it is aimed at fails, which shows
that the property says something about the code.

### 2.1 Session routing

An operation leaves the queue and runs as a program: `run` holds its phase and
what it captured (`target`, `epoch`), `lane` its native calls, one lane for each
session, all running at once. While it awaits, the environment does what it
likes: setters call `intentChanged`, private windows come and go, servers die.

- *Connections* are the worst case: a connection is open under every
  configuration that has been in force since the last `closeAllConnections`, and
  the guard has one under its route whenever it may forward.
- *A deadline* does not cancel a native call. A `setProxy` that missed it stays in
  `late` and lands at any time, as does a `prepare` in `latePrepare`.
- *A PAC session* takes the shared body as it is at the moment, at its own
  reloads or whenever Chromium polls (`RefetchPac`); without a server it blocks.
- *A generation that runs out* (`Transitions`) poisons the record it was reached
  for and terminates with a part of the sessions moved, in any order.
- *Termination.* The handler of a termination calls `app.exit(70)`
  (`session-routing-termination.js`), so from then on `Environment` is over and
  only what is under way continues.
- `setTorProxy`, `clearHnsProxy` and the like are `SetIntent` followed by
  `Rebuild`: the code changes the intent synchronously and enqueues the rebuild,
  but the caller that asks for it may be another one.
- A failure to drain the guard cannot be recovered from and ends the process, like
  a deadline: `PrepareGuard` has them as one outcome.
- `PrepareGuard` gives the guard a route exactly for a guarded intent. The code also
  starts it where protection is required and no helper is known yet, without one;
  here that is a guarded intent like any other.
- An `attach` that throws withdraws the enrollment (`coordinator.js:109-111`):
  `Enroll` with `Unregister` at once, but for an operation in the queue that finds
  nothing to do.
- The catch of `enroll` runs before the next operation leaves the queue, by the
  order of microtasks, so it belongs to the operation's last step.

### 2.2 Request dispatch

`Raise` makes the permit and runs to the first consumer; `Return` takes one
consumer's answer through `guardedCallback` to the next await. One request is
enough: listeners share nothing but the session's policy. A session gets requests
when its enrollment has returned; the default session's startup permission is
given to it in the same way. The listeners without a callback are left out, as
they decide nothing, and so are the type checks before `attach` and a failure to
install one of those. Whether the default session is attached before it is first
permitted is one synchronous step of `initializeSessionRouting`. `steady` remembers for the property whether the permission
was unbroken.

### 2.3 Task worker host

Every worker is named by the request it was spawned for. `Dispatch` is a
disjunction of what the recursive calls of `dispatch` and `retire` come to:
handing over, one failure and a fresh worker, or giving the host up. The
`Environment` decides whether threads can be spawned and payloads be posted.
`posted` keeps the answers that may still come from workers long terminated.

### 2.4 Filter lists and engine

`AdblockUpdate` has one action for each operation on a directory. `Break` stops a
cycle at any of them, as a failed call or as a crash: afterwards both have left
the same things on the disk. A recursive removal that is cut short leaves any
part of a directory. The feed serves any version that was ever published: a Swarm
node may find an old update of a feed, and the signature is over an old manifest
too. Temporary directories of an update are never served, so they are not read
by the engine. A category is one file; that its name changes from the bundled
`file` to `${list_id}.txt` is left out.

In `AdblockEngine` a rebuild reads the enabled categories twice, as the code
does, once before and once after `resolveArtifacts`, and the worker reads the
lists a third time. One cache file is kept, as `writeEngineCache` prunes the
others. Time is counted in ticks, and only while a hold is open. A change of the
lists on the disk and the refresh it asks for are one step: after a failed promotion
(`update-manager.js:236-240`) the lists may differ without a refresh, and
`SettledEngineIsCurrent` is about changes that ask for one.

### 2.5 x402 payments

One origin and one asset, so there is one allowance. Events from main to the
sidebar and calls from the sidebar to main are two ordered channels; a details
answer waits for balance look-ups and arrives whenever it likes. A redirect keeps
the id of its request, so that a request may be sent again; a page that is loaded
again is a request of its own, as is the navigation that `x402:cancel` asks for. A
redirect of the detector leads to the same URL. One of the server
(`Redirected`) leads to any, and is the response of the request it answers: the
receipt handler books it and forgets that the request was signed
(`intercept.js:1090-1095`), so the loop guard knows it no longer, and a 402 at
or after the redirect is paid again. `hops` counts these redirects, up to the
number the browser follows. Signatures expire the oldest first; one that is found
expired is used up, and its request leaves without any other behind it. The ghosts `agreed`, `attached`, `booked` and
`lost` remember what the properties compare.

### 2.6 The Swarm node and its purchases

In `AntManager` starts and stops share one sequence of numbers, as
`startGeneration` does, and a start, its child and its bridge are named by theirs.
A start that is superseded goes on to its next check, as in the code; a node at
the default port that is not ours may come and go. A child ends at any time. Some
of what the code does is worth knowing, though no line speaks against it: a start
in the status "error" does not look for a child that still runs and leaves it
behind; the stop of a start that timed out is not awaited; the delayed kill hits
whichever child is current by then; and a queued start is not withdrawn by a stop
in its 100 ms. Three things are simpler than in the code: a poll has one health check
out at a time (the interval is shorter than the check's own time-out); 'error'
comes of a failed spawn only, not of a failed `kill`; and the fairness of a start
takes its probe to settle, which a peer that breaks off in the middle of a body
could prevent (`ant-manager.js:432-462`).

In `PublishSetup` the node's answers are those antd gives. That a 409, a 503, a
refusal, and "too few xDAI" mean that nothing was sent is an assumption about
antd, which the code makes too (`ant-storage-api.js`). After any other failure a
transaction may still be sent (`late`, `CarryLate`). Amounts are left out: whether
a price can be paid is the quote's answer. A purchase that was rejected (in the code the
phase "failed" with `REJECTED_BATCH_MESSAGE`) has a phase of its own, and a payment to
follow is named once per operation.

### 2.7 The Handshake resolver

A start gives a generation the next number and a stop leaves none; the code
increments for both and compares for equality. A start that finds itself
superseded ends at its next test. Teardown is a set of parts, as `Promise.all` has
them, and each may fail, which blocks the resolver until someone has looked
(`cleanupFailed`). The resolver that the helper launches is not a child of the
browser: it is known by a receipt that the launcher writes, and by the journal,
which says "pending" from before the spawn until custody has seen the end. `Crash`
keeps the processes and the journal and nothing else.

Probes are not state: an answer may come whenever the generation runs, and
answers to an earlier generation change nothing, because each compares
`helperGeneration` and the authority before anything else. Leases lapse at any
time and nothing happens then, until someone asks. The preflight's checks are
synchronous in the code; their failure is merged into `AddressesChosen`. The
launcher may be on its way when its helper dies (`Launch`), so custody may find
no receipt, and cleanup then stays unresolved. When the resolver itself ends
without the browser's doing, the helper reports it or a probe fails, which are
actions already; so a resolver not known to have ended counts as live. `missed`
remembers, for the properties, that a published generation has once missed a
lease.

The code has no time limit for a helper that never reports ready: the status
stays "starting", and `StartsAgain` promises no more than that.

Simpler than the code: `UserStart` withdraws the guard also where the protection was
required before and nothing changes; timers of automatic restarts that overlap are
one (`RestartDue`); and once a part of a teardown has failed nothing more of it happens, though the
code's other parts may still close the journal. Starts are blocked from then on.

The guard compares the route's object; as every commit drains the pairs first,
its generation identifies it. A body that is already being piped when the route
is withdrawn ends at the drain of the next rebuild, not at the withdrawal:
`NothingStaleIsServed` is about what is passed on by a decision.

## 3. What is checked

Distinct states are those TLC found; every run that passes explores its state
space completely. Each module states a type invariant; `routing` checks its own, because
a counter at its limit matters there, and those of `SessionRouting`,
`TaskWorkerHost`, `AdblockUpdate`, `AdblockEngine`, `AntManager` (`NodeTypeOK`),
`PublishSetup`, `X402Payments` and `HnsForwarding` are proved.

| run | instance | states | what it shows |
|---|---|---|---|
| `routing` | 2 sessions (default and private); direct, Handshake, and a certificate update with a setting changed in it; 1 queued operation | 1,209,536 | types and bounds; `AllowedRoutesAreCurrent`, `GuardIsCurrent`; `SharedResourcesStable`, `RetirementIsPermanent`, `EnrollmentIsLocal`; the refinement of `RoutingGate`; the queue drains (`QueueDrains`) |
| `dispatch` | 2 sessions, 4 handlers on 3 events, 1 request, 1 redirect | 306,416 | `PermittedThroughout`, `GatesPassed`, `ChainsAreWhole`, `EventsAreAnswered` |
| `worker_host` | 4 requests | 46,690 | `OneOwner`, `WorkIsTimed`, `OthersUnharmed`, the refinement of `RequestPromise`, `EveryRequestSettles` |
| `update` | 2 categories, 3 versions, 2 faults | 824,508 | `ListsAreOneVersion`, `ActivatedIsComplete`; without file faults also `PreviousSurvives`, `NeverBackward` |
| `engine` | 1 category, 2 digests, 1 consumer, with and without cache | 67,752 | `HoldIsBounded`, `SettledEngineIsCurrent`, `RebuildsEnd`, `HeldAreReleased` |
| `x402` | 1 tab, 2 interchangeable requests for one URL, 1 redirect of the server each, allowance 1, raised to 2 | 0.8 million | `SigningIsAgreed`, `OneSignaturePerHop`, `PaymentsAreBooked`, `HeldHaveWaker`, `LockIsOwned`, `AutoPayWithinCap` |
| `ant_node` | 5 starts and stops, every kind of node | 114,625 | `BridgesAreOwned`, `EntryWillGo`, `StartSettles` |
| `publishing` | 2 purchases of three kinds, 1 followed payment, 2 interchangeable windows | 1,229,493 | `NothingIsForgotten`, `DismissedResultsGo`, the refinement of `PurchasePromise` |
| `hns` | 2 generations, 1 automatic restart, crashes, 1 forwarded pair | 462,230 | `NothingStaleIsServed`, the refinement of `ResolverPromise`, `StartsAgain` |
| `update_downgrade` | as `update`, 1 fault | violated | `DowngradeProtection` (section 5) |
| `engine_races` | 2 categories, cache | violated | `SettledBlocksOnlyEnabled` (section 5) |
| `x402_card` | 2 requests | violated | `CardIsPayable` (section 5) |

### 3.1 Bounds, and why they are enough

- `MaxSafe`, `MaxEpoch` stand for `Number.MAX_SAFE_INTEGER`. They are no cut-off of
  the exploration: a counter that reaches them does what the code does, poison and
  terminate, so the runs cover that path too. Eight is
  the least with which the default session goes the whole way from one route in use
  to another (withdrawn, updating, configured and ready, twice); a private session,
  whose enrollment counts as well, is quarantined after its first route, or
  quarantined first and then rebuilt.
- Four intents: the native start, a guarded PAC route, the update that pauses it,
  and one that differs from that update by a setting. A second PAC route (the dVPN, which has no guard) is left out, so that one
  body replaces another is not in the instance; that the guard's route does is.
- `MaxQueue` bounds how many operations wait behind the one under way: one is
  enough for an operation that starts in the state another has left, and for a
  queue that must move on.
- Two sessions: properties relate a session to the shared resources, or one
  session to one other.
- `MaxFaults` = 2: a fault, and one more in the cycle that meets its remains.
- Three versions of two lists: one that changes one list of two, one that drops
  one; more repeat these.
- `Hold` = 2 ticks: a hold that is partly spent, and a second that uses the rest.
- `MaxGeneration` = 3: a permission is given, taken and given again within one
  listener. `MaxHops` = 1: a redirect, after which the chain is as at the start.
- Four requests in the worker host: one at work, one at the head of the queue that
  fails to be posted, one that goes to the fresh worker, one behind it.
- Two x402 requests: one being signed or held, one that takes the slot from it,
  waits beside it or races it for the allowance; the theorems are for any number.
  Their `MaxHops` = 1 lets a request be paid for, redirected and paid for again.
  They are interchangeable (symmetry), as nothing orders them; no liveness is
  checked there, with which symmetry would be unsound.
- `AntManager`, `MaxGen` = 5: a start, what supersedes it, a start that overlaps
  the remains, and the stops that time-outs make; the last number is kept for such
  a stop, so four are the user's.
- `PublishSetup`, `MaxOps` = 2: one purchase whose late answers meet another.
  `MaxTracked` = 1: a payment affects the others only as one more quote. "extend"
  is left out of the instance, as it differs from "deposit" only in that it is
  never found to be needless. Two windows: the one that leaves a result and one
  that stays.
- `HnsManager`, `MaxGen` = 2: all properties relate a generation to its successor;
  a third adds the successor of a successor. `MaxRestarts` = 1 has a restart and
  giving up.

`CHECK_DEADLOCK FALSE` stands in the configurations of `SessionRouting` (a
terminated process does nothing more), `RequestDispatch` and `X402Payments` (all
requests may be done), and of `AntManager`, `PublishSetup` and `HnsForwarding` (the
bounds on starts and purchases may be used up). In the others something can always
happen.

### 3.2 Fairness

- `SessionRouting`: weak fairness of `Operation` and of each `NativeStep(s)`. Every
  await of an operation is raced against a deadline
  (`session-routing-operation.js`), and `timeout` is one of the outcomes, so the
  step is taken in any case. Nothing is assumed of callers: `QueueDrains` is
  conditional on their ceasing to enqueue.
- `RequestDispatch`: a consumer that has a request answers, throws or redirects.
  The dispatcher has no deadline for this: a consumer that hangs holds its request,
  and `EventsAreAnswered` is about what the dispatcher does with an answer.
- `TaskWorkerHost`: timers fire. Nothing is assumed of the worker.
- `AdblockEngine`: `Progress`, which includes the build's failure by its deadline
  (`BUILD_DEADLINE_MS` in `engine-build-host.js`), so it is enabled even when the
  worker is wedged; and the timer of the hold.
- `AntManager`: each await of a start ends, as the probes and look-ups of ports have
  time-outs, and so does each step of its poll, whose requests have one of 2 seconds.
  Strong fairness of `PollHealthy \/ PollTimesOut` stands for the count of 60
  attempts, which is left out: a poll cannot ask for ever.
- `HnsForwarding`: a teardown moves on (`TeardownStep`), because each of its parts has
  a deadline after which it fails, and the timer of a restart fires. Nothing is
  assumed of a start, a helper, a probe, a lease or the network.
- `AdblockUpdate`, `X402Payments`, `PublishSetup`: none; safety only. That a purchase
  is never stranded is stated there as an invariant: what moves it on is there.

## 4. What is proved

For all values of the constants that satisfy the named assumptions of the
modules, and unbounded in what the runs bound:

| theorem | statement |
|---|---|
| `SessionRouting_proofs!TypeCorrect` | `Spec => []TypeOK` |
| `SessionRouting_proofs!RegisteredAreLive` | `Spec => []Registered` |
| `SessionRouting_proofs!RetirementPermanent` | `Spec => RetirementIsPermanent` |
| `SessionRouting_proofs!RoutesAreCurrent` | `Spec => []AllowedRoutesAreCurrent` |
| `SessionRouting_proofs!GuardCurrent` | `Spec => []GuardIsCurrent` |
| `SessionRouting_proofs!ResourcesStable` | `Spec => SharedResourcesStable` |
| `SessionRouting_proofs!EnrollmentLocal` | `Spec => EnrollmentIsLocal` |
| `SessionRouting_proofs!GateImplemented` | `Spec => ImplementsGate`, the refinement of `RoutingGate` |
| `RequestDispatch_proofs!DispatchPermitted` | `Spec => PermittedThroughout` |
| `RequestDispatch_proofs!DispatchChainsWhole` | `Spec => []ChainsAreWhole` |
| `RequestDispatch_proofs!GatesArePassed` | `Spec => []GatesPassed` |
| `TaskWorkerHost_proofs!TypeCorrect` | `Spec => []TypeOK` |
| `TaskWorkerHost_proofs!RequestsAreOwned` | `Spec => []OneOwner` |
| `TaskWorkerHost_proofs!WorkTimed` | `Spec => []WorkIsTimed` |
| `TaskWorkerHost_proofs!OthersAreUnharmed` | `Spec => OthersUnharmed` |
| `TaskWorkerHost_proofs!PromiseKept` | `Spec => ImplementsPromise`, the refinement of `RequestPromise` |
| `AdblockUpdate_proofs!TypeCorrect` | `Spec => []TypeOK` |
| `AdblockUpdate_proofs!OneVersionApplied` | `Spec => []ListsAreOneVersion` |
| `AdblockUpdate_proofs!PreviousKept` | `Spec => PreviousSurvives` |
| `AdblockUpdate_proofs!NeverMovesBackward` | `Spec => NeverBackward` |
| `AdblockUpdate_proofs!CompleteWhenActivated` | `Spec => ActivatedIsComplete` |
| `AdblockEngine_proofs!TypeCorrect` | `Spec => []TypeOK` |
| `AdblockEngine_proofs!HoldBounded` | `Spec => []HoldIsBounded` |
| `AdblockEngine_proofs!SettledIsCurrent` | `Spec => []SettledEngineIsCurrent` |
| `AdblockEngine_proofs!NobodyForgotten` | `Spec => []HeldWhileCompiling` |
| `Swarm_proofs!NodeTypeCorrect` | `NodeSpec => []NodeTypeOK` |
| `Swarm_proofs!BridgesOwned` | `NodeSpec => []BridgesAreOwned` |
| `Swarm_proofs!EntryGoes` | `NodeSpec => []EntryWillGo` |
| `Swarm_proofs!TypeCorrect` | `Spec => []TypeOK` |
| `Swarm_proofs!PromiseKept` | `Spec => ImplementsPromise`, the refinement of `PurchasePromise` |
| `Swarm_proofs!NoneForgotten` | `Spec => []NothingIsForgotten` |
| `Swarm_proofs!ResultsGo` | `Spec => []DismissedResultsGo` |
| `X402Payments_proofs!TypeCorrect` | `Spec => []TypeOK` |
| `X402Payments_proofs!SigningAgreed` | `Spec => []SigningIsAgreed` |
| `X402Payments_proofs!OneSignature` | `Spec => []OneSignaturePerHop` |
| `X402Payments_proofs!Booked` | `Spec => []PaymentsAreBooked` |
| `X402Payments_proofs!HeldWaker` | `Spec => []HeldHaveWaker` |
| `X402Payments_proofs!LockOwned` | `Spec => []LockIsOwned` |
| `X402Payments_proofs!AutoPayCapped` | `Spec => AutoPayWithinCap` |
| `HnsForwarding_proofs!TypeCorrect` | `Spec => []TypeOK` |
| `HnsForwarding_proofs!StaleNotServed` | `Spec => NothingStaleIsServed` |
| `HnsForwarding_proofs!PromiseKept` | `Spec => ImplementsPromise`, the refinement of `ResolverPromise` |

The assumptions are those of the modules that declare the constants: bounds are
natural numbers, prices and allowances are positive, names of things differ from
the value that stands for none. One was added for a proof: x402's requests are
finitely many (`RequestAssumption`), as `details.id` is a 64-bit number; the cards
of a closing tab are told one after the other, which takes an order of them.

Every inductive invariant below was checked by TLC, on the instance of the
module's run, before it was proved.

*Types of session routing.* `TypeOK` is inductive. The proof has a lemma for each
of the helpers that compute the next records (`Transitions`, `Retired`, `Settle`,
`StartLanes`, `Finish`, `Quarantine`, `Publish`), then one step per action. That
generations stay in `0..MaxSafe` is part of it: no handler moves a record that
is full.

*Retirement.* The action property does not follow from types: `transition` itself
would move a retired record, and it is the callers that do not ask it to. What
keeps them is that they test for retirement or go by registration, and that a
registered session is not a retired one as long as the process lives
(`Registered`). Its proof and the proof of the property go together: each handler
leads from registered records to registered ones, and what was barred stays so
(`Held`). A late `setProxy` changes connections only.

*Routes.* A session becomes ready long after its routes were changed, so the
invariant (`RoutesInv`) says what is true of a lane half-way: it owns its record
while nothing has moved the record since the lane began (`Owned`), and only then do
its routes lead where the operation wants them, as far as the lane has come
(`LanesReach`): the configuration after `setProxy`, the connections after the
drain. A record that moves gets a new generation, so its lane owns it no longer.
Around this stand which lanes and which policy go with a phase (`PhasesFit`), that
an operation whose epoch is still the current one has its policy in force
(`EpochsFit`), that a late native call has poisoned its session (`LanesFit`), and
that the policy in force has its PAC body and guard (`PolicyIsServed`). Nothing is
claimed after a termination. On the run's instance it holds in all 1,209,536
states.

*The gate.* A step either leaves every record that may be used afterwards as it was
(`Closing`), or changes only records that were of no use and are not barred
(`Granting`); the invariant before and after the step says what such a record means
for the routes. `EnrollmentIsLocal` and the refinement follow from this, and
`SharedResourcesStable` from the fact that nobody is open in the phases that change
the shared resources.

*Request dispatch.* A permit is a generation. The invariant (`PermitHolds`) is that
a listener's permit is never newer than its session's generation and, while it is
equal and the session open, the session has been open since the listener began:
each change of the permission has a generation of its own (`TransitionInv`), and a
termination closes the session for good. What a listener does with a request
(`Outcome`) is to go on with the same permit or to let it through under a good
one. For the chains, nothing is registered once a session listens (`Whole`). For the
gates (`Guided`), a request that is with a consumer of onBeforeRequest has passed
each gate or still has it before it in its chain, as the chain has all of them. That
the chain does is about what `Select` computes for handlers of any number: the
recursion has a solution, and its result has every handler that applies
(`ChoiceExists`, `SelectChooses`). Both are inductions over the number of handlers,
done with the least number of a set (`LeastNumber`, from the well-foundedness of the
natural numbers), which needs no induction scheme; `Select` is written as a recursive
function for this, because the prover knows no definition of `SelectSeq`.

*The worker host.* The inductive invariant is types, `OneOwner`, and that workers
and the requests they are on are timed (`Punctual`). All handlers end in
`Dispatch`, whose disjuncts are what its recursion comes to; lemmas show what it
restores from the weaker state in which handlers leave the host (`Owned`,
`Timed`), where a queue may stand in front of an idle worker, and what it settles
(`Handled`): nothing but the request that could not be handed over, unless it
disables the host. `stop` settles all (`Dropped`). The refinement and
`OthersUnharmed` read this off, action by action (`PromiseReading`).

*Filter-list updates.* The invariant (`AdblockUpdate_proofs!Inv`) says that each of
the three directories is of the version it names, if it has a manifest: what a removal
leaves is too, so a failure needs no other argument (`RemainsWhole`). The rest follows
the cycle: what is staged is whole and has what was asked for (`StagedIsWhole`); where
it is, and where the directory it replaces is (`Places`); and, as long as nothing has
failed, that what was activated last is what is applied or has been set aside
(`LastApplied`). A cycle ends in four ways (`HowItEnds`), of which `PreviousSurvives`
allows two.

*The filter engine.* Of the budget of a hold, what was waited and what is left add up
(`Accounted`), in the ticks of an open hold and after each of the ways it is released.
For the engine that settles, what a build has captured is the settings and the lists
there are, or another refresh is queued behind it (`SeenOrQueued`).

*The node manager.* The two properties are inductive together with types: an open
bridge is that of a child that lives, and what keeps the registry's entry is that
it is written only for the current child and that a child stays current until it
closes or another takes its place. Types need one fact more (`LastIsAStop`): the
last number, which the bound keeps for a stop, never belongs to a start, so a poll
that times out still has a number to take.

*Publish setup.* Every step is one of a few moves of one purchase (`Back`, `Forward`,
`Doubted`, `Carried`, `Armed`, `Still`). The moves keep `Core`: only the current
operation in the phase "executing" has a write out (`Writes`), and nothing has left
or will leave the wallet for one that is being priced (`Money`); each of them maps to
a step of `PurchasePromise` or a stutter, by the stage a purchase shows (`Stage`).
`NothingIsForgotten` is inductive with `Core`: who takes the last call or timer of an
operation leaves another (`Moving`). The type invariant bounds the number of quotes
under way, which needs what may still ask for one to be counted (`Few`): one of a
call, a timer or a write, and one more after a payment of the user's own.

*x402.* `SigningIsAgreed` needs that a click pays once. The invariant (`Consents`)
says, of a request that a click would pay, that at most one thing can bring a click:
news of it on the way to the sidebar, a call on the way back, an answer to
`get-details`, or its card (`Sole`); a request for which no card has been offered, or
whose click is spent, has none of them (`Early`, `Free`). So when a signature fails
and the request is offered again, no second click is under way. It is proved over
channels of any length: a lemma for each way a channel changes says how many
messages of a kind it has for a request (`AppendTok`, `TailTok`, `ConcatTok`).
`Waits` ties the vault's entries to the requests that wait; `Carried` says where a
request can be that has taken one signature more than the server has redirected it:
waiting for its answer, of which the loop guard lets none sign again, or where it
will not leave any more; `Flight` says who owns the sidebar's lock. On the run's instance these hold in
all 0.8 million states. `AutoPayWithinCap` follows from what `Inject` does.

*The resolver.* Whatever an invalidation finds, it leaves no generation current
(`Over`, `Ends`), and every failure of a start, a helper or a probe is one. A
generation is current exactly while the resolver starts or runs, and then the user
wants it, the network is watched and nothing is being torn down (`CurrentIsSound`).
For custody (`Held`), a journal that is closed leaves nobody unaccounted for, and
while a helper is held it is only that one and its resolver that can be; a start
comes to spawn only with the journal closed and before its helper was spawned
(`SpawnsAlone`), so a crash leaves the journal telling the next start. A current
generation is published, or about to be, only in custody, and a lease that is missed
after publication leaves the authority invalid, which a late renewal does not mend
(`Authorized`). The refinement takes for alive who is unaccounted for (`Alive`), for
served the route the guard passes on (`Serving`), and for lost who is no longer
current or has missed a lease (`Lost`); a step changes them as one of the promise's
actions or not at all. The invariant holds in all 462,230 states of the run.

*Not proved, only model-checked.*
- Liveness under fairness and what is enabled are out of the prover's reach:
  `QueueDrains`, `EventsAreAnswered`, `EveryRequestSettles`, `RebuildsEnd`,
  `HeldAreReleased`, `StartSettles`, `StartsAgain`.

## 5. Disagreements found

- **Downgrade protection** (`update_downgrade`). Promotion renames `updated` to
  `updated.prev` and then `updated.next` to `updated`
  (`update-manager.js:236-237`). When the process dies or the second rename fails
  in between, no `updated` is left, nothing restores it, the applied version reads
  as 0, and an older signed manifest is accepted and applied. The comments promise
  that an update is "never" a move backward (`update-manifest.js:120`) and that
  the previous directory survives any failure (`update-manager.js:7-9`).
- **Cached engines** (`engine_races`). A rebuild compiles from the settings it read
  before `resolveArtifacts()` and names the cache file by the settings it reads
  after it (`service.js:416`, `431`, `448`). A category that is switched off in
  between is compiled in, cached as an engine without it, and served from there
  after the refresh that the change asked for, although "the last caller always
  wins" (`service.js:396-401`). Without a cache directory it does
  (`SettledEngineIsCurrent`).
- **A second paywalled page in a tab** (`x402_card`). Showing its card hides the
  older one, whose hider cancels by tab (`dapp-x402.js:936`), and so withdraws the
  detection the new card needs (`ipc.js:407-408`). Its Pay is refused as stale,
  although a detection is replaced so as to have "one 402 → one interstitial → one
  approval" (`intercept.js:92-93`).

Three more were met and have no run of their own:

- **A paid request that is redirected pays again** (`Redirected`). The loop guard is
  to let a 402 pass "on a `details.id` we already armed" (`intercept.js:834-837`,
  `intercept.test.js:284`: "402 on a request we already signed does NOT re-sign").
  A 3xx answer to the signed request disarms its id (`intercept.js:1095`) before the
  redirect is followed under it, and the 402 that may come then is signed anew.
  `OneSignaturePerHop` says how far this goes: once for each redirect.
- **A held request offered again beside a newer one** (`SignFails`). A request whose
  signature failed goes back to its approval although a newer one of its tab has
  come since, while "a newer detection supersedes any older entries for the same
  webContents" (`intercept.js:158-159`).
- **A prompt to unlock that arrives while one is up** dismisses its own request
  (`HandleUnlock`). No line of the repository speaks against this one.

## 6. Plan

The modules are ordered by how much depends on them. Done: `RoutingGate`,
`SessionRouting`, `RequestDispatch`, `RequestPromise`, `TaskWorkerHost`,
`AdblockUpdate`, `AdblockEngine`, `X402Payments`, `AntManager`, `PublishSetup` with
`PurchasePromise`, `HnsManager` with `HnsForwarding` and `ResolverPromise`, and the
theorems above.

Proofs to come:

- For `SettledBlocksOnlyEnabled` with the cache, a proof of what does hold: a cached
  engine is one of the lists its name says, or one compiled from other settings.

Modules to come:

1. `PromptQueue`: the prompts of the sidebar, their claim and arming delay
   (`renderer/lib/wallet/prompt-queue.js`).
2. `ProfileLock`: lock, stale locks and the hand-over of focus between processes.
3. `Downloads`: pause, resume, cancel and restart against Chromium's events.
4. Overlapping update cycles (`update-scheduler.js`), as an extension of
   `AdblockUpdate`.

Runs stay few: one for each module's question, with instances as in section 3.
