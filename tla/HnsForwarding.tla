--------------------------- MODULE HnsForwarding ---------------------------
(***************************************************************************)
(* What the guard forwards to the resolver's helper                        *)
(* (hns-guard-forwarding.js), composed with the life of that helper        *)
(* (HnsManager): a tunnel or a request of a page holds the route it was    *)
(* given through several callbacks, while generations end, renew their     *)
(* leases, or are replaced.  One pair of a downstream and an upstream is   *)
(* modelled; pairs share nothing but the route and the drain.              *)
(*                                                                         *)
(* The guard's route is an object of its own for every commit; a commit    *)
(* destroys every pair first, so the generation stands for it.             *)
(***************************************************************************)
EXTENDS HnsManager

VARIABLE pair \* where it is, and the route it was given

vars == <<hnsVars, pair>>

NoPair == [pc |-> "none", route |-> 0]

\* getRoute() === route.
OnRoute == Passing /\ guardRoute = pair.route

\* connect() dials the helper first; a request() is sent at once.
Connect ==
  /\ pair = NoPair /\ Passing
  /\ \E pc \in {"dialing", "asked"} : pair' = [pc |-> pc, route |-> guardRoute]
  /\ UNCHANGED hnsVars

Connected ==
  /\ pair.pc = "dialing"
  /\ pair' = IF OnRoute THEN [pair EXCEPT !.pc = "asked"] ELSE NoPair
  /\ UNCHANGED hnsVars

\* Fault: an answer is passed on without another look at the route.
AnsweredUnchecked ==
  /\ pair.pc = "asked" /\ pair' = [pair EXCEPT !.pc = "piped"]
  /\ UNCHANGED hnsVars

\* The helper's answer is passed on, and from then on whatever follows, or is
\* refused; over another route it is not even read.
Answered ==
  /\ pair.pc = "asked"
  /\ pair' \in IF OnRoute THEN {NoPair, [pair EXCEPT !.pc = "piped"]} ELSE {NoPair}
  /\ UNCHANGED hnsVars

\* Either side closes or fails, or the helper does not answer in time.
PairEnds == pair # NoPair /\ pair' = NoPair /\ UNCHANGED hnsVars

Init == HnsInit /\ pair = NoPair

Next ==
  \/ HnsStep /\ UNCHANGED pair
  \/ Commit /\ pair' = NoPair
  \/ Crash /\ pair' = NoPair
  \/ Connect \/ Connected \/ Answered \/ PairEnds

Spec == Init /\ [][Next]_vars /\ HnsFairness

-----------------------------------------------------------------------------
TypeOK ==
  /\ HnsTypeOK
  /\ pair \in [pc : {"none", "dialing", "asked", "piped"}, route : 0..MaxGen]

\* An answer is passed on only from the generation that is the browser's
\* resolver at that moment, and only if it never missed a lease since it was
\* published, however often it renewed them (getRoute in the data and response
\* callbacks of hns-guard-forwarding.js; renew in hns-authority.js).
NothingStaleIsServed ==
  [][pair.pc = "asked" /\ pair'.pc = "piped" => pair.route = gen /\ ~authority.missed]_vars

\* A generation whose processes nobody has accounted for: its helper runs, or
\* it has run and its resolver was not seen to end.
Unaccounted(g) == helper[g] = "live" \/ (helper[g] = "dead" /\ native[g] # "dead")

Promise == INSTANCE ResolverPromise WITH
  alive <- {g \in Gens : Unaccounted(g)},
  serving <- IF Passing THEN guardRoute ELSE 0,
  lost <- {g \in 1..last : g # gen \/ authority.missed}

\* Starts, stops, restarts, leases, custody and its journal together keep the
\* resolver's promise, across the browser's own crashes.
ImplementsPromise == Promise!Spec

HasNetwork == monitor = "none" \/ network

\* While the user wants the resolver and there is a network, it does not stay
\* stopped: a recovery's timer or a queued start begins the next generation, or
\* there is an error to show (stopHns, the recovery of invalidateHnsGeneration
\* and maybeRestart).
StartsAgain ==
  (wanted /\ HasNetwork /\ status \in {"stopping", "stopped"})
    ~> (status \in {"starting", "error"} \/ blocked \/ ~wanted \/ ~HasNetwork \/ last = MaxGen)
=============================================================================
