---------------------------- MODULE RoutingGate ----------------------------
(***************************************************************************)
(* What session routing promises to the rest of the browser, with nothing  *)
(* of how it is done: a gate in front of every session that is open only   *)
(* while the session's traffic goes where the routing intent wants it.     *)
(* SessionRouting implements this specification.                           *)
(***************************************************************************)
CONSTANTS
  Sessions,
  Intents,
  Serves(_, _)   \* Serves(s, i): the routes of s that satisfy the intent i

VARIABLES
  wanted,   \* the routing intent
  open,     \* sessions whose requests are let through
  via,      \* the routes the live connections of each session take
  retired,  \* sessions that never open again
  ended     \* the process has been told to exit

gate == <<wanted, open, via, retired, ended>>

GateInit ==
  /\ wanted \in Intents
  /\ open = {} /\ retired = {} /\ ended = FALSE

\* A changed intent closes every gate in the same step.
Change == wanted' # wanted /\ open' = {}

\* Sessions open only on a route that serves the intent, and only live ones.
Grant ==
  /\ wanted' = wanted
  /\ open \subseteq open'
  /\ ~ended' /\ retired' = retired
  /\ \A s \in open' \ open : s \notin retired /\ \E r \in Serves(s, wanted) : via'[s] = {r}

\* Gates may close at any time.
Close == wanted' = wanted /\ open' \subseteq open

\* The routes of an open session do not change under it; what is retired or
\* ended stays so.
Steady ==
  /\ \A s \in open \cap open' : via'[s] = via[s]
  /\ retired \subseteq retired' /\ retired' \cap open' = {}
  /\ ended => ended'
  /\ ended' => open' = {}

GateNext == Steady /\ (Change \/ Grant \/ Close)

GateSpec == GateInit /\ [][GateNext]_gate
=============================================================================
