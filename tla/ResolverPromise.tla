-------------------------- MODULE ResolverPromise --------------------------
(***************************************************************************)
(* What the Handshake resolver promises: there is never more than one      *)
(* generation of its processes that nobody has accounted for, whatever     *)
(* dies in between; requests go to a generation only while the user wants  *)
(* the resolver; and a generation that was stopped or has once missed a    *)
(* lease never gets a request again.                                       *)
(***************************************************************************)
CONSTANT Gens \* generations of the resolver

VARIABLES
  wanted,  \* the user wants it
  alive,   \* generations that may have a process
  serving, \* the generation that requests go to, 0 for none
  lost     \* generations that are over

vars == <<wanted, alive, serving, lost>>

Init == wanted = FALSE /\ alive = {} /\ serving = 0 /\ lost = {}

\* Generations end, and so do the requests to them.
Lose ==
  /\ lost' \in {lost \cup gone : gone \in SUBSET Gens}
  /\ serving' = IF serving \in lost' THEN 0 ELSE serving
  /\ UNCHANGED <<wanted, alive>>

\* The user, or the end of the browser.
Want ==
  /\ wanted' \in BOOLEAN /\ serving' = 0
  /\ lost' \in {lost \cup gone : gone \in SUBSET Gens}
  /\ UNCHANGED alive

\* The processes of a generation are started, perhaps in vain.
Start(g) ==
  /\ wanted /\ alive = {} /\ g \notin lost
  /\ alive' = {g} /\ lost' \in {lost, lost \cup {g}}
  /\ UNCHANGED <<wanted, serving>>

Serve(g) ==
  /\ wanted /\ g \in alive \ lost /\ serving' = g
  /\ UNCHANGED <<wanted, alive, lost>>

Withdraw == serving' = 0 /\ UNCHANGED <<wanted, alive, lost>>

Gone(g) ==
  /\ g \in lost /\ alive' = alive \ {g}
  /\ UNCHANGED <<wanted, serving, lost>>

Next ==
  \/ Lose \/ Want \/ Withdraw
  \/ \E g \in Gens : Start(g) \/ Serve(g) \/ Gone(g)

Spec == Init /\ [][Next]_vars
=============================================================================
