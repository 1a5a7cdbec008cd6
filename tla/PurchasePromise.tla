-------------------------- MODULE PurchasePromise --------------------------
(***************************************************************************)
(* What the publish setup promises of the purchases it is asked for: one   *)
(* is paid for at a time, none is paid for twice, and money that has left  *)
(* or may yet leave the node's wallet is never reported as a purchase that *)
(* simply did not happen.                                                  *)
(***************************************************************************)
EXTENDS Naturals

CONSTANT Ops

VARIABLES
  stage,  \* per purchase, what is shown of it
  loose,  \* purchases whose transaction is out with nobody waiting for it
  paid    \* how often the chain has carried a purchase out

vars == <<stage, loose, paid>>

Init ==
  /\ stage = [i \in Ops |-> "none"]
  /\ loose = {} /\ paid = [i \in Ops |-> 0]

Enter(i, from, to) ==
  /\ stage[i] \in from
  /\ \E s \in to : stage' = [stage EXCEPT ![i] = s]

Untouched(i) == paid[i] = 0 /\ i \notin loose

Ask(i) == Enter(i, {"none"}, {"open"}) /\ UNCHANGED <<loose, paid>>

Begin(i) ==
  /\ \A j \in Ops : stage[j] # "paying"
  /\ Enter(i, {"open"}, {"paying"}) /\ UNCHANGED <<loose, paid>>

\* There was nothing to pay for.
Needless(i) == Enter(i, {"open"}, {"done"}) /\ UNCHANGED <<loose, paid>>

\* Nothing has been paid: it may be tried again, or is given up.
BackOut(i) ==
  /\ Untouched(i)
  /\ Enter(i, {"open", "paying"}, {"open", "failed"}) /\ UNCHANGED <<loose, paid>>

Pay(i) ==
  /\ paid[i] = 0 /\ (stage[i] = "paying" \/ i \in loose)
  /\ paid' = [paid EXCEPT ![i] = 1] /\ loose' = loose \ {i}
  /\ UNCHANGED stage

Succeed(i) ==
  /\ paid[i] = 1
  /\ Enter(i, {"paying"}, {"bought", "done"}) /\ UNCHANGED <<loose, paid>>

\* The node does not answer; what it may still do is told to the user.
Doubt(i) ==
  /\ Enter(i, {"paying"}, {"paying", "unsure"})
  /\ loose' \in {loose, loose \cup (IF paid[i] = 0 THEN {i} ELSE {})} /\ UNCHANGED paid

\* A batch turned up that was not there before.
Find(i) == Enter(i, {"paying"}, {"bought"}) /\ UNCHANGED <<loose, paid>>

\* The network takes the batch, or never does.
Confirm(i) == Enter(i, {"bought"}, {"done", "rejected"}) /\ UNCHANGED <<loose, paid>>

Next == \E i \in Ops :
  \/ Ask(i) \/ Begin(i) \/ Needless(i) \/ BackOut(i) \/ Pay(i) \/ Succeed(i)
  \/ Doubt(i) \/ Find(i) \/ Confirm(i)

Spec == Init /\ [][Next]_vars
=============================================================================
