------------------------ MODULE RequestDispatch_proofs ------------------------
(***************************************************************************)
(* Proofs about RequestDispatch, for any sessions, requests and consumers, *)
(* and any number of changes of the permission: a listener lets a request  *)
(* through only under a permission that has lasted since the listener      *)
(* began, chains are complete, and no request gets past a gate that did    *)
(* not let it through.                                                     *)
(***************************************************************************)
EXTENDS RequestDispatch, TLAPS, WellFoundedInduction

Fields == {"session", "event", "at", "hop", "permit", "state", "passed", "steady"}
Passing == {"waiting", "sent", "done"}

\* What the argument needs of a request's type.
IsRequest(q) ==
  /\ DOMAIN q = Fields
  /\ q.session \in Sessions /\ q.event \in EventSet /\ q.permit \in 0..Refused

\* A permit that still has the session's generation was made under the
\* permission there is now.
PermitHolds(q) ==
  q.state = "consumers" /\ q.permit # Refused =>
    /\ q.permit <= policy[q.session].generation
    /\ q.permit = policy[q.session].generation /\ policy[q.session].allowed => q.steady

Policies == [Sessions -> [allowed : BOOLEAN, generation : 0..MaxGeneration]]

Attached ==
  /\ DOMAIN binding = Sessions /\ DOMAIN listening = Sessions
  /\ \A s \in Sessions : binding[s] = "bound" => listening[s] = EventSet
  /\ \A s \in Sessions : listening[s] \subseteq EventSet

Inv ==
  /\ policy \in Policies
  /\ Attached
  /\ DOMAIN req = Requests
  /\ \A r \in Requests : IsRequest(req[r]) /\ PermitHolds(req[r])

\* p is what the listener of q may make of it: it goes on with the same permit
\* or, if the permit is good, lets the request through.
Outcome(q, p) ==
  /\ IsRequest(p) /\ p.session = q.session
  /\ p.state = "consumers" => p.permit = q.permit /\ p.steady = q.steady
  /\ p.state \in Passing => Permitted(q.session, q.permit)

-----------------------------------------------------------------------------
(* What a listener makes of a request                                      *)

\* The refusal is a number that no generation has.
LEMMA RefusedType == Refused \in Nat /\ Refused \in 0..Refused /\ MaxGeneration \in Nat /\ Refused > MaxGeneration
BY BoundAssumption DEF Refused

\* Cancelling, proceeding and redirecting keep the request and its session.
LEMMA ResultTypes ==
  ASSUME NEW q, IsRequest(q)
  PROVE  /\ IsRequest(Cancel(q)) /\ Cancel(q).session = q.session /\ Cancel(q).state = "cancelled"
         /\ IsRequest(Proceed(q)) /\ Proceed(q).session = q.session /\ Proceed(q).state \in Passing
         /\ IsRequest(Redirect(q)) /\ Redirect(q).session = q.session /\ Redirect(q).state \in Passing
<1>1. IsRequest(Cancel(q)) /\ Cancel(q).session = q.session /\ Cancel(q).state = "cancelled"
  BY RefusedType DEF IsRequest, Cancel, Fields
<1>2. IsRequest(Proceed(q)) /\ Proceed(q).session = q.session /\ Proceed(q).state \in Passing
  <2>1. CASE q.event = "request" BY <2>1, RefusedType DEF IsRequest, Proceed, Fields, Passing, EventSet
  <2>2. CASE q.event = "send" BY <2>2, RefusedType DEF IsRequest, Proceed, Fields, Passing, EventSet
  <2>3. CASE q.event \notin {"request", "send"}
    BY <2>3, RefusedType DEF IsRequest, Proceed, Fields, Passing, EventSet
  <2>4. QED BY <2>1, <2>2, <2>3
<1>3. IsRequest(Redirect(q)) /\ Redirect(q).session = q.session /\ Redirect(q).state \in Passing
  BY RefusedType DEF IsRequest, Redirect, Fields, Passing, EventSet
<1>4. QED BY <1>1, <1>2, <1>3

\* guardedCallback lets a result through only if the permit is good.
LEMMA GuardedOutcome ==
  ASSUME NEW q, IsRequest(q)
  PROVE  /\ Outcome(q, Cancel(q))
         /\ Outcome(q, After(q))
         /\ Outcome(q, Guarded(q, Redirect(q)))
<1>1. Outcome(q, Cancel(q)) BY ResultTypes DEF Outcome, Passing
<1>2. ASSUME Permitted(q.session, q.permit) PROVE Outcome(q, Proceed(q)) /\ Outcome(q, Redirect(q))
  BY <1>2, ResultTypes DEF Outcome, Passing
<1>3. ASSUME Permitted(q.session, q.permit) PROVE Outcome(q, [q EXCEPT !.at = @ + 1])
  BY <1>3 DEF Outcome, IsRequest, Fields
<1>4. QED BY <1>1, <1>2, <1>3 DEF After, Guarded

\* What the consumer that has the request may answer.
LEMMA ReturnOutcome ==
  ASSUME Inv, NEW r \in Requests, Return(r)
  PROVE  \E p : req' = [req EXCEPT ![r] = p] /\ Outcome(req[r], p)
<1> DEFINE q == req[r]
           h == Consumers(q)[q.at]
           passed == [q EXCEPT !.passed = @ \cup {h}]
<1>1. IsRequest(q) BY DEF Inv
<1>2. IsRequest(passed) /\ passed.session = q.session /\ passed.permit = q.permit /\ passed.steady = q.steady
  BY <1>1 DEF IsRequest, Fields
<1>3. Outcome(passed, After(passed)) BY <1>2, GuardedOutcome
<1>4. Outcome(q, After(passed)) BY <1>2, <1>3 DEF Outcome
<1>5. Outcome(q, Thrown(q, h)) BY <1>1, GuardedOutcome DEF Thrown
<1>6. \/ req' = [req EXCEPT ![r] = After(passed)]
      \/ req' = [req EXCEPT ![r] = Cancel(q)]
      \/ req' = [req EXCEPT ![r] = Guarded(q, Redirect(q))]
      \/ req' = [req EXCEPT ![r] = Thrown(q, h)]
  BY DEF Return
<1> HIDE DEF q, h, passed
<1>7. QED BY <1>1, <1>4, <1>5, <1>6, GuardedOutcome DEF q

\* What a listener makes of the request it has just got, with a fresh permit.
LEMMA RaiseOutcome ==
  ASSUME Inv, NEW r \in Requests, Raise(r)
  PROVE  \E q, p : /\ req' = [req EXCEPT ![r] = p] /\ Outcome(q, p)
                   /\ q.session = req[r].session /\ q.permit = Generation(q.session) /\ q.steady = TRUE
<1> DEFINE s == req[r].session
           q == [req[r] EXCEPT !.permit = Generation(s), !.steady = TRUE]
           c == [q EXCEPT !.state = "consumers"]
<1>1. IsRequest(req[r]) /\ s \in Sessions BY DEF Inv, IsRequest
<1>2. Generation(s) \in 0..Refused BY <1>1, RefusedType DEF Inv, Policies, Generation
<1>3. IsRequest(q) /\ q.session = s /\ q.permit = Generation(s) /\ q.steady = TRUE /\ q.event \in EventSet
  BY <1>1, <1>2 DEF IsRequest, Fields
<1>4. IsRequest(c) /\ c.session = s /\ c.permit = Generation(s) /\ c.steady = TRUE
  BY <1>1, <1>2, <1>3 DEF IsRequest, Fields
<1>5. listening[s] = EventSet BY <1>1 DEF Raise, AttachReturns, Inv, Attached
<1>6. req' = [req EXCEPT ![r] = IF q.event \notin listening[q.session] THEN Proceed(q) ELSE After(c)]
  BY DEF Raise
<1> HIDE DEF q, c
<1>7. req' = [req EXCEPT ![r] = After(c)] BY <1>3, <1>5, <1>6
<1>8. QED BY <1>4, <1>7, GuardedOutcome

-----------------------------------------------------------------------------
(* Inv is inductive                                                        *)

\* No request has been made yet.
LEMMA InitInv == Init => Inv
<1> SUFFICES ASSUME Init PROVE Inv OBVIOUS
<1>1. policy \in Policies BY BoundAssumption DEF Init, Policies
<1>2. Attached BY DEF Init, Attached
<1>3. \A r \in Requests : IsRequest(req[r]) /\ req[r].state = "new"
  BY RefusedType DEF Init, IsRequest, Fields, EventSet
<1>4. QED BY <1>1, <1>2, <1>3 DEF Inv, PermitHolds, Init

\* A fresh or a kept permit is one that holds.
LEMMA OutcomeInv ==
  ASSUME Inv, NEW r \in Requests, NEW q, NEW p, Outcome(q, p),
         req' = [req EXCEPT ![r] = p], UNCHANGED <<attachment, policy>>,
         q.session \in Sessions, q.permit \in 0..Refused,
         q.permit # Refused =>
           /\ q.permit <= policy[q.session].generation
           /\ q.permit = policy[q.session].generation /\ policy[q.session].allowed => q.steady
  PROVE  Inv'
<1>1. policy' \in Policies /\ Attached' BY DEF Inv, Attached, attachment
<1>2. IsRequest(p) /\ PermitHolds(p)' BY DEF Outcome, PermitHolds
<1>3. DOMAIN req' = Requests /\ req'[r] = p /\ \A x \in Requests \ {r} : req'[x] = req[x]
  BY DEF Inv
<1>4. \A x \in Requests \ {r} : IsRequest(req'[x]) /\ PermitHolds(req[x])' BY <1>3 DEF Inv, PermitHolds
<1>5. QED BY <1>1, <1>2, <1>3, <1>4 DEF Inv, PermitHolds, IsRequest

\* A consumer returns, and the chain goes on or ends.
LEMMA ReturnInv == ASSUME Inv, NEW r \in Requests, Return(r) PROVE Inv'
<1>1. PICK p : req' = [req EXCEPT ![r] = p] /\ Outcome(req[r], p) BY ReturnOutcome
<1>2. UNCHANGED <<attachment, policy>> BY DEF Return
<1>3. IsRequest(req[r]) /\ PermitHolds(req[r]) /\ req[r].state = "consumers" BY DEF Inv, Return
<1>4. QED BY <1>1, <1>2, <1>3, OutcomeInv DEF IsRequest, PermitHolds

\* Electron raises an event for a request.
LEMMA RaiseInv == ASSUME Inv, NEW r \in Requests, Raise(r) PROVE Inv'
<1>1. PICK q, p : /\ req' = [req EXCEPT ![r] = p] /\ Outcome(q, p)
                  /\ q.session = req[r].session /\ q.permit = Generation(q.session) /\ q.steady = TRUE
  BY RaiseOutcome
<1>2. UNCHANGED <<attachment, policy>> BY DEF Raise
<1>3. q.session \in Sessions BY <1>1 DEF Inv, IsRequest
<1>4. q.permit \in 0..Refused /\ (q.permit # Refused => q.permit <= policy[q.session].generation)
  BY <1>1, <1>3, RefusedType DEF Inv, Policies, Generation
<1>5. QED BY <1>1, <1>2, <1>3, <1>4, OutcomeInv

\* A change of the permission has a generation of its own.
LEMMA TransitionInv ==
  ASSUME Inv, NEW s \in Sessions, NEW allowed \in BOOLEAN, Transition(s, allowed) PROVE Inv'
<1>1. policy[s].generation \in Nat /\ policy'[s].generation = policy[s].generation + 1
      /\ \A x \in Sessions \ {s} : policy'[x] = policy[x]
  BY RefusedType DEF Inv, Policies, Transition
<1>2. policy' \in Policies BY RefusedType DEF Inv, Policies, Transition
<1>3. Attached' BY DEF Inv, Attached, Transition, attachment
<1>4. DOMAIN req' = Requests BY DEF Transition
<1>5. ASSUME NEW r \in Requests PROVE IsRequest(req'[r]) /\ PermitHolds(req[r])'
  <2>1. IsRequest(req[r]) /\ PermitHolds(req[r]) BY DEF Inv
  <2>2. CASE req[r].session = s
    <3>1. req'[r] = [req[r] EXCEPT !.steady = FALSE] BY <2>2 DEF Transition
    <3>2. IsRequest(req'[r]) /\ req'[r].session = s /\ req'[r].permit = req[r].permit
          /\ req'[r].state = req[r].state
      BY <2>1, <2>2, <3>1 DEF IsRequest, Fields
    <3>3. req[r].permit \in Nat BY <2>1, RefusedType DEF IsRequest
    <3>4. QED BY <2>1, <2>2, <3>2, <3>3, <1>1 DEF PermitHolds
  <2>3. CASE req[r].session # s
    <3>1. req'[r] = req[r] BY <2>3 DEF Transition
    <3>2. req[r].session \in Sessions BY <2>1 DEF IsRequest
    <3>3. QED BY <2>1, <2>3, <3>1, <3>2, <1>1 DEF PermitHolds
  <2>4. QED BY <2>2, <2>3
<1>6. QED BY <1>2, <1>3, <1>4, <1>5 DEF Inv, IsRequest, PermitHolds

\* The routing policy of every session ends.
LEMMA TerminateInv == ASSUME Inv, Terminate PROVE Inv'
<1>1. policy' \in Policies /\ \A s \in Sessions : ~policy'[s].allowed
                              /\ policy'[s].generation = policy[s].generation
  BY DEF Inv, Policies, Terminate
<1>2. Attached' BY DEF Inv, Attached, Terminate, attachment
<1>3. DOMAIN req' = Requests BY DEF Terminate
<1>4. ASSUME NEW r \in Requests PROVE IsRequest(req'[r]) /\ PermitHolds(req[r])'
  <2>1. IsRequest(req[r]) /\ PermitHolds(req[r]) BY DEF Inv
  <2>2. req'[r] = [req[r] EXCEPT !.steady = FALSE] BY DEF Terminate
  <2>3. IsRequest(req'[r]) /\ req'[r].session = req[r].session /\ req'[r].permit = req[r].permit
        /\ req'[r].state = req[r].state
    BY <2>1, <2>2 DEF IsRequest, Fields
  <2>4. QED BY <2>1, <2>3, <1>1 DEF PermitHolds, IsRequest
<1>5. QED BY <1>1, <1>2, <1>3, <1>4 DEF Inv, IsRequest, PermitHolds

\* A binding counts only with a listener for every event.
LEMMA AttachInv == ASSUME Inv, NEW s \in Sessions, Attach(s) PROVE Inv'
<1>1. PICK n \in 0..3 :
        /\ listening' = [listening EXCEPT ![s] = {Events[i] : i \in 1..n}]
        /\ binding' = [binding EXCEPT ![s] = IF n = 3 THEN "bound" ELSE "failed"]
  BY DEF Attach
<1>2. n = 3 => {Events[i] : i \in 1..n} = EventSet
  <2>1. Events[1] = "request" /\ Events[2] = "send" /\ Events[3] = "received" BY DEF Events
  <2>2. \A i : i \in 1..3 <=> i \in {1, 2, 3} OBVIOUS
  <2>3. QED BY <2>1, <2>2 DEF EventSet
<1>3. {Events[i] : i \in 1..n} \subseteq EventSet
  <2>1. \A i \in 1..n : i \in 1..3 BY <1>1
  <2>2. \A i \in 1..3 : Events[i] \in EventSet BY DEF Events, EventSet
  <2>3. QED BY <2>1, <2>2
<1>4. Attached' BY <1>1, <1>2, <1>3 DEF Inv, Attached
<1>5. UNCHANGED <<policy, req>> BY DEF Attach
<1>6. QED BY <1>4, <1>5 DEF Inv, IsRequest, PermitHolds

\* Every step keeps the invariant.
LEMMA NextInv == Inv /\ [Next]_vars => Inv'
<1> SUFFICES ASSUME Inv, [Next]_vars PROVE Inv' OBVIOUS
<1>1. ASSUME NEW h \in Handlers, Register(h) PROVE Inv'
  BY <1>1 DEF Inv, Register, Attached, attachment, IsRequest, PermitHolds
<1>2. ASSUME NEW s \in Sessions, Admit(s) PROVE Inv' BY <1>2, TransitionInv DEF Admit
<1>3. ASSUME NEW s \in Sessions, Withdraw(s) PROVE Inv' BY <1>3, TransitionInv DEF Withdraw
<1>4. CASE UNCHANGED vars BY <1>4 DEF vars, attachment, Inv, Attached, IsRequest, PermitHolds
<1>5. QED BY <1>1, <1>2, <1>3, <1>4, AttachInv, TerminateInv, RaiseInv, ReturnInv DEF Next

-----------------------------------------------------------------------------
(* The property                                                            *)

\* A good permit is one of a session that is open, and has been open since.
LEMMA PermittedMeans ==
  ASSUME Inv, NEW s \in Sessions, NEW g \in 0..Refused, Permitted(s, g)
  PROVE  policy[s].allowed /\ g = policy[s].generation /\ g # Refused
BY DEF Permitted, Generation

\* Steps that are no listener's let nothing through.
LEMMA OnlyListeners ==
  ASSUME Inv, NEW r \in Requests, [Next]_vars, LetThrough(r)
  PROVE  Raise(r) \/ Return(r)
<1>1. CASE UNCHANGED req BY <1>1 DEF LetThrough
<1>2. ASSUME NEW x \in Requests, Raise(x) PROVE Raise(r)
  BY <1>2, RaiseOutcome DEF Inv, LetThrough
<1>3. ASSUME NEW x \in Requests, Return(x) PROVE Return(r)
  BY <1>3, ReturnOutcome DEF Inv, LetThrough
<1>4. ASSUME req'[r] = [req[r] EXCEPT !.steady = FALSE] PROVE FALSE
  BY <1>4 DEF Inv, IsRequest, Fields, LetThrough
<1>5. ASSUME NEW s \in Sessions, NEW allowed, Transition(s, allowed) PROVE FALSE
  BY <1>5, <1>1, <1>4 DEF Transition, LetThrough
<1>6. CASE Terminate BY <1>6, <1>4 DEF Terminate
<1>7. ASSUME NEW h \in Handlers, Register(h) PROVE FALSE BY <1>7, <1>1 DEF Register, LetThrough
<1>8. ASSUME NEW s \in Sessions, Attach(s) PROVE FALSE BY <1>8, <1>1 DEF Attach, LetThrough
<1>9. CASE UNCHANGED vars BY <1>9, <1>1 DEF vars, LetThrough
<1>10. QED BY <1>2, <1>3, <1>5, <1>6, <1>7, <1>8, <1>9 DEF Next, Admit, Withdraw

\* What a step lets through is permitted at that step.
LEMMA StepPermitted ==
  ASSUME Inv, [Next]_vars, NEW r \in Requests, LetThrough(r)
  PROVE  /\ policy[req[r].session].allowed
         /\ req[r].state = "consumers" => req[r].steady
<1>1. IsRequest(req[r]) /\ PermitHolds(req[r]) BY DEF Inv
<1>2. req'[r].state \in Passing BY DEF LetThrough, Passing
<1>3. CASE Raise(r)
  <2>1. PICK q, p : /\ req' = [req EXCEPT ![r] = p] /\ Outcome(q, p)
                    /\ q.session = req[r].session /\ q.permit = Generation(q.session) /\ q.steady = TRUE
    BY <1>3, RaiseOutcome
  <2>2. p.state \in Passing BY <2>1, <1>2 DEF Inv
  <2>3. q.session \in Sessions /\ Permitted(q.session, q.permit) BY <2>1, <2>2, <1>1 DEF Outcome, IsRequest
  <2>4. q.permit \in 0..Refused BY <2>1, <2>3, RefusedType DEF Inv, Policies, Generation
  <2>5. policy[req[r].session].allowed BY <2>1, <2>3, <2>4, PermittedMeans
  <2>6. req[r].state # "consumers" BY <1>3 DEF Raise
  <2>7. QED BY <2>5, <2>6
<1>4. CASE Return(r)
  <2>1. PICK p : req' = [req EXCEPT ![r] = p] /\ Outcome(req[r], p) BY <1>4, ReturnOutcome
  <2>2. p.state \in Passing BY <2>1, <1>2 DEF Inv
  <2>3. Permitted(req[r].session, req[r].permit) BY <2>1, <2>2 DEF Outcome
  <2>4. QED BY <2>3, <1>1, PermittedMeans DEF IsRequest, PermitHolds
<1>5. QED BY <1>3, <1>4, OnlyListeners

\* No listener lets a request through or redirects it unless routing permits
\* its session and has done so without a break since the listener began, for
\* any number of sessions, requests, consumers and changes of the permission
\* (webrequest-dispatcher.js makeRequestPermit, guardedCallback).
THEOREM DispatchPermitted == Spec => PermittedThroughout
<1>1. Inv /\ [Next]_vars =>
        \A r \in Requests : LetThrough(r) =>
          /\ policy[req[r].session].allowed
          /\ req[r].state = "consumers" => req[r].steady
  BY StepPermitted
<1>2. QED BY <1>1, InitInv, NextInv, PTL DEF Spec, PermittedThroughout
-----------------------------------------------------------------------------
(* Complete chains                                                         *)

\* What makes chains stay whole: nothing is registered once a session listens,
\* and only a session with a binding is permitted.
Whole ==
  /\ Inv
  /\ DOMAIN chain = Sessions
  /\ \A s \in Sessions : listening[s] # {} => registrationClosed
  /\ \A s \in Sessions : policy[s].allowed => binding[s] = "bound"
  /\ ChainsAreWhole

\* Attachment and registration untouched, and nobody admitted without binding.
LEMMA AttachmentStays ==
  ASSUME Whole, Inv', UNCHANGED <<handlers, attachment>>,
         \A s \in Sessions : policy'[s].allowed => policy[s].allowed \/ binding[s] = "bound"
  PROVE  Whole'
<1>1. handlers' = handlers OBVIOUS
<1>2. \A s \in Sessions : policy'[s].allowed => binding'[s] = "bound" /\ listening'[s] = EventSet
  BY DEF Whole, Inv, Attached, attachment
<1>3. \A s \in Sessions : \A e \in EventSet : e \in listening[s] => chain[s][e] = Select(handlers, s, e)
  BY DEF Whole, ChainsAreWhole
<1>4. \A s \in Sessions : listening'[s] \subseteq EventSet BY DEF Inv, Attached, attachment
<1>5. ChainsAreWhole' BY <1>1, <1>2, <1>3, <1>4 DEF ChainsAreWhole, attachment
<1>6. QED BY <1>2, <1>5 DEF Whole, attachment

\* A session that is attached gets the handlers there are, and the registry is
\* closed behind it.
LEMMA AttachWhole == ASSUME Whole, NEW s \in Sessions, Attach(s) PROVE Whole'
<1>1. Inv' BY AttachInv DEF Whole
<1>2. PICK n \in 0..3 :
        /\ listening' = [listening EXCEPT ![s] = {Events[i] : i \in 1..n}]
        /\ chain' = [chain EXCEPT ![s] =
                       [e \in EventSet |-> IF e \in listening'[s] THEN Select(handlers, s, e) ELSE <<>>]]
        /\ binding' = [binding EXCEPT ![s] = IF n = 3 THEN "bound" ELSE "failed"]
  BY DEF Attach
<1>3. handlers' = handlers /\ policy' = policy /\ registrationClosed' = TRUE /\ binding[s] = "none"
  BY DEF Attach
<1>5. DOMAIN chain' = Sessions BY <1>2 DEF Whole
<1>6. ~policy[s].allowed BY <1>3 DEF Whole
<1>7. \A x \in Sessions \ {s} : /\ chain'[x] = chain[x] /\ listening'[x] = listening[x]
                                /\ binding'[x] = binding[x]
  BY <1>2 DEF Whole, Inv, Attached
<1>8. \A e \in EventSet : e \in listening'[s] => chain'[s][e] = Select(handlers, s, e) BY <1>2 DEF Whole
<1>9. \A x \in Sessions : listening'[x] \subseteq EventSet BY <1>1 DEF Inv, Attached
<1>10. \A x \in Sessions : \A e \in listening'[x] : chain'[x][e] = Select(handlers, x, e)'
  BY <1>3, <1>7, <1>8, <1>9 DEF Whole, ChainsAreWhole
<1>11. \A x \in Sessions : policy'[x].allowed => binding'[x] = "bound" /\ listening'[x] = EventSet
  BY <1>3, <1>6, <1>7 DEF Whole, ChainsAreWhole
<1>12. ChainsAreWhole' BY <1>10, <1>11 DEF ChainsAreWhole
<1>13. QED BY <1>1, <1>3, <1>5, <1>11, <1>12 DEF Whole

\* While registration is open, no session listens.
LEMMA RegisterWhole == ASSUME Whole, NEW h \in Handlers, Register(h) PROVE Whole'
<1>1. Inv' BY NextInv DEF Whole, Next
<1>2. \A s \in Sessions : listening[s] = {} BY DEF Register, Whole
<1>3. UNCHANGED <<attachment, policy>> BY DEF Register
<1>4. ChainsAreWhole' BY <1>2, <1>3 DEF ChainsAreWhole, attachment, Whole
<1>5. QED BY <1>1, <1>3, <1>4 DEF Whole, attachment

\* Every step keeps the chains whole.
LEMMA NextWhole == Whole /\ [Next]_vars => Whole'
<1> SUFFICES ASSUME Whole, [Next]_vars PROVE Whole' OBVIOUS
<1>1. Inv' BY NextInv DEF Whole
<1>2. ASSUME NEW s \in Sessions, Admit(s) PROVE Whole'
  <2>1. \A x \in Sessions : policy'[x].allowed => policy[x].allowed \/ binding[x] = "bound"
    BY <1>2 DEF Admit, AttachReturns, Transition, Whole, Inv, Policies
  <2>2. QED BY <1>1, <1>2, <2>1, AttachmentStays DEF Admit, Transition
<1>3. ASSUME NEW s \in Sessions, Withdraw(s) PROVE Whole'
  <2>1. \A x \in Sessions : policy'[x].allowed => policy[x].allowed
    BY <1>3 DEF Withdraw, Transition, Whole, Inv, Policies
  <2>2. QED BY <1>1, <1>3, <2>1, AttachmentStays DEF Withdraw, Transition
<1>4. CASE Terminate
  <2>1. \A x \in Sessions : ~policy'[x].allowed BY <1>4 DEF Terminate, Whole, Inv, Policies
  <2>2. QED BY <1>1, <1>4, <2>1, AttachmentStays DEF Terminate
<1>5. ASSUME NEW r \in Requests, Raise(r) \/ Return(r) PROVE Whole'
  BY <1>1, <1>5, AttachmentStays DEF Raise, Return
<1>6. CASE UNCHANGED vars BY <1>1, <1>6, AttachmentStays DEF vars
<1>7. QED BY <1>2, <1>3, <1>4, <1>5, <1>6, AttachWhole, RegisterWhole DEF Next

\* No session listens yet.
LEMMA InitWhole == Init => Whole
<1> SUFFICES ASSUME Init PROVE Whole OBVIOUS
<1>1. \A s \in Sessions : ~policy[s].allowed /\ listening[s] = {} BY DEF Init
<1>2. DOMAIN chain = Sessions BY DEF Init
<1>3. ChainsAreWhole BY <1>1 DEF ChainsAreWhole
<1>4. QED BY <1>1, <1>2, <1>3, InitInv DEF Whole

\* Every session's listeners run all the consumers registered for it, in their
\* order, and a session is permitted only with every listener in place, for any
\* sessions and consumers (attachWebRequestDispatcher, registrationClosed).
THEOREM DispatchChainsWhole == Spec => []ChainsAreWhole
<1>1. Whole => ChainsAreWhole BY DEF Whole
<1>2. QED BY <1>1, InitWhole, NextWhole, PTL DEF Spec
-----------------------------------------------------------------------------
(* What a chain consists of                                                *)

\* Every set of natural numbers that is not empty has a least element.
LEMMA LeastNumber ==
  ASSUME NEW T, T \subseteq Nat, T # {}
  PROVE  \E n \in T : \A m \in T : n <= m
<1> DEFINE R == OpToRel(<, Nat)
<1>1. IsWellFoundedOn(R, Nat) BY NatLessThanWellFounded, Zenon
<1>2. \A n, m \in Nat : m < n => <<m, n>> \in R BY DEF OpToRel
<1> HIDE DEF R
<1>3. PICK n \in T : \A m \in T : <<m, n>> \notin R BY <1>1, WFMin
<1>4. \A m \in T : ~(m < n) BY <1>2, <1>3
<1> QED BY <1>3, <1>4

\* Induction, for a set of numbers.
LEMMA Induction ==
  ASSUME NEW G, 0 \in G, \A n \in Nat : n \in G => n + 1 \in G
  PROVE  Nat \subseteq G
<1>1. SUFFICES ASSUME Nat \ G # {} PROVE FALSE OBVIOUS
<1>2. PICK n \in Nat \ G : \A m \in Nat \ G : n <= m BY <1>1, LeastNumber
<1>3. n # 0 BY <1>2
<1>4. n - 1 \in Nat /\ n - 1 \in G BY <1>2, <1>3
<1> QED BY <1>2, <1>4

\* What Select has chosen of the first i handlers, given what f says of fewer.
Choice(hs, s, e, f, i) ==
  IF i = 0 THEN <<>>
  ELSE IF EventOf(hs[i]) = e /\ Applies(hs[i], s) THEN Append(f[i - 1], hs[i])
  ELSE f[i - 1]

Chooses(hs, s, e, f, n) == f = [i \in 0..n |-> Choice(hs, s, e, f, i)]

\* The recursion that Select is defined by has a solution.
LEMMA ChoiceExists ==
  ASSUME NEW hs, NEW s, NEW e, NEW n \in Nat
  PROVE  \E f : Chooses(hs, s, e, f, n)
<1> DEFINE G == {k \in Nat : \E f : Chooses(hs, s, e, f, k)}
<1>1. 0 \in G
  <2>1. Chooses(hs, s, e, [i \in 0..0 |-> <<>>], 0) BY DEF Chooses, Choice
  <2> QED BY <2>1
<1>2. ASSUME NEW k \in Nat, k \in G PROVE k + 1 \in G
  <2>1. PICK f : Chooses(hs, s, e, f, k) BY <1>2
  <2>2. DOMAIN f = 0..k /\ \A i \in 0..k : f[i] = Choice(hs, s, e, f, i) BY <2>1 DEF Chooses
  <2> DEFINE g == [i \in 0..(k + 1) |-> IF i = k + 1 THEN Choice(hs, s, e, f, i) ELSE f[i]]
  <2>3. \A i \in 0..k : g[i] = f[i] OBVIOUS
  <2>4. \A i \in 0..(k + 1) : g[i] = Choice(hs, s, e, f, i)
    <3>1. \A i \in 0..k : g[i] = Choice(hs, s, e, f, i) BY <2>2, <2>3
    <3>2. g[k + 1] = Choice(hs, s, e, f, k + 1) OBVIOUS
    <3>3. \A i \in 0..(k + 1) : i \in 0..k \/ i = k + 1 OBVIOUS
    <3> HIDE DEF g
    <3> QED BY <3>1, <3>2, <3>3
  <2>5. \A i \in 0..(k + 1) : Choice(hs, s, e, f, i) = Choice(hs, s, e, g, i)
    <3>1. \A i \in 0..(k + 1) : i # 0 => f[i - 1] = g[i - 1] BY <2>3
    <3> HIDE DEF g
    <3> QED BY <3>1 DEF Choice
  <2>6. DOMAIN g = 0..(k + 1) /\ g = [i \in 0..(k + 1) |-> g[i]] OBVIOUS
  <2> HIDE DEF g
  <2>7. g = [i \in 0..(k + 1) |-> Choice(hs, s, e, g, i)] BY <2>4, <2>5, <2>6
  <2> QED BY <2>7 DEF Chooses
<1> HIDE DEF G
<1>3. Nat \subseteq G BY <1>1, <1>2, Induction
<1> QED BY <1>3 DEF G

\* Select chooses those handlers that are for the event and apply, and no others.
LEMMA SelectChooses ==
  ASSUME NEW S, NEW hs \in Seq(S), NEW s, NEW e
  PROVE  /\ Select(hs, s, e) \in Seq(S)
         /\ \A i \in 1..Len(hs) : EventOf(hs[i]) = e /\ Applies(hs[i], s) =>
              \E j \in 1..Len(Select(hs, s, e)) : Select(hs, s, e)[j] = hs[i]
         /\ \A j \in 1..Len(Select(hs, s, e)) :
              EventOf(Select(hs, s, e)[j]) = e /\ Applies(Select(hs, s, e)[j], s)
<1> DEFINE f == CHOOSE f : Chooses(hs, s, e, f, Len(hs))
           Fits(h) == EventOf(h) = e /\ Applies(h, s)
           Good(c, n) == /\ c \in Seq(S)
                         /\ \A i \in 1..n : Fits(hs[i]) => \E j \in 1..Len(c) : c[j] = hs[i]
                         /\ \A j \in 1..Len(c) : Fits(c[j])
<1>1. Select(hs, s, e) = f[Len(hs)] BY DEF Select, Chooses, Choice
<1>2. Len(hs) \in Nat OBVIOUS
<1>3. Chooses(hs, s, e, f, Len(hs)) BY <1>2, ChoiceExists
<1> HIDE DEF f
<1>4. \A i \in 0..Len(hs) : f[i] = Choice(hs, s, e, f, i) BY <1>3 DEF Chooses
<1> DEFINE G == {n \in Nat : n <= Len(hs) => Good(f[n], n)}
<1>5. 0 \in G
  <2>1. f[0] = <<>> BY <1>2, <1>4 DEF Choice
  <2>2. Good(<<>>, 0)
    <3>1. <<>> \in Seq(S) /\ Len(<<>>) = 0 /\ 1..0 = {} OBVIOUS
    <3> QED BY <3>1
  <2>3. Good(f[0], 0) BY <2>1, <2>2
  <2> HIDE DEF Good
  <2> QED BY <2>3
<1>6. ASSUME NEW n \in Nat, n \in G, n + 1 <= Len(hs) PROVE Good(f[n + 1], n + 1)
  <2>1. Good(f[n], n) BY <1>6, <1>2
  <2>2. n + 1 \in 0..Len(hs) /\ n + 1 # 0 /\ (n + 1) - 1 = n BY <1>6, <1>2
  <2>3. f[n + 1] = IF Fits(hs[n + 1]) THEN Append(f[n], hs[n + 1]) ELSE f[n]
    BY <1>4, <2>2 DEF Choice
  <2>4. \A i \in 1..(n + 1) : i \in 1..n \/ i = n + 1 OBVIOUS
  <2>5. CASE ~Fits(hs[n + 1]) BY <2>1, <2>3, <2>4, <2>5
  <2>6. CASE Fits(hs[n + 1])
    <3> DEFINE c == f[n]
               h == hs[n + 1]
    <3>1. c \in Seq(S) /\ h \in S /\ Len(c) \in Nat BY <2>1, <2>2
    <3>2. /\ Append(c, h) \in Seq(S) /\ Len(Append(c, h)) = Len(c) + 1
          /\ Append(c, h)[Len(c) + 1] = h /\ \A j \in 1..Len(c) : Append(c, h)[j] = c[j]
      BY <3>1
    <3>3. \A j \in 1..(Len(c) + 1) : j \in 1..Len(c) \/ j = Len(c) + 1 BY <3>1
    <3>4. \A j \in 1..Len(c) : j \in 1..(Len(c) + 1) BY <3>1
    <3>5. Len(c) + 1 \in 1..(Len(c) + 1) BY <3>1
    <3>6. f[n + 1] = Append(c, h) BY <2>3, <2>6
    <3>7. Good(c, n) /\ Fits(h) BY <2>1, <2>6
    <3> HIDE DEF c
    <3>8. \A i \in 1..(n + 1) : Fits(hs[i]) => \E j \in 1..(Len(c) + 1) : Append(c, h)[j] = hs[i]
      BY <2>4, <3>2, <3>4, <3>5, <3>7
    <3>9. \A j \in 1..(Len(c) + 1) : Fits(Append(c, h)[j]) BY <3>2, <3>3, <3>7
    <3> HIDE DEF h, Fits
    <3> QED BY <3>2, <3>6, <3>8, <3>9
  <2> QED BY <2>5, <2>6
<1> HIDE DEF Good
<1>7. \A n \in Nat : n \in G => n + 1 \in G BY <1>6
<1> HIDE DEF G
<1>8. Nat \subseteq G BY <1>5, <1>7, Induction
<1>9. Good(f[Len(hs)], Len(hs)) BY <1>2, <1>8 DEF G
<1> QED BY <1>1, <1>9 DEF Good
-----------------------------------------------------------------------------
(* The gates                                                               *)

Gates(s) == {h \in FailClosed \cap ToSet(handlers) : Applies(h, s)}

\* A request past onBeforeRequest has passed its gates; one that is with a consumer
\* of onBeforeRequest has passed them or still has them before it.  Only sessions
\* that are bound have such requests.
Guided(q) ==
  /\ q.event # "request" \/ q.state = "consumers" => binding[q.session] = "bound"
  /\ q.event # "request" /\ q.state # "cancelled" => Gates(q.session) \subseteq q.passed
  /\ q.event = "request" /\ q.state = "consumers" =>
       /\ q.at \in 1..Len(Consumers(q))
       /\ \A h \in Gates(q.session) \ q.passed : \E j \in q.at..Len(Consumers(q)) : Consumers(q)[j] = h
  /\ q.state \in {"new", "waiting", "sent"} => q.at = 0

Guarding ==
  /\ Whole /\ handlers \in Seq(Handlers)
  /\ \A r \in Requests : Guided(req[r])

\* A listener for onBeforeRequest has every gate of its session in its chain.
LEMMA GatesInChain ==
  ASSUME Guarding, NEW s \in Sessions, binding[s] = "bound"
  PROVE  /\ Len(chain[s]["request"]) \in Nat
         /\ \A h \in Gates(s) : \E j \in 1..Len(chain[s]["request"]) : chain[s]["request"][j] = h
<1>1. chain[s]["request"] = Select(handlers, s, "request")
  BY DEF Guarding, Whole, Inv, Attached, ChainsAreWhole, EventSet
<1>2. handlers \in Seq(Handlers) BY DEF Guarding
<1>3. \A h \in Gates(s) : \E i \in 1..Len(handlers) : handlers[i] = h
  BY <1>2 DEF Gates, ToSet
<1>4. \A h \in Gates(s) : EventOf(h) = "request" /\ Applies(h, s)
  BY HandlerAssumption DEF Gates
<1>5. \A h \in Gates(s) : \E j \in 1..Len(Select(handlers, s, "request")) :
        Select(handlers, s, "request")[j] = h
  <2> TAKE h \in Gates(s)
  <2>1. PICK i \in 1..Len(handlers) : handlers[i] = h BY <1>3
  <2> QED BY <1>2, <1>4, <2>1, SelectChooses
<1>6. Len(Select(handlers, s, "request")) \in Nat BY <1>2, SelectChooses
<1> QED BY <1>1, <1>5, <1>6

\* Behind a consumer whose request has passed the gates up to it, the request goes to
\* the next one, or past onBeforeRequest with all gates passed.
LEMMA AfterGuided ==
  ASSUME NEW q, IsRequest(q), q.state = "consumers", binding[q.session] = "bound",
         q.event # "request" => Gates(q.session) \subseteq q.passed,
         q.event = "request" =>
           /\ q.at \in 0..Len(Consumers(q)) /\ Len(Consumers(q)) \in Nat
           /\ \A h \in Gates(q.session) \ q.passed :
                \E j \in (q.at + 1)..Len(Consumers(q)) : Consumers(q)[j] = h
  PROVE  Guided(After(q))
<1>1. Guided(Cancel(q))
  <2>1. /\ Cancel(q).state = "cancelled" /\ Cancel(q).session = q.session /\ Cancel(q).at = 0
    BY DEF Cancel, IsRequest, Fields
  <2> QED BY <2>1 DEF Guided
<1>2. ASSUME q.at < Len(Consumers(q)) PROVE Guided([q EXCEPT !.at = @ + 1])
  <2> DEFINE p == [q EXCEPT !.at = @ + 1]
  <2>1. /\ p.state = "consumers" /\ p.session = q.session /\ p.event = q.event
        /\ p.passed = q.passed /\ p.at = q.at + 1
    BY DEF IsRequest, Fields
  <2> HIDE DEF p
  <2>2. Consumers(p) = Consumers(q) BY <2>1 DEF Consumers
  <2>3. q.event = "request" => q.at + 1 \in 1..Len(Consumers(q)) BY <1>2
  <2> QED BY <2>1, <2>2, <2>3 DEF Guided, p
<1>3. ASSUME ~(q.at < Len(Consumers(q))) PROVE Guided(Proceed(q))
  <2>1. /\ Proceed(q).session = q.session /\ Proceed(q).passed = q.passed /\ Proceed(q).at = 0
        /\ Proceed(q).event # "request" /\ Proceed(q).state # "consumers"
    <3>1. CASE q.event = "request" BY <3>1 DEF Proceed, IsRequest, Fields
    <3>2. CASE q.event = "send" BY <3>2 DEF Proceed, IsRequest, Fields
    <3>3. CASE q.event \notin {"request", "send"} BY <3>3 DEF Proceed, IsRequest, Fields
    <3> QED BY <3>1, <3>2, <3>3
  <2>2. Gates(q.session) \subseteq q.passed
    <3>1. q.event = "request" => (q.at + 1)..Len(Consumers(q)) = {} BY <1>3
    <3> QED BY <3>1
  <2> QED BY <2>1, <2>2 DEF Guided
<1> QED BY <1>1, <1>2, <1>3 DEF After, Guarded

\* The consumer that has the request answers.
LEMMA ReturnGuided == ASSUME Guarding, NEW r \in Requests, Return(r) PROVE Guided(req'[r])
<1> DEFINE q == req[r]
           h == Consumers(q)[q.at]
           p == [q EXCEPT !.passed = @ \cup {h}]
<1>1. /\ IsRequest(q) /\ Guided(q) /\ q.state = "consumers" /\ DOMAIN req = Requests
      /\ binding[q.session] = "bound" /\ q.session \in Sessions
  BY DEF Guarding, Whole, Inv, Return, Guided, IsRequest
<1>2. q.event = "request" => Len(Consumers(q)) \in Nat
  BY <1>1, GatesInChain DEF Consumers
<1>3. \/ req' = [req EXCEPT ![r] = After(p)]
      \/ req' = [req EXCEPT ![r] = Cancel(q)]
      \/ req' = [req EXCEPT ![r] = Guarded(q, Redirect(q))]
      \/ req' = [req EXCEPT ![r] = Thrown(q, h)]
  BY DEF Return
<1>4. q.event = "request" =>
        /\ q.at \in 1..Len(Consumers(q)) /\ q.at \in 0..Len(Consumers(q))
        /\ \A g \in Gates(q.session) \ q.passed :
             g = h \/ \E j \in (q.at + 1)..Len(Consumers(q)) : Consumers(q)[j] = g
  <2> SUFFICES ASSUME q.event = "request"
               PROVE  /\ q.at \in 1..Len(Consumers(q)) /\ q.at \in 0..Len(Consumers(q))
                      /\ \A g \in Gates(q.session) \ q.passed :
                           g # h => \E j \in (q.at + 1)..Len(Consumers(q)) : Consumers(q)[j] = g
    OBVIOUS
  <2>1. q.at \in 1..Len(Consumers(q)) /\ q.at \in Nat /\ Len(Consumers(q)) \in Nat
    BY <1>1, <1>2 DEF Guided
  <2>2. ASSUME NEW g \in Gates(q.session) \ q.passed, g # h
        PROVE  \E j \in (q.at + 1)..Len(Consumers(q)) : Consumers(q)[j] = g
    <3>1. PICK j \in q.at..Len(Consumers(q)) : Consumers(q)[j] = g BY <1>1 DEF Guided
    <3>2. j # q.at BY <2>2, <3>1
    <3> QED BY <2>1, <3>1, <3>2
  <2> QED BY <2>1, <2>2
<1>5. q.event # "request" => Gates(q.session) \subseteq q.passed BY <1>1 DEF Guided
<1>6. /\ IsRequest(p) /\ p.session = q.session /\ p.state = q.state /\ p.event = q.event
      /\ p.at = q.at /\ p.passed = q.passed \cup {h} /\ Consumers(p) = Consumers(q)
  BY <1>1 DEF IsRequest, Fields, Consumers
<1> HIDE DEF q, p, h
<1>7. Guided(After(p)) BY <1>1, <1>2, <1>4, <1>5, <1>6, AfterGuided
<1>8. Guided(Cancel(q))
  <2>1. Cancel(q).state = "cancelled" /\ Cancel(q).session = q.session /\ Cancel(q).at = 0
    BY <1>1 DEF Cancel, IsRequest, Fields
  <2> QED BY <1>1, <2>1 DEF Guided
<1>9. Guided(Guarded(q, Redirect(q)))
  <2>1. /\ Redirect(q).state = "waiting" /\ Redirect(q).event = "request" /\ Redirect(q).at = 0
    BY <1>1 DEF Redirect, IsRequest, Fields
  <2> QED BY <1>8, <2>1 DEF Guided, Guarded
<1>10. Guided(Thrown(q, h))
  <2>1. CASE h \in FailClosed BY <1>8, <2>1 DEF Thrown
  <2>2. CASE h \notin FailClosed
    <3>1. h \notin Gates(q.session) BY <2>2 DEF Gates
    <3>2. Guided(After(q)) BY <1>1, <1>2, <1>4, <1>5, <3>1, AfterGuided
    <3> QED BY <2>2, <3>2 DEF Thrown
  <2> QED BY <2>1, <2>2
<1>11. \/ req'[r] = After(p) \/ req'[r] = Cancel(q) \/ req'[r] = Guarded(q, Redirect(q))
       \/ req'[r] = Thrown(q, h)
  BY <1>1, <1>3
<1> QED BY <1>7, <1>8, <1>9, <1>10, <1>11

\* The listener gets the request and comes to its first consumer.
LEMMA RaiseGuided == ASSUME Guarding, NEW r \in Requests, Raise(r) PROVE Guided(req'[r])
<1> DEFINE s == req[r].session
           q == [req[r] EXCEPT !.permit = Generation(s), !.steady = TRUE]
           c == [q EXCEPT !.state = "consumers"]
<1>1. /\ IsRequest(req[r]) /\ Guided(req[r]) /\ s \in Sessions /\ DOMAIN req = Requests
      /\ binding[s] = "bound" /\ listening[s] = EventSet
      /\ req[r].state \in {"new", "waiting", "sent"}
  BY DEF Guarding, Whole, Inv, IsRequest, Raise, AttachReturns, Attached
<1>2. Generation(s) \in 0..Refused
  BY <1>1, RefusedType DEF Guarding, Whole, Inv, Policies, Generation
<1>3. q.session = s /\ q.event = req[r].event /\ q.event \in EventSet
  BY <1>1 DEF IsRequest, Fields
<1>4. /\ IsRequest(c) /\ c.session = s /\ c.event = req[r].event /\ c.state = "consumers"
      /\ c.at = req[r].at /\ c.passed = req[r].passed
  BY <1>1, <1>2 DEF IsRequest, Fields
<1>5. req' = [req EXCEPT ![r] = IF q.event \notin listening[q.session] THEN Proceed(q) ELSE After(c)]
  BY DEF Raise
<1> HIDE DEF q, c
<1>6. req'[r] = After(c) BY <1>1, <1>3, <1>5
<1>7. c.at = 0 /\ (c.event # "request" => Gates(s) \subseteq c.passed) BY <1>1, <1>4 DEF Guided
<1>8. c.event = "request" =>
        /\ c.at \in 0..Len(Consumers(c)) /\ Len(Consumers(c)) \in Nat
        /\ \A h \in Gates(s) \ c.passed : \E j \in (c.at + 1)..Len(Consumers(c)) : Consumers(c)[j] = h
  <2> SUFFICES ASSUME c.event = "request"
               PROVE  /\ c.at \in 0..Len(Consumers(c)) /\ Len(Consumers(c)) \in Nat
                      /\ \A h \in Gates(s) \ c.passed :
                           \E j \in (c.at + 1)..Len(Consumers(c)) : Consumers(c)[j] = h
    OBVIOUS
  <2>1. Consumers(c) = chain[s]["request"] BY <1>4 DEF Consumers
  <2>2. c.at + 1 = 1 BY <1>7
  <2>3. Len(Consumers(c)) \in Nat /\ \A h \in Gates(s) : \E j \in 1..Len(Consumers(c)) : Consumers(c)[j] = h
    BY <1>1, <2>1, GatesInChain
  <2> QED BY <1>7, <2>2, <2>3
<1> HIDE DEF s
<1>9. Guided(After(c)) BY <1>1, <1>4, <1>7, <1>8, AfterGuided
<1> QED BY <1>6, <1>9

\* What guides a request does not change, and the request goes on from there.
LEMMA SameGuides ==
  ASSUME NEW r \in Requests, Guided(req'[r]), UNCHANGED <<handlers, binding, chain>>
  PROVE  Guided(req[r])'
BY DEF Guided, Gates, Consumers

\* A request stays where it is, and its session, if it is bound, stays what it is.
LEMMA StaysGuided ==
  ASSUME NEW r \in Requests, Guided(req[r]), UNCHANGED handlers,
         binding[req[r].session] = "bound" =>
           /\ binding'[req[r].session] = "bound"
           /\ chain'[req[r].session] = chain[req[r].session],
         req'[r].session = req[r].session, req'[r].event = req[r].event,
         req'[r].state = req[r].state, req'[r].passed = req[r].passed, req'[r].at = req[r].at
  PROVE  Guided(req[r])'
<1>1. CASE binding[req[r].session] = "bound" BY <1>1 DEF Guided, Gates, Consumers
<1>2. CASE binding[req[r].session] # "bound" BY <1>2 DEF Guided
<1> QED BY <1>1, <1>2

\* Every step keeps requests guided.
LEMMA NextGuarding == Guarding /\ [Next]_vars => Guarding'
<1> SUFFICES ASSUME Guarding, [Next]_vars PROVE Guarding' OBVIOUS
<1>1. Whole' BY NextWhole DEF Guarding
<1>2. /\ DOMAIN req = Requests /\ \A r \in Requests : IsRequest(req[r]) /\ Guided(req[r])
      /\ handlers \in Seq(Handlers)
  BY DEF Guarding, Whole, Inv
<1>3. ASSUME NEW h \in Handlers, Register(h) PROVE Guarding'
  <2>1. /\ ~registrationClosed /\ handlers' = Append(handlers, h)
        /\ UNCHANGED <<binding, chain, req>>
    BY <1>3 DEF Register, attachment
  <2>2. handlers' \in Seq(Handlers) BY <1>2, <2>1
  <2>3. \A s \in Sessions : binding[s] # "bound"
    BY <2>1 DEF Guarding, Whole, Inv, Attached, EventSet
  <2>4. \A r \in Requests : req[r].session \in Sessions BY <1>2 DEF IsRequest
  <2>5. \A r \in Requests : Guided(req[r])'
    BY <1>2, <2>1, <2>3, <2>4 DEF Guided
  <2> QED BY <1>1, <2>2, <2>5 DEF Guarding
<1>4. ASSUME NEW s \in Sessions, Attach(s) PROVE Guarding'
  <2>1. PICK b, c : /\ binding' = [binding EXCEPT ![s] = b] /\ chain' = [chain EXCEPT ![s] = c]
                    /\ binding[s] = "none" /\ UNCHANGED <<handlers, req>>
    BY <1>4 DEF Attach
  <2>2. \A r \in Requests : Guided(req[r])'
    BY <1>2, <2>1, StaysGuided DEF Guarding, Whole, Inv, Attached
  <2> QED BY <1>1, <1>2, <2>1, <2>2 DEF Guarding
<1>5. ASSUME UNCHANGED <<handlers, attachment>>,
             \A r \in Requests : /\ req'[r].session = req[r].session /\ req'[r].event = req[r].event
                                 /\ req'[r].state = req[r].state /\ req'[r].passed = req[r].passed
                                 /\ req'[r].at = req[r].at
      PROVE  Guarding'
  <2>1. UNCHANGED <<handlers, binding, chain>> BY <1>5 DEF attachment
  <2>2. \A r \in Requests : Guided(req[r])' BY <1>2, <1>5, <2>1, StaysGuided
  <2> QED BY <1>1, <1>2, <2>1, <2>2 DEF Guarding
<1>6. ASSUME NEW s \in Sessions, NEW allowed \in BOOLEAN, Transition(s, allowed) PROVE Guarding'
  <2>1. /\ UNCHANGED <<handlers, attachment>>
        /\ req' = [r \in Requests |->
                     IF req[r].session = s THEN [req[r] EXCEPT !.steady = FALSE] ELSE req[r]]
    BY <1>6 DEF Transition
  <2>2. \A r \in Requests : DOMAIN req[r] = Fields BY <1>2 DEF IsRequest
  <2> QED BY <1>5, <2>1, <2>2 DEF Fields
<1>7. CASE Terminate
  <2>1. /\ UNCHANGED <<handlers, attachment>>
        /\ req' = [r \in Requests |-> [req[r] EXCEPT !.steady = FALSE]]
    BY <1>7 DEF Terminate
  <2>2. \A r \in Requests : DOMAIN req[r] = Fields BY <1>2 DEF IsRequest
  <2> QED BY <1>5, <2>1, <2>2 DEF Fields
<1>8. ASSUME NEW x \in Requests, Raise(x) \/ Return(x) PROVE Guarding'
  <2>1. UNCHANGED <<handlers, binding, chain>> BY <1>8 DEF Raise, Return, attachment
  <2>2. Guided(req'[x]) BY <1>8, RaiseGuided, ReturnGuided
  <2>3. \A r \in Requests \ {x} : req'[r] = req[r] BY <1>2, <1>8 DEF Raise, Return
  <2>4. \A r \in Requests : Guided(req'[r]) BY <1>2, <2>2, <2>3
  <2>5. \A r \in Requests : Guided(req[r])' BY <2>1, <2>4, SameGuides
  <2> QED BY <1>1, <1>2, <2>1, <2>5 DEF Guarding
<1>9. CASE UNCHANGED vars BY <1>5, <1>9 DEF vars
<1> QED BY <1>3, <1>4, <1>6, <1>7, <1>8, <1>9 DEF Next, Admit, Withdraw

\* No request has been made yet.
LEMMA InitGuarding == Init => Guarding
<1> SUFFICES ASSUME Init PROVE Guarding OBVIOUS
<1>1. \A r \in Requests : req[r].event = "request" /\ req[r].state = "new" /\ req[r].at = 0
  BY DEF Init
<1>2. handlers \in Seq(Handlers) BY DEF Init
<1> QED BY <1>1, <1>2, InitWhole DEF Guarding, Guided

\* A request that got past onBeforeRequest has been let through, under the URL it has,
\* by every fail-closed gate that is registered for its session: for any sessions,
\* requests and consumers, any number of redirects and of changes of the permission,
\* and whatever consumers throw.
THEOREM GatesArePassed == Spec => []GatesPassed
<1>1. Guarding => GatesPassed
  <2> SUFFICES ASSUME Guarding, NEW r \in Requests,
                      req[r].state \in {"waiting", "consumers", "sent", "done"}, req[r].event # "request",
                      NEW h \in FailClosed \cap ToSet(handlers), Applies(h, req[r].session)
               PROVE  h \in req[r].passed
    BY DEF GatesPassed
  <2>1. Guided(req[r]) BY DEF Guarding
  <2> QED BY <2>1 DEF Guided, Gates
<1> QED BY <1>1, InitGuarding, NextGuarding, PTL DEF Spec
===============================================================================
