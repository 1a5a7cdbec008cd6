--------------------------- MODULE RequestDispatch ---------------------------
(***************************************************************************)
(* The shared owner of Electron's webRequest events                        *)
(* (webrequest-dispatcher.js): consumers register once, every session gets *)
(* one listener per event, and a listener runs its consumers one after the *)
(* other, awaiting each.  The session's routing permission, which          *)
(* session-proxy-controller.js grants and withdraws between those awaits,  *)
(* decides at every callback.                                              *)
(*                                                                         *)
(* A request passes the chains of its events in turn; a redirect sends it  *)
(* to the first chain again with another URL (another hop).                *)
(***************************************************************************)
EXTENDS Naturals, Sequences, SequencesExt

CONSTANTS
  Sessions,
  Requests,
  Handlers,
  FailClosed,     \* handlers registered with failClosed
  EventOf(_),     \* the event a handler is registered for
  Applies(_, _),  \* Applies(h, s): s is in the scope of h and does not exclude it
  MaxGeneration,  \* changes of one session's permission that are explored (a bound)
  MaxHops         \* redirects of one request that are explored (a bound)

Events == <<"request", "send", "received">>
EventSet == {"request", "send", "received"}

ASSUME HandlerAssumption ==
  /\ FailClosed \subseteq Handlers
  /\ \A h \in Handlers : EventOf(h) \in EventSet
  /\ \A h \in FailClosed : EventOf(h) = "request"
ASSUME BoundAssumption == MaxGeneration \in Nat /\ MaxHops \in Nat

Refused == MaxGeneration + 1   \* the generation null of a refused policy

VARIABLES
  handlers,            \* handlers in the order they were registered
  registrationClosed,
  binding,             \* sessionBindings: none, failed or bound
  listening,           \* events for which each session has its listener
  chain,               \* what each listener of each session runs, in order
  policy,              \* getRequestPolicy(): allowed and generation
  terminal,            \* routing ended the process
  req                  \* each request: where it is, and what its listener holds

attachment == <<registrationClosed, binding, listening, chain>>
vars == <<handlers, attachment, policy, terminal, req>>

Request ==
  [session : Sessions, event : EventSet, at : 0..Len(handlers), hop : 0..MaxHops,
   permit : 0..Refused,      \* the generation the listener's permit was made with
   state : {"new", "waiting", "consumers", "sent", "done", "cancelled"},
   passed : SUBSET Handlers, \* who has let the present hop through
   steady : BOOLEAN]         \* the session has been open since the listener began

-----------------------------------------------------------------------------
(* Registration and attachment                                             *)

\* Fault: registration stays possible after a session is attached.
RegisterAnyTime(h) ==
  /\ h \notin ToSet(handlers)
  /\ handlers' = Append(handlers, h)
  /\ UNCHANGED <<attachment, policy, terminal, req>>

\* registerWebRequestHandler(event, name, handler, options): refused once a
\* session is attached, and for a name that is registered.
Register(h) ==
  /\ ~registrationClosed /\ h \notin ToSet(handlers)
  /\ handlers' = Append(handlers, h)
  /\ UNCHANGED <<attachment, policy, terminal, req>>

\* The handlers of hs for the event e that apply to the session s, in their order.
Select(hs, s, e) ==
  LET chosen[i \in 0..Len(hs)] ==
        IF i = 0 THEN <<>>
        ELSE IF EventOf(hs[i]) = e /\ Applies(hs[i], s) THEN Append(chosen[i - 1], hs[i])
        ELSE chosen[i - 1]
  IN  chosen[Len(hs)]

\* attachWebRequestDispatcher(session, options) for a session that has no
\* binding: one native listener after the other, or some of them when one
\* throws.
Attach(s) ==
  /\ binding[s] = "none" /\ ~terminal
  /\ registrationClosed' = TRUE
  /\ \E n \in 0..3 :
       /\ listening' = [listening EXCEPT ![s] = {Events[i] : i \in 1..n}]
       /\ chain' = [chain EXCEPT ![s] =
                      [e \in EventSet |-> IF e \in listening'[s] THEN Select(handlers, s, e) ELSE <<>>]]
       /\ binding' = [binding EXCEPT ![s] = IF n = 3 THEN "bound" ELSE "failed"]
  /\ UNCHANGED <<handlers, policy, terminal, req>>

\* Fault: a partly failed attachment counts as one.
AttachReturnsAnyway(s) == binding[s] # "none"

\* Attachment of a session that has a binding: idempotent, or refused.
AttachReturns(s) == binding[s] = "bound"

-----------------------------------------------------------------------------
(* The routing permission (session-proxy-controller.js)                    *)

\* The permission is given or taken; every transition has its generation.
\* The requests of the session notice only what their listeners look at.
Transition(s, allowed) ==
  /\ ~terminal /\ policy[s].generation < MaxGeneration
  /\ policy' = [policy EXCEPT ![s] = [allowed |-> allowed, generation |-> @.generation + 1]]
  /\ req' = [r \in Requests |->
               IF req[r].session = s THEN [req[r] EXCEPT !.steady = FALSE] ELSE req[r]]
  /\ UNCHANGED <<handlers, attachment, terminal>>

\* commit(): a session whose enrollment attached its listeners.
Admit(s) == AttachReturns(s) /\ ~policy[s].allowed /\ Transition(s, TRUE)

Withdraw(s) == policy[s].allowed /\ Transition(s, FALSE)

\* retireAll(): no permission from here on, whatever the generations are.
Terminate ==
  /\ ~terminal /\ terminal' = TRUE
  /\ policy' = [s \in Sessions |-> [policy[s] EXCEPT !.allowed = FALSE]]
  /\ req' = [r \in Requests |-> [req[r] EXCEPT !.steady = FALSE]]
  /\ UNCHANGED <<handlers, attachment>>

-----------------------------------------------------------------------------
(* A listener                                                              *)

\* readRequestPolicy()
Generation(s) == IF policy[s].allowed THEN policy[s].generation ELSE Refused

\* Fault: a permit that asks whether the session is open, not since when.
PermittedIfOpen(s, g) == g # Refused /\ policy[s].allowed

\* permitted(), with the generation g the permit was made with.
Permitted(s, g) == g # Refused /\ Generation(s) = g

Consumers(q) == chain[q.session][q.event]

Cancel(q) == [q EXCEPT !.state = "cancelled", !.at = 0, !.permit = Refused]

\* Electron carries on with what the last callback let through.
Proceed(q) ==
  CASE q.event = "request" -> [q EXCEPT !.event = "send", !.state = "waiting", !.at = 0, !.permit = Refused]
    [] q.event = "send"    -> [q EXCEPT !.event = "received", !.state = "sent", !.at = 0, !.permit = Refused]
    [] OTHER               -> [q EXCEPT !.state = "done", !.at = 0, !.permit = Refused]

Redirect(q) ==
  [q EXCEPT !.event = "request", !.state = "waiting", !.at = 0, !.permit = Refused,
            !.hop = @ + 1, !.passed = {}]

\* guardedCallback(callback, permitted, result)
Guarded(q, result) == IF Permitted(q.session, q.permit) THEN result ELSE Cancel(q)

\* The consumer that is next in line gets the request, if it is permitted
\* still; behind the last one the request is let through.
After(q) == Guarded(q, IF q.at < Len(Consumers(q)) THEN [q EXCEPT !.at = @ + 1] ELSE Proceed(q))

\* Electron raises the event: the listener makes its permit and comes to its
\* first consumer, all in one go.  An event without a listener passes.  A
\* session gets requests once its enrollment returned.
Raise(r) ==
  /\ req[r].state \in {"new", "waiting", "sent"} /\ ~terminal
  /\ AttachReturns(req[r].session)
  /\ LET q == [req[r] EXCEPT !.permit = Generation(req[r].session), !.steady = TRUE]
     IN  req' = [req EXCEPT ![r] =
                   IF q.event \notin listening[q.session] THEN Proceed(q)
                   ELSE After([q EXCEPT !.state = "consumers"])]
  /\ UNCHANGED <<handlers, attachment, policy, terminal>>

\* Fault: a gate that throws is skipped like the others.
ThrownSkips(q, h) == After(q)

\* Fault: the exception is not caught, and the listener ends without its callback.
ThrownUnhandled(q, h) == [q EXCEPT !.state = "stranded"]

\* The consumer h throws: skipped, unless it is a gate.
Thrown(q, h) == IF h \in FailClosed THEN Cancel(q) ELSE After(q)

\* The consumer that has the request answers.
Return(r) ==
  /\ req[r].state = "consumers"
  /\ LET q == req[r]
         h == Consumers(q)[q.at]
     IN  \/ req' = [req EXCEPT ![r] = After([q EXCEPT !.passed = @ \cup {h}])]
         \/ req' = [req EXCEPT ![r] = Cancel(q)]
         \/ /\ q.hop < MaxHops
            /\ req' = [req EXCEPT ![r] = Guarded(q, Redirect(q))]
         \/ req' = [req EXCEPT ![r] = Thrown(q, h)]
  /\ UNCHANGED <<handlers, attachment, policy, terminal>>

Init ==
  /\ handlers = <<>> /\ registrationClosed = FALSE
  /\ binding = [s \in Sessions |-> "none"]
  /\ listening = [s \in Sessions |-> {}]
  /\ chain = [s \in Sessions |-> [e \in EventSet |-> <<>>]]
  /\ policy = [s \in Sessions |-> [allowed |-> FALSE, generation |-> 0]]
  /\ terminal = FALSE
  /\ req \in [Requests -> [session : Sessions, event : {"request"}, at : {0}, hop : {0},
                           permit : {Refused}, state : {"new"}, passed : {{}}, steady : {FALSE}]]

Next ==
  \/ \E h \in Handlers : Register(h)
  \/ \E s \in Sessions : Attach(s) \/ Admit(s) \/ Withdraw(s)
  \/ Terminate
  \/ \E r \in Requests : Raise(r) \/ Return(r)

\* A consumer that has a request answers it; nothing else has to happen.
Fairness == \A r \in Requests : WF_vars(Return(r))

Spec == Init /\ [][Next]_vars /\ Fairness

-----------------------------------------------------------------------------
(* Properties                                                              *)

\* Types.
TypeOK ==
  /\ IsInjective(handlers) /\ ToSet(handlers) \subseteq Handlers
  /\ registrationClosed \in BOOLEAN /\ terminal \in BOOLEAN
  /\ binding \in [Sessions -> {"none", "failed", "bound"}]
  /\ listening \in [Sessions -> SUBSET EventSet]
  /\ policy \in [Sessions -> [allowed : BOOLEAN, generation : 0..MaxGeneration]]
  /\ req \in [Requests -> Request]
  /\ \A r \in Requests : req[r].state = "consumers" <=> req[r].at \in DOMAIN Consumers(req[r])

LetThrough(r) ==
  /\ req'[r].state \in {"waiting", "sent", "done"}
  /\ <<req'[r].event, req'[r].state, req'[r].hop>> # <<req[r].event, req[r].state, req[r].hop>>

\* A listener lets a request through, or redirects it, only while routing
\* permits the session, and only if it has permitted it without a break since
\* the listener began: a permission withdrawn and given back while a consumer
\* was awaited (other route, other connections) does not count
\* (webrequest-dispatcher.js makeRequestPermit, guardedCallback).
PermittedThroughout ==
  [][\A r \in Requests : LetThrough(r) =>
       /\ policy[req[r].session].allowed
       /\ req[r].state = "consumers" => req[r].steady]_vars

\* A request that got past onBeforeRequest was let through by every fail-closed
\* gate of its session under the URL it has: a gate that threw, one that a
\* redirect skipped and one registered late have not been passed by.
GatesPassed ==
  \A r \in Requests :
    req[r].state \in {"waiting", "consumers", "sent", "done"} /\ req[r].event # "request" =>
      \A h \in FailClosed \cap ToSet(handlers) : Applies(h, req[r].session) => h \in req[r].passed

\* Every session's listeners run all the consumers there are for it, in the
\* order of registration, and a session is permitted only with every listener
\* in place (attachWebRequestDispatcher's bindings, registrationClosed).
ChainsAreWhole ==
  /\ \A s \in Sessions : policy[s].allowed => listening[s] = EventSet
  /\ \A s \in Sessions : \A e \in listening[s] : chain[s][e] = Select(handlers, s, e)

\* Every event a listener took is answered once its consumers are done: no
\* exception, withdrawal or termination strands Electron's callback.
EventsAreAnswered ==
  \A r \in Requests :
    (req[r].state = "consumers") ~> (req[r].state \in {"waiting", "sent", "done", "cancelled"})

=============================================================================
