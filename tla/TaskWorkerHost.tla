--------------------------- MODULE TaskWorkerHost ---------------------------
(***************************************************************************)
(* A request/response host for one lazily spawned worker thread            *)
(* (task-worker-host.js), used by the web3:// document decoder and the     *)
(* chain catalog.  Requests wait in a FIFO in the main process and one at  *)
(* a time is handed to the worker.  Everything the host does happens in    *)
(* the main process's event loop, one callback at a time; the worker       *)
(* thread, the timers and the callers decide which callback comes next.    *)
(***************************************************************************)
EXTENDS Naturals, Sequences

CONSTANTS
  Requests   \* the calls of run(): each is made at most once

None == "none"

ASSUME RequestAssumption == None \notin Requests

\* What a request's promise has come to; "unasked" before run() is called.
Ended == {"answered", "unavailable", "timeout", "aborted", "stopped"}
Outcomes == {"unasked", "pending"} \cup Ended

VARIABLES
  queue,        \* requests not yet handed to a worker
  entry,        \* the worker that is not retired, or NoEntry
  disabled,
  anyAnswered,
  outcome,      \* how each request settled
  timers,       \* requests whose timer is armed
  posted,       \* requests posted to a worker whose answer may still come
  able          \* threads can be spawned and payloads posted

vars == <<queue, entry, disabled, anyAnswered, outcome, timers, posted, able>>

\* Each worker is spawned for a request and is named by it.  A retired worker
\* has no state left: its current is null, and its late events are ignored.
NoEntry == [id |-> None, current |-> None, online |-> FALSE, answered |-> FALSE,
            starting |-> FALSE]
Entry == [id : Requests, current : Requests \cup {None}, online : BOOLEAN,
          answered : BOOLEAN, starting : BOOLEAN]

\* spawn(): a thread that is starting, with its start timer armed.
Spawned(r) == [id |-> r, current |-> None, online |-> FALSE, answered |-> FALSE,
               starting |-> TRUE]

Holding(e, r) == [id |-> e.id, current |-> r, online |-> e.online,
                  answered |-> e.answered, starting |-> e.starting]

InQueue(q) == {q[i] : i \in DOMAIN q}

\* failQueued(): every waiting request of q settles with the outcome how.
FailQueued(o, q, how) == [r \in Requests |-> IF r \in InQueue(q) THEN how ELSE o[r]]

-----------------------------------------------------------------------------
(* dispatch() and retire(), the two calls every handler ends with          *)

\* The host after a handler; settle() clears the timer of what it settles.
Become(e, q, o, off, T) ==
  /\ entry' = e /\ queue' = q /\ outcome' = o /\ disabled' = off
  /\ timers' = {r \in T : o[r] = "pending"}

\* The head of q is handed to e; its timer waits for a worker still starting.
Hand(e, q, o) ==
  LET r == Head(q)
  IN  /\ Become(Holding(e, r), Tail(q), o, FALSE, timers \cup (IF e.online THEN {r} ELSE {}))
      /\ posted' = posted \cup {<<e.id, r>>}

\* Fault: the host is disabled and forgets the requests that were waiting.
GiveUpForgets(q, o) == Become(NoEntry, <<>>, o, TRUE, timers) /\ UNCHANGED posted

\* The worker could not be spawned, or not be reached before it has answered.
GiveUp(q, o) ==
  /\ Become(NoEntry, <<>>, FailQueued(o, q, "unavailable"), TRUE, timers)
  /\ UNCHANGED posted

\* A worker that has answered could not be reached: its request fails, and
\* the next one goes to a fresh worker.
Unreachable(q, o) ==
  LET failed == [o EXCEPT ![Head(q)] = "unavailable"]
  IN  IF Tail(q) = <<>> THEN Become(NoEntry, <<>>, failed, FALSE, timers) /\ UNCHANGED posted
      ELSE Hand(Spawned(Head(Tail(q))), Tail(q), failed)

\* dispatch(), where the handler so far has left the entry e, the queue q, the
\* outcomes o and disabled as off.
Dispatch(e, q, o, off) ==
  IF e.current # None \/ q = <<>> THEN Become(e, q, o, off, timers) /\ UNCHANGED posted
  ELSE IF off
  THEN Become(e, <<>>, FailQueued(o, q, "unavailable"), TRUE, timers) /\ UNCHANGED posted
  ELSE \/ Hand(IF e = NoEntry THEN Spawned(Head(q)) ELSE e, q, o)
       \/ ~able /\ e.answered /\ Unreachable(q, o)
       \/ ~able /\ (e.answered => Tail(q) # <<>>) /\ GiveUp(q, o)

\* Fault: whatever retires it, a worker that has not answered disables the host.
RetireBlames(q, o, how, deliberate) ==
  Dispatch(NoEntry, q,
           IF entry.current = None THEN o ELSE [o EXCEPT ![entry.current] = how],
           disabled \/ ~entry.answered)

\* Fault: nobody looks at the queue after the worker is gone.
RetireForgets(q, o, how, deliberate) ==
  /\ Become(NoEntry, q, IF entry.current = None THEN o ELSE [o EXCEPT ![entry.current] = how],
            disabled \/ ~(entry.answered \/ deliberate), timers)
  /\ UNCHANGED posted

\* retire(entry): its request settles with how; a worker that was not retired
\* deliberately and has answered nothing disables the host.
Retire(q, o, how, deliberate) ==
  Dispatch(NoEntry, q,
           IF entry.current = None THEN o ELSE [o EXCEPT ![entry.current] = how],
           disabled \/ ~(entry.answered \/ deliberate))

-----------------------------------------------------------------------------
(* Callers                                                                 *)

\* run(op, payload, {signal})
Run(r) ==
  /\ outcome[r] = "unasked"
  /\ IF disabled
     THEN outcome' = [outcome EXCEPT ![r] = "unavailable"]
          /\ UNCHANGED <<queue, entry, disabled, timers, posted>>
     ELSE \/ Dispatch(entry, Append(queue, r), [outcome EXCEPT ![r] = "pending"], FALSE)
          \/ outcome' = [outcome EXCEPT ![r] = "aborted"]     \* already aborted
             /\ UNCHANGED <<queue, entry, disabled, timers, posted>>
  /\ UNCHANGED <<anyAnswered, able>>

Without(q, i) == [j \in 1..(Len(q) - 1) |-> IF j < i THEN q[j] ELSE q[j + 1]]

\* onAbort(): a waiting request is dropped, a working one takes its worker along.
Abort(r) ==
  /\ outcome[r] = "pending"
  /\ \/ \E i \in DOMAIN queue :
          /\ queue[i] = r
          /\ Become(entry, Without(queue, i), [outcome EXCEPT ![r] = "aborted"], disabled, timers)
          /\ UNCHANGED posted
     \/ /\ r \notin InQueue(queue) /\ entry.current = r
        /\ Retire(queue, outcome, "aborted", TRUE)
  /\ UNCHANGED <<anyAnswered, able>>

Stop ==
  LET dropped == FailQueued(outcome, queue, "stopped")
  IN  /\ IF entry = NoEntry THEN Become(entry, <<>>, dropped, disabled, timers) /\ UNCHANGED posted
         ELSE Retire(<<>>, dropped, "stopped", TRUE)
      /\ UNCHANGED <<anyAnswered, able>>

-----------------------------------------------------------------------------
(* The worker and the timers                                               *)

\* Fault: a request handed to a worker that was starting is never timed.
OnlineUnarmed ==
  /\ entry # NoEntry /\ ~entry.online
  /\ entry' = [entry EXCEPT !.online = TRUE, !.starting = FALSE]
  /\ UNCHANGED <<queue, disabled, outcome, posted, timers, anyAnswered, able>>

\* 'online': the start timer is cleared and the request's own timer armed.
Online ==
  /\ entry # NoEntry /\ ~entry.online
  /\ entry' = [id |-> entry.id, current |-> entry.current, online |-> TRUE,
               answered |-> entry.answered, starting |-> FALSE]
  /\ timers' = timers \cup ({entry.current} \ {None})
  /\ UNCHANGED <<queue, disabled, outcome, posted, anyAnswered, able>>

\* The worker is not online in time.  If one has answered before, that is load.
StartTimeout ==
  /\ entry # NoEntry /\ entry.starting
  /\ IF anyAnswered THEN Retire(queue, outcome, "timeout", TRUE)
     ELSE Retire(queue, outcome, "unavailable", FALSE)
  /\ UNCHANGED <<anyAnswered, able>>

\* armTimer(): the request has been with its worker for too long.
RequestTimeout(r) ==
  /\ r \in timers
  /\ IF entry.current = r THEN Retire(queue, outcome, "timeout", TRUE)
     ELSE timers' = timers \ {r} /\ UNCHANGED <<queue, entry, disabled, outcome, posted>>
  /\ UNCHANGED <<anyAnswered, able>>

\* 'message': an answer, taken only for the request its worker is on.  The
\* answers of a worker that was terminated meanwhile may still arrive.
Answer(w, r) ==
  /\ <<w, r>> \in posted
  /\ IF entry.id = w /\ entry.current = r
     THEN /\ Dispatch([id |-> w, current |-> None, online |-> entry.online,
                       answered |-> TRUE, starting |-> entry.starting],
                      queue, [outcome EXCEPT ![r] = "answered"], disabled)
          /\ anyAnswered' = TRUE
     ELSE UNCHANGED <<queue, entry, disabled, anyAnswered, outcome, timers, posted>>
  /\ UNCHANGED able

\* 'error' or 'exit' of the worker that is not retired.
Died ==
  /\ entry # NoEntry
  /\ Retire(queue, outcome, "unavailable", FALSE)
  /\ UNCHANGED <<anyAnswered, able>>

\* The process runs short of threads or memory, or has them back.
Environment == able' = ~able /\ UNCHANGED <<queue, entry, disabled, anyAnswered, outcome, timers, posted>>

-----------------------------------------------------------------------------
Init ==
  /\ queue = <<>> /\ entry = NoEntry
  /\ disabled = FALSE /\ anyAnswered = FALSE
  /\ outcome = [r \in Requests |-> "unasked"]
  /\ timers = {} /\ posted = {} /\ able \in BOOLEAN

Timeout == StartTimeout \/ \E r \in Requests : RequestTimeout(r)

Next ==
  \/ \E r \in Requests : Run(r) \/ Abort(r)
  \/ Stop
  \/ Online \/ Died \/ (\E w, r \in Requests : Answer(w, r))
  \/ Timeout
  \/ Environment

\* Timers fire; nothing is assumed of the worker or the callers.
Spec == Init /\ [][Next]_vars /\ WF_vars(Timeout)

-----------------------------------------------------------------------------
(* Properties                                                              *)

Pending == {r \in Requests : outcome[r] = "pending"}

\* Types.
TypeOK ==
  /\ queue \in Seq(Requests)
  /\ entry \in Entry \cup {NoEntry}
  /\ disabled \in BOOLEAN /\ anyAnswered \in BOOLEAN /\ able \in BOOLEAN
  /\ outcome \in [Requests -> Outcomes]
  /\ timers \subseteq Requests /\ posted \subseteq Requests \X Requests

\* Every request whose promise is open has exactly one place that will settle
\* it, a place in the queue or the worker it was handed to; what has settled
\* has none; and nothing waits while there is no busy worker to wait for.
OneOwner ==
  /\ InQueue(queue) \cup ({entry.current} \ {None}) = Pending
  /\ entry.current \notin InQueue(queue)
  /\ \A i, j \in DOMAIN queue : queue[i] = queue[j] => i = j
  /\ queue # <<>> => entry.current # None
  /\ disabled => entry = NoEntry

\* A request in a worker is always under a timer, its own or the one of the
\* worker's start, and no other request's timer is left to hit that worker.
WorkIsTimed ==
  /\ entry.current # None =>
       IF entry.online THEN entry.current \in timers ELSE entry.starting
  /\ timers \subseteq {entry.current}

\* While threads can be had, a request that is aborted or times out costs
\* nothing to the others, and a worker that dies after it has answered takes
\* only the request it was on.
OthersUnharmed ==
  [][ \A r, x \in Pending :
        /\ able /\ r # x
        /\ \/ outcome'[r] \in {"timeout", "aborted"}
           \/ outcome'[r] = "unavailable" /\ entry.current = r /\ entry.answered
        => outcome'[x] = "pending" ]_vars

\* Every request settles, whatever the worker does or does not do.
EveryRequestSettles == \A r \in Requests : outcome[r] = "pending" ~> outcome[r] \in Ended

Promise == INSTANCE RequestPromise WITH asked <- {r \in Requests : outcome[r] # "unasked"},
  settled <- [r \in {x \in Requests : outcome[x] \in Ended} |-> outcome[r]],
  off <- disabled

\* The host implements the promise its header makes to callers.
ImplementsPromise == Promise!PromiseSpec
=============================================================================
