--------------------------- MODULE RequestPromise ---------------------------
(***************************************************************************)
(* What the host of a worker thread promises its callers: each request     *)
(* settles once and for good, one at a time, except when the host gives    *)
(* the worker up for the session or is stopped, and then all of them at    *)
(* once.  TaskWorkerHost implements this specification.                    *)
(***************************************************************************)
CONSTANTS Requests

VARIABLES
  asked,    \* requests that have been made
  settled,  \* what those that settled came to
  off       \* callers are to do the work themselves from now on

promise == <<asked, settled, off>>

Open == asked \ DOMAIN settled
Settles == DOMAIN settled' \ DOMAIN settled
By(how) == {r \in Settles : settled'[r] = how}
AtMostOne(S) == \A r, x \in S : r = x

PromiseInit == asked = {} /\ DOMAIN settled = {} /\ off = FALSE

\* What has settled keeps what it came to, and only what was asked settles.
Final ==
  /\ asked \subseteq asked' /\ DOMAIN settled \subseteq DOMAIN settled'
  /\ \A r \in DOMAIN settled : settled'[r] = settled[r]
  /\ DOMAIN settled' \subseteq asked'
  /\ off => off'

\* A request is answered or ended; at most one more fails in its wake, the one
\* that could not be handed over.
One ==
  /\ off' = off
  /\ AtMostOne(Settles \ By("unavailable")) /\ AtMostOne(By("unavailable"))

\* The host is given up: nobody is left waiting for it.
Abandon ==
  /\ off' /\ asked' = DOMAIN settled'
  /\ AtMostOne(Settles \ By("unavailable"))

Stopped == off' = off /\ asked' = DOMAIN settled' /\ Settles = By("stopped")

PromiseNext == Final /\ (off' => asked' = DOMAIN settled') /\ (One \/ Abandon \/ Stopped)

PromiseSpec == PromiseInit /\ [][PromiseNext]_promise
=============================================================================
