------------------------ MODULE TaskWorkerHost_proofs ------------------------
(***************************************************************************)
(* Proofs about TaskWorkerHost: in every reachable state each open request *)
(* has exactly one owner that will settle it, for any number of requests.  *)
(***************************************************************************)
EXTENDS TaskWorkerHost, TLAPS

Distinct(q) == \A i, j \in DOMAIN q : q[i] = q[j] => i = j

\* Adding a request at the end of the queue adds it and nothing else.
LEMMA AppendQueue ==
  ASSUME NEW q \in Seq(Requests), NEW r \in Requests
  PROVE  /\ Append(q, r) \in Seq(Requests) /\ Append(q, r) # <<>>
         /\ InQueue(Append(q, r)) = InQueue(q) \cup {r}
         /\ Distinct(q) /\ r \notin InQueue(q) => Distinct(Append(q, r))
<1> DEFINE a == Append(q, r)
<1>1. a \in Seq(Requests) /\ Len(a) = Len(q) + 1 OBVIOUS
<1>2. Len(q) \in Nat /\ DOMAIN q = 1..Len(q) /\ DOMAIN a = 1..(Len(q) + 1) OBVIOUS
<1>3. a[Len(q) + 1] = r /\ \A i \in 1..Len(q) : a[i] = q[i] OBVIOUS
<1> HIDE DEF a
<1>4. a # <<>> BY <1>1, <1>2
<1>5. \A i \in 1..(Len(q) + 1) : i \in 1..Len(q) \/ i = Len(q) + 1 BY <1>2
<1>6. \A i \in 1..Len(q) : i \in 1..(Len(q) + 1) BY <1>2
<1>7. Len(q) + 1 \in 1..(Len(q) + 1) BY <1>2
<1>8. InQueue(a) = InQueue(q) \cup {r} BY <1>2, <1>3, <1>5, <1>6, <1>7 DEF InQueue
<1>9. Distinct(q) /\ r \notin InQueue(q) => Distinct(a)
  BY <1>2, <1>3, <1>5 DEF InQueue, Distinct
<1>10. QED BY <1>1, <1>4, <1>8, <1>9 DEF a

\* Taking the head of the queue leaves the others, in the same order.
LEMMA HeadTail ==
  ASSUME NEW q \in Seq(Requests), q # <<>>
  PROVE  /\ Head(q) \in Requests /\ Tail(q) \in Seq(Requests)
         /\ InQueue(q) = InQueue(Tail(q)) \cup {Head(q)}
         /\ Distinct(q) => Distinct(Tail(q)) /\ Head(q) \notin InQueue(Tail(q))
<1>1. Head(q) \in Requests /\ Tail(q) \in Seq(Requests) OBVIOUS
<1>2. Len(q) \in Nat \ {0} /\ DOMAIN q = 1..Len(q) /\ Head(q) = q[1] OBVIOUS
<1>3. Len(Tail(q)) = Len(q) - 1 /\ DOMAIN Tail(q) = 1..(Len(q) - 1) OBVIOUS
<1>4. \A i \in 1..(Len(q) - 1) : Tail(q)[i] = q[i + 1] OBVIOUS
<1>5. InQueue(q) = InQueue(Tail(q)) \cup {Head(q)}
  <2>1. ASSUME NEW x \in InQueue(q) PROVE x \in InQueue(Tail(q)) \cup {Head(q)}
    <3>1. PICK i \in 1..Len(q) : x = q[i] BY <1>2 DEF InQueue
    <3>2. CASE i = 1 BY <3>1, <3>2, <1>2
    <3>3. CASE i # 1
      <4>1. i - 1 \in 1..(Len(q) - 1) /\ Tail(q)[i - 1] = q[i] BY <3>3, <1>2, <1>4
      <4>2. QED BY <4>1, <3>1, <1>3 DEF InQueue
    <3>4. QED BY <3>2, <3>3
  <2>2. \A i \in 1..(Len(q) - 1) : i + 1 \in 1..Len(q) BY <1>2
  <2>3. InQueue(Tail(q)) \subseteq InQueue(q) BY <2>2, <1>2, <1>3, <1>4 DEF InQueue
  <2>4. QED BY <2>1, <2>3, <1>2 DEF InQueue
<1>6. ASSUME Distinct(q) PROVE Distinct(Tail(q)) /\ Head(q) \notin InQueue(Tail(q))
  <2>1. \A i, j \in 1..Len(q) : q[i] = q[j] => i = j BY <1>6, <1>2 DEF Distinct
  <2>2. \A i \in 1..(Len(q) - 1) : i + 1 \in 1..Len(q) /\ i + 1 # 1 BY <1>2
  <2>3. QED BY <2>1, <2>2, <1>2, <1>3, <1>4 DEF Distinct, InQueue
<1>7. QED BY <1>1, <1>5, <1>6

\* Dropping one place of the queue drops exactly the request that was there.
LEMMA WithoutQueue ==
  ASSUME NEW q \in Seq(Requests), NEW i \in DOMAIN q, Distinct(q)
  PROVE  /\ Without(q, i) \in Seq(Requests) /\ Distinct(Without(q, i))
         /\ InQueue(Without(q, i)) = InQueue(q) \ {q[i]}
<1> DEFINE w == Without(q, i)
<1>1. Len(q) \in Nat \ {0} /\ DOMAIN q = 1..Len(q) /\ i \in 1..Len(q) OBVIOUS
<1>2. w = [j \in 1..(Len(q) - 1) |-> IF j < i THEN q[j] ELSE q[j + 1]] BY DEF Without
<1>3. \A j \in 1..(Len(q) - 1) : j \in 1..Len(q) /\ j + 1 \in 1..Len(q) BY <1>1
<1>4. w \in Seq(Requests) BY <1>1, <1>2, <1>3
<1>5. DOMAIN w = 1..(Len(q) - 1) BY <1>2
<1>6. \A j \in 1..(Len(q) - 1) : w[j] = IF j < i THEN q[j] ELSE q[j + 1] BY <1>2
<1> HIDE DEF w
<1>7. \A j, k \in 1..Len(q) : q[j] = q[k] => j = k BY <1>1 DEF Distinct
<1>8. Distinct(w)
  <2>1. SUFFICES ASSUME NEW j \in 1..(Len(q) - 1), NEW k \in 1..(Len(q) - 1), w[j] = w[k]
                 PROVE  j = k
    BY <1>5 DEF Distinct
  <2>2. CASE j < i /\ k < i BY <2>1, <2>2, <1>3, <1>6, <1>7
  <2>3. CASE j < i /\ ~(k < i)
    <3>1. q[j] = q[k + 1] BY <2>1, <2>3, <1>6
    <3>2. j = k + 1 BY <3>1, <1>3, <1>7
    <3>3. QED BY <3>2, <2>3, <1>1
  <2>4. CASE ~(j < i) /\ k < i
    <3>1. q[j + 1] = q[k] BY <2>1, <2>4, <1>6
    <3>2. j + 1 = k BY <3>1, <1>3, <1>7
    <3>3. QED BY <3>2, <2>4, <1>1
  <2>5. CASE ~(j < i) /\ ~(k < i)
    <3>1. q[j + 1] = q[k + 1] BY <2>1, <2>5, <1>6
    <3>2. j + 1 = k + 1 BY <3>1, <1>3, <1>7
    <3>3. QED BY <3>2
  <2>6. QED BY <2>2, <2>3, <2>4, <2>5
<1>9. ASSUME NEW x \in InQueue(w) PROVE x \in InQueue(q) /\ x # q[i]
  <2>1. PICK j \in 1..(Len(q) - 1) : x = w[j] BY <1>5 DEF InQueue
  <2>2. PICK k \in 1..Len(q) : x = q[k] /\ k # i
    <3>1. CASE j < i BY <2>1, <3>1, <1>1, <1>3, <1>6
    <3>2. CASE ~(j < i)
      <4>1. x = q[j + 1] /\ j + 1 \in 1..Len(q) BY <2>1, <3>2, <1>3, <1>6
      <4>2. j + 1 # i BY <3>2, <1>1
      <4>3. QED BY <4>1, <4>2
    <3>3. QED BY <3>1, <3>2
  <2>3. x \in InQueue(q) BY <2>2, <1>1 DEF InQueue
  <2>4. x # q[i] BY <2>2, <1>1, <1>7
  <2>5. QED BY <2>3, <2>4
<1>10. ASSUME NEW x \in InQueue(q), x # q[i] PROVE x \in InQueue(w)
  <2>1. PICK j \in 1..Len(q) : x = q[j] BY <1>1 DEF InQueue
  <2>2. j # i BY <2>1, <1>10
  <2>3. CASE j < i
    <3>1. j \in 1..(Len(q) - 1) /\ w[j] = q[j] BY <2>3, <1>1, <1>6
    <3>2. QED BY <3>1, <2>1, <1>5 DEF InQueue
  <2>4. CASE j > i
    <3>1. j - 1 \in 1..(Len(q) - 1) /\ w[j - 1] = q[j] BY <2>4, <1>1, <1>6
    <3>2. QED BY <3>1, <2>1, <1>5 DEF InQueue
  <2>5. QED BY <2>2, <2>3, <2>4, <1>1
<1>11. QED BY <1>4, <1>8, <1>9, <1>10 DEF w

-----------------------------------------------------------------------------
(* The invariant                                                           *)

Open(o) == {r \in Requests : o[r] = "pending"}

\* What a handler hands to dispatch(): the requests of q and the one e holds
\* are those that are open in o, each once.
Owned(e, q, o) ==
  /\ e \in Entry \cup {NoEntry} /\ q \in Seq(Requests) /\ o \in [Requests -> Outcomes]
  /\ InQueue(q) \cup ({e.current} \ {None}) = Open(o)
  /\ e.current \notin InQueue(q)
  /\ Distinct(q)

\* A worker that is not retired is online or its start is timed, a request it is
\* on is timed, and no other one is.
Punctual ==
  /\ entry # NoEntry => entry.online \/ entry.starting
  /\ WorkIsTimed

\* The inductive invariant.
Inv == TypeOK /\ OneOwner /\ Punctual

\* The invariant as the handlers use it.
LEMMA InvIsOwned ==
  Inv <=> /\ Owned(entry, queue, outcome)
          /\ queue # <<>> => entry.current # None
          /\ disabled => entry = NoEntry
          /\ disabled \in BOOLEAN /\ anyAnswered \in BOOLEAN /\ able \in BOOLEAN
          /\ timers \subseteq Requests /\ posted \subseteq Requests \X Requests
          /\ Punctual
BY DEF Inv, TypeOK, OneOwner, Owned, Open, Pending, Distinct

\* The fields of an entry.
LEMMA Entries ==
  /\ NoEntry.current = None /\ NoEntry.id = None /\ NoEntry \notin Entry
  /\ \A r \in Requests : Spawned(r) \in Entry /\ Spawned(r).current = None /\ Spawned(r).id = r
  /\ \A e \in Entry : e.id \in Requests /\ e.current \in Requests \cup {None}
  /\ \A e \in Entry, r \in Requests :
       Holding(e, r) \in Entry /\ Holding(e, r).current = r /\ Holding(e, r) # NoEntry
<1>1. NoEntry.current = None /\ NoEntry.id = None BY DEF NoEntry
<1>2. \A e \in Entry : e.id \in Requests /\ e.current \in Requests \cup {None} BY DEF Entry
<1>3. NoEntry \notin Entry BY <1>1, <1>2, RequestAssumption
<1>4. \A r \in Requests : Spawned(r) \in Entry /\ Spawned(r).current = None /\ Spawned(r).id = r
  BY DEF Spawned, Entry
<1>5. \A e \in Entry, r \in Requests : Holding(e, r) \in Entry /\ Holding(e, r).current = r
  BY DEF Holding, Entry
<1>6. QED BY <1>1, <1>2, <1>3, <1>4, <1>5

\* Settling the whole queue leaves only what was open elsewhere.
LEMMA FailQueuedOpen ==
  ASSUME NEW o \in [Requests -> Outcomes], NEW q \in Seq(Requests), NEW how \in Ended
  PROVE  /\ FailQueued(o, q, how) \in [Requests -> Outcomes]
         /\ Open(FailQueued(o, q, how)) = Open(o) \ InQueue(q)
<1>1. how \in Outcomes /\ how # "pending" BY DEF Ended, Outcomes
<1>2. QED BY <1>1 DEF FailQueued, Open

\* Settling one request leaves the others open, opening one adds it.
LEMMA SettleOne ==
  ASSUME NEW o \in [Requests -> Outcomes], NEW r \in Requests
  PROVE  /\ \A how \in Ended : /\ [o EXCEPT ![r] = how] \in [Requests -> Outcomes]
                               /\ Open([o EXCEPT ![r] = how]) = Open(o) \ {r}
         /\ [o EXCEPT ![r] = "pending"] \in [Requests -> Outcomes]
         /\ Open([o EXCEPT ![r] = "pending"]) = Open(o) \cup {r}
BY DEF Ended, Outcomes, Open

\* Everything that the invariant says of the state after dispatch().
Ready ==
  /\ Owned(entry', queue', outcome')
  /\ queue' # <<>> => entry'.current # None
  /\ disabled' => entry' = NoEntry
  /\ disabled' \in BOOLEAN
  /\ timers' \subseteq Requests /\ posted' \subseteq Requests \X Requests

\* A request handed to a worker is that worker's and no longer the queue's.
LEMMA HandReady ==
  ASSUME timers \subseteq Requests, posted \subseteq Requests \X Requests,
         NEW e \in Entry, e.current = None, NEW q, NEW o, q # <<>>,
         Owned(e, q, o), Hand(e, q, o)
  PROVE  Ready
<1>1. q \in Seq(Requests) /\ o \in [Requests -> Outcomes] /\ Distinct(q) BY DEF Owned
<1>2. InQueue(q) = Open(o) BY DEF Owned
<1>3. /\ Head(q) \in Requests /\ Tail(q) \in Seq(Requests) /\ Distinct(Tail(q))
      /\ InQueue(q) = InQueue(Tail(q)) \cup {Head(q)} /\ Head(q) \notin InQueue(Tail(q))
  BY <1>1, HeadTail
<1>4. /\ Holding(e, Head(q)) \in Entry /\ Holding(e, Head(q)).current = Head(q)
      /\ e.id \in Requests
  BY <1>3, Entries
<1>5. /\ entry' = Holding(e, Head(q)) /\ queue' = Tail(q) /\ outcome' = o /\ disabled' = FALSE
      /\ timers' \subseteq timers \cup {Head(q)}
      /\ posted' = posted \cup {<<e.id, Head(q)>>}
  BY DEF Hand, Become
<1>6. Head(q) # None BY <1>3, RequestAssumption
<1>7. Owned(entry', queue', outcome') BY <1>1, <1>2, <1>3, <1>4, <1>5, <1>6 DEF Owned
<1>8. timers' \subseteq Requests BY <1>3, <1>5
<1>9. posted' \subseteq Requests \X Requests
  <2>1. <<e.id, Head(q)>> \in Requests \X Requests BY <1>3, <1>4
  <2>2. QED BY <2>1, <1>5
<1>10. entry'.current # None /\ disabled' = FALSE BY <1>4, <1>5, <1>6
<1>11. QED BY <1>7, <1>8, <1>9, <1>10 DEF Ready

\* Whatever the handler left to it, dispatch() leaves every open request with
\* its one owner, and none waiting for nobody.
LEMMA DispatchReady ==
  ASSUME timers \subseteq Requests, posted \subseteq Requests \X Requests,
         NEW e, NEW q, NEW o, NEW off \in BOOLEAN,
         Owned(e, q, o), off => e = NoEntry, Dispatch(e, q, o, off)
  PROVE  Ready
<1>1. /\ e \in Entry \cup {NoEntry} /\ q \in Seq(Requests) /\ o \in [Requests -> Outcomes]
      /\ Distinct(q) /\ e.current \notin InQueue(q)
      /\ InQueue(q) \cup ({e.current} \ {None}) = Open(o)
  BY DEF Owned
<1>2. CASE e.current # None \/ q = <<>>
  <2>1. /\ entry' = e /\ queue' = q /\ outcome' = o /\ disabled' = off /\ timers' \subseteq timers
        /\ posted' = posted
    BY <1>2 DEF Dispatch, Become
  <2>2. QED BY <2>1, <1>2, <1>1 DEF Ready, Owned
<1>3. CASE e.current = None /\ q # <<>>
  <2>1. InQueue(q) = Open(o) BY <1>1, <1>3
  <2>2. /\ FailQueued(o, q, "unavailable") \in [Requests -> Outcomes]
        /\ Open(FailQueued(o, q, "unavailable")) = {}
    BY <2>1, <1>1, FailQueuedOpen DEF Ended
  <2>3. <<>> \in Seq(Requests) /\ InQueue(<<>>) = {} /\ Distinct(<<>>) BY DEF InQueue, Distinct
  <2>4. Owned(NoEntry, <<>>, FailQueued(o, q, "unavailable"))
    BY <2>2, <2>3, Entries DEF Owned
  <2>5. CASE off
    <3>1. /\ entry' = NoEntry /\ queue' = <<>> /\ outcome' = FailQueued(o, q, "unavailable")
          /\ disabled' = TRUE /\ timers' \subseteq timers /\ posted' = posted
      BY <2>5, <1>3 DEF Dispatch, Become
    <3>2. QED BY <3>1, <2>4 DEF Ready
  <2>6. CASE ~off
    <3>1. \/ Hand(IF e = NoEntry THEN Spawned(Head(q)) ELSE e, q, o)
          \/ e.answered /\ Unreachable(q, o)
          \/ GiveUp(q, o)
      BY <2>6, <1>3 DEF Dispatch
    <3>2. /\ Head(q) \in Requests /\ Tail(q) \in Seq(Requests) /\ Distinct(Tail(q))
          /\ InQueue(q) = InQueue(Tail(q)) \cup {Head(q)} /\ Head(q) \notin InQueue(Tail(q))
      BY <1>1, <1>3, HeadTail
    <3>3. CASE Hand(IF e = NoEntry THEN Spawned(Head(q)) ELSE e, q, o)
      <4> DEFINE h == IF e = NoEntry THEN Spawned(Head(q)) ELSE e
      <4>1. h \in Entry /\ h.current = None BY <1>1, <1>3, <3>2, Entries
      <4>2. Owned(h, q, o) BY <4>1, <1>1, <2>1, RequestAssumption DEF Owned, Open
      <4>3. Hand(h, q, o) BY <3>3
      <4> HIDE DEF h
      <4>4. QED BY <4>1, <4>2, <4>3, <1>3, HandReady
    <3>4. CASE Unreachable(q, o)
      <4> DEFINE failed == [o EXCEPT ![Head(q)] = "unavailable"]
      <4>1. Tail(q) = <<>> => Become(NoEntry, <<>>, failed, FALSE, timers) /\ UNCHANGED posted
        BY <3>4 DEF Unreachable
      <4>2. Tail(q) # <<>> => Hand(Spawned(Head(Tail(q))), Tail(q), failed)
        BY <3>4 DEF Unreachable
      <4>3. failed \in [Requests -> Outcomes] /\ Open(failed) = Open(o) \ {Head(q)}
        BY <1>1, <3>2, SettleOne DEF Ended
      <4> HIDE DEF failed
      <4>4. InQueue(Tail(q)) = Open(failed)
        <5>1. Open(o) = InQueue(Tail(q)) \cup {Head(q)} BY <3>2, <2>1
        <5>2. Head(q) \notin InQueue(Tail(q)) BY <3>2
        <5>3. QED BY <5>1, <5>2, <4>3
      <4>5. CASE Tail(q) = <<>>
        <5>1. /\ entry' = NoEntry /\ queue' = <<>> /\ outcome' = failed /\ disabled' = FALSE
              /\ timers' \subseteq timers /\ posted' = posted
          BY <4>5, <4>1 DEF Become
        <5>2. Owned(NoEntry, <<>>, failed) BY <4>3, <4>4, <4>5, <2>3, Entries DEF Owned
        <5>3. QED BY <5>1, <5>2 DEF Ready
      <4>6. CASE Tail(q) # <<>>
        <5>1. Hand(Spawned(Head(Tail(q))), Tail(q), failed) BY <4>6, <4>2
        <5>2. Head(Tail(q)) \in Requests BY <4>6, <3>2, HeadTail
        <5>3. Spawned(Head(Tail(q))) \in Entry /\ Spawned(Head(Tail(q))).current = None
          BY <5>2, Entries
        <5>4. Owned(Spawned(Head(Tail(q))), Tail(q), failed)
          BY <5>3, <4>3, <4>4, <3>2, RequestAssumption DEF Owned, Open
        <5>5. QED BY <5>1, <5>3, <5>4, <4>6, HandReady
      <4>7. QED BY <4>5, <4>6
    <3>5. CASE GiveUp(q, o)
      <4>1. /\ entry' = NoEntry /\ queue' = <<>> /\ outcome' = FailQueued(o, q, "unavailable")
            /\ disabled' = TRUE /\ timers' \subseteq timers /\ posted' = posted
        BY <3>5 DEF GiveUp, Become
      <4>2. QED BY <4>1, <2>4 DEF Ready
    <3>6. QED BY <3>1, <3>3, <3>4, <3>5
  <2>7. QED BY <2>5, <2>6
<1>4. QED BY <1>2, <1>3

-----------------------------------------------------------------------------
(* Every worker's request is under a timer                                 *)

\* What a handler hands to dispatch(): the timers of what is still open in o are
\* those of the request that e is on.
Timed(e, o) ==
  /\ e # NoEntry => e.online \/ e.starting
  /\ e.current # None /\ e.online => e.current \in timers
  /\ \A r \in timers : o[r] = "pending" => r = e.current

\* Before it hands a request over, a worker has no timer but that of its start.
LEMMA HandPunctual ==
  ASSUME NEW e \in Entry, e.online \/ e.starting, NEW q, NEW o, Head(q) \in Requests,
         o[Head(q)] = "pending", \A r \in timers : o[r] # "pending", Hand(e, q, o)
  PROVE  Punctual'
<1>1. /\ entry' = Holding(e, Head(q))
      /\ timers' = {r \in timers \cup (IF e.online THEN {Head(q)} ELSE {}) : o[r] = "pending"}
  BY DEF Hand, Become
<1>2. /\ Holding(e, Head(q)).current = Head(q) /\ Holding(e, Head(q)).online = e.online
      /\ Holding(e, Head(q)).starting = e.starting
  BY DEF Holding
<1>3. timers' = IF e.online THEN {Head(q)} ELSE {} BY <1>1
<1>4. entry'.online = e.online /\ entry'.starting = e.starting /\ entry'.current = Head(q)
  BY <1>1, <1>2
<1> QED BY <1>3, <1>4 DEF Punctual, WorkIsTimed

\* Whatever the handler left to it, dispatch() leaves a host that is punctual.
LEMMA DispatchPunctual ==
  ASSUME timers \subseteq Requests, NEW e, NEW q, NEW o, NEW off \in BOOLEAN,
         Owned(e, q, o), Timed(e, o), off => e = NoEntry, Dispatch(e, q, o, off)
  PROVE  Punctual'
<1>1. /\ e \in Entry \cup {NoEntry} /\ q \in Seq(Requests) /\ o \in [Requests -> Outcomes]
      /\ InQueue(q) \cup ({e.current} \ {None}) = Open(o)
  BY DEF Owned
<1>2. CASE e.current # None \/ q = <<>>
  <2>1. entry' = e /\ timers' = {r \in timers : o[r] = "pending"}
    BY <1>2 DEF Dispatch, Become
  <2>2. timers' \subseteq {e.current} BY <2>1 DEF Timed
  <2>3. e.current # None => o[e.current] = "pending" /\ e # NoEntry BY <1>1, Entries DEF Open
  <2> QED BY <2>1, <2>2, <2>3 DEF Timed, Punctual, WorkIsTimed
<1>3. CASE e.current = None /\ q # <<>>
  <2>1. \A r \in timers : o[r] # "pending" BY <1>3, RequestAssumption DEF Timed
  <2>2. ASSUME NEW o2 \in [Requests -> Outcomes], NEW q2, NEW d,
               \A r \in Requests : o2[r] = "pending" => o[r] = "pending",
               Become(NoEntry, q2, o2, d, timers)
        PROVE  Punctual'
    <3>1. entry' = NoEntry /\ timers' = {} BY <2>1, <2>2 DEF Become
    <3> QED BY <3>1, Entries DEF Punctual, WorkIsTimed
  <2> DEFINE lost == FailQueued(o, q, "unavailable")
  <2>3. /\ lost \in [Requests -> Outcomes]
        /\ \A r \in Requests : lost[r] = "pending" => o[r] = "pending"
    BY <1>1, FailQueuedOpen DEF Ended, FailQueued
  <2>4. CASE off
    <3>1. Become(NoEntry, <<>>, lost, TRUE, timers) BY <2>4, <1>3 DEF Dispatch
    <3> HIDE DEF lost
    <3> QED BY <2>2, <2>3, <3>1
  <2>5. CASE ~off
    <3>1. \/ Hand(IF e = NoEntry THEN Spawned(Head(q)) ELSE e, q, o)
          \/ Unreachable(q, o)
          \/ GiveUp(q, o)
      BY <2>5, <1>3 DEF Dispatch
    <3>2. /\ Head(q) \in Requests /\ Tail(q) \in Seq(Requests)
          /\ InQueue(q) = InQueue(Tail(q)) \cup {Head(q)} /\ Head(q) \notin InQueue(Tail(q))
      BY <1>1, <1>3, HeadTail DEF Owned
    <3>3. \A r \in InQueue(q) : o[r] = "pending" BY <1>1 DEF Open
    <3>4. \A r \in Requests : Spawned(r) \in Entry /\ Spawned(r).starting BY Entries DEF Spawned
    <3>5. CASE Hand(IF e = NoEntry THEN Spawned(Head(q)) ELSE e, q, o)
      <4> DEFINE h == IF e = NoEntry THEN Spawned(Head(q)) ELSE e
      <4>1. h \in Entry /\ (h.online \/ h.starting) BY <1>1, <3>2, <3>4 DEF Timed
      <4>2. Hand(h, q, o) /\ o[Head(q)] = "pending" BY <3>2, <3>3, <3>5
      <4> HIDE DEF h
      <4> QED BY <4>1, <4>2, <2>1, <3>2, HandPunctual
    <3>6. CASE Unreachable(q, o)
      <4> DEFINE failed == [o EXCEPT ![Head(q)] = "unavailable"]
      <4>1. Tail(q) = <<>> => Become(NoEntry, <<>>, failed, FALSE, timers)
        BY <3>6 DEF Unreachable
      <4>2. Tail(q) # <<>> => Hand(Spawned(Head(Tail(q))), Tail(q), failed)
        BY <3>6 DEF Unreachable
      <4>3. /\ failed \in [Requests -> Outcomes]
            /\ \A r \in Requests : failed[r] = "pending" => o[r] = "pending"
            /\ \A r \in Requests : r # Head(q) => failed[r] = o[r]
        BY <1>1, <3>2, SettleOne DEF Ended
      <4> HIDE DEF failed
      <4>4. CASE Tail(q) = <<>> BY <4>4, <4>1, <4>3, <2>2
      <4>5. CASE Tail(q) # <<>>
        <5> DEFINE t == Tail(q)
        <5>0. t \in Seq(Requests) /\ t # <<>> BY <4>5, <3>2
        <5> HIDE DEF t
        <5>1. Head(t) \in Requests /\ Head(t) \in InQueue(t) BY <5>0, HeadTail
        <5> USE DEF t
        <5>2. failed[Head(Tail(q))] = "pending" BY <5>1, <4>3, <3>2, <3>3
        <5>3. \A r \in timers : failed[r] # "pending" BY <4>3, <2>1
        <5> QED BY <4>2, <4>5, <5>1, <5>2, <5>3, <3>4, HandPunctual
      <4> QED BY <4>4, <4>5
    <3>7. CASE GiveUp(q, o)
      <4>1. Become(NoEntry, <<>>, lost, TRUE, timers) BY <3>7 DEF GiveUp
      <4> HIDE DEF lost
      <4> QED BY <2>2, <2>3, <4>1
    <3> QED BY <3>1, <3>5, <3>6, <3>7
  <2> QED BY <2>4, <2>5
<1> QED BY <1>2, <1>3

-----------------------------------------------------------------------------
(* What each handler hands to dispatch()                                   *)

\* A handler has settled or opened at most the request x, and hands the rest to
\* dispatch().  It disables the host only when a worker that has answered
\* nothing is lost, and with it the request that worker was on.
Handled(x, e, q, o, off) ==
  /\ x \in Requests /\ Owned(e, q, o) /\ Timed(e, o)
  /\ off \in BOOLEAN /\ (off => e = NoEntry) /\ (disabled => off)
  /\ Dispatch(e, q, o, off)
  /\ \A r \in Requests \ {x} : o[r] = outcome[r]
  /\ \/ o[x] = outcome[x]
     \/ outcome[x] \in {"unasked", "pending"} /\ o[x] \in {"pending"} \cup Ended
  /\ e # NoEntry => o[x] # "unavailable"
  /\ off /\ ~disabled => ~entry.answered /\ o[x] \in {outcome[x], "unavailable"}

\* stop() has settled every request that was open.
Dropped(o) ==
  /\ Owned(NoEntry, <<>>, o) /\ Timed(NoEntry, o)
  /\ Dispatch(NoEntry, <<>>, o, disabled)
  /\ \A r \in Requests : o[r] = IF outcome[r] = "pending" THEN "stopped" ELSE outcome[r]

\* A step that settles and opens nothing.
Idle ==
  /\ UNCHANGED <<queue, disabled, outcome, posted>>
  /\ entry'.current = entry.current

\* Retiring the worker from a state in which nothing else has been settled.
LEMMA RetireHandled ==
  ASSUME Inv, entry # NoEntry, NEW how \in Ended, NEW deliberate \in BOOLEAN,
         ~deliberate => how = "unavailable", Retire(queue, outcome, how, deliberate)
  PROVE  \E x, e, q, o, off : Handled(x, e, q, o, off)
<1> DEFINE x == IF entry.current = None THEN entry.id ELSE entry.current
           settled == IF entry.current = None THEN outcome ELSE [outcome EXCEPT ![entry.current] = how]
           off == disabled \/ ~(entry.answered \/ deliberate)
<1>1. /\ Owned(entry, queue, outcome) /\ entry \in Entry /\ timers \subseteq Requests /\ Punctual
      /\ disabled \in BOOLEAN
      /\ queue \in Seq(Requests) /\ outcome \in [Requests -> Outcomes]
  BY InvIsOwned DEF Owned
<1>2. entry.current \in Requests \cup {None} /\ entry.id \in Requests BY <1>1, Entries
<1>3. Dispatch(NoEntry, queue, settled, off) BY DEF Retire
<1>4. /\ off \in BOOLEAN /\ (disabled => off)
      /\ off /\ ~disabled => ~entry.answered /\ how = "unavailable"
  OBVIOUS
<1> HIDE DEF off
<1>5. Owned(NoEntry, queue, settled)
  <2>1. CASE entry.current = None
    <3>1. settled = outcome BY <2>1
    <3> HIDE DEF settled
    <3> QED BY <2>1, <3>1, <1>1, Entries DEF Owned
  <2>2. CASE entry.current # None
    <3>1. /\ settled \in [Requests -> Outcomes]
          /\ Open(settled) = Open(outcome) \ {entry.current}
      BY <1>1, <1>2, <2>2, SettleOne
    <3> HIDE DEF settled
    <3>2. None \notin Open(outcome) BY RequestAssumption DEF Open
    <3> QED BY <1>1, <2>2, <3>1, <3>2, Entries DEF Owned
  <2> QED BY <2>1, <2>2
<1>6. Timed(NoEntry, settled)
  <2>1. ASSUME NEW r \in timers PROVE settled[r] # "pending"
    <3>1. r = entry.current /\ r # None /\ r \in Requests
      BY <2>1, <1>1, RequestAssumption DEF Punctual, WorkIsTimed
    <3> QED BY <3>1, <1>1 DEF Ended
  <2> HIDE DEF settled
  <2> QED BY <2>1, Entries DEF Timed
<1>7. /\ x \in Requests /\ \A r \in Requests \ {x} : settled[r] = outcome[r]
      /\ \/ settled[x] = outcome[x]
         \/ outcome[x] = "pending" /\ settled[x] = how
  <2>1. CASE entry.current = None BY <2>1, <1>2
  <2>2. CASE entry.current # None
    <3>1. x = entry.current /\ x \in Requests BY <1>2, <2>2
    <3>2. outcome[x] = "pending" BY <3>1, <1>1, <2>2 DEF Owned, Open
    <3> QED BY <3>1, <3>2, <1>1, <2>2
  <2> QED BY <2>1, <2>2
<1> HIDE DEF x, settled
<1>8. Handled(x, NoEntry, queue, settled, off) BY <1>3, <1>4, <1>5, <1>6, <1>7 DEF Handled
<1> QED BY <1>8

\* run() opens a request and queues it, or settles it at once.
LEMMA RunHandled ==
  ASSUME Inv, NEW r \in Requests, Run(r)
  PROVE  \E x, e, q, o, off : Handled(x, e, q, o, off)
<1>1. /\ Owned(entry, queue, outcome) /\ disabled \in BOOLEAN /\ timers \subseteq Requests
      /\ Punctual /\ queue \in Seq(Requests) /\ outcome \in [Requests -> Outcomes]
      /\ queue # <<>> => entry.current # None
      /\ disabled => entry = NoEntry
  BY InvIsOwned DEF Owned
<1>2. outcome[r] = "unasked" /\ r \notin Open(outcome) BY DEF Run, Open
<1>3. r \notin InQueue(queue) /\ entry.current # r BY <1>1, <1>2, RequestAssumption DEF Owned
<1>4. r \notin timers BY <1>3 DEF Inv, Punctual, WorkIsTimed
<1>5. ASSUME NEW how \in Ended, outcome' = [outcome EXCEPT ![r] = how],
             UNCHANGED <<queue, entry, disabled, timers, posted>>,
             ~disabled => how # "unavailable"
      PROVE  \E x, e, q, o, off : Handled(x, e, q, o, off)
  <2> DEFINE o == [outcome EXCEPT ![r] = how]
  <2>1. o \in [Requests -> Outcomes] /\ Open(o) = Open(outcome)
    <3>1. o \in [Requests -> Outcomes] /\ Open(o) = Open(outcome) \ {r} BY <1>1, SettleOne
    <3> HIDE DEF o
    <3> QED BY <1>2, <3>1
  <2>2. o[r] = how /\ \A x \in Requests \ {r} : o[x] = outcome[x] BY <1>1
  <2>3. outcome' = o BY <1>5
  <2> HIDE DEF o
  <2>4. Owned(entry, queue, o) BY <1>1, <2>1 DEF Owned
  <2>5. \A x \in timers : x = entry.current /\ o[x] = "pending"
    BY <1>1, <1>4, <2>1, RequestAssumption DEF Punctual, WorkIsTimed, Owned, Open
  <2>6. Timed(entry, o) BY <1>1, <2>5 DEF Timed, Punctual, WorkIsTimed
  <2>7. timers = {x \in timers : o[x] = "pending"} BY <2>5
  <2>8. Become(entry, queue, o, disabled, timers) BY <1>5, <2>3, <2>7 DEF Become
  <2>9. Dispatch(entry, queue, o, disabled) BY <1>1, <1>5, <2>8 DEF Dispatch
  <2>10. Handled(r, entry, queue, o, disabled)
    BY <1>1, <1>2, <1>5, <2>2, <2>4, <2>6, <2>9 DEF Handled
  <2> QED BY <2>10
<1>6. CASE Dispatch(entry, Append(queue, r), [outcome EXCEPT ![r] = "pending"], FALSE) /\ ~disabled
  <2> DEFINE q == Append(queue, r)
             o == [outcome EXCEPT ![r] = "pending"]
  <2>1. o \in [Requests -> Outcomes] /\ Open(o) = Open(outcome) \cup {r} BY <1>1, SettleOne
  <2>2. o[r] = "pending" /\ \A x \in Requests \ {r} : o[x] = outcome[x] BY <1>1
  <2>3. q \in Seq(Requests) /\ InQueue(q) = InQueue(queue) \cup {r} /\ Distinct(q)
    BY <1>1, <1>3, AppendQueue DEF Owned
  <2>4. Dispatch(entry, q, o, FALSE) BY <1>6
  <2> HIDE DEF q, o
  <2>5. Owned(entry, q, o) BY <1>1, <1>3, <2>1, <2>3 DEF Owned
  <2>6. Timed(entry, o) BY <1>1, <1>4 DEF Timed, Punctual, WorkIsTimed
  <2>7. Handled(r, entry, q, o, FALSE) BY <1>2, <1>6, <2>2, <2>4, <2>5, <2>6 DEF Handled
  <2> QED BY <2>7
<1> QED BY <1>5, <1>6 DEF Run, Ended

\* An abort drops a waiting request, or retires the worker that is on it.
LEMMA AbortHandled ==
  ASSUME Inv, NEW r \in Requests, Abort(r)
  PROVE  \E x, e, q, o, off : Handled(x, e, q, o, off)
<1>1. /\ Owned(entry, queue, outcome) /\ disabled \in BOOLEAN /\ timers \subseteq Requests
      /\ Punctual /\ queue \in Seq(Requests) /\ outcome \in [Requests -> Outcomes]
      /\ queue # <<>> => entry.current # None
      /\ disabled => entry = NoEntry
      /\ "aborted" \in Ended /\ outcome[r] = "pending"
  BY InvIsOwned DEF Owned, Ended, Abort
<1>2. ASSUME NEW i \in DOMAIN queue, queue[i] = r,
             Become(entry, Without(queue, i), [outcome EXCEPT ![r] = "aborted"], disabled, timers),
             UNCHANGED posted
      PROVE  \E x, e, q, o, off : Handled(x, e, q, o, off)
  <2> DEFINE q == Without(queue, i)
             o == [outcome EXCEPT ![r] = "aborted"]
  <2>1. q \in Seq(Requests) /\ Distinct(q) /\ InQueue(q) = InQueue(queue) \ {r}
    BY <1>1, <1>2, WithoutQueue DEF Owned
  <2>2. o \in [Requests -> Outcomes] /\ Open(o) = Open(outcome) \ {r} BY <1>1, SettleOne
  <2>3. o[r] = "aborted" /\ \A x \in Requests \ {r} : o[x] = outcome[x] BY <1>1
  <2>4. Become(entry, q, o, disabled, timers) BY <1>2
  <2> HIDE DEF q, o
  <2>5. r \in InQueue(queue) BY <1>2 DEF InQueue
  <2>6. entry.current # r /\ entry.current # None BY <1>1, <1>2, <2>5 DEF Owned
  <2>7. Owned(entry, q, o) BY <1>1, <2>1, <2>2, <2>6 DEF Owned
  <2>8. Timed(entry, o) BY <1>1 DEF Timed, Punctual, WorkIsTimed
  <2>9. Dispatch(entry, q, o, disabled) BY <1>2, <2>4, <2>6 DEF Dispatch
  <2>10. Handled(r, entry, q, o, disabled) BY <1>1, <2>3, <2>7, <2>8, <2>9 DEF Handled, Ended
  <2> QED BY <2>10
<1>3. CASE entry.current = r /\ Retire(queue, outcome, "aborted", TRUE)
  <2>1. entry # NoEntry BY <1>3, Entries, RequestAssumption
  <2> QED BY <2>1, <1>1, <1>3, RetireHandled
<1> QED BY <1>2, <1>3 DEF Abort

\* stop() settles everything that waits and retires the worker.
LEMMA StopDropped ==
  ASSUME Inv, Stop PROVE \E o : Dropped(o)
<1> DEFINE dropped == FailQueued(outcome, queue, "stopped")
           o == IF entry.current = None THEN dropped ELSE [dropped EXCEPT ![entry.current] = "stopped"]
<1>1. /\ Owned(entry, queue, outcome) /\ disabled \in BOOLEAN /\ timers \subseteq Requests /\ Punctual
      /\ queue \in Seq(Requests) /\ outcome \in [Requests -> Outcomes]
      /\ disabled => entry = NoEntry
  BY InvIsOwned DEF Owned
<1>2. entry.current \in Requests \cup {None} BY <1>1, Entries DEF Owned
<1>3. DOMAIN dropped = Requests
      /\ \A r \in Requests : dropped[r] = IF r \in InQueue(queue) THEN "stopped" ELSE outcome[r]
  BY DEF FailQueued
<1>4. Dispatch(NoEntry, <<>>, o, disabled)
  <2>1. CASE entry = NoEntry
    <3>1. o = dropped BY <2>1, Entries
    <3>2. Become(NoEntry, <<>>, dropped, disabled, timers) /\ UNCHANGED posted BY <2>1 DEF Stop
    <3> HIDE DEF o, dropped
    <3> QED BY <3>1, <3>2 DEF Dispatch
  <2>2. CASE entry # NoEntry
    <3>1. Retire(<<>>, dropped, "stopped", TRUE) BY <2>2 DEF Stop
    <3>2. (disabled \/ ~(entry.answered \/ TRUE)) = disabled BY <1>1
    <3>3. Dispatch(NoEntry, <<>>, o, disabled \/ ~(entry.answered \/ TRUE)) BY <3>1 DEF Retire
    <3> HIDE DEF o, dropped
    <3> QED BY <3>2, <3>3
  <2> QED BY <2>1, <2>2
<1> HIDE DEF dropped
<1>5. /\ DOMAIN o = Requests
      /\ \A r \in Requests : o[r] = IF r \in InQueue(queue) \/ r = entry.current THEN "stopped" ELSE outcome[r]
  BY <1>2, <1>3, RequestAssumption
<1> HIDE DEF o
<1>6. \A r \in Requests : outcome[r] = "pending" <=> r \in InQueue(queue) \/ r = entry.current
  BY <1>1, RequestAssumption DEF Owned, Open
<1>7. \A r \in Requests : o[r] = IF outcome[r] = "pending" THEN "stopped" ELSE outcome[r]
  BY <1>5, <1>6
<1>8. Open(o) = {} BY <1>7 DEF Open
<1>9. o \in [Requests -> Outcomes]
  <2>1. \A r \in Requests : o[r] \in Outcomes BY <1>1, <1>7 DEF Outcomes, Ended
  <2>2. o = [r \in Requests |-> o[r]]
    <3>1. o = dropped \/ o = [dropped EXCEPT ![entry.current] = "stopped"] BY DEF o
    <3>2. dropped = [r \in Requests |-> dropped[r]] BY DEF dropped, FailQueued
    <3> QED BY <3>1, <3>2, <1>3
  <2> QED BY <2>1, <2>2
<1>10. <<>> \in Seq(Requests) /\ InQueue(<<>>) = {} /\ Distinct(<<>>) BY DEF InQueue, Distinct
<1>11. Owned(NoEntry, <<>>, o) BY <1>8, <1>9, <1>10, Entries DEF Owned
<1>12. Timed(NoEntry, o) BY <1>1, <1>8, Entries DEF Timed, Open
<1> QED BY <1>4, <1>7, <1>11, <1>12 DEF Dropped

\* An answer that is taken frees the worker for the next request.
LEMMA AnswerHandled ==
  ASSUME Inv, NEW w \in Requests, NEW r \in Requests, Answer(w, r),
         entry.id = w /\ entry.current = r
  PROVE  \E x, e, q, o, off : Handled(x, e, q, o, off)
<1> DEFINE e == [id |-> w, current |-> None, online |-> entry.online,
                 answered |-> TRUE, starting |-> entry.starting]
           o == [outcome EXCEPT ![r] = "answered"]
<1>1. /\ Owned(entry, queue, outcome) /\ disabled \in BOOLEAN /\ timers \subseteq Requests
      /\ Punctual /\ queue \in Seq(Requests) /\ outcome \in [Requests -> Outcomes]
      /\ disabled => entry = NoEntry
      /\ "answered" \in Ended /\ entry \in Entry \cup {NoEntry}
  BY InvIsOwned DEF Owned, Ended
<1>2. entry \in Entry /\ entry # NoEntry BY <1>1, Entries, RequestAssumption
<1>3. /\ e \in Entry /\ e.current = None
      /\ e.online = entry.online /\ e.starting = entry.starting
  BY <1>2 DEF Entry
<1>4. o \in [Requests -> Outcomes] /\ Open(o) = Open(outcome) \ {r} BY <1>1, SettleOne
<1>5. o[r] = "answered" /\ \A x \in Requests \ {r} : o[x] = outcome[x] BY <1>1
<1>6. Dispatch(e, queue, o, disabled) BY DEF Answer
<1> HIDE DEF e, o
<1>7. ~disabled BY <1>1, <1>2
<1>8. outcome[r] = "pending" BY <1>1, RequestAssumption DEF Owned, Open
<1>9. Owned(e, queue, o)
  <2>1. None \notin InQueue(queue) /\ r \notin InQueue(queue) /\ r # None
    BY <1>1, RequestAssumption DEF Owned, Open
  <2>2. InQueue(queue) \cup {r} = Open(outcome) BY <2>1, <1>1 DEF Owned
  <2> QED BY <2>1, <2>2, <1>1, <1>3, <1>4 DEF Owned
<1>10. Timed(e, o)
  <2>1. \A x \in timers : x = r BY <1>1 DEF Punctual, WorkIsTimed
  <2> QED BY <1>1, <1>2, <1>3, <1>5, <2>1 DEF Timed, Punctual
<1>11. Handled(r, e, queue, o, disabled)
  BY <1>1, <1>5, <1>6, <1>7, <1>8, <1>9, <1>10 DEF Handled, Ended
<1> QED BY <1>11

-----------------------------------------------------------------------------
(* Initial states and steps                                                *)

\* The invariant holds before anything is asked.
LEMMA InitInv == Init => Inv
<1> SUFFICES ASSUME Init PROVE Inv OBVIOUS
<1>1. Open(outcome) = {} BY DEF Init, Open
<1>2. <<>> \in Seq(Requests) /\ InQueue(<<>>) = {} /\ Distinct(<<>>) BY DEF InQueue, Distinct
<1>3. outcome \in [Requests -> Outcomes] BY DEF Init, Outcomes
<1>4. Owned(entry, queue, outcome) BY <1>1, <1>2, <1>3, Entries DEF Init, Owned
<1>5. Punctual BY Entries DEF Init, Punctual, WorkIsTimed
<1> QED BY <1>4, <1>5, InvIsOwned DEF Init

\* What dispatch() leaves is the invariant of the next state.
LEMMA ReadyInv ==
  ASSUME Inv, Ready, Punctual', anyAnswered' \in BOOLEAN, able' \in BOOLEAN
  PROVE  Inv'
BY DEF Ready, Inv, TypeOK, OneOwner, Owned, Open, Pending, Distinct

\* A worker that comes online keeps the request it was handed, under a timer.
LEMMA OnlineIdle == ASSUME Inv, Online PROVE Idle /\ Inv'
<1>1. entry \in Entry BY DEF Inv, TypeOK, Online
<1>2. /\ entry' \in Entry /\ entry'.current = entry.current /\ entry' # NoEntry
      /\ entry'.online
  <2>1. entry' \in Entry /\ entry'.current = entry.current /\ entry'.online BY <1>1 DEF Online, Entry
  <2> QED BY <2>1, Entries
<1>3. timers' \subseteq Requests
  <2>1. entry.current \in Requests \cup {None} BY <1>1, Entries
  <2> QED BY <2>1 DEF Inv, TypeOK, Online
<1>4. /\ Owned(entry, queue, outcome) /\ queue' = queue /\ outcome' = outcome
      /\ disabled' = disabled /\ posted' = posted /\ ~disabled /\ disabled \in BOOLEAN
      /\ anyAnswered' \in BOOLEAN /\ able' \in BOOLEAN
      /\ queue # <<>> => entry.current # None
      /\ posted \subseteq Requests \X Requests
  BY InvIsOwned DEF Online
<1>5. Owned(entry', queue', outcome') BY <1>2, <1>4 DEF Owned
<1>6. Ready BY <1>2, <1>3, <1>4, <1>5 DEF Ready
<1>7. Punctual' BY <1>2 DEF Online, Punctual, WorkIsTimed, Inv
<1> QED BY <1>2, <1>4, <1>6, <1>7, ReadyInv DEF Idle

\* A step that changes nothing but able.
LEMMA StillIdle ==
  ASSUME Inv, UNCHANGED <<queue, entry, disabled, anyAnswered, outcome, timers, posted>>,
         able' \in BOOLEAN
  PROVE  Idle /\ Inv'
BY DEF Idle, Inv, TypeOK, OneOwner, Pending, Punctual, WorkIsTimed

\* Every step and stutter settles or opens one request at most, or stops all, or
\* does neither.
LEMMA Steps ==
  ASSUME Inv, [Next]_vars
  PROVE  \/ Idle /\ Inv'
         \/ \E x, e, q, o, off : Handled(x, e, q, o, off)
         \/ \E o : Dropped(o)
<1>1. "timeout" \in Ended /\ "unavailable" \in Ended BY DEF Ended
<1>2. ASSUME NEW r \in Requests, RequestTimeout(r)
      PROVE  \E x, e, q, o, off : Handled(x, e, q, o, off)
  <2>1. entry.current = r BY <1>2 DEF RequestTimeout, Inv, Punctual, WorkIsTimed
  <2>2. entry # NoEntry BY <2>1, Entries, RequestAssumption
  <2>3. Retire(queue, outcome, "timeout", TRUE) BY <1>2, <2>1 DEF RequestTimeout
  <2> QED BY <2>2, <2>3, <1>1, RetireHandled
<1>3. CASE StartTimeout \/ Died
  <2>1. /\ entry # NoEntry
        /\ \/ Retire(queue, outcome, "timeout", TRUE)
           \/ Retire(queue, outcome, "unavailable", FALSE)
    BY <1>3 DEF StartTimeout, Died
  <2> QED BY <2>1, <1>1, RetireHandled
<1>4. ASSUME NEW w \in Requests, NEW r \in Requests, Answer(w, r)
      PROVE  (Idle /\ Inv') \/ \E x, e, q, o, off : Handled(x, e, q, o, off)
  <2>1. CASE entry.id = w /\ entry.current = r BY <2>1, <1>4, AnswerHandled
  <2>2. CASE ~(entry.id = w /\ entry.current = r)
    <3>1. able' \in BOOLEAN BY <1>4 DEF Answer, Inv, TypeOK
    <3> QED BY <2>2, <3>1, <1>4, StillIdle DEF Answer
  <2> QED BY <2>1, <2>2
<1>5. CASE Environment
  <2>1. able' \in BOOLEAN BY <1>5 DEF Environment
  <2> QED BY <2>1, <1>5, StillIdle DEF Environment
<1>6. CASE UNCHANGED vars
  <2>1. able' \in BOOLEAN BY <1>6 DEF vars, Inv, TypeOK
  <2> QED BY <2>1, <1>6, StillIdle DEF vars
<1> QED
  BY <1>2, <1>3, <1>4, <1>5, <1>6, RunHandled, AbortHandled, StopDropped, OnlineIdle DEF Next, Timeout

\* Two flags stay flags, whatever the step.
LEMMA FlagTypes == Inv /\ [Next]_vars => anyAnswered' \in BOOLEAN /\ able' \in BOOLEAN
BY DEF Inv, TypeOK, Next, vars, Run, Abort, Stop, Online, Died, Answer, Timeout, StartTimeout,
       RequestTimeout, Environment

\* Every step and stutter of the host keeps the invariant.
LEMMA NextInv == Inv /\ [Next]_vars => Inv'
<1> SUFFICES ASSUME Inv, [Next]_vars PROVE Inv' OBVIOUS
<1>1. timers \subseteq Requests /\ posted \subseteq Requests \X Requests /\ disabled \in BOOLEAN
      /\ (disabled => entry = NoEntry)
  BY DEF Inv, TypeOK, OneOwner
<1>2. ASSUME NEW x, NEW e, NEW q, NEW o, NEW off, Handled(x, e, q, o, off) PROVE Inv'
  <2>1. /\ Owned(e, q, o) /\ Timed(e, o) /\ off \in BOOLEAN /\ (off => e = NoEntry)
        /\ Dispatch(e, q, o, off)
    BY <1>2 DEF Handled
  <2> QED BY <1>1, <2>1, DispatchReady, DispatchPunctual, FlagTypes, ReadyInv
<1>3. ASSUME NEW o, Dropped(o) PROVE Inv'
  <2>1. Owned(NoEntry, <<>>, o) /\ Timed(NoEntry, o) /\ Dispatch(NoEntry, <<>>, o, disabled)
    BY <1>3 DEF Dropped
  <2> QED BY <1>1, <2>1, DispatchReady, DispatchPunctual, FlagTypes, ReadyInv
<1> QED BY <1>2, <1>3, Steps

\* The invariant holds throughout.
LEMMA Always == Spec => []Inv
BY InitInv, NextInv, PTL DEF Spec

\* The host's variables keep their types, for any set of requests.
THEOREM TypeCorrect == Spec => []TypeOK
<1>1. Inv => TypeOK BY DEF Inv
<1> QED BY <1>1, Always, PTL

\* Every open request has exactly one owner that will settle it, and none
\* waits without a busy worker, for any set of requests: no interleaving of
\* aborts, timeouts, worker deaths and answers loses a request.
THEOREM RequestsAreOwned == Spec => []OneOwner
<1>1. Inv => OneOwner BY DEF Inv
<1> QED BY <1>1, Always, PTL

\* A request in a worker is always under a timer, its own or that of the worker's
\* start, and no timer of a request that has ended is left to hit the next one.
THEOREM WorkTimed == Spec => []WorkIsTimed
<1>1. Inv => WorkIsTimed BY DEF Inv, Punctual
<1> QED BY <1>1, Always, PTL
-----------------------------------------------------------------------------
(* What the callers see                                                    *)

\* dispatch() settles nothing more, or gives the host up and leaves nothing open,
\* or fails the one request that a worker which has answered would not take.
LEMMA DispatchOutcome ==
  ASSUME NEW e, NEW q, NEW o, NEW off \in BOOLEAN,
         Owned(e, q, o), off => e = NoEntry, Dispatch(e, q, o, off)
  PROVE  \/ outcome' = o /\ disabled' = off /\ (off => Open(o) = {})
         \/ /\ disabled' = TRUE
            /\ off \/ ~able
            /\ outcome' = FailQueued(o, q, "unavailable") /\ Open(o) = InQueue(q)
         \/ /\ disabled' = FALSE /\ ~off /\ ~able /\ e # NoEntry
            /\ o[Head(q)] = "pending" /\ Head(q) \in Requests
            /\ outcome' = [o EXCEPT ![Head(q)] = "unavailable"]
<1>1. /\ e \in Entry \cup {NoEntry} /\ q \in Seq(Requests) /\ o \in [Requests -> Outcomes]
      /\ InQueue(q) \cup ({e.current} \ {None}) = Open(o)
  BY DEF Owned
<1>2. CASE e.current # None \/ q = <<>>
  <2>1. outcome' = o /\ disabled' = off BY <1>2 DEF Dispatch, Become
  <2>2. ASSUME off PROVE Open(o) = {}
    <3>1. e.current = None /\ q = <<>> BY <2>2, <1>2, Entries
    <3> QED BY <3>1, <1>1 DEF InQueue
  <2> QED BY <2>1, <2>2
<1>3. CASE e.current = None /\ q # <<>>
  <2>1. Open(o) = InQueue(q) BY <1>1, <1>3
  <2>2. CASE off
    <3>1. disabled' = TRUE /\ outcome' = FailQueued(o, q, "unavailable")
      BY <2>2, <1>3 DEF Dispatch, Become
    <3> QED BY <2>1, <2>2, <3>1
  <2>3. CASE ~off
    <3>1. \/ Hand(IF e = NoEntry THEN Spawned(Head(q)) ELSE e, q, o)
          \/ ~able /\ e.answered /\ Unreachable(q, o)
          \/ ~able /\ GiveUp(q, o)
      BY <2>3, <1>3 DEF Dispatch
    <3>2. CASE Hand(IF e = NoEntry THEN Spawned(Head(q)) ELSE e, q, o)
      <4>1. outcome' = o /\ disabled' = FALSE BY <3>2 DEF Hand, Become
      <4> QED BY <4>1, <2>3
    <3>3. CASE ~able /\ e.answered /\ Unreachable(q, o)
      <4>1. outcome' = [o EXCEPT ![Head(q)] = "unavailable"] /\ disabled' = FALSE
        BY <3>3 DEF Unreachable, Hand, Become
      <4>2. e # NoEntry BY <3>3 DEF NoEntry
      <4>3. Head(q) \in Requests /\ Head(q) \in InQueue(q) BY <1>1, <1>3, HeadTail
      <4>4. o[Head(q)] = "pending" BY <2>1, <4>3 DEF Open
      <4> QED BY <2>3, <3>3, <4>1, <4>2, <4>3, <4>4
    <3>4. CASE ~able /\ GiveUp(q, o)
      <4>1. disabled' = TRUE /\ outcome' = FailQueued(o, q, "unavailable")
        BY <3>4 DEF GiveUp, Become
      <4> QED BY <2>1, <3>4, <4>1
    <3> QED BY <3>1, <3>2, <3>3, <3>4
  <2> QED BY <2>2, <2>3
<1> QED BY <1>2, <1>3

\* A disabled host has nothing left to do.
LEMMA DisabledIsDone == ASSUME Inv, disabled PROVE Pending = {}
<1>1. entry.current = None /\ queue = <<>> BY Entries DEF Inv, OneOwner
<1> QED BY <1>1 DEF Inv, OneOwner, InQueue

\* What one step may do to the others, whatever the request it is about.
LEMMA StepUnharmed ==
  ASSUME Inv, [Next]_vars, able, NEW r \in Pending, NEW x \in Pending, r # x,
         \/ outcome'[r] \in {"timeout", "aborted"}
         \/ outcome'[r] = "unavailable" /\ entry.current = r /\ entry.answered
  PROVE  outcome'[x] = "pending"
<1>1. outcome[r] = "pending" /\ outcome[x] = "pending" /\ r \in Requests /\ x \in Requests
  BY DEF Pending
<1>2. ~disabled BY DisabledIsDone
<1>3. ASSUME NEW y, NEW e, NEW q, NEW o, NEW off, Handled(y, e, q, o, off)
      PROVE  outcome'[x] = "pending"
  <2>1. /\ Owned(e, q, o) /\ off \in BOOLEAN /\ (off => e = NoEntry) /\ Dispatch(e, q, o, off)
        /\ \A z \in Requests \ {y} : o[z] = outcome[z]
        /\ off /\ ~disabled => ~entry.answered /\ o[y] \in {outcome[y], "unavailable"}
    BY <1>3 DEF Handled
  <2>2. CASE outcome' = o
    <3>1. r = y BY <2>1, <2>2, <1>1
    <3> QED BY <3>1, <2>1, <2>2, <1>1
  <2>3. CASE off /\ outcome' = FailQueued(o, q, "unavailable")
    <3>1. outcome'[r] \in {o[r], "unavailable"} BY <2>3, <1>1 DEF FailQueued
    <3>2. ~entry.answered /\ o[r] \in {outcome[r], "unavailable"} BY <2>1, <2>3, <1>1, <1>2
    <3> QED BY <3>1, <3>2, <1>1
  <2> QED BY <2>1, <2>2, <2>3, DispatchOutcome
<1>4. ASSUME NEW o, Dropped(o) PROVE outcome'[x] = "pending"
  <2>1. outcome' = o BY <1>4 DEF Dropped, Dispatch, Become
  <2>2. o[r] = "stopped" BY <1>1, <1>4 DEF Dropped
  <2> QED BY <2>1, <2>2
<1>5. CASE Idle BY <1>1, <1>5 DEF Idle
<1> QED BY <1>3, <1>4, <1>5, Steps

\* While threads can be had, a request that is aborted or times out costs the
\* others nothing, and a worker that dies after it has answered takes only the
\* request it was on, for any number of requests.
THEOREM OthersAreUnharmed == Spec => OthersUnharmed
<1>1. ASSUME Inv, [Next]_vars
      PROVE  [ \A r, x \in Pending :
                 /\ able /\ r # x
                 /\ \/ outcome'[r] \in {"timeout", "aborted"}
                    \/ outcome'[r] = "unavailable" /\ entry.current = r /\ entry.answered
                 => outcome'[x] = "pending" ]_vars
  BY <1>1, StepUnharmed
<1> QED BY <1>1, Always, PTL DEF Spec, OthersUnharmed
-----------------------------------------------------------------------------
(* The promise                                                             *)

\* The requests a step settles, with no regard to how.
Settled == {r \in Requests : outcome[r] \notin Ended /\ outcome'[r] \in Ended}
Unreached == {r \in Settled : outcome'[r] = "unavailable"}

\* A request moves on from unasked over pending to how it ends, or stays.
Onward(before, after) ==
  \/ after = before
  \/ before = "unasked"
  \/ before = "pending" /\ after # "unasked"

\* What the promise speaks of, read from the outcomes of the host.
LEMMA PromiseReading ==
  ASSUME outcome \in [Requests -> Outcomes], outcome' \in [Requests -> Outcomes],
         disabled \in BOOLEAN, disabled' \in BOOLEAN,
         \A r \in Requests : Onward(outcome[r], outcome'[r]),
         disabled => disabled', disabled' => Open(outcome') = {}
  PROVE  /\ Promise!Final
         /\ Promise!Settles = Settled
         /\ \A how : Promise!By(how) = {r \in Settled : outcome'[r] = how}
         /\ Promise!PromiseNext <=> Promise!One \/ Promise!Abandon \/ Promise!Stopped
         /\ Promise!One <=> /\ disabled' = disabled
                            /\ Promise!AtMostOne(Settled \ Unreached)
                            /\ Promise!AtMostOne(Unreached)
         /\ Promise!Abandon <=> disabled' /\ Promise!AtMostOne(Settled \ Unreached)
         /\ Promise!Stopped <=> /\ disabled' = disabled /\ Open(outcome') = {}
                                /\ \A r \in Settled : outcome'[r] = "stopped"
<1> DEFINE asked == {r \in Requests : outcome[r] # "unasked"}
           done == {r \in Requests : outcome[r] \in Ended}
           settled == [r \in done |-> outcome[r]]
<1>1. /\ asked' = {r \in Requests : outcome'[r] # "unasked"}
      /\ done' = {r \in Requests : outcome'[r] \in Ended}
      /\ settled' = [r \in done' |-> outcome'[r]]
  OBVIOUS
<1>2. "unasked" \notin Ended /\ "pending" \notin Ended BY DEF Ended
<1>3. \A r \in Requests : outcome[r] \in Outcomes /\ outcome'[r] \in Outcomes OBVIOUS
<1>4. asked \subseteq asked' BY <1>1, <1>3 DEF Onward
<1>5. \A r \in done : r \in done' /\ outcome'[r] = outcome[r] BY <1>1, <1>2 DEF Onward
<1>6. done' \subseteq asked' BY <1>1, <1>2
<1>7. Open(outcome') = {} <=> asked' = done'
  <2>1. \A r \in Requests : outcome'[r] \in Outcomes <=> outcome'[r] \in {"unasked", "pending"} \cup Ended
    BY DEF Outcomes
  <2> QED BY <2>1, <1>1, <1>2, <1>3 DEF Open
<1>8. DOMAIN settled = done /\ DOMAIN settled' = done' BY <1>1
<1>9. \A r \in done' : settled'[r] = outcome'[r] BY <1>1
<1>10. \A r \in done : settled[r] = outcome[r] OBVIOUS
<1>11. done' \ done = Settled BY <1>1 DEF Settled
<1> HIDE DEF asked, done
<1>12. Promise!Final <=> /\ asked \subseteq asked' /\ DOMAIN settled \subseteq DOMAIN settled'
                         /\ \A r \in DOMAIN settled : settled'[r] = settled[r]
                         /\ DOMAIN settled' \subseteq asked'
                         /\ (disabled => disabled')
  BY DEF Promise!Final, asked, done
<1>13. Promise!Settles = DOMAIN settled' \ DOMAIN settled BY DEF Promise!Settles, done
<1>14. \A how : Promise!By(how) = {r \in Promise!Settles : settled'[r] = how} BY DEF Promise!By, done
<1> HIDE DEF settled
<1>15. Promise!Final BY <1>4, <1>5, <1>6, <1>8, <1>9, <1>10, <1>12
<1>16. Promise!Settles = Settled BY <1>8, <1>11, <1>13
<1>17. \A how : Promise!By(how) = {r \in Settled : outcome'[r] = how}
  BY <1>9, <1>11, <1>14, <1>16
<1>18. Promise!By("unavailable") = Unreached BY <1>17 DEF Unreached
<1>19. Promise!One <=> /\ disabled' = disabled
                       /\ Promise!AtMostOne(Settled \ Unreached)
                       /\ Promise!AtMostOne(Unreached)
  BY <1>16, <1>18 DEF Promise!One
<1>20. Promise!Abandon <=> /\ disabled' /\ asked' = DOMAIN settled'
                           /\ Promise!AtMostOne(Promise!Settles \ Promise!By("unavailable"))
  BY DEF Promise!Abandon, asked, done, settled
<1>21. Promise!Abandon <=> disabled' /\ Promise!AtMostOne(Settled \ Unreached)
  BY <1>7, <1>8, <1>16, <1>18, <1>20
<1>22. Promise!Stopped <=> /\ disabled' = disabled /\ asked' = DOMAIN settled'
                           /\ Promise!Settles = Promise!By("stopped")
  BY DEF Promise!Stopped, asked, done, settled
<1>23. Promise!Stopped <=> /\ disabled' = disabled /\ Open(outcome') = {}
                           /\ \A r \in Settled : outcome'[r] = "stopped"
  BY <1>7, <1>8, <1>16, <1>17, <1>22
<1>24. Promise!PromiseNext <=> /\ Promise!Final /\ (disabled' => asked' = DOMAIN settled')
                               /\ Promise!One \/ Promise!Abandon \/ Promise!Stopped
  BY DEF Promise!PromiseNext, asked, done, settled
<1>25. Promise!PromiseNext <=> Promise!One \/ Promise!Abandon \/ Promise!Stopped
  BY <1>7, <1>8, <1>15, <1>24
<1> QED BY <1>15, <1>16, <1>17, <1>19, <1>21, <1>23, <1>25

\* A handler settles the request it is about, and at most the one that could not
\* be handed over, unless it gives the host up.
LEMMA HandledPromise ==
  ASSUME Inv, Inv', NEW y, NEW e, NEW q, NEW o, NEW off, Handled(y, e, q, o, off)
  PROVE  Promise!PromiseNext
<1>1. /\ y \in Requests /\ Owned(e, q, o) /\ off \in BOOLEAN /\ (off => e = NoEntry)
      /\ Dispatch(e, q, o, off) /\ (disabled => off)
      /\ \A r \in Requests \ {y} : o[r] = outcome[r]
      /\ \/ o[y] = outcome[y]
         \/ outcome[y] \in {"unasked", "pending"} /\ o[y] \in {"pending"} \cup Ended
      /\ e # NoEntry => o[y] # "unavailable"
  BY DEF Handled
<1>2. /\ outcome \in [Requests -> Outcomes] /\ outcome' \in [Requests -> Outcomes]
      /\ disabled \in BOOLEAN /\ disabled' \in BOOLEAN
      /\ o \in [Requests -> Outcomes]
  BY <1>1 DEF Inv, TypeOK, Owned
<1>3. "unasked" \notin Ended /\ "pending" \notin Ended /\ "unavailable" \in Ended BY DEF Ended
<1>4. disabled' => Open(outcome') = {}
  <2>1. disabled' => entry'.current = None /\ queue' = <<>> BY Entries DEF Inv, OneOwner
  <2> QED BY <2>1 DEF Inv, OneOwner, InQueue, Pending, Open
<1>5. \A r \in Requests : Onward(outcome[r], o[r]) BY <1>1, <1>3 DEF Onward
<1>6. \/ outcome' = o /\ disabled' = off
      \/ disabled' = TRUE /\ outcome' = FailQueued(o, q, "unavailable") /\ Open(o) = InQueue(q)
      \/ /\ disabled' = FALSE /\ ~off /\ e # NoEntry /\ Head(q) \in Requests
         /\ o[Head(q)] = "pending" /\ outcome' = [o EXCEPT ![Head(q)] = "unavailable"]
  BY <1>1, DispatchOutcome
<1>7. \A r \in Requests : outcome'[r] = o[r] \/ (o[r] = "pending" /\ outcome'[r] = "unavailable")
  <2>1. CASE outcome' = o BY <2>1
  <2>2. CASE outcome' = FailQueued(o, q, "unavailable") /\ Open(o) = InQueue(q)
    BY <2>2 DEF FailQueued, Open
  <2>3. CASE /\ Head(q) \in Requests /\ o[Head(q)] = "pending"
             /\ outcome' = [o EXCEPT ![Head(q)] = "unavailable"]
    BY <2>3, <1>2
  <2> QED BY <1>6, <2>1, <2>2, <2>3
<1>8. \A r \in Requests : Onward(outcome[r], outcome'[r]) BY <1>3, <1>5, <1>7 DEF Onward
<1>9. disabled => disabled' BY <1>1, <1>6
<1>10. Settled \ Unreached \subseteq {y} BY <1>1, <1>7 DEF Settled, Unreached
<1>11. Promise!AtMostOne(Settled \ Unreached) BY <1>10 DEF Promise!AtMostOne
<1>12. CASE disabled' BY <1>2, <1>4, <1>8, <1>9, <1>11, <1>12, PromiseReading
<1>13. CASE ~disabled'
  <2>1. Unreached \subseteq {y} \/ Unreached \subseteq {Head(q)}
    <3>1. CASE outcome' = o BY <3>1, <1>1 DEF Unreached, Settled
    <3>2. CASE /\ e # NoEntry /\ outcome' = [o EXCEPT ![Head(q)] = "unavailable"]
      <4>1. \A r \in Requests : r # Head(q) => outcome'[r] = o[r] BY <3>2, <1>2
      <4>2. o[y] # "unavailable" BY <3>2, <1>1
      <4> QED BY <4>1, <4>2, <1>1, <1>3 DEF Unreached, Settled
    <3> QED BY <1>6, <1>13, <3>1, <3>2
  <2>2. Promise!AtMostOne(Unreached) BY <2>1 DEF Promise!AtMostOne
  <2>3. disabled' = disabled BY <1>2, <1>9, <1>13
  <2> QED BY <2>2, <2>3, <1>2, <1>4, <1>8, <1>9, <1>11, PromiseReading
<1> QED BY <1>12, <1>13

\* stop() settles all that is open, and as stopped.
LEMMA DroppedPromise ==
  ASSUME Inv, Inv', NEW o, Dropped(o)
  PROVE  Promise!PromiseNext
<1>1. outcome' = o /\ disabled' = disabled BY DEF Dropped, Dispatch, Become
<1>2. \A r \in Requests : o[r] = IF outcome[r] = "pending" THEN "stopped" ELSE outcome[r]
  BY DEF Dropped
<1>3. Open(outcome') = {} BY <1>1, <1>2 DEF Open
<1>4. \A r \in Requests : Onward(outcome[r], outcome'[r]) BY <1>1, <1>2 DEF Onward
<1>5. \A r \in Settled : outcome'[r] = "stopped" BY <1>1, <1>2 DEF Settled
<1>6. /\ outcome \in [Requests -> Outcomes] /\ outcome' \in [Requests -> Outcomes]
      /\ disabled \in BOOLEAN /\ disabled' \in BOOLEAN
  BY DEF Inv, TypeOK
<1> QED BY <1>1, <1>3, <1>4, <1>5, <1>6, PromiseReading

\* The host keeps the promise made to its callers: a request settles once and
\* for good, one at a time, except when the host is given up or stopped.
THEOREM PromiseKept == Spec => ImplementsPromise
<1>1. ASSUME Init PROVE Promise!PromiseInit
  <2>1. {r \in Requests : outcome[r] # "unasked"} = {} BY <1>1 DEF Init
  <2>2. {r \in Requests : outcome[r] \in Ended} = {} BY <1>1 DEF Init, Ended
  <2> QED BY <1>1, <2>1, <2>2 DEF Init, Promise!PromiseInit
<1>2. ASSUME Inv, Inv', [Next]_vars PROVE [Promise!PromiseNext]_(Promise!promise)
  <2>1. CASE Idle
    <3>1. outcome' = outcome /\ disabled' = disabled BY <2>1 DEF Idle
    <3> QED BY <3>1 DEF Promise!promise
  <2> QED BY <1>2, <2>1, Steps, HandledPromise, DroppedPromise
<1> QED BY <1>1, <1>2, Always, PTL DEF Spec, ImplementsPromise, Promise!PromiseSpec
=============================================================================
