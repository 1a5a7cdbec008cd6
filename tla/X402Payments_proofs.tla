------------------------ MODULE X402Payments_proofs ------------------------
(***************************************************************************)
(* Proofs about X402Payments, for any number of tabs, requests, retry      *)
(* shapes and allowances.                                                  *)
(***************************************************************************)
EXTENDS X402Payments, FiniteSetTheorems, SequenceTheorems, TLAPS

\* What the two channels carry.
Results == {"success", "replied", "cancelled", "failure", "refused"}
EventOf == [kind : {"needed"} \cup Results, of : Requests]
UnlockEvent == [kind : {"unlock"}, tab : Tabs]
CallOf == [kind : {"details", "reject"}, of : Requests]
ApproveCall == [kind : {"approve"}, of : Requests, grant : Grants \cup {0}]
TabCall == [kind : {"cancel", "resume"}, tab : Tabs]
EventType == EventOf \cup UnlockEvent
CallType == CallOf \cup ApproveCall \cup TabCall

Signed == [by : {"cap", "manual"}]

\* Signatures of one shape, the oldest of which have expired.
Bundle == {b \in [old : Nat, queue : Seq(Signed)] : b.old <= Len(b.queue)}
Detection == {NoDetection} \cup [of : Requests, card : BOOLEAN]
Card == {NoCard} \cup [of : Requests, signing : BOOLEAN]
Cap == [amount : Grants \cup Updates \cup {0}, spent : Nat]
Prompt == [shown : BOOLEAN, tab : Tabs \cup {None}]

Types ==
  /\ req \in [Requests -> Request]
  /\ slot \in [Tabs -> Detection]
  /\ waiter \in [Tabs -> Requests \cup {None}] /\ resume \in [Tabs -> Requests \cup {None}]
  /\ armed \subseteq Requests
  /\ pending \in [Tabs -> [Keys -> Bundle]]
  /\ cap \in Cap
  /\ tabs \subseteq Tabs
  /\ card \in Card /\ prompt \in Prompt
  /\ events \in Seq(EventType) /\ calls \in Seq(CallType)
  /\ details \subseteq Requests
  /\ agreed \subseteq Requests
  /\ attached \in [Requests -> Nat] /\ booked \in [Requests -> Nat] /\ lost \in [Requests -> Nat]

\* The elements of a finite set, put in a sequence, are those of the set.
LEMMA SetInOrder ==
  ASSUME NEW S, IsFiniteSet(S)
  PROVE  SetToSeq(S) \in Seq(S)
<1> DEFINE n == Cardinality(S)
<1>1. n \in Nat /\ \E f \in [1..n -> S] : IsInjective(f)
  BY FS_CardinalityType DEF ExistsBijection, Bijection, Injection, Surjection, IsInjective
<1>2. SetToSeq(S) \in [1..n -> S] BY <1>1 DEF SetToSeq
<1> QED BY <1>1, <1>2

\* A request moves to another state, and nothing else of any request changes.
LEMMA ToEffect ==
  ASSUME NEW R \in [Requests -> Request], NEW r \in Requests, NEW state \in States
  PROVE  /\ To(R, r, state) \in [Requests -> Request]
         /\ To(R, r, state)[r].state = state
         /\ \A q \in Requests \ {r} : To(R, r, state)[q] = R[q]
         /\ \A q \in Requests : /\ To(R, r, state)[q].tab = R[q].tab
                                /\ To(R, r, state)[q].page = R[q].page
                                /\ To(R, r, state)[q].hops = R[q].hops
                                /\ To(R, r, state)[q].grant = R[q].grant
BY DEF To, Request

\* The same for a set of requests.
LEMMA AllEffect ==
  ASSUME NEW R \in [Requests -> Request], NEW S \in SUBSET Requests, NEW state \in States
  PROVE  /\ All(R, S, state) \in [Requests -> Request]
         /\ \A q \in Requests :
              /\ q \in S => All(R, S, state)[q].state = state
              /\ q \notin S => All(R, S, state)[q] = R[q]
              /\ All(R, S, state)[q].tab = R[q].tab /\ All(R, S, state)[q].page = R[q].page
              /\ All(R, S, state)[q].hops = R[q].hops /\ All(R, S, state)[q].grant = R[q].grant
BY DEF All, Request

Granted(R, r, state, grant) == [R EXCEPT ![r].state = state, ![r].grant = grant]

\* A request moves to a state with the allowance its card granted.
LEMMA GrantEffect ==
  ASSUME NEW R \in [Requests -> Request], NEW r \in Requests, NEW state \in States,
         NEW grant \in Grants \cup {0}
  PROVE  /\ Granted(R, r, state, grant) \in [Requests -> Request]
         /\ Granted(R, r, state, grant)[r].state = state
         /\ \A q \in Requests \ {r} : Granted(R, r, state, grant)[q] = R[q]
         /\ \A q \in Requests : /\ Granted(R, r, state, grant)[q].tab = R[q].tab
                                /\ Granted(R, r, state, grant)[q].page = R[q].page
                                /\ Granted(R, r, state, grant)[q].hops = R[q].hops
BY DEF Granted, Request

\* What is sent, received, shown and stored is well typed.
LEMMA TypeFacts ==
  ASSUME Types
  PROVE  /\ \A r \in Requests : /\ req[r].state \in States /\ Tab(r) \in Tabs
                                /\ req[r].key \in Keys /\ Price[req[r].key] \in Nat \ {0}
                                /\ req[r].page \in BOOLEAN /\ req[r].grant \in Grants \cup {0}
                                /\ req[r].hops \in Nat
         /\ \A t \in Tabs, k \in Keys : pending[t][k] \in Bundle
         /\ cap.amount \in Nat /\ cap.spent \in Nat
         /\ \A k \in {"needed"} \cup Results, r \in Requests : Event(k, r) \in EventType
         /\ \A t \in Tabs : [kind |-> "unlock", tab |-> t] \in EventType
         /\ \A r \in Requests : Withdrawal(r) \in CallType
         /\ card # NoCard => card \in [of : Requests, signing : BOOLEAN]
         /\ card # NoCard => card.of \in Requests /\ card.signing \in BOOLEAN
<1>1. \A r \in Requests : /\ req[r].state \in States /\ Tab(r) \in Tabs
                          /\ req[r].key \in Keys /\ Price[req[r].key] \in Nat \ {0}
                          /\ req[r].page \in BOOLEAN /\ req[r].grant \in Grants \cup {0}
                          /\ req[r].hops \in Nat
  BY PriceAssumption, HopAssumption DEF Types, Request, Tab
<1>2. \A t \in Tabs, k \in Keys : pending[t][k] \in Bundle BY DEF Types
<1>3. cap.amount \in Nat /\ cap.spent \in Nat
  <2>1. cap \in Cap BY DEF Types
  <2>2. Grants \cup Updates \cup {0} \subseteq Nat BY CapAssumption
  <2> QED BY <2>1, <2>2 DEF Cap
<1>4. \A k \in {"needed"} \cup Results, r \in Requests : Event(k, r) \in EventType
  BY DEF Event, EventType, EventOf
<1>5. \A t \in Tabs : [kind |-> "unlock", tab |-> t] \in EventType BY DEF EventType, UnlockEvent
<1>6. \A r \in Requests : Withdrawal(r) \in CallType
  BY <1>1 DEF Withdrawal, CallType, CallOf, TabCall
<1>7. card # NoCard => card \in [of : Requests, signing : BOOLEAN] BY DEF Types, Card
<1> QED BY <1>1, <1>2, <1>3, <1>4, <1>5, <1>6, <1>7

\* The head of a channel, and what is left of it.
LEMMA HeadTypes ==
  ASSUME Types
  PROVE  /\ events # <<>> =>
              /\ Head(events) \in EventType /\ Tail(events) \in Seq(EventType)
              /\ Head(events).kind \in {"needed"} \cup Results => Head(events).of \in Requests
              /\ Head(events).kind = "unlock" => Head(events).tab \in Tabs
         /\ calls # <<>> =>
              /\ Head(calls) \in CallType /\ Tail(calls) \in Seq(CallType)
              /\ Head(calls).kind \in {"details", "reject", "approve"} => Head(calls).of \in Requests
              /\ Head(calls).kind = "approve" => Head(calls).grant \in Grants \cup {0}
              /\ Head(calls).kind \in {"cancel", "resume"} => Head(calls).tab \in Tabs
<1>1. events # <<>> => Head(events) \in EventType /\ Tail(events) \in Seq(EventType) BY DEF Types
<1>2. calls # <<>> => Head(calls) \in CallType /\ Tail(calls) \in Seq(CallType) BY DEF Types
<1>3. \A e \in EventType : /\ e.kind \in {"needed"} \cup Results => e.of \in Requests
                           /\ e.kind = "unlock" => e.tab \in Tabs
  BY DEF EventType, EventOf, UnlockEvent, Results
<1>4. \A c \in CallType : /\ c.kind \in {"details", "reject", "approve"} => c.of \in Requests
                          /\ c.kind = "approve" => c.grant \in Grants \cup {0}
                          /\ c.kind \in {"cancel", "resume"} => c.tab \in Tabs
  BY DEF CallType, CallOf, ApproveCall, TabCall
<1> QED BY <1>1, <1>2, <1>3, <1>4
\* What becomes of the signatures of one shape: one more expires, the oldest is
\* taken, what expired is swept away, one is put to them; there are none.
LEMMA BundleEffect ==
  ASSUME NEW b \in Bundle
  PROVE  /\ b.old \in Nat /\ b.queue \in Seq(Signed)
         /\ b.old < Len(b.queue) => [b EXCEPT !.old = @ + 1] \in Bundle
         /\ b.queue # <<>> =>
              [old |-> IF b.old > 0 THEN b.old - 1 ELSE 0, queue |-> Tail(b.queue)] \in Bundle
         /\ Swept(b) \in Bundle
         /\ \A x \in Signed : [b EXCEPT !.queue = Append(@, x)] \in Bundle
         /\ NoSignatures \in Bundle
<1>1. b \in [old : Nat, queue : Seq(Signed)] /\ b.old <= Len(b.queue) BY DEF Bundle
<1>2. b.old \in Nat /\ b.queue \in Seq(Signed) /\ Len(b.queue) \in Nat BY <1>1
<1>3. ASSUME b.old < Len(b.queue) PROVE [b EXCEPT !.old = @ + 1] \in Bundle
  <2>1. [b EXCEPT !.old = @ + 1] \in [old : Nat, queue : Seq(Signed)]
        /\ [b EXCEPT !.old = @ + 1].old = b.old + 1 /\ [b EXCEPT !.old = @ + 1].queue = b.queue
    BY <1>1, <1>2
  <2> QED BY <1>2, <1>3, <2>1 DEF Bundle
<1>4. ASSUME b.queue # <<>>
      PROVE  [old |-> IF b.old > 0 THEN b.old - 1 ELSE 0, queue |-> Tail(b.queue)] \in Bundle
  <2> DEFINE n == IF b.old > 0 THEN b.old - 1 ELSE 0
  <2>1. Tail(b.queue) \in Seq(Signed) /\ Len(Tail(b.queue)) = Len(b.queue) - 1 /\ Len(b.queue) > 0
    BY <1>2, <1>4
  <2>2. n \in Nat /\ n <= Len(b.queue) - 1 BY <1>1, <1>2, <2>1
  <2> HIDE DEF n
  <2> QED BY <2>1, <2>2 DEF Bundle
<1>5. Swept(b) \in Bundle
  <2>1. SubSeq(b.queue, b.old + 1, Len(b.queue)) \in Seq(Signed)
    <3>1. \A i \in (b.old + 1)..Len(b.queue) : i \in 1..Len(b.queue) /\ b.queue[i] \in Signed
      <4>1. \A i \in (b.old + 1)..Len(b.queue) : i \in 1..Len(b.queue) BY <1>2
      <4> QED BY <1>2, <4>1
    <3> QED BY <1>2, <3>1, SubSeqProperties
  <2>2. Len(SubSeq(b.queue, b.old + 1, Len(b.queue))) \in Nat BY <2>1
  <2> QED BY <2>1, <2>2 DEF Swept, Bundle
<1>6. ASSUME NEW x \in Signed PROVE [b EXCEPT !.queue = Append(@, x)] \in Bundle
  <2>1. Append(b.queue, x) \in Seq(Signed) /\ Len(Append(b.queue, x)) = Len(b.queue) + 1 BY <1>2
  <2>2. [b EXCEPT !.queue = Append(@, x)] \in [old : Nat, queue : Seq(Signed)]
        /\ [b EXCEPT !.queue = Append(@, x)].old = b.old
        /\ [b EXCEPT !.queue = Append(@, x)].queue = Append(b.queue, x)
    BY <1>1, <2>1
  <2>3. b.old <= Len(b.queue) + 1 BY <1>1, <1>2
  <2> QED BY <2>1, <2>2, <2>3 DEF Bundle
<1>7. NoSignatures \in Bundle BY DEF NoSignatures, Bundle
<1> QED BY <1>2, <1>3, <1>4, <1>5, <1>6, <1>7

\* The signatures of one shape change.
LEMMA BucketTypes ==
  ASSUME NEW P \in [Tabs -> [Keys -> Bundle]], NEW t \in Tabs, NEW k \in Keys, NEW b \in Bundle
  PROVE  [P EXCEPT ![t][k] = b] \in [Tabs -> [Keys -> Bundle]]
<1> DEFINE B == [P[t] EXCEPT ![k] = b]
<1>1. B \in [Keys -> Bundle] OBVIOUS
<1>2. [P EXCEPT ![t][k] = b] = [P EXCEPT ![t] = B] OBVIOUS
<1> HIDE DEF B
<1> QED BY <1>1, <1>2

\* What leaves with a request: nothing, a signature that is withheld or has
\* expired, or one that goes.
LEMMA InjectEffect ==
  ASSUME Types, NEW r \in Requests, Inject(r)
  PROVE  /\ pending' \in [Tabs -> [Keys -> Bundle]] /\ cap' \in Cap
         /\ \/ UNCHANGED <<armed, cap, attached>>
            \/ /\ armed' = armed \cup {r}
               /\ attached' = [attached EXCEPT ![r] = @ + 1]
               /\ ~Withheld([by |-> Head(Bucket(r).queue).by, key |-> req[r].key])
               /\ cap' = IF Fits(Price[req[r].key])
                         THEN [cap EXCEPT !.spent = @ + Price[req[r].key]] ELSE cap
<1>1. /\ Tab(r) \in Tabs /\ req[r].key \in Keys /\ Price[req[r].key] \in Nat
      /\ pending[Tab(r)][req[r].key] \in Bundle /\ cap.spent \in Nat
  BY TypeFacts
<1>2. pending' \in [Tabs -> [Keys -> Bundle]]
  <2> DEFINE t == Tab(r)  k == req[r].key  b == pending[t][k]
             c == [old |-> IF b.old > 0 THEN b.old - 1 ELSE 0, queue |-> Tail(b.queue)]
  <2>1. b.queue # <<>> => c \in Bundle BY <1>1, BundleEffect
  <2>2. pending \in [Tabs -> [Keys -> Bundle]] BY DEF Types
  <2>3. pending' = pending \/ (b.queue # <<>> /\ pending' = [pending EXCEPT ![t][k] = c])
    BY DEF Inject, Bucket
  <2>4. t \in Tabs /\ k \in Keys BY <1>1
  <2> HIDE DEF t, k, b, c
  <2>5. CASE pending' = pending BY <2>2, <2>5
  <2>6. CASE b.queue # <<>> /\ pending' = [pending EXCEPT ![t][k] = c]
    BY <2>1, <2>2, <2>4, <2>6, BucketTypes
  <2> QED BY <2>3, <2>5, <2>6
<1>3. cap' = cap \/ cap' = [cap EXCEPT !.spent = @ + Price[req[r].key]] BY DEF Inject
<1>4. cap' \in Cap
  <2>1. cap.spent + Price[req[r].key] \in Nat BY <1>1
  <2>2. cap \in Cap BY DEF Types
  <2> QED BY <1>3, <2>1, <2>2 DEF Cap
<1> QED BY <1>2, <1>4 DEF Inject

\* Hiding what the sidebar shows sends a withdrawal at most.
LEMMA HideTypes ==
  ASSUME Types, Hide
  PROVE  calls' \in Seq(CallType)
<1>1. card # NoCard => Withdrawal(card.of) \in CallType BY TypeFacts
<1> QED BY <1>1 DEF Hide, Types
\* Every step keeps the types.
LEMMA NextTypes == Types /\ [Next]_vars => Types'
<1> SUFFICES ASSUME Types, [Next]_vars PROVE Types' OBVIOUS
<1> USE DEF main, sidebar, ghosts
<1>0. /\ {"new", "sent", "auto", "autoMain", "resumed", "manual", "manualMain",
          "unlock", "approval", "redirect", "offered", "over"} \subseteq States
      /\ NoDetection \in Detection /\ NoCard \in Card /\ TRUE \in BOOLEAN /\ FALSE \in BOOLEAN
      /\ \A t \in Tabs \cup {None}, b \in BOOLEAN : [shown |-> b, tab |-> t] \in Prompt
      /\ \A r \in Requests, b \in BOOLEAN : [of |-> r, card |-> b] \in Detection
      /\ \A r \in Requests, b \in BOOLEAN : [of |-> r, signing |-> b] \in Card
  BY DEF States, Detection, Card, Prompt
<1>00. /\ req \in [Requests -> Request]
       /\ \A r \in Requests, s \in States : To(req, r, s) \in [Requests -> Request]
       /\ \A S \in SUBSET Requests, s \in States : All(req, S, s) \in [Requests -> Request]
       /\ \A S \in SUBSET Requests, r \in Requests, s, u \in States :
            To(All(req, S, u), r, s) \in [Requests -> Request]
  <2>1. req \in [Requests -> Request] BY DEF Types
  <2>2. \A S \in SUBSET Requests, s \in States : All(req, S, s) \in [Requests -> Request]
    BY <2>1, AllEffect
  <2> QED BY <2>1, <2>2, ToEffect
<1>000. /\ \A e \in EventType : Append(events, e) \in Seq(EventType)
        /\ \A c \in CallType : Append(calls, c) \in Seq(CallType)
        /\ events \in Seq(EventType) /\ calls \in Seq(CallType)
        /\ prompt \in Prompt
  BY DEF Types
<1>1. ASSUME NEW r \in Requests, Issue(r) \/ Follow(r) PROVE Types'
  <2>1. Inject(r) /\ req' = To(req, r, "sent") BY <1>1 DEF Issue, Follow
  <2>2. req' \in [Requests -> Request] BY <2>1, <1>0, <1>00
  <2>3. pending' \in [Tabs -> [Keys -> Bundle]] /\ cap' \in Cap
        /\ (UNCHANGED <<armed, attached>>
            \/ (armed' = armed \cup {r} /\ attached' = [attached EXCEPT ![r] = @ + 1]))
    BY <2>1, InjectEffect
  <2>4. armed' \subseteq Requests BY <2>3 DEF Types
  <2>5. attached' \in [Requests -> Nat]
    <3>1. attached \in [Requests -> Nat] BY DEF Types
    <3> QED BY <2>3, <3>1
  <2> QED BY <1>1, <2>2, <2>3, <2>4, <2>5 DEF Types, Issue, Follow
<1>2. ASSUME NEW t \in Tabs, NEW k \in Keys, SignatureExpires(t, k) PROVE Types'
  <2> DEFINE b == [pending[t][k] EXCEPT !.old = @ + 1]
  <2>1. pending[t][k] \in Bundle BY TypeFacts
  <2>2. pending' = [pending EXCEPT ![t][k] = b] /\ b \in Bundle
    BY <1>2, <2>1, BundleEffect DEF SignatureExpires
  <2>3. pending \in [Tabs -> [Keys -> Bundle]] BY DEF Types
  <2> HIDE DEF b
  <2>4. pending' \in [Tabs -> [Keys -> Bundle]] BY <2>2, <2>3, BucketTypes
  <2> QED BY <1>2, <2>4 DEF Types, SignatureExpires
<1>3. ASSUME NEW r \in Requests, Book(r)
      PROVE  armed' \subseteq Requests /\ booked' \in [Requests -> Nat]
  BY <1>3 DEF Book, Types
<1>4. ASSUME NEW r \in Requests, Respond(r) PROVE Types'
  <2>1. req' \in [Requests -> Request] BY <1>4, <1>0, <1>00 DEF Respond
  <2> QED BY <1>3, <1>4, <2>1 DEF Types, Respond
<1>5. ASSUME NEW r \in Requests, NetworkError(r) PROVE Types'
  <2>1. req' \in [Requests -> Request] BY <1>5, <1>0, <1>00 DEF NetworkError
  <2>2. lost' \in [Requests -> Nat] BY <1>5 DEF Types, NetworkError
  <2> QED BY <1>5, <2>1, <2>2 DEF Types, NetworkError
<1>6. ASSUME NEW r \in Requests, Detect(r) PROVE Types'
  <2>1. Event("needed", r) \in EventType /\ Tab(r) \in Tabs BY TypeFacts
  <2>2. Approvals(Tab(r)) \in SUBSET Requests BY DEF Approvals
  <2>3. \/ \E s \in States : req' = To(req, r, s)
        \/ \E s \in States : req' = To(All(req, Approvals(Tab(r)), "over"), r, s)
    BY <1>0, <1>6 DEF Detect
  <2>4. \A s \in States : /\ To(req, r, s) \in [Requests -> Request]
                          /\ To(All(req, Approvals(Tab(r)), "over"), r, s) \in [Requests -> Request]
    BY <1>0, <1>00, <2>2
  <2>5. req' \in [Requests -> Request] BY <2>3, <2>4
  <2>6. slot' \in [Tabs -> Detection]
    <3>1. \E b \in BOOLEAN : slot' = [slot EXCEPT ![Tab(r)] = [of |-> r, card |-> b]]
      BY <1>6 DEF Detect
    <3> QED BY <3>1, <1>0, <2>1 DEF Types
  <2>7. events' = events \/ events' = Append(events, Event("needed", r)) BY <1>6 DEF Detect, Send
  <2>8. events' \in Seq(EventType) BY <1>000, <2>1, <2>7
  <2> QED BY <1>3, <1>6, <2>5, <2>6, <2>8 DEF Types, Detect
<1>7. ASSUME NEW r \in Requests, SignOk(r) PROVE Types'
  <2>1. Event("success", r) \in EventType /\ Event("replied", r) \in EventType
        /\ Tab(r) \in Tabs /\ req[r].key \in Keys /\ req[r].grant \in Grants \cup {0}
    BY TypeFacts DEF Results
  <2>2. req' \in [Requests -> Request]
    <3>1. req' = To(req, r, "redirect") \/ req' = To(req, r, "over") BY <1>7 DEF SignOk
    <3> QED BY <1>0, <1>00, <3>1
  <2>3. slot' \in [Tabs -> Detection] BY <1>7, <1>0, <2>1 DEF SignOk, Slots, Types
  <2>4. cap' \in Cap BY <1>7, <2>1 DEF SignOk, Types, Cap
  <2>5. pending' \in [Tabs -> [Keys -> Bundle]]
    <3> DEFINE fresh == [t \in Tabs |-> [k \in Keys |-> Swept(pending[t][k])]]
    <3>1. PICK by \in {"cap", "manual"} : Push(r, by) BY <1>7 DEF SignOk
    <3>2. fresh \in [Tabs -> [Keys -> Bundle]] BY TypeFacts, BundleEffect
    <3> DEFINE c == [fresh[Tab(r)][req[r].key] EXCEPT !.queue = Append(@, [by |-> by])]
    <3>3. pending' = [fresh EXCEPT ![Tab(r)][req[r].key] = c] BY <3>1 DEF Push
    <3> HIDE DEF fresh
    <3>4. fresh[Tab(r)][req[r].key] \in Bundle /\ [by |-> by] \in Signed BY <2>1, <3>2 DEF Signed
    <3>5. c \in Bundle BY <3>4, BundleEffect
    <3> HIDE DEF c
    <3> QED BY <2>1, <3>2, <3>3, <3>5, BucketTypes
  <2>6. events' \in Seq(EventType)
    <3>1. \/ events' = events
          \/ \E k \in {"success", "replied"} : events' = Append(events, Event(k, r))
      BY <1>7 DEF SignOk, Notify, Send, Signing
    <3> QED BY <1>000, <2>1, <3>1
  <2> QED BY <1>7, <2>2, <2>3, <2>4, <2>5, <2>6 DEF Types, SignOk
<1>8. ASSUME NEW r \in Requests, SignFails(r) PROVE Types'
  <2>1. Event("failure", r) \in EventType /\ Event("refused", r) \in EventType
    BY TypeFacts DEF Results
  <2>2. req' \in [Requests -> Request]
    <3>1. \E s \in States : req' = To(req, r, s) BY <1>8, <1>0 DEF SignFails
    <3> QED BY <1>00, <3>1
  <2>3. events' \in Seq(EventType)
    <3>1. \/ events' = events
          \/ \E k \in {"failure", "refused"} : events' = Append(events, Event(k, r))
      BY <1>8 DEF SignFails, Notify, Send
    <3> QED BY <1>000, <2>1, <3>1
  <2> QED BY <1>8, <2>2, <2>3 DEF Types, SignFails
<1>9. ASSUME NEW r \in Requests, SignLocked(r) PROVE Types'
  <2>1. Tab(r) \in Tabs /\ [kind |-> "unlock", tab |-> Tab(r)] \in EventType BY TypeFacts
  <2>2. OlderWait(Tab(r)) \in SUBSET Requests BY DEF OlderWait
  <2>3. req' = To(req, r, "over") \/ req' = To(All(req, OlderWait(Tab(r)), "over"), r, "unlock")
    BY <1>9 DEF SignLocked
  <2>4. /\ To(req, r, "over") \in [Requests -> Request]
        /\ To(All(req, OlderWait(Tab(r)), "over"), r, "unlock") \in [Requests -> Request]
    BY <1>0, <1>00, <2>2
  <2>5. req' \in [Requests -> Request] BY <2>3, <2>4
  <2>6. waiter' \in [Tabs -> Requests \cup {None}] /\ resume' \in [Tabs -> Requests \cup {None}]
    BY <1>9, <2>1 DEF SignLocked, Types
  <2>7. events' \in Seq(EventType) BY <1>9, <1>000, <2>1 DEF SignLocked, SendIfOpen
  <2> QED BY <1>9, <2>5, <2>6, <2>7 DEF Types, SignLocked
<1>10. ASSUME NEW r \in Requests, ExpireApproval(r) PROVE Types'
  <2>1. Event("failure", r) \in EventType /\ Tab(r) \in Tabs BY TypeFacts DEF Results
  <2>2. req' \in [Requests -> Request] BY <1>10, <1>0, <1>00 DEF ExpireApproval
  <2>3. slot' \in [Tabs -> Detection] BY <1>10, <1>0, <2>1 DEF ExpireApproval, Types
  <2>4. events' \in Seq(EventType) BY <1>10, <1>000, <2>1 DEF ExpireApproval, Send
  <2> QED BY <1>10, <2>2, <2>3, <2>4 DEF Types, ExpireApproval
<1>11. ASSUME NEW t \in Tabs, ExpireUnlock(t) PROVE Types'
  <2>1. waiter[t] \in Requests BY <1>11 DEF ExpireUnlock, Types
  <2>2. req' \in [Requests -> Request] BY <1>11, <1>0, <1>00, <2>1 DEF ExpireUnlock
  <2>3. waiter' \in [Tabs -> Requests \cup {None}] BY <1>11 DEF ExpireUnlock, Types
  <2> QED BY <1>11, <2>2, <2>3 DEF Types, ExpireUnlock
<1>12. ASSUME NEW t \in Tabs, ExpireResume(t) PROVE Types'
  <2>1. resume' \in [Tabs -> Requests \cup {None}] BY <1>12 DEF ExpireResume, Types
  <2> QED BY <1>12, <2>1 DEF Types, ExpireResume
<1>13. CASE ChangeCap
  <2>1. cap' \in Cap
    <3>1. cap \in Cap BY DEF Types
    <3> QED BY <1>13, <3>1 DEF ChangeCap, Cap
  <2> QED BY <1>13, <2>1 DEF Types, ChangeCap
<1>14. ASSUME NEW t \in Tabs, CloseTab(t) PROVE Types'
  <2> DEFINE E == {Event("cancelled", r) : r \in Cards(t)}
  <2>1. E \subseteq EventType
    <3>1. Cards(t) \subseteq Requests BY DEF Cards, Approvals
    <3> QED BY <3>1, TypeFacts DEF Results
  <2>2. IsFiniteSet(E)
    <3>1. IsFiniteSet(Cards(t))
      <4>1. Cards(t) \in SUBSET Requests BY DEF Cards, Approvals
      <4> QED BY <4>1, RequestAssumption, FS_Subset
    <3> DEFINE f == [r \in Cards(t) |-> Event("cancelled", r)]
    <3>2. f \in Surjection(Cards(t), E) BY DEF Surjection
    <3> HIDE DEF E, f
    <3> QED BY <3>1, <3>2, FS_Surjection DEF ExistsSurjection
  <2>3. SetToSeq(E) \in Seq(EventType)
    <3>1. SetToSeq(E) \in Seq(E) BY <2>2, SetInOrder
    <3> QED BY <3>1, <2>1, SeqMonotonic
  <2>4. events' \in Seq(EventType) BY <1>14, <2>3 DEF CloseTab, Types
  <2>5. req' \in [Requests -> Request] BY <1>14, <1>0, <1>00 DEF CloseTab
  <2>6. slot' \in [Tabs -> Detection] BY <1>14, <1>0 DEF Types, CloseTab
  <2>7. waiter' \in [Tabs -> Requests \cup {None}] /\ resume' \in [Tabs -> Requests \cup {None}]
    BY <1>14 DEF Types, CloseTab
  <2>8. pending' \in [Tabs -> [Keys -> Bundle]]
    <3>1. [k \in Keys |-> NoSignatures] \in [Keys -> Bundle] BY DEF NoSignatures, Bundle
    <3> QED BY <1>14, <3>1 DEF Types, CloseTab
  <2>9. booked' \in [Requests -> Nat] /\ armed' \subseteq Requests /\ tabs' \subseteq Tabs
    BY <1>14 DEF Types, CloseTab
  <2> QED BY <1>14, <2>4, <2>5, <2>6, <2>7, <2>8, <2>9 DEF Types, CloseTab
<1>15. CASE HandleDetails
  <2>1. Head(calls).of \in Requests /\ calls' \in Seq(CallType)
    BY <1>15, HeadTypes DEF HandleDetails, Answered
  <2> QED BY <1>15, <2>1 DEF Types, HandleDetails
<1>16. CASE HandleApprove
  <2> DEFINE r == Head(calls).of  grant == Head(calls).grant
  <2>1. r \in Requests /\ grant \in Grants \cup {0} /\ calls' \in Seq(CallType)
    BY <1>16, HeadTypes DEF HandleApprove, Answered
  <2>2. Event("refused", r) \in EventType BY <2>1, TypeFacts DEF Results
  <2>3. \/ UNCHANGED req
        \/ \E s \in States : req' = Granted(req, r, s, grant)
    BY <1>16, <1>0 DEF HandleApprove, Paid, Granted
  <2>4. events' = events \/ events' = Append(events, Event("refused", r))
    BY <1>16 DEF HandleApprove, Send
  <2> HIDE DEF r, grant
  <2>5. req' \in [Requests -> Request] BY <1>00, <2>1, <2>3, GrantEffect
  <2>6. events' \in Seq(EventType) BY <1>000, <2>2, <2>4
  <2> QED BY <1>16, <2>1, <2>5, <2>6 DEF Types, HandleApprove
<1>17. CASE HandleReject
  <2>1. calls' \in Seq(CallType) BY <1>17, HeadTypes DEF HandleReject, Answered
  <2>2. CASE Head(calls).kind = "reject"
    <3>1. Head(calls).of \in Requests BY <1>17, <2>2, HeadTypes DEF HandleReject, Answered
    <3>2. req' = req \/ req' = To(req, Head(calls).of, "over") BY <1>17, <2>2 DEF HandleReject
    <3>3. req' \in [Requests -> Request] BY <1>0, <1>00, <3>1, <3>2
    <3> QED BY <1>17, <2>1, <2>2, <3>3 DEF Types, HandleReject
  <2>3. CASE Head(calls).kind = "cancel"
    <3>1. Head(calls).tab \in Tabs BY <1>17, <2>3, HeadTypes DEF HandleReject, Answered
    <3>2. slot' \in [Tabs -> Detection] BY <1>17, <1>0, <2>3, <3>1 DEF HandleReject, Types
    <3> QED BY <1>17, <2>1, <2>3, <3>2 DEF Types, HandleReject
  <2> QED BY <1>17, <2>2, <2>3 DEF HandleReject
<1>18. CASE HandleResume
  <2> DEFINE t == Head(calls).tab
  <2>1. t \in Tabs /\ calls' \in Seq(CallType) BY <1>18, HeadTypes DEF HandleResume, Answered
  <2>2. req' \in [Requests -> Request]
    <3>1. \/ req' = req
          \/ waiter[t] \in Requests /\ req' = To(req, waiter[t], "auto")
          \/ resume[t] \in Requests /\ req' = To(req, resume[t], "resumed")
      BY <1>18, <2>1 DEF HandleResume, Types
    <3> QED BY <1>0, <1>00, <3>1
  <2>3. waiter' \in [Tabs -> Requests \cup {None}] /\ resume' \in [Tabs -> Requests \cup {None}]
    BY <1>18, <2>1 DEF HandleResume, Types
  <2> QED BY <1>18, <2>1, <2>2, <2>3 DEF Types, HandleResume
<1>19. CASE HandleNeeded
  <2>1. events' \in Seq(EventType) /\ Head(events).of \in Requests
    BY <1>19, HeadTypes DEF HandleNeeded, Received
  <2>2. [kind |-> "details", of |-> Head(events).of] \in CallType
    BY <2>1 DEF CallType, CallOf
  <2>3. calls' \in Seq(CallType) BY <1>19, <1>000, <2>2 DEF HandleNeeded, Call
  <2> QED BY <1>19, <2>1, <2>3 DEF Types, HandleNeeded
<1>20. ASSUME NEW r \in Requests, Show(r) PROVE Types'
  <2>1. calls' \in Seq(CallType) BY <1>20, HideTypes DEF Show, Types
  <2>2. card' \in Card BY <1>20, <1>0 DEF Show, Types
  <2>3. prompt' \in Prompt
    <3>1. prompt' = prompt \/ prompt' = [shown |-> FALSE, tab |-> None] BY <1>20 DEF Show
    <3> QED BY <1>0, <1>000, <3>1
  <2> QED BY <1>20, <2>1, <2>2, <2>3 DEF Types, Show
<1>21. CASE Pay
  <2>1. card.of \in Requests /\ card \in [of : Requests, signing : BOOLEAN] BY <1>21, TypeFacts DEF Pay
  <2>2. \A g \in Grants \cup {0} : [kind |-> "approve", of |-> card.of, grant |-> g] \in CallType
    BY <2>1 DEF CallType, ApproveCall
  <2>3. calls' \in Seq(CallType) BY <1>21, <2>2 DEF Pay, Call, Types
  <2>4. card' \in Card BY <1>21, <2>1 DEF Pay, Card
  <2> QED BY <1>21, <2>1, <2>3, <2>4 DEF Types, Pay
<1>22. CASE Reject BY <1>22, <1>0, HideTypes DEF Types, Reject
<1>23. CASE HandleResult
  <2>1. events' \in Seq(EventType) BY <1>23, HeadTypes DEF HandleResult, Received
  <2>2. card' \in Card BY <1>23, <1>0, TypeFacts DEF HandleResult, Types, Card
  <2> QED BY <1>23, <2>1, <2>2 DEF Types, HandleResult
<1>24. CASE HandleUnlock
  <2>1. events' \in Seq(EventType) /\ Head(events).tab \in Tabs
    BY <1>24, HeadTypes DEF HandleUnlock, Received
  <2>2. calls' \in Seq(CallType) BY <1>24, HideTypes DEF HandleUnlock, Types
  <2>3. card' \in Card BY <1>24, <1>0 DEF HandleUnlock, Types
  <2>4. prompt' \in Prompt
    <3>1. \/ prompt' = prompt
          \/ \E t \in Tabs \cup {None} : prompt' = [shown |-> TRUE, tab |-> t]
      BY <1>24, <2>1 DEF HandleUnlock
    <3> QED BY <1>0, <1>000, <3>1
  <2> QED BY <1>24, <2>1, <2>2, <2>3, <2>4 DEF Types, HandleUnlock
<1>25. CASE Unlock
  <2>1. prompt' \in Prompt BY <1>25, <1>0 DEF Unlock, Prompt
  <2>2. calls' \in Seq(CallType)
    <3>1. prompt.tab # None => prompt.tab \in Tabs BY DEF Types, Prompt
    <3>2. prompt.tab # None => [kind |-> "resume", tab |-> prompt.tab] \in CallType
      BY <3>1 DEF CallType, TabCall
    <3> QED BY <1>25, <1>000, <3>2 DEF Unlock, Call
  <2> QED BY <1>25, <2>1, <2>2 DEF Types, Unlock
<1>26. CASE UNCHANGED vars BY <1>26 DEF Types, vars
<1>27. ASSUME NEW r \in Requests, Redirected(r) PROVE Types'
  <2>1. PICK k \in Keys :
          req' = [req EXCEPT ![r].state = "redirect", ![r].key = k, ![r].hops = @ + 1]
    BY <1>27 DEF Redirected
  <2>2. req[r].hops + 1 \in 0..MaxHops BY <1>27, HopAssumption, TypeFacts DEF Redirected
  <2> DEFINE moved == [req[r] EXCEPT !.state = "redirect", !.key = k, !.hops = @ + 1]
  <2>3. req[r] \in Request /\ "redirect" \in States BY <1>0, <1>00
  <2>4. moved \in Request BY <2>2, <2>3 DEF Request
  <2>5. req' = [req EXCEPT ![r] = moved] BY <1>00, <2>1
  <2> HIDE DEF moved
  <2>6. req' \in [Requests -> Request] BY <1>00, <2>4, <2>5
  <2> QED BY <1>3, <1>27, <2>6 DEF Types, Redirected
<1> QED BY <1>1, <1>2, <1>4, <1>5, <1>6, <1>7, <1>8, <1>9, <1>10, <1>11, <1>12, <1>13, <1>14,
           <1>15, <1>16, <1>17, <1>18, <1>19, <1>20, <1>21, <1>22, <1>23, <1>24, <1>25, <1>26, <1>27
        DEF Next, Network, Sign, Handle, Listen, User
\* The initial state is well typed.
LEMMA InitTypes == Init => Types
<1> SUFFICES ASSUME Init PROVE Types OBVIOUS
<1>1. req \in [Requests -> Request]
  BY HopAssumption DEF Init, Request, States
<1>2. /\ slot \in [Tabs -> Detection] /\ waiter \in [Tabs -> Requests \cup {None}]
      /\ resume \in [Tabs -> Requests \cup {None}] /\ card \in Card
  BY DEF Init, Detection, Card
<1>3. pending \in [Tabs -> [Keys -> Bundle]]
  <2>1. [k \in Keys |-> NoSignatures] \in [Keys -> Bundle] BY DEF NoSignatures, Bundle
  <2> QED BY <2>1 DEF Init
<1>4. cap \in Cap /\ prompt \in Prompt BY DEF Init, Cap, Prompt
<1>5. events \in Seq(EventType) /\ calls \in Seq(CallType) BY DEF Init
<1>6. /\ attached \in [Requests -> Nat] /\ booked \in [Requests -> Nat] /\ lost \in [Requests -> Nat]
  BY DEF Init
<1> QED BY <1>1, <1>2, <1>3, <1>4, <1>5, <1>6 DEF Types, Init

-----------------------------------------------------------------------------
(* What a step does to the requests *)

Goes(r, s) == req'[r].state = s /\ \A q \in Requests \ {r} : req'[q] = req[q]
Sweeps(S, r, s) ==
  /\ req'[r].state = s
  /\ \A q \in S \ {r} : req'[q].state = "over"
  /\ \A q \in Requests \ (S \cup {r}) : req'[q] = req[q]
Fixed == \A q \in Requests : req'[q].tab = req[q].tab /\ req'[q].page = req[q].page
Same == Fixed /\ \A q \in Requests : req'[q].hops = req[q].hops

\* What the network does with a request moves that one, and a detection ends
\* the older approvals of its tab.
LEMMA NetworkMoves ==
  ASSUME Types, NEW r \in Requests
  PROVE  /\ Issue(r) \/ Follow(r) => Same /\ Goes(r, "sent")
         /\ Respond(r) \/ NetworkError(r) \/ ExpireApproval(r) => Same /\ Goes(r, "over")
         /\ Redirected(r) => Fixed /\ Goes(r, "redirect") /\ req'[r].hops = req[r].hops + 1
         /\ Detect(r) =>
              /\ Same
              /\ \/ /\ KnownRejected(r) /\ Goes(r, "over")
                    /\ slot' = [slot EXCEPT ![Tab(r)] = [of |-> r, card |-> FALSE]] /\ UNCHANGED events
                 \/ /\ ~KnownRejected(r) /\ Goes(r, IF req[r].page THEN "autoMain" ELSE "auto")
                    /\ slot' = [slot EXCEPT ![Tab(r)] = [of |-> r, card |-> FALSE]] /\ UNCHANGED events
                 \/ /\ ~KnownRejected(r)
                    /\ Sweeps(Approvals(Tab(r)), r, IF req[r].page THEN "offered" ELSE "approval")
                    /\ slot' = [slot EXCEPT ![Tab(r)] = [of |-> r, card |-> TRUE]]
                    /\ Send(Event("needed", r))
<1>1. req \in [Requests -> Request] BY DEF Types
<1>2. \A s \in States : req' = To(req, r, s) => Same /\ Goes(r, s)
  BY <1>1, ToEffect DEF Same, Fixed, Goes
<1>3. {"over", "sent", "auto", "autoMain", "offered", "approval"} \subseteq States BY DEF States
<1>4. \A s \in States : req' = To(All(req, Approvals(Tab(r)), "over"), r, s) =>
        Same /\ Sweeps(Approvals(Tab(r)), r, s)
  <2> DEFINE A == Approvals(Tab(r))
  <2>1. A \in SUBSET Requests BY DEF Approvals
  <2>2. "over" \in States BY <1>3
  <2> HIDE DEF A
  <2>3. /\ All(req, A, "over") \in [Requests -> Request]
        /\ \A q \in Requests :
             /\ q \in A => All(req, A, "over")[q].state = "over"
             /\ q \notin A => All(req, A, "over")[q] = req[q]
             /\ All(req, A, "over")[q].tab = req[q].tab /\ All(req, A, "over")[q].page = req[q].page
             /\ All(req, A, "over")[q].hops = req[q].hops
    BY <1>1, <2>1, <2>2, AllEffect
  <2> QED BY <2>1, <2>3, ToEffect DEF Same, Fixed, Sweeps, A
<1>5. Issue(r) \/ Follow(r) => Same /\ Goes(r, "sent") BY <1>2, <1>3 DEF Issue, Follow
<1>6. Respond(r) \/ NetworkError(r) \/ ExpireApproval(r) => Same /\ Goes(r, "over")
  BY <1>2, <1>3 DEF Respond, NetworkError, ExpireApproval
<1>7. ASSUME Detect(r)
      PROVE /\ Same
              /\ \/ /\ KnownRejected(r) /\ Goes(r, "over")
                    /\ slot' = [slot EXCEPT ![Tab(r)] = [of |-> r, card |-> FALSE]] /\ UNCHANGED events
                 \/ /\ ~KnownRejected(r) /\ Goes(r, IF req[r].page THEN "autoMain" ELSE "auto")
                    /\ slot' = [slot EXCEPT ![Tab(r)] = [of |-> r, card |-> FALSE]] /\ UNCHANGED events
                 \/ /\ ~KnownRejected(r)
                    /\ Sweeps(Approvals(Tab(r)), r, IF req[r].page THEN "offered" ELSE "approval")
                    /\ slot' = [slot EXCEPT ![Tab(r)] = [of |-> r, card |-> TRUE]]
                    /\ Send(Event("needed", r))
  BY <1>2, <1>3, <1>4, <1>7 DEF Detect
<1>8. Redirected(r) => Fixed /\ Goes(r, "redirect") /\ req'[r].hops = req[r].hops + 1
  BY <1>1 DEF Redirected, Fixed, Goes, Request
<1> QED BY <1>5, <1>6, <1>7, <1>8

\* The end of a signature moves its request; a wait for the vault ends the
\* older wait of the tab.
LEMMA SignMoves ==
  ASSUME Types, NEW r \in Requests
  PROVE  /\ SignOk(r) => /\ Same /\ req[r].state \in Signing
                         /\ \/ Goes(r, "over")
                            \/ req[r].state \in {"auto", "manual"} /\ Goes(r, "redirect")
         /\ SignFails(r) =>
              /\ Same /\ req[r].state \in Signing
              /\ \/ req[r].state = "manual" /\ Goes(r, "approval") /\ Send(Event("failure", r))
                 \/ req[r].state = "manualMain" /\ Goes(r, "offered") /\ Send(Event("refused", r))
                 \/ req[r].state \notin ByHand /\ Goes(r, "over") /\ UNCHANGED events
         /\ SignLocked(r) =>
              /\ Same
              /\ \/ req[r].state = "auto" /\ Sweeps(OlderWait(Tab(r)), r, "unlock")
                    /\ waiter' = [waiter EXCEPT ![Tab(r)] = r] /\ UNCHANGED resume
                 \/ req[r].state = "autoMain" /\ Goes(r, "over")
                    /\ resume' = [resume EXCEPT ![Tab(r)] = r] /\ UNCHANGED waiter
<1>1. req \in [Requests -> Request] BY DEF Types
<1>2. \A s \in States : req' = To(req, r, s) => Same /\ Goes(r, s)
  BY <1>1, ToEffect DEF Same, Fixed, Goes
<1>3. {"over", "redirect", "approval", "offered", "unlock"} \subseteq States BY DEF States
<1>4. req' = To(All(req, OlderWait(Tab(r)), "over"), r, "unlock") =>
        Same /\ Sweeps(OlderWait(Tab(r)), r, "unlock")
  <2> DEFINE A == OlderWait(Tab(r))
  <2>1. A \in SUBSET Requests BY DEF OlderWait
  <2>2. "over" \in States BY <1>3
  <2> HIDE DEF A
  <2>3. /\ All(req, A, "over") \in [Requests -> Request]
        /\ \A q \in Requests :
             /\ q \in A => All(req, A, "over")[q].state = "over"
             /\ q \notin A => All(req, A, "over")[q] = req[q]
             /\ All(req, A, "over")[q].tab = req[q].tab /\ All(req, A, "over")[q].page = req[q].page
             /\ All(req, A, "over")[q].hops = req[q].hops
    BY <1>1, <2>1, <2>2, AllEffect
  <2> QED BY <1>3, <2>1, <2>3, ToEffect DEF Same, Fixed, Sweeps, A
<1>5. SignOk(r) => /\ Same /\ req[r].state \in Signing
                   /\ Goes(r, "over") \/ (req[r].state \in {"auto", "manual"} /\ Goes(r, "redirect"))
  BY <1>2, <1>3 DEF SignOk
<1>6. ASSUME SignFails(r)
      PROVE   /\ Same /\ req[r].state \in Signing
              /\ \/ req[r].state = "manual" /\ Goes(r, "approval") /\ Send(Event("failure", r))
                 \/ req[r].state = "manualMain" /\ Goes(r, "offered") /\ Send(Event("refused", r))
                 \/ req[r].state \notin ByHand /\ Goes(r, "over") /\ UNCHANGED events
  <2>1. CASE req[r].state = "manual" BY <1>2, <1>3, <1>6, <2>1 DEF SignFails, Notify
  <2>2. CASE req[r].state = "manualMain" BY <1>2, <1>3, <1>6, <2>2 DEF SignFails
  <2>3. CASE req[r].state \notin {"manual", "manualMain"}
    <3>1. req' = To(req, r, "over") /\ UNCHANGED events BY <1>6, <2>3 DEF SignFails
    <3> QED BY <1>2, <1>3, <1>6, <2>3, <3>1 DEF SignFails, ByHand
  <2> QED BY <2>1, <2>2, <2>3
<1>7. SignLocked(r) =>
              /\ Same
              /\ \/ req[r].state = "auto" /\ Sweeps(OlderWait(Tab(r)), r, "unlock")
                    /\ waiter' = [waiter EXCEPT ![Tab(r)] = r] /\ UNCHANGED resume
                 \/ req[r].state = "autoMain" /\ Goes(r, "over")
                    /\ resume' = [resume EXCEPT ![Tab(r)] = r] /\ UNCHANGED waiter
  BY <1>2, <1>3, <1>4 DEF SignLocked
<1> QED BY <1>5, <1>6, <1>7

Ended == {"new", "sent", "redirect", "offered", "approval", "unlock"}

\* A closing tab ends its requests but those being signed, and what they held.
LEMMA CloseMoves ==
  ASSUME Types, NEW t \in Tabs, CloseTab(t)
  PROVE  /\ Same
         /\ \A q \in Requests : IF Tab(q) = t /\ req[q].state \in Ended
                                THEN req'[q].state = "over" ELSE req'[q] = req[q]
<1> DEFINE S == {r \in Requests : Tab(r) = t /\ req[r].state \in Ended}
<1>1. req' = All(req, S, "over") BY DEF CloseTab, Ended
<1>2. S \in SUBSET Requests /\ \A q \in Requests : q \in S <=> Tab(q) = t /\ req[q].state \in Ended
  OBVIOUS
<1>3. req \in [Requests -> Request] /\ "over" \in States BY DEF Types, States
<1> HIDE DEF S
<1> QED BY <1>1, <1>2, <1>3, AllEffect DEF Same, Fixed

\* What a call of the sidebar does to the requests.
LEMMA CallMoves ==
  ASSUME Types
  PROVE  /\ HandleApprove =>
              LET r == Head(calls).of
              IN  /\ r \in Requests /\ Same
                  /\ \/ req[r].state = "approval" /\ Goes(r, "manual") /\ UNCHANGED events
                     \/ req[r].state # "approval" /\ Offered(r) /\ Goes(r, "manualMain") /\ UNCHANGED events
                     \/ /\ req[r].state # "approval" /\ ~Offered(r) /\ UNCHANGED req
                        /\ Send(Event("refused", r))
         /\ HandleReject =>
              \/ /\ Head(calls).kind = "reject" /\ UNCHANGED slot /\ Head(calls).of \in Requests
                 /\ \/ UNCHANGED req
                    \/ req[Head(calls).of].state = "approval" /\ Same /\ Goes(Head(calls).of, "over")
              \/ /\ Head(calls).kind = "cancel" /\ Head(calls).tab \in Tabs /\ UNCHANGED req
                 /\ slot' = [slot EXCEPT ![Head(calls).tab] = NoDetection]
         /\ HandleResume =>
              LET t == Head(calls).tab
              IN  /\ t \in Tabs
                  /\ \/ UNCHANGED req /\ waiter[t] = None /\ resume[t] = None
                     \/ waiter[t] \in Requests /\ waiter[t] # None /\ Same /\ Goes(waiter[t], "auto")
                     \/ /\ waiter[t] = None /\ resume[t] \in Requests /\ resume[t] # None
                        /\ Same /\ Goes(resume[t], "resumed")
         /\ \A t \in Tabs : ExpireUnlock(t) =>
              waiter[t] \in Requests /\ waiter[t] # None /\ Same /\ Goes(waiter[t], "over")
<1>1. req \in [Requests -> Request] BY DEF Types
<1>2. \A r \in Requests, s \in States : req' = To(req, r, s) => Same /\ Goes(r, s)
  BY <1>1, ToEffect DEF Same, Fixed, Goes
<1>3. {"over", "auto", "resumed", "manual", "manualMain"} \subseteq States BY DEF States
<1>4. \A t \in Tabs : /\ waiter[t] # None => waiter[t] \in Requests
                      /\ resume[t] # None => resume[t] \in Requests
  BY DEF Types
<1>5. ASSUME HandleApprove
      PROVE   LET r == Head(calls).of
              IN  /\ r \in Requests /\ Same
                  /\ \/ req[r].state = "approval" /\ Goes(r, "manual") /\ UNCHANGED events
                     \/ req[r].state # "approval" /\ Offered(r) /\ Goes(r, "manualMain") /\ UNCHANGED events
                     \/ /\ req[r].state # "approval" /\ ~Offered(r) /\ UNCHANGED req
                        /\ Send(Event("refused", r))
  <2> DEFINE r == Head(calls).of  grant == Head(calls).grant
  <2>1. r \in Requests /\ grant \in Grants \cup {0} BY <1>5, HeadTypes DEF HandleApprove, Answered
  <2>2. \A s \in States : req' = Granted(req, r, s, grant) => Same /\ Goes(r, s)
    <3> HIDE DEF r, grant
    <3> QED BY <1>1, <2>1, GrantEffect DEF Same, Fixed, Goes
  <2>3. \/ req[r].state = "approval" /\ req' = Granted(req, r, "manual", grant) /\ UNCHANGED events
        \/ req[r].state # "approval" /\ Offered(r) /\ req' = Granted(req, r, "manualMain", grant)
           /\ UNCHANGED events
        \/ req[r].state # "approval" /\ ~Offered(r) /\ UNCHANGED req /\ Send(Event("refused", r))
    BY <1>5 DEF HandleApprove, Paid, Granted
  <2>4. UNCHANGED req => Same BY DEF Same, Fixed
  <2> HIDE DEF r, grant
  <2>5. \/ req[r].state = "approval" /\ Same /\ Goes(r, "manual") /\ UNCHANGED events
        \/ req[r].state # "approval" /\ Offered(r) /\ Same /\ Goes(r, "manualMain") /\ UNCHANGED events
        \/ req[r].state # "approval" /\ ~Offered(r) /\ Same /\ UNCHANGED req /\ Send(Event("refused", r))
    BY <1>3, <2>2, <2>3, <2>4
  <2> QED BY <2>1, <2>5 DEF r
<1>6. ASSUME HandleReject
      PROVE   \/ /\ Head(calls).kind = "reject" /\ UNCHANGED slot /\ Head(calls).of \in Requests
                 /\ \/ UNCHANGED req
                    \/ req[Head(calls).of].state = "approval" /\ Same /\ Goes(Head(calls).of, "over")
              \/ /\ Head(calls).kind = "cancel" /\ Head(calls).tab \in Tabs /\ UNCHANGED req
                 /\ slot' = [slot EXCEPT ![Head(calls).tab] = NoDetection]
  BY <1>2, <1>3, <1>6, HeadTypes DEF HandleReject, Answered
<1>7. ASSUME HandleResume
      PROVE   LET t == Head(calls).tab
              IN  /\ t \in Tabs
                  /\ \/ UNCHANGED req /\ waiter[t] = None /\ resume[t] = None
                     \/ waiter[t] \in Requests /\ waiter[t] # None /\ Same /\ Goes(waiter[t], "auto")
                     \/ /\ waiter[t] = None /\ resume[t] \in Requests /\ resume[t] # None
                        /\ Same /\ Goes(resume[t], "resumed")
  <2>1. Head(calls).tab \in Tabs BY <1>7, HeadTypes DEF HandleResume, Answered
  <2> QED BY <1>2, <1>3, <1>4, <1>7, <2>1 DEF HandleResume
<1>8. \A t \in Tabs : ExpireUnlock(t) =>
              waiter[t] \in Requests /\ waiter[t] # None /\ Same /\ Goes(waiter[t], "over")
  BY <1>2, <1>3, <1>4 DEF ExpireUnlock
<1> QED BY <1>5, <1>6, <1>7, <1>8
\* A step that leaves the requests and what main keeps about them alone.
Quiet == UNCHANGED <<req, slot, waiter, resume, armed, tabs, attached, booked, lost>>

\* A step is quiet or one of those that are not.
LEMMA StepKinds ==
  ASSUME [Next]_vars
  PROVE  \/ Quiet
         \/ \E r \in Requests : \/ Issue(r) \/ Follow(r) \/ Respond(r) \/ Redirected(r) \/ NetworkError(r) \/ Detect(r)
                                \/ SignOk(r) \/ SignFails(r) \/ SignLocked(r) \/ ExpireApproval(r)
         \/ \E t \in Tabs : ExpireUnlock(t) \/ ExpireResume(t) \/ CloseTab(t)
         \/ HandleApprove \/ HandleReject \/ HandleResume
<1> USE DEF main, sidebar, ghosts
<1>1. CASE UNCHANGED vars BY <1>1 DEF vars, Quiet
<1>2. \A t \in Tabs, k \in Keys : SignatureExpires(t, k) => Quiet BY DEF SignatureExpires, Quiet
<1>3. ChangeCap \/ HandleDetails \/ HandleNeeded \/ Pay \/ Reject \/ HandleResult \/ HandleUnlock \/ Unlock
        => Quiet
  BY DEF ChangeCap, HandleDetails, HandleNeeded, Pay, Reject, HandleResult, HandleUnlock, Unlock, Quiet
<1>4. \A r \in Requests : Show(r) => Quiet BY DEF Show, Quiet
<1> QED BY <1>1, <1>2, <1>3, <1>4 DEF Next, Network, Sign, Handle, Listen, User

\* Without a detection no request gets a card.
LEMMA NoNewOffer ==
  ASSUME Types, Fixed, UNCHANGED slot \/ \E t \in Tabs : slot' = [slot EXCEPT ![t] = NoDetection]
  PROVE  \A q \in Requests : Offered(q)' => Offered(q)
<1>1. \A q \in Requests : Tab(q)' = Tab(q) /\ Tab(q) \in Tabs BY TypeFacts DEF Same, Fixed, Tab
<1>2. CASE UNCHANGED slot BY <1>1, <1>2 DEF Offered
<1>3. CASE \E t \in Tabs : slot' = [slot EXCEPT ![t] = NoDetection]
  BY <1>1, <1>3 DEF Offered, NoDetection, Types
<1> QED BY <1>2, <1>3

\* No step moves a request to another tab or page, only a redirect counts as one,
\* and only its own detection gives a request a card.
LEMMA NextOffers ==
  ASSUME Types, Types', [Next]_vars
  PROVE  /\ Fixed /\ (Same \/ \E r \in Requests : Redirected(r))
         /\ \A q \in Requests : Tab(q)' = Tab(q)
         /\ \A q \in Requests : Offered(q)' => Offered(q) \/ (Detect(q) /\ req'[q].state \in {"offered", "approval"})
<1> DEFINE Kept(q) == Offered(q)' => Offered(q)
<1>0. Fixed => \A q \in Requests : Tab(q)' = Tab(q) BY DEF Fixed, Tab
<1>1. CASE Quiet BY <1>1 DEF Quiet, Same, Fixed, Tab, Offered
<1>2. ASSUME Fixed, UNCHANGED slot PROVE \A q \in Requests : Kept(q)
  BY <1>2, NoNewOffer
<1>3. ASSUME Fixed, NEW t \in Tabs, slot' = [slot EXCEPT ![t] = NoDetection]
      PROVE  \A q \in Requests : Kept(q)
  BY <1>3, NoNewOffer
<1>4. ASSUME NEW r \in Requests,
             Issue(r) \/ Follow(r) \/ Respond(r) \/ NetworkError(r) \/ SignFails(r) \/ SignLocked(r)
      PROVE  Same /\ \A q \in Requests : Kept(q)
  <2>1. UNCHANGED slot BY <1>4 DEF Issue, Follow, Respond, NetworkError, SignFails, SignLocked
  <2>2. Same BY <1>4, NetworkMoves, SignMoves
  <2> QED BY <1>2, <2>1, <2>2 DEF Same
<1>10. ASSUME NEW r \in Requests, Redirected(r) PROVE Fixed /\ \A q \in Requests : Kept(q)
  <2>1. UNCHANGED slot /\ Fixed BY <1>10, NetworkMoves DEF Redirected
  <2> QED BY <1>2, <2>1
<1>5. ASSUME NEW r \in Requests, SignOk(r) \/ ExpireApproval(r)
      PROVE  Same /\ \A q \in Requests : Kept(q)
  <2>1. UNCHANGED slot \/ slot' = [slot EXCEPT ![Tab(r)] = NoDetection]
    BY <1>5 DEF SignOk, ExpireApproval, Slots
  <2>2. Same /\ Tab(r) \in Tabs BY <1>5, NetworkMoves, SignMoves, TypeFacts
  <2> QED BY <1>2, <1>3, <2>1, <2>2 DEF Same
<1>6. ASSUME NEW r \in Requests, Detect(r)
      PROVE  Same /\ \A q \in Requests : Kept(q) \/ (Detect(q) /\ req'[q].state \in {"offered", "approval"})
  <2>1. Same BY <1>6, NetworkMoves
  <2>2. \/ slot' = [slot EXCEPT ![Tab(r)] = [of |-> r, card |-> FALSE]]
        \/ /\ slot' = [slot EXCEPT ![Tab(r)] = [of |-> r, card |-> TRUE]]
           /\ req'[r].state \in {"offered", "approval"}
    BY <1>6, NetworkMoves DEF Sweeps
  <2>3. ASSUME NEW q \in Requests, q # r PROVE Kept(q)
    <3>0. slot \in [Tabs -> Detection] /\ Tab(q) \in Tabs /\ Tab(r) \in Tabs BY TypeFacts DEF Types
    <3>1. slot'[Tab(q)] = slot[Tab(q)] \/ slot'[Tab(q)].of = r
      <4>1. CASE Tab(q) = Tab(r) BY <2>2, <3>0, <4>1
      <4>2. CASE Tab(q) # Tab(r) BY <2>2, <3>0, <4>2
      <4> QED BY <4>1, <4>2
    <3> QED BY <1>0, <2>1, <2>3, <3>1 DEF Same, Offered
  <2>4. Kept(r) \/ req'[r].state \in {"offered", "approval"}
    BY <1>0, <2>1, <2>2, TypeFacts DEF Same, Offered, Types
  <2> QED BY <1>6, <2>1, <2>3, <2>4
<1>7. ASSUME NEW t \in Tabs, ExpireUnlock(t) \/ ExpireResume(t) \/ CloseTab(t)
      PROVE  Same /\ \A q \in Requests : Kept(q)
  <2>1. UNCHANGED slot \/ slot' = [slot EXCEPT ![t] = NoDetection]
    BY <1>7 DEF ExpireUnlock, ExpireResume, CloseTab
  <2>2. UNCHANGED req => Same BY DEF Same, Fixed
  <2>3. Same BY <1>7, <2>2, CallMoves, CloseMoves DEF ExpireResume
  <2> QED BY <1>2, <1>3, <2>1, <2>3 DEF Same
<1>8. ASSUME HandleApprove \/ HandleReject \/ HandleResume
      PROVE  Same /\ \A q \in Requests : Kept(q)
  <2>1. UNCHANGED slot \/ \E t \in Tabs : slot' = [slot EXCEPT ![t] = NoDetection]
    BY <1>8, CallMoves DEF HandleApprove, HandleResume
  <2>2. UNCHANGED req => Same BY DEF Same, Fixed
  <2>3. HandleApprove => Same BY CallMoves
  <2>4. HandleReject => Same BY <2>2, CallMoves
  <2>5. HandleResume => Same BY <2>2, CallMoves
  <2>6. Same BY <1>8, <2>3, <2>4, <2>5
  <2> QED BY <1>2, <1>3, <2>1, <2>6 DEF Same
<1> HIDE DEF Kept
<1>9. /\ Same \/ (Fixed /\ \E r \in Requests : Redirected(r))
      /\ \A q \in Requests : Kept(q) \/ (Detect(q) /\ req'[q].state \in {"offered", "approval"})
  <2>1. CASE Quiet BY <1>1, <2>1 DEF Kept
  <2>2. CASE \E r \in Requests : Detect(r) BY <1>6, <2>2
  <2>3. CASE \E r \in Requests : \/ Issue(r) \/ Follow(r) \/ Respond(r) \/ NetworkError(r)
                                 \/ SignOk(r) \/ SignFails(r) \/ SignLocked(r) \/ ExpireApproval(r)
    BY <1>4, <1>5, <2>3
  <2>4. CASE \E t \in Tabs : ExpireUnlock(t) \/ ExpireResume(t) \/ CloseTab(t) BY <1>7, <2>4
  <2>5. CASE HandleApprove \/ HandleReject \/ HandleResume BY <1>8, <2>5
  <2>6. CASE \E r \in Requests : Redirected(r) BY <1>10, <2>6
  <2> QED BY <2>1, <2>2, <2>3, <2>4, <2>5, <2>6, StepKinds
<1> QED BY <1>0, <1>9 DEF Kept, Same
-----------------------------------------------------------------------------
(* The one consent                                                         *)

\* The places of a channel that carry one of these kinds for r.
Tok(s, kinds, r) == {i \in DOMAIN s : s[i].kind \in kinds /\ s[i].of = r}

NewsKinds == {"needed", "failure", "refused"}
AskKinds == {"details", "approve", "reject"}
News(r) == Tok(events, NewsKinds, r)
Asks(r) == Tok(calls, AskKinds, r)
Approves(r) == Tok(calls, {"approve"}, r)

\* The card of r is up, with its buttons.
Live(r) == card = [of |-> r, signing |-> FALSE]

\* A click on a card of r would be paid.
Payable(r) == req[r].state = "approval" \/ Offered(r)

\* Nothing can bring about a click for r.
Free(r) == News(r) = {} /\ Asks(r) = {} /\ r \notin details /\ ~Live(r)

Single(S) == \A i, j \in S : i = j

\* One thing at most can: news on its way to the card, a call, the answer to a
\* call, or the card itself.
Sole(r) ==
  /\ Single(News(r)) /\ Single(Asks(r))
  /\ News(r) # {} => Asks(r) = {} /\ r \notin details /\ ~Live(r)
  /\ Asks(r) # {} => r \notin details /\ ~Live(r)
  /\ r \in details => ~Live(r)

\* The states that no card has been offered for yet, or whose click was spent.
Early == {"new", "sent", "auto", "autoMain", "manual", "unlock", "redirect"}

OneConsent(r) ==
  /\ Payable(r) => Sole(r)
  /\ Payable(r) /\ ~Free(r) => req[r].state \in {"approval", "offered"}
  /\ req[r].state \in Early => Free(r)

\* A click that will be paid, or is being paid, is remembered.
Remembered(r) == req[r].state \in ByHand \/ (Approves(r) # {} /\ Payable(r)) => r \in agreed

Consents == \A r \in Requests : OneConsent(r) /\ Remembered(r)

\* The call at the head of the channel is one of its request's.
LEMMA HeadAsks ==
  ASSUME Types, calls # <<>>, Head(calls).kind \in AskKinds
  PROVE  /\ Head(calls).of \in Requests /\ 1 \in Asks(Head(calls).of)
         /\ Head(calls).kind = "approve" => 1 \in Approves(Head(calls).of)
<1>1. calls \in Seq(CallType) BY DEF Types
<1>2. 1 \in DOMAIN calls /\ Head(calls) = calls[1] BY <1>1
<1>3. Head(calls).of \in Requests BY HeadTypes DEF AskKinds
<1> QED BY <1>2, <1>3 DEF Asks, Approves, Tok

-----------------------------------------------------------------------------
(* Who waits for the vault                                                 *)

ArmedSent == \A r \in armed : req[r].state = "sent"

\* A tab's wait is for a request that is held, its token for one that is over.
Waiters ==
  \A t \in Tabs :
    /\ waiter[t] # None => req[waiter[t]].state = "unlock" /\ Tab(waiter[t]) = t
    /\ resume[t] # None => /\ req[resume[t]].state = "over" /\ Tab(resume[t]) = t
                           /\ ~Offered(resume[t])

\* What is paid under the cap has no card.
Uncarded == \A r \in Requests : req[r].state \in {"auto", "autoMain", "unlock"} => ~Offered(r)

Waits == ArmedSent /\ Waiters /\ Uncarded /\ HeldHaveWaker

\* A move of one request alone.
LEMMA GoesSweeps ==
  ASSUME NEW r \in Requests, NEW s, Goes(r, s) PROVE Sweeps({}, r, s)
BY DEF Goes, Sweeps

\* One request that neither waits nor is waited for moves, and takes no wait.
LEMMA MoveWaits ==
  ASSUME Types, Waits, Fixed, UNCHANGED <<waiter, resume>>,
         NEW r \in Requests, NEW s, NEW S \in SUBSET Requests, Sweeps(S, r, s),
         s # "unlock", req[r].state # "unlock", req[r].state # "over" \/ Offered(r),
         \A q \in S : req[q].state = "approval",
         \A q \in Requests \ {r} : Offered(q)' => Offered(q),
         s \in {"auto", "autoMain"} => ~Offered(r)',
         armed' \subseteq armed \cup {r}, r \in armed' => s = "sent"
  PROVE  Waits'
<1>1. \A q \in Requests : Tab(q)' = Tab(q) BY DEF Fixed, Tab
<1>2. \A q \in Requests \ {r} :
        req'[q].state = req[q].state \/ (req[q].state = "approval" /\ req'[q].state = "over")
  BY DEF Sweeps
<1>3. \A t \in Tabs : /\ waiter[t] # None => waiter[t] \in Requests \ {r}
                      /\ resume[t] # None => resume[t] \in Requests \ {r}
  BY DEF Waits, Waiters, Types
<1>4. Waiters' BY <1>1, <1>2, <1>3 DEF Waits, Waiters
<1>5. HeldHaveWaker'
  <2> SUFFICES ASSUME NEW q \in Requests, req'[q].state = "unlock"
               PROVE  waiter'[Tab(q)'] = q
    BY DEF HeldHaveWaker, Tab
  <2>1. q # r BY DEF Sweeps
  <2> QED BY <1>1, <1>2, <2>1 DEF Waits, HeldHaveWaker
<1>6. Uncarded'
  <2> SUFFICES ASSUME NEW q \in Requests, req'[q].state \in {"auto", "autoMain", "unlock"}
               PROVE  ~Offered(q)'
    BY DEF Uncarded
  <2>1. CASE q = r BY <2>1 DEF Sweeps
  <2>2. CASE q # r BY <1>2, <2>2 DEF Waits, Uncarded
  <2> QED BY <2>1, <2>2
<1>7. ArmedSent'
  <2> SUFFICES ASSUME NEW q \in armed' PROVE req'[q].state = "sent" BY DEF ArmedSent
  <2>1. CASE q = r BY <2>1 DEF Sweeps
  <2>2. CASE q # r BY <1>2, <2>2 DEF Waits, ArmedSent, Types
  <2> QED BY <2>1, <2>2
<1> QED BY <1>4, <1>5, <1>6, <1>7 DEF Waits

\* Every step keeps what is known of the waits.
LEMMA NextWaits == Types /\ Types' /\ Waits /\ Consents /\ [Next]_vars => Waits'
<1> SUFFICES ASSUME Types, Types', Waits, Consents, [Next]_vars PROVE Waits' OBVIOUS
<1>0. Fixed /\ (\A q \in Requests : Tab(q)' = Tab(q))
      /\ (\A q \in Requests : Offered(q)' =>
            Offered(q) \/ (Detect(q) /\ req'[q].state \in {"offered", "approval"}))
  BY NextOffers
<1>1. \A t \in Tabs : /\ waiter[t] # None => /\ waiter[t] \in Requests /\ Tab(waiter[t]) = t
                                             /\ req[waiter[t]].state = "unlock"
                      /\ resume[t] # None => /\ resume[t] \in Requests /\ Tab(resume[t]) = t
                                             /\ req[resume[t]].state = "over"
                                             /\ ~Offered(resume[t])
  BY DEF Waits, Waiters, Types
<1>2. \A q \in Requests : /\ req[q].state = "unlock" => waiter[Tab(q)] = q
                          /\ Tab(q) \in Tabs
                          /\ req[q].state \in {"auto", "autoMain", "unlock"} => ~Offered(q)
                          /\ q \in armed => req[q].state = "sent"
  BY TypeFacts DEF Waits, HeldHaveWaker, Uncarded, ArmedSent
<1>3. CASE Quiet
  BY <1>3 DEF Quiet, Waits, ArmedSent, Waiters, Uncarded, HeldHaveWaker, Offered, Tab
\* A request that is not detected moves alone, and nobody waits for it.
<1>4. ASSUME NEW r \in Requests, NEW s \in States \ {"unlock", "auto", "autoMain"}, Goes(r, s),
             UNCHANGED <<waiter, resume>>, req[r].state \notin {"unlock", "sent"},
             req[r].state # "over" \/ Offered(r),
             armed' \subseteq armed \cup {r}, r \in armed' => s = "sent" \/ r \in armed,
             \A q \in Requests : Offered(q)' => Offered(q)
      PROVE  Waits'
  <2>1. r \notin armed BY <1>2, <1>4
  <2>2. Sweeps({}, r, s) /\ {} \in SUBSET Requests BY <1>4, GoesSweeps
  <2> QED BY <1>0, <1>4, <2>1, <2>2, MoveWaits
<1>5. ASSUME UNCHANGED slot PROVE \A q \in Requests : Offered(q)' => Offered(q)
  BY <1>0, <1>5 DEF Offered
<1>6. {"over", "sent", "redirect", "approval", "offered", "resumed", "manual", "manualMain"}
        \subseteq States \ {"unlock", "auto", "autoMain"}
  BY DEF States
<1>7. ASSUME NEW r \in Requests, Issue(r) \/ Follow(r) PROVE Waits'
  <2>1. Goes(r, "sent") /\ UNCHANGED <<waiter, resume, slot>>
        /\ req[r].state \in {"new", "redirect"}
    BY <1>7, NetworkMoves DEF Issue, Follow
  <2>2. armed' \subseteq armed \cup {r}
    BY <1>7, InjectEffect DEF Issue, Follow
  <2> QED BY <1>4, <1>5, <1>6, <2>1, <2>2
<1>8. ASSUME NEW r \in Requests, Respond(r) \/ NetworkError(r) PROVE Waits'
  <2>1. Goes(r, "over") /\ UNCHANGED <<waiter, resume, slot>> /\ armed' = armed \ {r}
        /\ req[r].state \in {"sent", "redirect"}
    BY <1>8, NetworkMoves DEF Respond, NetworkError, Book
  <2>2. Sweeps({}, r, "over") /\ {} \in SUBSET Requests BY <2>1, GoesSweeps
  <2> QED BY <1>0, <1>5, <2>1, <2>2, MoveWaits
<1>9. ASSUME NEW r \in Requests, Detect(r) PROVE Waits'
  <2>1. UNCHANGED <<waiter, resume>> /\ armed' = armed \ {r} /\ req[r].state = "sent"
    BY <1>9 DEF Detect, Book
  <2>2. \A q \in Requests \ {r} : Offered(q)' => Offered(q)
    <3>1. slot \in [Tabs -> Detection] BY DEF Types
    <3>2. \E b \in BOOLEAN : slot' = [slot EXCEPT ![Tab(r)] = [of |-> r, card |-> b]]
      BY <1>9 DEF Detect
    <3>3. ASSUME NEW q \in Requests \ {r}
          PROVE  slot'[Tab(q)] = slot[Tab(q)] \/ slot'[Tab(q)].of = r
      BY <1>2, <3>1, <3>2
    <3> QED BY <1>0, <3>3 DEF Offered
  <2>3. CASE \E s \in {"over", "auto", "autoMain"} :
               Goes(r, s) /\ slot' = [slot EXCEPT ![Tab(r)] = [of |-> r, card |-> FALSE]]
    <3>1. ~Offered(r)'
      <4>1. slot \in [Tabs -> Detection] /\ Tab(r) \in Tabs BY <1>2 DEF Types
      <4>2. slot'[Tab(r)] = [of |-> r, card |-> FALSE] BY <2>3, <4>1
      <4> QED BY <1>0, <4>2 DEF Offered
    <3>2. \E s \in {"over", "auto", "autoMain"} : Sweeps({}, r, s) BY <2>3, GoesSweeps
    <3>3. {} \in SUBSET Requests OBVIOUS
    <3> QED BY <1>0, <2>1, <2>2, <3>1, <3>2, <3>3, MoveWaits
  <2>4. CASE \E s \in {"offered", "approval"} : Sweeps(Approvals(Tab(r)), r, s)
    <3>1. /\ Approvals(Tab(r)) \in SUBSET Requests
          /\ \A q \in Approvals(Tab(r)) : req[q].state = "approval"
      BY DEF Approvals
    <3> QED BY <1>0, <2>1, <2>2, <2>4, <3>1, MoveWaits
  <2> QED BY <1>9, <2>3, <2>4, NetworkMoves
<1>10. ASSUME NEW r \in Requests, SignOk(r) \/ SignFails(r) \/ ExpireApproval(r) PROVE Waits'
  <2>1. req[r].state \in Signing \cup {"approval"}
    BY <1>10 DEF SignOk, SignFails, ExpireApproval
  <2>2. UNCHANGED <<waiter, resume, armed>>
    BY <1>10 DEF SignOk, SignFails, ExpireApproval
  <2>3. \E s \in {"over", "redirect", "approval", "offered"} : Goes(r, s)
    BY <1>10, SignMoves, NetworkMoves
  <2>4. UNCHANGED slot \/ slot' = [slot EXCEPT ![Tab(r)] = NoDetection]
    BY <1>10 DEF SignOk, SignFails, ExpireApproval, Slots
  <2>5. \A q \in Requests : Offered(q)' => Offered(q) BY <1>0, <1>2, <2>4, NoNewOffer
  <2> QED BY <1>4, <1>6, <2>1, <2>2, <2>3, <2>5 DEF Signing
<1>11. ASSUME NEW r \in Requests, SignLocked(r) PROVE Waits'
  <2>1. UNCHANGED <<slot, armed>> /\ r \in Requests /\ Tab(r) \in Tabs
    BY <1>2, <1>11 DEF SignLocked
  <2>2. \A q \in Requests : Offered(q)' => Offered(q) BY <1>5, <2>1
  <2>3. CASE /\ req[r].state = "auto" /\ Sweeps(OlderWait(Tab(r)), r, "unlock")
             /\ waiter' = [waiter EXCEPT ![Tab(r)] = r] /\ UNCHANGED resume
    <3>1. \A q \in OlderWait(Tab(r)) : q \in Requests /\ q = waiter[Tab(r)] /\ q # None
      BY RequestAssumption DEF OlderWait
    <3>2. \A q \in OlderWait(Tab(r)) : req[q].state = "unlock" /\ Tab(q) = Tab(r)
      BY <1>1, <2>1, <3>1
    <3>3. \A q \in Requests \ {r} :
            \/ req'[q].state = req[q].state
            \/ req[q].state = "unlock" /\ req'[q].state = "over"
      BY <2>3, <3>2 DEF Sweeps
    <3>4. \A q \in Requests \ {r} : q \notin OlderWait(Tab(r)) => req'[q] = req[q]
      BY <2>3 DEF Sweeps
    <3>5. req'[r].state = "unlock" BY <2>3 DEF Sweeps
    <3>6. ArmedSent' BY <1>2, <2>1, <2>3, <3>3 DEF ArmedSent, Types
    <3>7. Uncarded'
      <4> SUFFICES ASSUME NEW q \in Requests, req'[q].state \in {"auto", "autoMain", "unlock"}
                   PROVE  ~Offered(q)'
        BY DEF Uncarded
      <4> QED BY <1>2, <2>2, <2>3, <3>3
    <3>8. waiter \in [Tabs -> Requests \cup {None}] BY DEF Types
    <3>9. waiter'[Tab(r)] = r /\ \A t \in Tabs \ {Tab(r)} : waiter'[t] = waiter[t]
      BY <2>1, <2>3, <3>8
    <3>10. ASSUME NEW t \in Tabs, NEW w, w = waiter'[t], w # None
           PROVE  req'[w].state = "unlock" /\ Tab(w)' = t
      <4>1. CASE t = Tab(r) BY <1>0, <3>5, <3>9, <3>10, <4>1
      <4>2. CASE t # Tab(r)
        <5>1. w \in Requests /\ Tab(w) = t /\ req[w].state = "unlock"
          BY <1>1, <3>9, <3>10, <4>2
        <5>2. w \notin OlderWait(Tab(r)) /\ w # r BY <3>2, <4>2, <5>1
        <5> QED BY <1>0, <3>4, <5>1, <5>2
      <4> QED BY <4>1, <4>2
    <3>11. ASSUME NEW t \in Tabs, NEW w, w = resume'[t], w # None
           PROVE  req'[w].state = "over" /\ Tab(w)' = t /\ ~Offered(w)'
      <4>1. w \in Requests /\ Tab(w) = t /\ req[w].state = "over" /\ ~Offered(w)
        BY <1>1, <2>3, <3>11
      <4>2. w # r BY <2>3, <4>1
      <4>3. ~Offered(w)' BY <2>2, <4>1
      <4> QED BY <1>0, <3>3, <4>1, <4>2, <4>3
    <3>12. ASSUME NEW q \in Requests, req'[q].state = "unlock" PROVE waiter'[Tab(q)'] = q
      <4>1. CASE q = r BY <1>0, <3>9, <4>1
      <4>2. CASE q # r
        <5>1. req[q].state = "unlock" BY <3>3, <3>12, <4>2
        <5>2. waiter[Tab(q)] = q /\ Tab(q) \in Tabs BY <1>2, <5>1
        <5>3. q \notin OlderWait(Tab(r)) BY <2>3, <3>12, <4>2 DEF Sweeps
        <5>4. Tab(q) # Tab(r) BY <5>2, <5>3 DEF OlderWait
        <5> QED BY <1>0, <3>9, <5>2, <5>4
      <4> QED BY <4>1, <4>2
    <3>13. Waiters' BY <3>10, <3>11 DEF Waiters, Tab, Offered
    <3>14. HeldHaveWaker' BY <3>12 DEF HeldHaveWaker, Tab
    <3> QED BY <3>6, <3>7, <3>13, <3>14 DEF Waits
  <2>4. CASE /\ req[r].state = "autoMain" /\ Goes(r, "over")
             /\ resume' = [resume EXCEPT ![Tab(r)] = r] /\ UNCHANGED waiter
    <3>1. \A q \in Requests \ {r} : req'[q] = req[q] BY <2>4 DEF Goes
    <3>2. req'[r].state = "over" /\ ~Offered(r) BY <1>2, <2>4 DEF Goes
    <3>3. ArmedSent' BY <1>2, <2>1, <2>4, <3>1 DEF ArmedSent, Types
    <3>4. Uncarded'
      <4> SUFFICES ASSUME NEW q \in Requests, req'[q].state \in {"auto", "autoMain", "unlock"}
                   PROVE  ~Offered(q)'
        BY DEF Uncarded
      <4> QED BY <1>2, <2>2, <3>1, <3>2
    <3>5. HeldHaveWaker'
      <4> SUFFICES ASSUME NEW q \in Requests, req'[q].state = "unlock" PROVE waiter'[Tab(q)'] = q
        BY DEF HeldHaveWaker, Tab
      <4> QED BY <1>0, <1>2, <2>4, <3>1, <3>2
    <3>6. resume \in [Tabs -> Requests \cup {None}] BY DEF Types
    <3>7. resume'[Tab(r)] = r /\ \A t \in Tabs \ {Tab(r)} : resume'[t] = resume[t]
      BY <2>1, <2>4, <3>6
    <3>8. ASSUME NEW t \in Tabs, NEW w, w = waiter'[t], w # None
          PROVE  req'[w].state = "unlock" /\ Tab(w)' = t
      <4>1. w \in Requests /\ Tab(w) = t /\ req[w].state = "unlock" BY <1>1, <2>4, <3>8
      <4>2. w # r BY <2>4, <4>1
      <4> QED BY <1>0, <3>1, <4>1, <4>2
    <3>9. ASSUME NEW t \in Tabs, NEW w, w = resume'[t], w # None
          PROVE  req'[w].state = "over" /\ Tab(w)' = t /\ ~Offered(w)'
      <4>1. CASE t = Tab(r) BY <1>0, <2>2, <3>2, <3>7, <3>9, <4>1
      <4>2. CASE t # Tab(r)
        <5>1. w \in Requests /\ Tab(w) = t /\ req[w].state = "over" /\ ~Offered(w)
          BY <1>1, <3>7, <3>9, <4>2
        <5>2. w # r /\ ~Offered(w)' BY <2>2, <2>4, <5>1
        <5> QED BY <1>0, <3>1, <5>1, <5>2
      <4> QED BY <4>1, <4>2
    <3>10. Waiters' BY <3>8, <3>9 DEF Waiters, Tab, Offered
    <3> QED BY <3>3, <3>4, <3>5, <3>10 DEF Waits
  <2> QED BY <1>11, <2>3, <2>4, SignMoves
\* The request a tab waits for, or its token's, is woken or let go.
<1>12. ASSUME NEW t \in Tabs, NEW w \in Requests, Tab(w) = t, UNCHANGED <<slot, armed>>,
              NEW s, s \notin {"unlock", "autoMain"}, Goes(w, s),
              req[w].state \in {"unlock", "over"}, s = "auto" => ~Offered(w),
              waiter' = [waiter EXCEPT ![t] = None], waiter[t] \in {w, None},
              \/ resume' = resume /\ req[w].state = "unlock"
              \/ resume' = [resume EXCEPT ![t] = None]
       PROVE  Waits'
  <2>1. \A q \in Requests : Offered(q)' => Offered(q) BY <1>5, <1>12
  <2>2. req'[w].state = s /\ \A q \in Requests \ {w} : req'[q] = req[q] BY <1>12 DEF Goes
  <2>3. ArmedSent' BY <1>2, <1>12, <2>2 DEF ArmedSent, Types
  <2>4. Uncarded'
    <3> SUFFICES ASSUME NEW q \in Requests, req'[q].state \in {"auto", "autoMain", "unlock"}
                 PROVE  ~Offered(q)'
      BY DEF Uncarded
    <3> QED BY <1>2, <1>12, <2>1, <2>2
  <2>5. /\ waiter \in [Tabs -> Requests \cup {None}]
        /\ resume \in [Tabs -> Requests \cup {None}]
    BY DEF Types
  <2>6. /\ waiter'[t] = None
        /\ \A u \in Tabs \ {t} : waiter'[u] = waiter[u] /\ resume'[u] = resume[u]
        /\ resume'[t] = None \/ (resume'[t] = resume[t] /\ req[w].state = "unlock")
    BY <1>12, <2>5
  <2>7. ASSUME NEW u \in Tabs, NEW q, q = waiter'[u], q # None
        PROVE  req'[q].state = "unlock" /\ Tab(q)' = u
    <3>1. u # t BY <2>6, <2>7
    <3>2. q \in Requests /\ Tab(q) = u /\ req[q].state = "unlock" BY <1>1, <2>6, <2>7, <3>1
    <3>3. q # w BY <1>12, <3>1, <3>2
    <3> QED BY <1>0, <2>2, <3>2, <3>3
  <2>8. ASSUME NEW u \in Tabs, NEW q, q = resume'[u], q # None
        PROVE  req'[q].state = "over" /\ Tab(q)' = u /\ ~Offered(q)'
    <3>1. q = resume[u] BY <2>6, <2>8
    <3>2. q \in Requests /\ Tab(q) = u /\ req[q].state = "over" /\ ~Offered(q)
      BY <1>1, <2>8, <3>1
    <3>3. q # w BY <1>12, <2>6, <2>8, <3>2
    <3>4. ~Offered(q)' BY <2>1, <3>2
    <3> QED BY <1>0, <2>2, <3>2, <3>3, <3>4
  <2>9. ASSUME NEW q \in Requests, req'[q].state = "unlock" PROVE waiter'[Tab(q)'] = q
    <3>1. q # w BY <1>12, <2>2, <2>9
    <3>2. waiter[Tab(q)] = q /\ Tab(q) \in Tabs BY <1>2, <2>2, <2>9, <3>1
    <3>3. Tab(q) # t BY <1>12, <3>1, <3>2, RequestAssumption
    <3> QED BY <1>0, <2>6, <3>2, <3>3
  <2>10. Waiters' BY <2>7, <2>8 DEF Waiters, Tab, Offered
  <2>11. HeldHaveWaker' BY <2>9 DEF HeldHaveWaker, Tab
  <2> QED BY <2>3, <2>4, <2>10, <2>11 DEF Waits
<1>13. ASSUME NEW t \in Tabs, ExpireUnlock(t) PROVE Waits'
  <2>1. /\ waiter[t] \in Requests /\ waiter[t] # None /\ Goes(waiter[t], "over")
        /\ waiter' = [waiter EXCEPT ![t] = None] /\ UNCHANGED <<slot, armed, resume>>
    BY <1>13, CallMoves DEF ExpireUnlock
  <2>2. Tab(waiter[t]) = t /\ req[waiter[t]].state = "unlock" BY <1>1, <2>1
  <2> QED BY <1>12, <2>1, <2>2
\* The requests stay as they are.
<1>14. ASSUME UNCHANGED <<req, armed, waiter>>,
              UNCHANGED slot \/ \E t \in Tabs : slot' = [slot EXCEPT ![t] = NoDetection],
              UNCHANGED resume \/ \E t \in Tabs : resume' = [resume EXCEPT ![t] = None]
       PROVE  Waits'
  <2>1. \A q \in Requests : Offered(q)' => Offered(q) BY <1>0, <1>14, NoNewOffer
  <2>2. \A t \in Tabs : resume'[t] = None \/ resume'[t] = resume[t]
    <3>1. resume \in [Tabs -> Requests \cup {None}] BY DEF Types
    <3> QED BY <1>14, <3>1
  <2>3. ArmedSent' BY <1>14 DEF ArmedSent, Waits
  <2>4. Uncarded' BY <1>14, <2>1 DEF Uncarded, Waits
  <2>5. HeldHaveWaker' BY <1>14 DEF HeldHaveWaker, Waits, Tab
  <2>6. ASSUME NEW t \in Tabs, NEW w, w = resume'[t], w # None
        PROVE  req'[w].state = "over" /\ Tab(w)' = t /\ ~Offered(w)'
    <3>1. w = resume[t] BY <2>2, <2>6
    <3>2. w \in Requests /\ Tab(w) = t /\ req[w].state = "over" /\ ~Offered(w)
      BY <1>1, <2>6, <3>1
    <3>3. ~Offered(w)' BY <2>1, <3>2
    <3> QED BY <1>0, <1>14, <3>2, <3>3
  <2>7. ASSUME NEW t \in Tabs, NEW w, w = waiter'[t], w # None
        PROVE  req'[w].state = "unlock" /\ Tab(w)' = t
    BY <1>0, <1>1, <1>14, <2>7
  <2>8. Waiters' BY <2>6, <2>7 DEF Waiters, Tab, Offered
  <2> QED BY <2>3, <2>4, <2>5, <2>8 DEF Waits
<1>15. ASSUME NEW t \in Tabs, ExpireResume(t) PROVE Waits'
  BY <1>14, <1>15 DEF ExpireResume
<1>16. ASSUME NEW t \in Tabs, CloseTab(t) PROVE Waits'
  <2>1. \A q \in Requests : IF Tab(q) = t /\ req[q].state \in Ended
                           THEN req'[q].state = "over" ELSE req'[q] = req[q]
    BY <1>16, CloseMoves
  <2>2. \A q \in Requests : Offered(q)' => Offered(q) BY <1>0, <1>16, NoNewOffer DEF CloseTab
  <2>3. ArmedSent' BY <1>2, <1>16, <2>1 DEF ArmedSent, CloseTab, Types
  <2>4. Uncarded'
    <3> SUFFICES ASSUME NEW q \in Requests, req'[q].state \in {"auto", "autoMain", "unlock"}
                 PROVE  ~Offered(q)'
      BY DEF Uncarded
    <3> QED BY <1>2, <2>1, <2>2
  <2>5. /\ waiter \in [Tabs -> Requests \cup {None}]
        /\ resume \in [Tabs -> Requests \cup {None}]
    BY DEF Types
  <2>6. /\ waiter'[t] = None /\ resume'[t] = None
        /\ \A u \in Tabs \ {t} : waiter'[u] = waiter[u] /\ resume'[u] = resume[u]
    BY <1>16, <2>5 DEF CloseTab
  <2>7. ASSUME NEW u \in Tabs, NEW w, w = waiter'[u], w # None
        PROVE  req'[w].state = "unlock" /\ Tab(w)' = u
    <3>1. u # t /\ w = waiter[u] BY <2>6, <2>7
    <3>2. w \in Requests /\ Tab(w) = u /\ req[w].state = "unlock" BY <1>1, <2>7, <3>1
    <3> QED BY <1>0, <2>1, <3>1, <3>2
  <2>8. ASSUME NEW u \in Tabs, NEW w, w = resume'[u], w # None
        PROVE  req'[w].state = "over" /\ Tab(w)' = u /\ ~Offered(w)'
    <3>1. u # t /\ w = resume[u] BY <2>6, <2>8
    <3>2. w \in Requests /\ Tab(w) = u /\ req[w].state = "over" /\ ~Offered(w)
      BY <1>1, <2>8, <3>1
    <3> QED BY <1>0, <2>1, <2>2, <3>1, <3>2
  <2>9. ASSUME NEW q \in Requests, req'[q].state = "unlock" PROVE waiter'[Tab(q)'] = q
    <3>1. req[q].state = "unlock" /\ Tab(q) # t BY <2>1, <2>9 DEF Ended
    <3> QED BY <1>0, <1>2, <2>6, <3>1
  <2>10. Waiters' BY <2>7, <2>8 DEF Waiters, Tab, Offered
  <2>11. HeldHaveWaker' BY <2>9 DEF HeldHaveWaker, Tab
  <2> QED BY <2>3, <2>4, <2>10, <2>11 DEF Waits
<1>17. CASE HandleReject
  <2>1. UNCHANGED <<armed, waiter, resume>> BY <1>17 DEF HandleReject
  <2>2. CASE UNCHANGED req
    <3>1. UNCHANGED slot \/ \E t \in Tabs : slot' = [slot EXCEPT ![t] = NoDetection]
      BY <1>17, CallMoves
    <3> QED BY <1>14, <2>1, <2>2, <3>1
  <2>3. CASE ~UNCHANGED req
    <3>1. PICK r \in Requests : req[r].state = "approval" /\ Goes(r, "over") /\ UNCHANGED slot
      BY <1>17, <2>3, CallMoves
    <3> QED BY <1>4, <1>5, <1>6, <2>1, <3>1
  <2> QED BY <2>2, <2>3
<1>18. CASE HandleResume
  <2> DEFINE t == Head(calls).tab
  <2>1. /\ t \in Tabs /\ UNCHANGED <<slot, armed>>
        /\ waiter' = [waiter EXCEPT ![t] = None] /\ resume' = [resume EXCEPT ![t] = None]
    BY <1>18, CallMoves DEF HandleResume
  <2>2. \/ UNCHANGED req /\ waiter[t] = None /\ resume[t] = None
        \/ waiter[t] \in Requests /\ waiter[t] # None /\ Goes(waiter[t], "auto")
        \/ waiter[t] = None /\ resume[t] \in Requests /\ resume[t] # None /\ Goes(resume[t], "resumed")
    BY <1>18, CallMoves
  <2> HIDE DEF t
  <2>3. CASE UNCHANGED req /\ waiter[t] = None /\ resume[t] = None
    <3>1. UNCHANGED waiter BY <2>1, <2>3 DEF Types
    <3> QED BY <1>14, <2>1, <2>3, <3>1
  <2>4. CASE waiter[t] \in Requests /\ waiter[t] # None /\ Goes(waiter[t], "auto")
    <3>1. Tab(waiter[t]) = t /\ req[waiter[t]].state = "unlock" /\ ~Offered(waiter[t])
      BY <1>1, <1>2, <2>1, <2>4
    <3> QED BY <1>12, <2>1, <2>4, <3>1
  <2>5. CASE waiter[t] = None /\ resume[t] \in Requests /\ resume[t] # None /\ Goes(resume[t], "resumed")
    <3>1. Tab(resume[t]) = t /\ req[resume[t]].state = "over" BY <1>1, <2>1, <2>5
    <3> QED BY <1>12, <2>1, <2>5, <3>1
  <2> QED BY <2>2, <2>3, <2>4, <2>5
<1>19. CASE HandleApprove
  <2>1. UNCHANGED <<waiter, resume, armed, slot>> BY <1>19 DEF HandleApprove
  <2>2. PICK r \in Requests :
          /\ r = Head(calls).of
          /\ \/ UNCHANGED req
             \/ req[r].state = "approval" /\ Goes(r, "manual")
             \/ req[r].state # "approval" /\ Offered(r) /\ Goes(r, "manualMain")
    BY <1>19, CallMoves
  <2>3. CASE UNCHANGED req BY <1>14, <2>1, <2>3
  <2>4. CASE req[r].state = "approval" /\ Goes(r, "manual")
    BY <1>4, <1>5, <1>6, <2>1, <2>4
  <2>5. CASE req[r].state # "approval" /\ Offered(r) /\ Goes(r, "manualMain")
    <3>1. req[r].state # "unlock" BY <1>2, <2>5
    <3>2. req[r].state # "sent"
      <4>1. Asks(r) # {} BY <1>19, <2>2, HeadAsks DEF HandleApprove, Answered, AskKinds
      <4> QED BY <4>1 DEF Consents, OneConsent, Free, Early
    <3> QED BY <1>4, <1>5, <1>6, <2>1, <2>5, <3>1, <3>2
  <2> QED BY <2>2, <2>3, <2>4, <2>5
<1>20. ASSUME NEW r \in Requests, Redirected(r) PROVE Waits'
  <2>1. Goes(r, "redirect") /\ UNCHANGED <<waiter, resume, slot>> /\ armed' = armed \ {r}
        /\ req[r].state = "sent"
    BY <1>20, NetworkMoves DEF Redirected, Book
  <2>2. Sweeps({}, r, "redirect") /\ {} \in SUBSET Requests BY <2>1, GoesSweeps
  <2> QED BY <1>0, <1>5, <2>1, <2>2, MoveWaits
<1> QED BY <1>3, <1>7, <1>8, <1>9, <1>10, <1>11, <1>13, <1>15, <1>16, <1>17, <1>18, <1>19, <1>20,
           StepKinds
-----------------------------------------------------------------------------
(* What a channel carries, as it grows and is read                         *)

\* The second channel carries no more for r than the first.
Less(s, u, K, r) ==
  /\ Tok(s, K, r) = {} => Tok(u, K, r) = {}
  /\ Single(Tok(s, K, r)) => Single(Tok(u, K, r))

\* A message is sent.
LEMMA AppendTok ==
  ASSUME NEW X, NEW s \in Seq(X), NEW x \in X, NEW K, NEW r
  PROVE  /\ ~(x.kind \in K /\ x.of = r) => Less(s, Append(s, x), K, r)
         /\ Tok(s, K, r) # {} => Tok(Append(s, x), K, r) # {}
         /\ x.kind \in K /\ x.of = r => /\ Tok(Append(s, x), K, r) # {}
                                        /\ Tok(s, K, r) = {} => Single(Tok(Append(s, x), K, r))
<1> DEFINE a == Append(s, x)
<1>1. Len(s) \in Nat /\ DOMAIN s = 1..Len(s) /\ DOMAIN a = 1..(Len(s) + 1) OBVIOUS
<1>2. a[Len(s) + 1] = x /\ \A i \in 1..Len(s) : a[i] = s[i] OBVIOUS
<1> HIDE DEF a
<1>3. \A i \in 1..(Len(s) + 1) : i \in 1..Len(s) \/ i = Len(s) + 1 BY <1>1
<1>4. \A i \in 1..Len(s) : i \in 1..(Len(s) + 1) BY <1>1
<1>5. Len(s) + 1 \in 1..(Len(s) + 1) BY <1>1
<1>6. Tok(s, K, r) \subseteq Tok(a, K, r) BY <1>1, <1>2, <1>4 DEF Tok
<1>7. Tok(a, K, r) \subseteq Tok(s, K, r) \cup {Len(s) + 1} BY <1>1, <1>2, <1>3 DEF Tok
<1>8. Len(s) + 1 \in Tok(a, K, r) <=> x.kind \in K /\ x.of = r BY <1>1, <1>2, <1>5 DEF Tok
<1>9. ~(x.kind \in K /\ x.of = r) => Less(s, a, K, r)
  BY <1>6, <1>7, <1>8 DEF Less, Single
<1>10. x.kind \in K /\ x.of = r => /\ Tok(a, K, r) # {}
                                   /\ Tok(s, K, r) = {} => Single(Tok(a, K, r))
  BY <1>7, <1>8 DEF Single
<1> QED BY <1>6, <1>9, <1>10 DEF a

\* The head is read.
LEMMA TailTok ==
  ASSUME NEW X, NEW s \in Seq(X), s # <<>>, NEW K, NEW r
  PROVE  /\ Less(s, Tail(s), K, r)
         /\ ~(Head(s).kind \in K /\ Head(s).of = r) /\ Tok(s, K, r) # {} => Tok(Tail(s), K, r) # {}
         /\ Head(s).kind \in K /\ Head(s).of = r =>
              Tok(s, K, r) # {} /\ (Single(Tok(s, K, r)) => Tok(Tail(s), K, r) = {})
<1> DEFINE u == Tail(s)
<1>1. Len(s) \in Nat \ {0} /\ DOMAIN s = 1..Len(s) /\ Head(s) = s[1] OBVIOUS
<1>2. DOMAIN u = 1..(Len(s) - 1) /\ \A i \in 1..(Len(s) - 1) : u[i] = s[i + 1] OBVIOUS
<1> HIDE DEF u
<1>3. \A i \in 1..(Len(s) - 1) : i + 1 \in 1..Len(s) /\ i + 1 # 1 BY <1>1
<1>4. \A i \in 1..Len(s) : i # 1 => i - 1 \in 1..(Len(s) - 1) /\ (i - 1) + 1 = i BY <1>1
<1>5. \A i \in Tok(u, K, r) : i + 1 \in Tok(s, K, r) /\ i + 1 # 1 /\ i \in Nat
  BY <1>1, <1>2, <1>3 DEF Tok
<1>6. \A i \in Tok(s, K, r) : i # 1 => i - 1 \in Tok(u, K, r) BY <1>1, <1>2, <1>4 DEF Tok
<1>7. 1 \in Tok(s, K, r) <=> Head(s).kind \in K /\ Head(s).of = r BY <1>1 DEF Tok
<1>8. Less(s, u, K, r)
  <2>1. Tok(s, K, r) = {} => Tok(u, K, r) = {} BY <1>5
  <2>2. ASSUME Single(Tok(s, K, r)), NEW i \in Tok(u, K, r), NEW j \in Tok(u, K, r) PROVE i = j
    <3>1. i + 1 = j + 1 BY <1>5, <2>2 DEF Single
    <3>2. i \in Nat /\ j \in Nat BY <1>5
    <3> QED BY <3>1, <3>2
  <2> QED BY <2>1, <2>2 DEF Less, Single
<1>9. ~(Head(s).kind \in K /\ Head(s).of = r) /\ Tok(s, K, r) # {} => Tok(u, K, r) # {}
  BY <1>6, <1>7
<1>10. Head(s).kind \in K /\ Head(s).of = r =>
              Tok(s, K, r) # {} /\ (Single(Tok(s, K, r)) => Tok(u, K, r) = {})
  BY <1>5, <1>7 DEF Single
<1> QED BY <1>8, <1>9, <1>10 DEF u

\* Several messages are sent.
LEMMA ConcatTok ==
  ASSUME NEW X, NEW s \in Seq(X), NEW Y, NEW u \in Seq(Y), NEW K, NEW r
  PROVE  /\ (\A y \in Y : y.kind \notin K) => Less(s, s \o u, K, r)
         /\ Tok(s, K, r) # {} => Tok(s \o u, K, r) # {}
<1> DEFINE a == s \o u
<1>0. s \in Seq(X \cup Y) /\ u \in Seq(X \cup Y)
  BY SeqMonotonic
<1>1. /\ Len(s) \in Nat /\ Len(u) \in Nat /\ DOMAIN s = 1..Len(s) /\ DOMAIN u = 1..Len(u)
      /\ DOMAIN a = 1..(Len(s) + Len(u))
  BY <1>0, ConcatProperties, LenProperties
<1>2. /\ \A i \in 1..Len(s) : a[i] = s[i]
      /\ \A i \in 1..(Len(s) + Len(u)) : i \notin 1..Len(s) => i - Len(s) \in 1..Len(u) /\ a[i] = u[i - Len(s)]
  <2>1. \A i \in 1..(Len(s) + Len(u)) : a[i] = IF i <= Len(s) THEN s[i] ELSE u[i - Len(s)]
    BY <1>0, ConcatProperties
  <2> QED BY <1>1, <2>1
<1> HIDE DEF a
<1>3. \A i \in 1..Len(s) : i \in 1..(Len(s) + Len(u)) BY <1>1
<1>4. Tok(s, K, r) \subseteq Tok(a, K, r) BY <1>1, <1>2, <1>3 DEF Tok
<1>5. ASSUME \A y \in Y : y.kind \notin K PROVE Tok(a, K, r) \subseteq Tok(s, K, r)
  <2>1. \A j \in 1..Len(u) : u[j] \in Y OBVIOUS
  <2> QED BY <1>1, <1>2, <1>5, <2>1 DEF Tok
<1> QED BY <1>4, <1>5 DEF a, Less, Single
-----------------------------------------------------------------------------
(* What left with a request                                                *)

\* A request may take one more signature than the server redirected it only if
\* it is waiting for the answer to the last, or will not leave again.
Spare(r) == attached[r] <= req[r].hops
Carries(r) ==
  \/ Spare(r)
  \/ /\ attached[r] = req[r].hops + 1
     /\ \/ req[r].state = "sent" /\ r \in armed
        \/ req[r].state \in {"over", "offered", "manualMain", "resumed"}

Carried == \A r \in Requests : Carries(r)

\* A request whose signature has left leaves with another after a redirect only.
LEMMA NextCarried == Types /\ Waits /\ Carried /\ [Next]_vars => Carried'
<1> SUFFICES ASSUME Types, Waits, Carried, [Next]_vars, NEW q \in Requests PROVE Carries(q)'
  BY DEF Carried
<1> USE DEF ghosts
<1> DEFINE Late == {"over", "offered", "manualMain", "resumed"}
<1>0. /\ Carries(q)
      /\ q \in armed => req[q].state = "sent"
      /\ \A t \in Tabs : /\ waiter[t] # None => req[waiter[t]].state = "unlock"
                         /\ resume[t] # None => req[resume[t]].state = "over"
  BY DEF Carried, Waits, ArmedSent, Waiters
<1>00. attached \in [Requests -> Nat] /\ \A r \in Requests : attached[r] \in Nat /\ req[r].hops \in Nat
  BY TypeFacts DEF Types
<1>1. ASSUME UNCHANGED attached, req'[q].hops = req[q].hops, Spare(q) \/ req'[q].state \in Late
      PROVE  Carries(q)'
  BY <1>0, <1>1 DEF Carries, Spare
<1>2. ASSUME UNCHANGED attached, req'[q] = req[q], req[q].state = "sent" => (q \in armed => q \in armed')
      PROVE  Carries(q)'
  BY <1>0, <1>2 DEF Carries, Spare
<1>3. CASE Quiet BY <1>2, <1>3 DEF Quiet
\* One request moves that has a signature to spare, or to where it has none.
<1>4. ASSUME UNCHANGED attached, Same, NEW r \in Requests, NEW s, Goes(r, s),
             armed' = armed \/ armed' = armed \ {r},
             s \in Late \/ Spare(r)
      PROVE  Carries(q)'
  <2>1. CASE q = r BY <1>1, <1>4, <2>1 DEF Goes, Same
  <2>2. CASE q # r BY <1>2, <1>4, <2>2 DEF Goes
  <2> QED BY <2>1, <2>2
<1>5. ASSUME UNCHANGED attached, Same, NEW r \in Requests, NEW s, NEW S, Sweeps(S, r, s),
             armed' = armed \/ armed' = armed \ {r}, Spare(r)
      PROVE  Carries(q)'
  <2>1. CASE q = r BY <1>1, <1>5, <2>1 DEF Same
  <2>2. CASE q # r /\ q \in S BY <1>1, <1>5, <2>2 DEF Sweeps, Same
  <2>3. CASE q # r /\ q \notin S BY <1>2, <1>5, <2>3 DEF Sweeps
  <2> QED BY <2>1, <2>2, <2>3
<1>6. \A r \in Requests :
        /\ req[r].state \in {"new", "redirect", "auto", "manual", "unlock", "approval"} => Spare(r)
        /\ req[r].state = "sent" /\ r \notin armed => Spare(r)
  BY DEF Carried, Carries
<1>7. ASSUME NEW r \in Requests, Issue(r) \/ Follow(r) PROVE Carries(q)'
  <2>1. Same /\ Goes(r, "sent") /\ Spare(r) BY <1>6, <1>7, NetworkMoves DEF Issue, Follow
  <2>2. UNCHANGED <<armed, attached>>
        \/ (armed' = armed \cup {r} /\ attached' = [attached EXCEPT ![r] = @ + 1])
    BY <1>7, InjectEffect DEF Issue, Follow
  <2>3. CASE UNCHANGED <<armed, attached>> BY <1>4, <2>1, <2>3
  <2>4. CASE armed' = armed \cup {r} /\ attached' = [attached EXCEPT ![r] = @ + 1]
    <3>1. attached \in [Requests -> Nat] BY <1>00
    <3>2. CASE q = r
      <4>1. attached'[r] = attached[r] + 1 /\ req'[r].hops = req[r].hops
        BY <2>1, <2>4, <3>1 DEF Same
      <4>2. attached'[r] <= req'[r].hops \/ attached'[r] = req'[r].hops + 1
        BY <1>00, <2>1, <4>1 DEF Spare
      <4> QED BY <2>1, <2>4, <3>2, <4>2 DEF Carries, Spare, Goes
    <3>3. CASE q # r
      <4>1. attached'[q] = attached[q] /\ req'[q] = req[q] BY <2>1, <2>4, <3>1, <3>3 DEF Goes
      <4> QED BY <1>0, <2>4, <4>1 DEF Carries, Spare
    <3> QED BY <3>2, <3>3
  <2> QED BY <2>2, <2>3, <2>4
<1>8. ASSUME NEW r \in Requests, Respond(r) \/ NetworkError(r) \/ ExpireApproval(r) PROVE Carries(q)'
  <2>1. /\ Same /\ Goes(r, "over") /\ UNCHANGED attached
        /\ armed' = armed \/ armed' = armed \ {r}
    BY <1>8, NetworkMoves DEF Respond, NetworkError, ExpireApproval, Book
  <2> QED BY <1>4, <2>1
<1>9. ASSUME NEW r \in Requests, Detect(r) PROVE Carries(q)'
  <2>1. Same /\ UNCHANGED attached /\ armed' = armed \ {r} /\ req[r].state = "sent"
    BY <1>9, NetworkMoves DEF Detect, Book
  <2>2. \/ Goes(r, "over")
        \/ r \notin armed /\ (\E s : Goes(r, s) \/ \E S : Sweeps(S, r, s))
    BY <1>9, NetworkMoves DEF KnownRejected
  <2>3. CASE Goes(r, "over") BY <1>4, <2>1, <2>3
  <2>4. CASE r \notin armed /\ (\E s : Goes(r, s) \/ \E S : Sweeps(S, r, s))
    <3>1. Spare(r) BY <1>6, <2>1, <2>4
    <3> QED BY <1>4, <1>5, <2>1, <2>4, <3>1
  <2> QED BY <2>2, <2>3, <2>4
<1>10. ASSUME NEW r \in Requests, SignOk(r) \/ SignFails(r) PROVE Carries(q)'
  <2>1. Same /\ UNCHANGED <<attached, armed>> BY <1>10, SignMoves DEF SignOk, SignFails
  <2>2. \/ \E s \in Late : Goes(r, s)
        \/ req[r].state \in {"auto", "manual"} /\ \E s : Goes(r, s)
    BY <1>10, SignMoves
  <2> QED BY <1>4, <1>6, <2>1, <2>2
<1>11. ASSUME NEW r \in Requests, SignLocked(r) PROVE Carries(q)'
  <2>1. Same /\ UNCHANGED <<attached, armed>> BY <1>11, SignMoves DEF SignLocked
  <2>2. \/ Goes(r, "over")
        \/ req[r].state = "auto" /\ \E S : Sweeps(S, r, "unlock")
    BY <1>11, SignMoves
  <2> QED BY <1>4, <1>5, <1>6, <2>1, <2>2
<1>12. ASSUME NEW t \in Tabs, ExpireUnlock(t) PROVE Carries(q)'
  <2>1. UNCHANGED <<attached, armed>> /\ waiter[t] \in Requests /\ Same /\ Goes(waiter[t], "over")
    BY <1>12, CallMoves DEF ExpireUnlock
  <2> QED BY <1>4, <2>1
<1>13. ASSUME NEW t \in Tabs, ExpireResume(t) PROVE Carries(q)'
  BY <1>2, <1>13 DEF ExpireResume
<1>14. ASSUME NEW t \in Tabs, CloseTab(t) PROVE Carries(q)'
  <2>0. Same BY <1>14, CloseMoves
  <2>1. IF Tab(q) = t /\ req[q].state \in Ended THEN req'[q].state = "over" ELSE req'[q] = req[q]
    BY <1>14, CloseMoves
  <2>2. UNCHANGED attached /\ armed' = {r \in armed : Tab(r) # t} BY <1>14 DEF CloseTab
  <2>3. CASE Tab(q) = t /\ req[q].state \in Ended BY <1>1, <2>0, <2>1, <2>2, <2>3 DEF Same
  <2>4. CASE ~(Tab(q) = t /\ req[q].state \in Ended) BY <1>2, <2>1, <2>2, <2>4 DEF Ended
  <2> QED BY <2>3, <2>4
<1>15. CASE HandleApprove
  <2>1. UNCHANGED <<attached, armed>> BY <1>15 DEF HandleApprove
  <2>2. PICK r \in Requests : \/ UNCHANGED req
                              \/ req[r].state = "approval" /\ Same /\ Goes(r, "manual")
                              \/ Same /\ Goes(r, "manualMain")
    BY <1>15, CallMoves
  <2> QED BY <1>2, <1>4, <1>6, <2>1, <2>2
<1>16. CASE HandleReject
  <2>1. UNCHANGED <<attached, armed>> BY <1>16 DEF HandleReject
  <2>2. UNCHANGED req \/ \E r \in Requests : Same /\ Goes(r, "over") BY <1>16, CallMoves
  <2> QED BY <1>2, <1>4, <2>1, <2>2
<1>17. CASE HandleResume
  <2>1. UNCHANGED <<attached, armed>> BY <1>17 DEF HandleResume
  <2>2. PICK t \in Tabs :
          \/ UNCHANGED req
          \/ waiter[t] \in Requests /\ waiter[t] # None /\ Same /\ Goes(waiter[t], "auto")
          \/ resume[t] \in Requests /\ Same /\ Goes(resume[t], "resumed")
    BY <1>17, CallMoves
  <2>3. CASE UNCHANGED req BY <1>2, <2>1, <2>3
  <2>4. CASE waiter[t] \in Requests /\ waiter[t] # None /\ Same /\ Goes(waiter[t], "auto")
    BY <1>0, <1>4, <1>6, <2>1, <2>4
  <2>5. CASE resume[t] \in Requests /\ Same /\ Goes(resume[t], "resumed") BY <1>4, <2>1, <2>5
  <2> QED BY <2>2, <2>3, <2>4, <2>5
<1>18. ASSUME NEW r \in Requests, Redirected(r) PROVE Carries(q)'
  <2>1. /\ Goes(r, "redirect") /\ req'[r].hops = req[r].hops + 1
        /\ UNCHANGED attached /\ armed' = armed \ {r}
    BY <1>18, NetworkMoves DEF Redirected, Book
  <2>2. CASE q = r
    <3>1. attached[q] <= req[q].hops + 1 BY <1>0, <1>00 DEF Carries, Spare
    <3> QED BY <2>1, <2>2, <3>1 DEF Carries, Spare
  <2>3. CASE q # r BY <1>2, <2>1, <2>3 DEF Goes
  <2> QED BY <2>2, <2>3
<1> QED BY <1>3, <1>7, <1>8, <1>9, <1>10, <1>11, <1>12, <1>13, <1>14, <1>15, <1>16, <1>17, <1>18,
           StepKinds

Owed(r) == attached[r] = booked[r] + lost[r] + (IF r \in armed THEN 1 ELSE 0)

\* What left and what is booked, lost or waited for stay in balance.
LEMMA NextBooked == Types /\ Waits /\ PaymentsAreBooked /\ [Next]_vars => PaymentsAreBooked'
<1> SUFFICES ASSUME Types, Waits, PaymentsAreBooked, [Next]_vars, NEW q \in Requests PROVE Owed(q)'
  BY DEF PaymentsAreBooked, Owed
<1> USE DEF ghosts
<1>0. /\ attached \in [Requests -> Nat] /\ booked \in [Requests -> Nat] /\ lost \in [Requests -> Nat]
      /\ attached[q] \in Nat /\ booked[q] \in Nat /\ lost[q] \in Nat
      /\ Owed(q) /\ (q \in armed => req[q].state = "sent")
  BY DEF Types, Waits, ArmedSent, PaymentsAreBooked, Owed
<1>1. ASSUME UNCHANGED <<attached, booked, lost, armed>> PROVE Owed(q)'
  BY <1>0, <1>1 DEF Owed
<1>2. ASSUME NEW r \in Requests, Issue(r) \/ Follow(r) PROVE Owed(q)'
  <2>1. /\ UNCHANGED <<booked, lost>> /\ req[r].state \in {"new", "redirect"}
        /\ \/ UNCHANGED <<armed, attached>>
           \/ (armed' = armed \cup {r} /\ attached' = [attached EXCEPT ![r] = @ + 1])
    BY <1>2, InjectEffect DEF Issue, Follow
  <2>2. CASE UNCHANGED <<armed, attached>> BY <1>1, <2>1, <2>2
  <2>3. CASE armed' = armed \cup {r} /\ attached' = [attached EXCEPT ![r] = @ + 1]
    <3>1. CASE q = r
      <4>1. attached'[q] = attached[q] + 1 /\ q \notin armed /\ q \in armed' BY <1>0, <2>1, <2>3, <3>1
      <4> QED BY <1>0, <2>1, <4>1 DEF Owed
    <3>2. CASE q # r
      <4>1. attached'[q] = attached[q] /\ (q \in armed' <=> q \in armed) BY <1>0, <2>3, <3>2
      <4> QED BY <1>0, <2>1, <4>1 DEF Owed
    <3> QED BY <3>1, <3>2
  <2> QED BY <2>1, <2>2, <2>3
<1>3. ASSUME NEW r \in Requests, Respond(r) \/ Redirected(r) \/ Detect(r) PROVE Owed(q)'
  <2>1. Book(r) /\ UNCHANGED <<attached, lost>> BY <1>3 DEF Respond, Redirected, Detect
  <2>2. CASE q = r /\ q \in armed
    <3>1. booked'[q] = booked[q] + 1 /\ q \notin armed' BY <1>0, <2>1, <2>2 DEF Book
    <3> QED BY <1>0, <2>1, <2>2, <3>1 DEF Owed
  <2>3. CASE ~(q = r /\ q \in armed)
    <3>1. booked'[q] = booked[q] /\ (q \in armed' <=> q \in armed) BY <1>0, <2>1, <2>3 DEF Book
    <3> QED BY <1>0, <2>1, <3>1 DEF Owed
  <2> QED BY <2>2, <2>3
<1>4. ASSUME NEW r \in Requests, NetworkError(r) PROVE Owed(q)'
  <2>1. UNCHANGED <<attached, booked>> BY <1>4 DEF NetworkError
  <2>2. CASE q = r /\ q \in armed
    <3>1. lost'[q] = lost[q] + 1 /\ q \notin armed' BY <1>0, <1>4, <2>2 DEF NetworkError
    <3> QED BY <1>0, <2>1, <2>2, <3>1 DEF Owed
  <2>3. CASE ~(q = r /\ q \in armed)
    <3>1. lost'[q] = lost[q] /\ (q \in armed' <=> q \in armed) BY <1>0, <1>4, <2>3 DEF NetworkError
    <3> QED BY <1>0, <2>1, <3>1 DEF Owed
  <2> QED BY <2>2, <2>3
<1>5. ASSUME NEW t \in Tabs, CloseTab(t) PROVE Owed(q)'
  <2>1. /\ UNCHANGED <<attached, lost>>
        /\ booked'[q] = IF q \in Finalized(t) THEN booked[q] + 1 ELSE booked[q]
        /\ armed' = {r \in armed : Tab(r) # t}
    BY <1>5 DEF CloseTab
  <2>2. CASE q \in armed /\ Tab(q) = t
    <3>1. booked'[q] = booked[q] + 1 /\ q \notin armed' BY <2>1, <2>2 DEF Finalized
    <3> QED BY <1>0, <2>1, <2>2, <3>1 DEF Owed
  <2>3. CASE ~(q \in armed /\ Tab(q) = t)
    <3>1. booked'[q] = booked[q] /\ (q \in armed' <=> q \in armed) BY <2>1, <2>3 DEF Finalized
    <3> QED BY <1>0, <2>1, <3>1 DEF Owed
  <2> QED BY <2>2, <2>3
<1>6. ASSUME NEW r \in Requests, SignOk(r) \/ SignFails(r) \/ SignLocked(r) \/ ExpireApproval(r)
      PROVE  Owed(q)'
  BY <1>1, <1>6 DEF SignOk, SignFails, SignLocked, ExpireApproval
<1>7. ASSUME NEW t \in Tabs, ExpireUnlock(t) \/ ExpireResume(t) PROVE Owed(q)'
  BY <1>1, <1>7 DEF ExpireUnlock, ExpireResume
<1>8. CASE HandleApprove \/ HandleReject \/ HandleResume
  BY <1>1, <1>8 DEF HandleApprove, HandleReject, HandleResume
<1>9. CASE Quiet BY <1>1, <1>9 DEF Quiet
<1> QED BY <1>2, <1>3, <1>4, <1>5, <1>6, <1>7, <1>8, <1>9, StepKinds
-----------------------------------------------------------------------------
(* What the steps do to the channels                                       *)

\* News of r is sent.
LEMMA SendTok ==
  ASSUME Types, NEW k \in {"needed"} \cup Results, NEW r \in Requests,
         Send(Event(k, r)), NEW K, NEW q
  PROVE  /\ Tok(events, K, q) # {} => Tok(events', K, q) # {}
         /\ ~(k \in K /\ q = r) => Less(events, events', K, q)
         /\ k \in K => /\ Tok(events', K, r) # {}
                       /\ Tok(events, K, r) = {} => Single(Tok(events', K, r))
<1> DEFINE e == Event(k, r)
<1>1. events \in Seq(EventType) /\ e \in EventType BY TypeFacts DEF Types
<1>2. e.kind = k /\ e.of = r BY DEF Event
<1>3. events' = Append(events, e) BY DEF Send
<1> HIDE DEF e
<1> QED BY <1>1, <1>2, <1>3, AppendTok

\* The unlock screen is asked for, or the tab's cards are told that it closes.
LEMMA OtherEventsTok ==
  ASSUME Types, NEW t \in Tabs, NEW K, NEW q
  PROVE  /\ SendIfOpen(t, [kind |-> "unlock", tab |-> t]) =>
              /\ Tok(events, K, q) # {} => Tok(events', K, q) # {}
              /\ "unlock" \notin K => Less(events, events', K, q)
         /\ CloseTab(t) =>
              /\ Tok(events, K, q) # {} => Tok(events', K, q) # {}
              /\ "cancelled" \notin K => Less(events, events', K, q)
<1>1. events \in Seq(EventType) BY DEF Types
<1>2. ASSUME SendIfOpen(t, [kind |-> "unlock", tab |-> t])
      PROVE  /\ Tok(events, K, q) # {} => Tok(events', K, q) # {}
             /\ "unlock" \notin K => Less(events, events', K, q)
  <2> DEFINE e == [kind |-> "unlock", tab |-> t]
  <2>1. e \in EventType /\ e.kind = "unlock" BY TypeFacts
  <2>2. events' = events \/ events' = Append(events, e) BY <1>2 DEF SendIfOpen
  <2> HIDE DEF e
  <2>3. CASE events' = events BY <2>3 DEF Less
  <2>4. CASE events' = Append(events, e) BY <1>1, <2>1, <2>4, AppendTok
  <2> QED BY <2>2, <2>3, <2>4
<1>3. ASSUME CloseTab(t)
      PROVE  /\ Tok(events, K, q) # {} => Tok(events', K, q) # {}
             /\ "cancelled" \notin K => Less(events, events', K, q)
  <2> DEFINE E == {Event("cancelled", r) : r \in Cards(t)}
  <2>1. IsFiniteSet(E)
    <3>1. Cards(t) \in SUBSET Requests BY DEF Cards, Approvals
    <3>2. IsFiniteSet(Cards(t)) BY <3>1, RequestAssumption, FS_Subset
    <3> DEFINE f == [r \in Cards(t) |-> Event("cancelled", r)]
    <3>3. f \in Surjection(Cards(t), E) BY DEF Surjection
    <3> HIDE DEF E, f
    <3> QED BY <3>2, <3>3, FS_Surjection DEF ExistsSurjection
  <2>2. \A e \in E : e.kind = "cancelled" BY DEF Event
  <2>3. events' = events \o SetToSeq(E) BY <1>3 DEF CloseTab
  <2> HIDE DEF E
  <2>4. SetToSeq(E) \in Seq(E) BY <2>1, SetInOrder
  <2> QED BY <1>1, <2>2, <2>3, <2>4, ConcatTok
<1> QED BY <1>2, <1>3

\* The sidebar reads an event, or main a call.
LEMMA ReadTok ==
  ASSUME Types, NEW K, NEW q
  PROVE  /\ Received =>
              /\ Less(events, events', K, q)
              /\ ~(Head(events).kind \in K /\ Head(events).of = q) /\ Tok(events, K, q) # {} =>
                   Tok(events', K, q) # {}
              /\ Head(events).kind \in K /\ Head(events).of = q =>
                   Tok(events, K, q) # {} /\ (Single(Tok(events, K, q)) => Tok(events', K, q) = {})
         /\ Answered =>
              /\ Less(calls, calls', K, q)
              /\ ~(Head(calls).kind \in K /\ Head(calls).of = q) /\ Tok(calls, K, q) # {} =>
                   Tok(calls', K, q) # {}
              /\ Head(calls).kind \in K /\ Head(calls).of = q =>
                   Tok(calls, K, q) # {} /\ (Single(Tok(calls, K, q)) => Tok(calls', K, q) = {})
<1>1. events \in Seq(EventType) /\ calls \in Seq(CallType) BY DEF Types
<1> QED BY <1>1, TailTok DEF Received, Answered

\* The sidebar calls.
LEMMA CallTok ==
  ASSUME Types, NEW c \in CallType, Call(c), NEW K, NEW q
  PROVE  /\ Tok(calls, K, q) # {} => Tok(calls', K, q) # {}
         /\ ~(c.kind \in K /\ c.of = q) => Less(calls, calls', K, q)
         /\ c.kind \in K /\ c.of = q => /\ Tok(calls', K, q) # {}
                                        /\ Tok(calls, K, q) = {} => Single(Tok(calls', K, q))
<1>1. calls \in Seq(CallType) BY DEF Types
<1> QED BY <1>1, AppendTok DEF Call

\* Hiding what is shown calls for the card that was up, if there was one.
LEMMA HideTok ==
  ASSUME Types, Hide, NEW K, NEW q
  PROVE  /\ Tok(calls, K, q) # {} => Tok(calls', K, q) # {}
         /\ ~("reject" \in K /\ card.of = q /\ card # NoCard) /\ "cancel" \notin K =>
              Less(calls, calls', K, q)
         /\ Less(calls, calls', K, q)
            \/ (Tok(calls, K, q) = {} => Single(Tok(calls', K, q)))
<1>1. CASE card = NoCard BY <1>1 DEF Hide, Less
<1>2. CASE card # NoCard
  <2> DEFINE c == Withdrawal(card.of)
  <2>1. c \in CallType /\ c.kind \in {"reject", "cancel"} /\ (c.kind = "reject" => c.of = card.of)
    BY <1>2, TypeFacts DEF Withdrawal
  <2>2. Call(c) BY <1>2 DEF Hide, Call
  <2> HIDE DEF c
  <2>3. /\ Tok(calls, K, q) # {} => Tok(calls', K, q) # {}
        /\ ~(c.kind \in K /\ c.of = q) => Less(calls, calls', K, q)
        /\ c.kind \in K /\ c.of = q => (Tok(calls, K, q) = {} => Single(Tok(calls', K, q)))
    BY <2>1, <2>2, CallTok
  <2> QED BY <1>2, <2>1, <2>3
<1> QED BY <1>1, <1>2
-----------------------------------------------------------------------------
(* The signature flight of the sidebar                                     *)

\* A signature is made for c, or the call for it or the news of it is on its way.
Owns(c) ==
  \/ req[c].state \in ByHand
  \/ Tok(calls, {"approve"}, c) # {}
  \/ Tok(events, Results, c) # {}

\* The owner of the flight is what LockIsOwned asks for.
LEMMA OwnsMeaning ==
  ASSUME NEW c PROVE Owns(c) <=> req[c].state \in ByHand \/ InTransit(c)
BY DEF Owns, InTransit, Tok, Results

Flight == \A c \in Requests : card = [of |-> c, signing |-> TRUE] => Owns(c)

\* The signature flight always has its owner.
LEMMA NextFlight == Types /\ Waits /\ Flight /\ [Next]_vars => Flight'
<1> SUFFICES ASSUME Types, Waits, Flight, [Next]_vars,
                    NEW c \in Requests, card' = [of |-> c, signing |-> TRUE]
             PROVE  Owns(c)'
  BY DEF Flight
<1> USE DEF main, sidebar, ghosts
<1> DEFINE Up == card = [of |-> c, signing |-> TRUE]
<1>0. /\ Up => Owns(c)
      /\ Up => card # NoCard /\ card.signing = TRUE /\ card.of = c
      /\ \A t \in Tabs : /\ waiter[t] # None => req[waiter[t]].state = "unlock"
                         /\ resume[t] # None => req[resume[t]].state = "over"
  BY RequestAssumption DEF Flight, Waits, Waiters, NoCard
<1>1. ASSUME Up, req[c].state \in ByHand => req'[c].state \in ByHand,
             Tok(calls, {"approve"}, c) # {} => Tok(calls', {"approve"}, c) # {},
             Tok(events, Results, c) # {} => Tok(events', Results, c) # {}
      PROVE  Owns(c)'
  BY <1>0, <1>1 DEF Owns
\* A request that is not being signed after a click moves, or nobody does.
<1>2. ASSUME NEW r \in Requests, NEW s, NEW S, Sweeps(S, r, s),
             req[r].state \notin ByHand \/ s \in ByHand,
             \A q \in S : req[q].state \notin ByHand
      PROVE  req[c].state \in ByHand => req'[c].state \in ByHand
  BY <1>2 DEF Sweeps
<1>3. ASSUME NEW r \in Requests, NEW s, Goes(r, s), req[r].state \notin ByHand \/ s \in ByHand
      PROVE  req[c].state \in ByHand => req'[c].state \in ByHand
  BY <1>3 DEF Goes
<1>4. ASSUME NEW r \in Requests,
             \/ Issue(r) \/ Follow(r) \/ Respond(r) \/ Redirected(r) \/ NetworkError(r)
             \/ Detect(r) \/ ExpireApproval(r)
      PROVE  Owns(c)'
  <2>1. Up /\ UNCHANGED calls
    BY <1>4 DEF Issue, Follow, Respond, Redirected, NetworkError, Detect, ExpireApproval
  <2>2. req[r].state \notin ByHand
    BY <1>4 DEF Issue, Follow, Respond, Redirected, NetworkError, Detect, ExpireApproval, ByHand
  <2>3. \A q \in Approvals(Tab(r)) : req[q].state \notin ByHand BY DEF Approvals, ByHand
  <2>4. (\E s : Goes(r, s)) \/ (\E s : Sweeps(Approvals(Tab(r)), r, s))
    BY <1>4, NetworkMoves
  <2>5. req[c].state \in ByHand => req'[c].state \in ByHand BY <1>2, <1>3, <2>2, <2>3, <2>4
  <2>6. Tok(events, Results, c) # {} => Tok(events', Results, c) # {}
    <3>1. UNCHANGED events \/ \E k \in {"needed"} \cup Results : Send(Event(k, r))
      BY <1>4 DEF Issue, Follow, Respond, Redirected, NetworkError, Detect, ExpireApproval, Results
    <3> QED BY <3>1, SendTok
  <2> QED BY <1>1, <2>1, <2>5, <2>6
<1>5. ASSUME NEW r \in Requests, SignOk(r) PROVE Owns(c)'
  <2>1. Up /\ UNCHANGED calls BY <1>5 DEF SignOk
  <2>2. CASE req[r].state \in ByHand
    <3>1. \E k \in {"success", "replied"} : Send(Event(k, r))
      BY <1>5, <2>2 DEF SignOk, ByHand, Notify
    <3>2. PICK k \in Results : Send(Event(k, r)) BY <3>1 DEF Results
    <3>3. CASE c = r
      <4>1. Tok(events', Results, c) # {} BY <3>2, <3>3, SendTok
      <4> QED BY <4>1 DEF Owns
    <3>4. CASE c # r
      <4>1. req'[c] = req[c] BY <1>5, <3>4, SignMoves DEF Goes
      <4>2. Tok(events, Results, c) # {} => Tok(events', Results, c) # {} BY <3>2, SendTok
      <4> QED BY <1>1, <2>1, <4>1, <4>2
    <3> QED BY <3>3, <3>4
  <2>3. CASE req[r].state \notin ByHand
    <3>1. UNCHANGED events BY <1>5, <2>3 DEF SignOk, ByHand
    <3>2. req[c].state \in ByHand => req'[c].state \in ByHand BY <1>3, <1>5, <2>3, SignMoves
    <3> QED BY <1>1, <2>1, <3>1, <3>2
  <2> QED BY <2>2, <2>3
<1>6. ASSUME NEW r \in Requests, SignFails(r) PROVE Owns(c)'
  <2>1. Up /\ UNCHANGED calls BY <1>6 DEF SignFails
  <2>2. CASE req[r].state \in ByHand
    <3>1. PICK k \in Results : Send(Event(k, r)) BY <1>6, <2>2, SignMoves DEF ByHand, Results
    <3>3. CASE c = r
      <4>1. Tok(events', Results, c) # {} BY <3>1, <3>3, SendTok
      <4> QED BY <4>1 DEF Owns
    <3>4. CASE c # r
      <4>1. req'[c] = req[c] BY <1>6, <3>4, SignMoves DEF Goes
      <4>2. Tok(events, Results, c) # {} => Tok(events', Results, c) # {} BY <3>1, SendTok
      <4> QED BY <1>1, <2>1, <4>1, <4>2
    <3> QED BY <3>3, <3>4
  <2>3. CASE req[r].state \notin ByHand
    <3>1. UNCHANGED events /\ Goes(r, "over") BY <1>6, <2>3, SignMoves DEF ByHand
    <3>2. req[c].state \in ByHand => req'[c].state \in ByHand BY <1>3, <2>3, <3>1
    <3> QED BY <1>1, <2>1, <3>1, <3>2
  <2> QED BY <2>2, <2>3
<1>7. ASSUME NEW r \in Requests, SignLocked(r) PROVE Owns(c)'
  <2>1. Up /\ UNCHANGED calls /\ SendIfOpen(Tab(r), [kind |-> "unlock", tab |-> Tab(r)])
    BY <1>7 DEF SignLocked
  <2>2. Tok(events, Results, c) # {} => Tok(events', Results, c) # {}
    BY <2>1, OtherEventsTok, TypeFacts
  <2>3. \A q \in OlderWait(Tab(r)) : req[q].state \notin ByHand
    <3>1. \A q \in OlderWait(Tab(r)) : q \in Requests /\ waiter[Tab(r)] = q BY DEF OlderWait
    <3> QED BY <1>0, <3>1, RequestAssumption, TypeFacts DEF ByHand
  <2>4. req[c].state \in ByHand => req'[c].state \in ByHand
    <3>1. req[r].state \notin ByHand BY <1>7 DEF SignLocked, ByHand
    <3>2. Sweeps(OlderWait(Tab(r)), r, "unlock") \/ Goes(r, "over") BY <1>7, SignMoves
    <3> QED BY <1>2, <1>3, <2>3, <3>1, <3>2
  <2> QED BY <1>1, <2>1, <2>2, <2>4
<1>8. ASSUME NEW t \in Tabs, ExpireUnlock(t) PROVE Owns(c)'
  <2>1. Up /\ UNCHANGED <<calls, events>> BY <1>8 DEF ExpireUnlock
  <2>2. /\ waiter[t] \in Requests /\ waiter[t] # None /\ Goes(waiter[t], "over")
    BY <1>8, CallMoves
  <2>3. req[c].state \in ByHand => req'[c].state \in ByHand BY <1>0, <1>3, <2>2 DEF ByHand
  <2> QED BY <1>1, <2>1, <2>3
<1>9. ASSUME NEW t \in Tabs, ExpireResume(t) PROVE Owns(c)'
  BY <1>1, <1>9 DEF ExpireResume
<1>10. ASSUME NEW t \in Tabs, CloseTab(t) PROVE Owns(c)'
  <2>1. Up /\ UNCHANGED calls BY <1>10 DEF CloseTab
  <2>2. Tok(events, Results, c) # {} => Tok(events', Results, c) # {} BY <1>10, OtherEventsTok
  <2>3. req[c].state \in ByHand => req'[c].state \in ByHand BY <1>10, CloseMoves DEF ByHand, Ended
  <2> QED BY <1>1, <2>1, <2>2, <2>3
<1>11. ASSUME NEW t \in Tabs, NEW k \in Keys, SignatureExpires(t, k) PROVE Owns(c)'
  BY <1>1, <1>11 DEF SignatureExpires
<1>12. CASE ChangeCap BY <1>1, <1>12 DEF ChangeCap
\* A call that is read and is no approval leaves the approvals where they were.
<1>13. ASSUME Up, Answered, Head(calls).kind # "approve", UNCHANGED events,
              req[c].state \in ByHand => req'[c].state \in ByHand
       PROVE  Owns(c)'
  <2>1. Tok(calls, {"approve"}, c) # {} => Tok(calls', {"approve"}, c) # {} BY <1>13, ReadTok
  <2> QED BY <1>1, <1>13, <2>1
<1>14. CASE HandleDetails BY <1>13, <1>14 DEF HandleDetails
<1>15. CASE HandleReject
  <2>1. Up /\ Answered /\ Head(calls).kind # "approve" /\ UNCHANGED events BY <1>15 DEF HandleReject
  <2>2. \/ UNCHANGED req
        \/ \E r \in Requests : req[r].state = "approval" /\ Goes(r, "over")
    BY <1>15, CallMoves
  <2>3. req[c].state \in ByHand => req'[c].state \in ByHand BY <1>3, <2>2 DEF ByHand
  <2> QED BY <1>13, <2>1, <2>3
<1>16. CASE HandleResume
  <2>1. Up /\ Answered /\ Head(calls).kind # "approve" /\ UNCHANGED events BY <1>16 DEF HandleResume
  <2>2. PICK t \in Tabs :
          \/ UNCHANGED req
          \/ waiter[t] \in Requests /\ waiter[t] # None /\ Goes(waiter[t], "auto")
          \/ resume[t] \in Requests /\ resume[t] # None /\ Goes(resume[t], "resumed")
    BY <1>16, CallMoves
  <2>3. req[c].state \in ByHand => req'[c].state \in ByHand BY <1>0, <1>3, <2>2 DEF ByHand
  <2> QED BY <1>13, <2>1, <2>3
<1>17. CASE HandleApprove
  <2> DEFINE r == Head(calls).of
  <2>1. Up /\ Answered /\ Head(calls).kind = "approve" /\ r \in Requests
    BY <1>17, HeadTypes DEF HandleApprove, Answered
  <2>2. \/ Goes(r, "manual") /\ UNCHANGED events
        \/ Goes(r, "manualMain") /\ UNCHANGED events
        \/ UNCHANGED req /\ Send(Event("refused", r))
    BY <1>17, CallMoves
  <2>3. CASE c = r
    <3>1. CASE req'[r].state \in ByHand BY <2>3, <3>1 DEF Owns
    <3>2. CASE Send(Event("refused", r))
      <4>1. Tok(events', Results, r) # {} BY <2>1, <3>2, SendTok DEF Results
      <4> QED BY <2>3, <4>1 DEF Owns
    <3> QED BY <2>2, <3>1, <3>2 DEF Goes, ByHand
  <2>4. CASE c # r
    <3>1. Tok(calls, {"approve"}, c) # {} => Tok(calls', {"approve"}, c) # {}
      BY <2>1, <2>4, ReadTok
    <3>2. Tok(events, Results, c) # {} => Tok(events', Results, c) # {}
      <4>1. CASE UNCHANGED events BY <4>1
      <4>2. CASE Send(Event("refused", r)) BY <2>1, <4>2, SendTok DEF Results
      <4> QED BY <2>2, <4>1, <4>2
    <3>3. req'[c] = req[c] BY <2>2, <2>4 DEF Goes
    <3> QED BY <1>1, <2>1, <3>1, <3>2, <3>3
  <2> QED BY <2>3, <2>4
\* The sidebar calls or hides what it shows; the flight is as it was.
<1>18. ASSUME Up, UNCHANGED req, UNCHANGED calls \/ Hide \/ \E x \in CallType : Call(x),
              UNCHANGED events \/ (Received /\ ~(Head(events).kind \in Results /\ Head(events).of = c))
       PROVE  Owns(c)'
  <2>1. Tok(calls, {"approve"}, c) # {} => Tok(calls', {"approve"}, c) # {}
    BY <1>18, CallTok, HideTok
  <2>2. Tok(events, Results, c) # {} => Tok(events', Results, c) # {} BY <1>18, ReadTok
  <2> QED BY <1>1, <1>18, <2>1, <2>2
<1>19. CASE HandleNeeded
  <2>1. [kind |-> "details", of |-> Head(events).of] \in CallType
    BY <1>19, HeadTypes DEF HandleNeeded, Received, CallType, CallOf
  <2>2. Up /\ UNCHANGED req /\ Received /\ Head(events).kind \notin Results
        /\ (UNCHANGED calls \/ Call([kind |-> "details", of |-> Head(events).of]))
    BY <1>19 DEF HandleNeeded, Results
  <2> QED BY <1>18, <2>1, <2>2
<1>20. ASSUME NEW r \in Requests, Show(r) PROVE Owns(c)'
  <2>1. Up /\ UNCHANGED <<req, events, calls>> BY <1>20 DEF Show
  <2> QED BY <1>18, <2>1
<1>21. CASE Pay
  <2>1. /\ card # NoCard /\ card.of \in Requests /\ card \in [of : Requests, signing : BOOLEAN]
        /\ card' = [card EXCEPT !.signing = TRUE]
    BY <1>21, TypeFacts DEF Pay
  <2>2. card.of = c BY <2>1
  <2>3. PICK g \in Grants \cup {0} : Call([kind |-> "approve", of |-> c, grant |-> g])
    BY <1>21, <2>2 DEF Pay
  <2> DEFINE x == [kind |-> "approve", of |-> c, grant |-> g]
  <2>4. x \in CallType /\ x.kind = "approve" /\ x.of = c BY DEF CallType, ApproveCall
  <2> HIDE DEF x
  <2>5. Call(x) BY <2>3 DEF x
  <2>6. Tok(calls', {"approve"}, c) # {} BY <2>4, <2>5, CallTok
  <2> QED BY <2>6 DEF Owns
<1>22. CASE Reject BY <1>22 DEF Reject, NoCard
<1>23. CASE HandleResult
  <2>1. UNCHANGED <<req, calls>> /\ Received BY <1>23 DEF HandleResult
  <2>2. CASE card = NoCard \/ card.of # Head(events).of
    <3>1. Up BY <1>23, <2>2 DEF HandleResult
    <3> QED BY <1>0, <1>18, <2>1, <2>2, <3>1
  <2>3. CASE ~(card = NoCard \/ card.of # Head(events).of)
    <3>1. card \in [of : Requests, signing : BOOLEAN] BY <2>3, TypeFacts
    <3>2. card' = [card EXCEPT !.signing = FALSE] \/ card' = NoCard BY <1>23, <2>3 DEF HandleResult
    <3> QED BY <3>1, <3>2 DEF NoCard
  <2> QED BY <2>2, <2>3
<1>24. CASE HandleUnlock
  <2>1. Up /\ UNCHANGED <<req, calls>> /\ Received /\ Head(events).kind \notin Results
    BY <1>24 DEF HandleUnlock, NoCard, Results
  <2> QED BY <1>18, <2>1
<1>25. CASE Unlock
  <2>1. prompt.tab # None => [kind |-> "resume", tab |-> prompt.tab] \in CallType
    BY DEF Types, Prompt, CallType, TabCall
  <2>2. Up /\ UNCHANGED <<req, events>>
        /\ (UNCHANGED calls \/ (prompt.tab # None /\ Call([kind |-> "resume", tab |-> prompt.tab])))
    BY <1>25 DEF Unlock
  <2> QED BY <1>18, <2>1, <2>2
<1>26. CASE UNCHANGED vars BY <1>18, <1>26 DEF vars
<1> QED BY <1>4, <1>5, <1>6, <1>7, <1>8, <1>9, <1>10, <1>11, <1>12, <1>14, <1>15, <1>16, <1>17,
           <1>19, <1>20, <1>21, <1>22, <1>23, <1>24, <1>25, <1>26
        DEF Next, Network, Sign, Handle, Listen, User
-----------------------------------------------------------------------------
(* One click pays once                                                     *)

Consent(q) == OneConsent(q) /\ Remembered(q)

\* Nothing comes about that could bring a click for q.
Calm(q) ==
  /\ Less(events, events', NewsKinds, q)
  /\ Less(calls, calls', AskKinds, q)
  /\ q \in details' => q \in details
  /\ Live(q)' => Live(q)

\* A click that is on its way is a call that is on its way.
LEMMA ApprovesAsk == ASSUME NEW q PROVE Approves(q) \subseteq Asks(q)
BY DEF Approves, Asks, Tok, AskKinds

\* Nothing that can bring a click is left.
LEMMA SpentConsent ==
  ASSUME NEW q, Free(q)', req'[q].state \in ByHand => q \in agreed'
  PROVE  Consent(q)'
<1>1. Approves(q)' = {} BY ApprovesAsk DEF Approves, Asks, Free, Tok, AskKinds
<1> QED BY <1>1 DEF Consent, OneConsent, Remembered, Free, Sole, Single

\* Nothing came about and nothing was left.
LEMMA CalmFree == ASSUME NEW q, Free(q), Calm(q) PROVE Free(q)'
BY DEF Free, Calm, Less, News, Asks

\* Nothing came about, and what q is has not changed.
LEMMA SteadyConsent ==
  ASSUME NEW q, Consent(q), Calm(q), req'[q].state = req[q].state, Payable(q)' => Payable(q),
         Less(calls, calls', {"approve"}, q), q \in agreed => q \in agreed'
  PROVE  Consent(q)'
<1>1. Free(q) => Free(q)' BY CalmFree
<1>2. Sole(q) => Sole(q)' BY DEF Sole, Calm, Less, News, Asks
<1>3. Approves(q) = {} => Approves(q)' = {} BY DEF Less, Approves
<1>4. OneConsent(q)' BY <1>1, <1>2 DEF Consent, OneConsent
<1>5. Remembered(q)' BY <1>3 DEF Consent, Remembered
<1> QED BY <1>4, <1>5 DEF Consent

\* A click would not be paid.
LEMMA StaleConsent ==
  ASSUME NEW q, ~Payable(q)', req'[q].state \notin Early \cup {"manualMain"}
  PROVE  Consent(q)'
BY DEF Consent, OneConsent, Remembered, Early, ByHand

\* What can bring the click has moved on.
LEMMA MovedConsent ==
  ASSUME NEW q, Consent(q), ~Free(q), req'[q].state = req[q].state, Payable(q)' => Payable(q),
         Payable(q) /\ Sole(q) => Sole(q)',
         Less(calls, calls', {"approve"}, q) \/ q \in agreed', q \in agreed => q \in agreed'
  PROVE  Consent(q)'
<1>1. Less(calls, calls', {"approve"}, q) => (Approves(q) = {} => Approves(q)' = {})
  BY DEF Less, Approves
<1>2. OneConsent(q)' BY DEF Consent, OneConsent
<1>3. Remembered(q)' BY <1>1 DEF Consent, Remembered
<1> QED BY <1>2, <1>3 DEF Consent

\* The first news of an offer is on its way, and nothing else.
LEMMA NewsConsent ==
  ASSUME NEW q, Single(News(q)'), Asks(q)' = {}, q \notin details', ~Live(q)',
         req'[q].state \in {"approval", "offered"}
  PROVE  Consent(q)'
<1>1. Approves(q)' = {} BY DEF Approves, Asks, Tok, AskKinds
<1>2. Sole(q)' BY DEF Sole, Single
<1>3. OneConsent(q)' BY <1>2 DEF OneConsent, Early
<1>4. Remembered(q)' BY <1>1 DEF Remembered, ByHand
<1> QED BY <1>3, <1>4 DEF Consent

\* A click for a request that is in no offer is not paid or cannot come.
LEMMA NoOffer ==
  ASSUME NEW q, Consent(q)
  PROVE  /\ req[q].state \notin {"approval", "offered"} => Free(q) \/ ~Payable(q)
         /\ req[q].state \in Early => Free(q)
BY DEF Consent, OneConsent
\* What the network and the signatures do keeps the one click.
LEMMA MainConsents ==
  ASSUME Types, Types', Waits, Consents, [Next]_vars, NEW r \in Requests, NEW q \in Requests,
         \/ Issue(r) \/ Follow(r) \/ Respond(r) \/ Redirected(r) \/ NetworkError(r) \/ Detect(r)
         \/ SignOk(r) \/ SignFails(r) \/ SignLocked(r) \/ ExpireApproval(r)
  PROVE  Consent(q)'
<1> USE DEF ghosts, sidebar
<1>0. /\ Fixed /\ Tab(q)' = Tab(q) /\ Tab(q) \in Tabs /\ Tab(r) \in Tabs
      /\ Consent(q) /\ Consent(r) /\ req[r].state \in States
      /\ \A p \in Requests : Tab(p)' = Tab(p)
  BY NextOffers, TypeFacts DEF Consents, Consent
<1>1. UNCHANGED <<calls, details, card>> /\ (q # r => (q \in agreed => q \in agreed'))
  BY DEF Issue, Follow, Respond, Redirected, NetworkError, Detect, SignOk, SignFails, SignLocked, ExpireApproval
<1>2. Less(calls, calls', AskKinds, q) /\ Less(calls, calls', {"approve"}, q) BY <1>1 DEF Less
<1>3. ASSUME Less(events, events', NewsKinds, q) PROVE Calm(q)
  BY <1>1, <1>2, <1>3 DEF Calm, Live
<1>4. ASSUME UNCHANGED events PROVE Less(events, events', NewsKinds, q) BY <1>4 DEF Less
\* A free request moves.
<1>5. ASSUME Free(q), Less(events, events', NewsKinds, q), req'[q].state \notin ByHand
      PROVE  Consent(q)'
  BY <1>3, <1>5, CalmFree, SpentConsent
\* Another request moves.
<1>6. ASSUME Less(events, events', NewsKinds, q), q # r, req'[q].state = req[q].state,
             Offered(q)' => Offered(q)
      PROVE  Consent(q)'
  <2>1. Payable(q)' => Payable(q) BY <1>6 DEF Payable
  <2> QED BY <1>0, <1>1, <1>2, <1>3, <1>6, <2>1, SteadyConsent
<1>7. ASSUME UNCHANGED slot PROVE \A p \in Requests : Offered(p)' => Offered(p)
  BY <1>0, <1>7, NoNewOffer
<1>8. CASE Issue(r) \/ Follow(r) \/ Respond(r) \/ Redirected(r) \/ NetworkError(r)
  <2>1. UNCHANGED <<events, slot>> /\ req[r].state \in Early
    BY <1>8 DEF Issue, Follow, Respond, Redirected, NetworkError, Early
  <2>2. Goes(r, "sent") \/ Goes(r, "over") \/ Goes(r, "redirect") BY <1>8, NetworkMoves
  <2>3. CASE q = r
    <3>1. Free(q) BY <1>0, <2>1, <2>3, NoOffer
    <3> QED BY <1>4, <1>5, <2>1, <2>2, <2>3, <3>1 DEF Goes, ByHand
  <2>4. CASE q # r BY <1>4, <1>6, <1>7, <2>1, <2>2, <2>4 DEF Goes
  <2> QED BY <2>3, <2>4
<1>9. CASE Detect(r)
  <2>1. Free(r) BY <1>0, <1>9, NoOffer DEF Detect, Early
  <2>2. slot \in [Tabs -> Detection] /\ \E b \in BOOLEAN : slot' = [slot EXCEPT ![Tab(r)] = [of |-> r, card |-> b]]
    BY <1>9 DEF Detect, Types
  <2>3. q # r => (Offered(q)' => Offered(q)) /\ (Tab(q) = Tab(r) => ~Offered(q)')
    <3>1. slot'[Tab(q)] = slot[Tab(q)] \/ slot'[Tab(q)].of = r
      <4>1. CASE Tab(q) = Tab(r) BY <1>0, <2>2, <4>1
      <4>2. CASE Tab(q) # Tab(r) BY <1>0, <2>2, <4>2
      <4> QED BY <4>1, <4>2
    <3>2. Tab(q) = Tab(r) => slot'[Tab(q)].of = r BY <1>0, <2>2
    <3> QED BY <1>0, <3>1, <3>2 DEF Offered
  <2>4. CASE UNCHANGED events /\ \E s \in {"over", "auto", "autoMain"} : Goes(r, s)
    <3>1. CASE q = r BY <1>4, <1>5, <2>1, <2>4, <3>1 DEF Goes, ByHand
    <3>2. CASE q # r BY <1>4, <1>6, <2>3, <2>4, <3>2 DEF Goes
    <3> QED BY <3>1, <3>2
  <2>5. CASE Send(Event("needed", r)) /\ \E s \in {"offered", "approval"} : Sweeps(Approvals(Tab(r)), r, s)
    <3>1. CASE q = r
      <4>1. Single(News(q)') BY <2>1, <2>5, <3>1, SendTok DEF Free, News, NewsKinds
      <4>2. Asks(q)' = {} /\ q \notin details' /\ ~Live(q)'
        BY <1>1, <2>1, <3>1 DEF Free, Asks, Live
      <4> QED BY <2>5, <3>1, <4>1, <4>2, NewsConsent DEF Sweeps
    <3>2. CASE q # r /\ q \in Approvals(Tab(r))
      <4>1. req'[q].state = "over" BY <2>5, <3>2 DEF Sweeps
      <4>2. ~Payable(q)' BY <2>3, <3>2, <4>1 DEF Approvals, Payable
      <4> QED BY <4>1, <4>2, StaleConsent DEF Early
    <3>3. CASE q # r /\ q \notin Approvals(Tab(r))
      <4>1. req'[q] = req[q] BY <2>5, <3>3 DEF Sweeps
      <4>2. Less(events, events', NewsKinds, q) BY <2>5, <3>3, SendTok
      <4> QED BY <1>6, <2>3, <3>3, <4>1, <4>2
    <3> QED BY <3>1, <3>2, <3>3
  <2> QED BY <1>9, <2>4, <2>5, NetworkMoves
<1>10. CASE SignOk(r)
  <2>1. \A p \in Requests : Offered(p)' => Offered(p)
    <3>1. UNCHANGED slot \/ slot' = [slot EXCEPT ![Tab(r)] = NoDetection] BY <1>10 DEF SignOk, Slots
    <3> QED BY <1>0, <3>1, NoNewOffer
  <2>2. Less(events, events', NewsKinds, q)
    <3>1. UNCHANGED events \/ \E k \in {"success", "replied"} : Send(Event(k, r))
      BY <1>10 DEF SignOk, Notify
    <3> QED BY <1>4, <3>1, SendTok DEF NewsKinds, Results
  <2>3. \/ Goes(r, "over")
        \/ req[r].state \in {"auto", "manual"} /\ Goes(r, "redirect")
    BY <1>10, SignMoves
  <2>4. CASE q = r
    <3>1. req[r].state \notin {"approval", "offered"} BY <1>10 DEF SignOk, Signing
    <3>2. CASE Free(q) BY <1>5, <2>2, <2>3, <2>4, <3>2 DEF Goes, ByHand
    <3>3. CASE ~Free(q)
      <4>1. ~Payable(q) /\ req[r].state \notin Early BY <1>0, <2>4, <3>1, <3>3, NoOffer
      <4>2. Goes(r, "over") BY <2>3, <4>1 DEF Early
      <4>3. ~Payable(q)' BY <2>1, <2>4, <4>1, <4>2 DEF Payable, Goes
      <4> QED BY <2>4, <4>2, <4>3, StaleConsent DEF Goes, Early
    <3> QED BY <3>2, <3>3
  <2>5. CASE q # r BY <1>6, <2>1, <2>2, <2>3, <2>5 DEF Goes
  <2> QED BY <2>4, <2>5
<1>11. CASE SignFails(r)
  <2>1. UNCHANGED slot BY <1>11 DEF SignFails
  <2>2. \/ req[r].state = "manual" /\ Goes(r, "approval") /\ Send(Event("failure", r))
        \/ req[r].state = "manualMain" /\ Goes(r, "offered") /\ Send(Event("refused", r))
        \/ req[r].state \in Signing \ ByHand /\ Goes(r, "over") /\ UNCHANGED events
    BY <1>11, SignMoves
  <2>3. CASE q # r
    <3>1. Less(events, events', NewsKinds, q) BY <1>4, <2>2, <2>3, SendTok DEF Results
    <3> QED BY <1>6, <1>7, <2>1, <2>2, <2>3, <3>1 DEF Goes
  <2>4. CASE q = r /\ req[r].state \in ByHand
    <3>1. \E k \in {"failure", "refused"} : Send(Event(k, r)) BY <2>2, <2>4 DEF ByHand
    <3>2. req'[r].state \in {"approval", "offered"} BY <2>2, <2>4 DEF Goes
    <3>3. CASE Free(r)
      <4>1. Single(News(q)') BY <2>4, <3>1, <3>3, SendTok DEF Free, News, NewsKinds, Results
      <4>2. Asks(q)' = {} /\ q \notin details' /\ ~Live(q)'
        BY <1>1, <2>4, <3>3 DEF Free, Asks, Live
      <4> QED BY <2>4, <3>2, <4>1, <4>2, NewsConsent
    <3>4. CASE ~Free(r)
      <4>1. ~Payable(r) /\ req[r].state \notin Early BY <1>0, <2>4, <3>4, NoOffer DEF ByHand
      <4>2. Goes(r, "offered") BY <2>2, <2>4, <4>1 DEF Early, ByHand
      <4>3. ~Payable(q)' BY <1>7, <2>1, <2>4, <4>1, <4>2 DEF Payable, Goes
      <4> QED BY <2>4, <4>2, <4>3, StaleConsent DEF Goes, Early
    <3> QED BY <3>3, <3>4
  <2>5. CASE q = r /\ req[r].state \notin ByHand
    <3>1. UNCHANGED events /\ Goes(r, "over") /\ req[r].state \in Signing \ ByHand
      BY <2>2, <2>5 DEF ByHand
    <3>2. CASE Free(q) BY <1>4, <1>5, <2>5, <3>1, <3>2 DEF Goes, ByHand
    <3>3. CASE ~Free(q)
      <4>1. ~Payable(q) BY <1>0, <2>5, <3>1, <3>3, NoOffer DEF Signing
      <4>2. ~Payable(q)' BY <1>7, <2>1, <2>5, <3>1, <4>1 DEF Payable, Goes
      <4> QED BY <2>5, <3>1, <4>2, StaleConsent DEF Goes, Early
    <3> QED BY <3>2, <3>3
  <2> QED BY <2>3, <2>4, <2>5
<1>12. CASE SignLocked(r)
  <2>1. UNCHANGED slot /\ req[r].state \in {"auto", "autoMain"}
        /\ SendIfOpen(Tab(r), [kind |-> "unlock", tab |-> Tab(r)])
    BY <1>12 DEF SignLocked
  <2>2. Less(events, events', NewsKinds, q) BY <1>0, <2>1, OtherEventsTok DEF NewsKinds
  <2>3. Goes(r, "over") \/ Sweeps(OlderWait(Tab(r)), r, "unlock") BY <1>12, SignMoves
  <2>4. CASE q = r
    <3>1. Free(q) BY <1>0, <2>1, <2>4, NoOffer DEF Early
    <3> QED BY <1>5, <2>2, <2>3, <2>4, <3>1 DEF Goes, Sweeps, ByHand
  <2>5. CASE q # r /\ req'[q] = req[q] BY <1>6, <1>7, <2>1, <2>2, <2>5
  <2>6. CASE q # r /\ req'[q] # req[q]
    <3>1. q \in OlderWait(Tab(r)) /\ req'[q].state = "over"
      BY <2>3, <2>6 DEF Goes, Sweeps
    <3>2. req[q].state = "unlock"
      BY <1>0, <3>1, RequestAssumption DEF OlderWait, Waits, Waiters
    <3>3. Free(q) BY <1>0, <3>2, NoOffer DEF Early
    <3> QED BY <1>5, <2>2, <3>1, <3>3 DEF ByHand
  <2> QED BY <2>4, <2>5, <2>6
<1>13. CASE ExpireApproval(r)
  <2>1. Goes(r, "over") /\ Send(Event("failure", r)) BY <1>13, NetworkMoves DEF ExpireApproval
  <2>2. \A p \in Requests : Offered(p)' => Offered(p)
    <3>1. UNCHANGED slot \/ slot' = [slot EXCEPT ![Tab(r)] = NoDetection] BY <1>13 DEF ExpireApproval
    <3> QED BY <1>0, <3>1, NoNewOffer
  <2>3. CASE q = r
    <3>1. ~Offered(r)'
      <4>1. slot \in [Tabs -> Detection] BY DEF Types
      <4>2. slot'[Tab(r)] # [of |-> r, card |-> TRUE]
        BY <1>0, <1>13, <4>1 DEF ExpireApproval, NoDetection
      <4> QED BY <1>0, <4>2 DEF Offered
    <3> QED BY <2>1, <2>3, <3>1, StaleConsent DEF Goes, Payable, Early
  <2>4. CASE q # r
    <3>1. Less(events, events', NewsKinds, q) BY <2>1, <2>4, SendTok DEF Results
    <3> QED BY <1>6, <2>1, <2>2, <2>4, <3>1 DEF Goes
  <2> QED BY <2>3, <2>4
<1> QED BY <1>8, <1>9, <1>10, <1>11, <1>12, <1>13
\* What the vault, a closing tab and the sidebar's calls do keeps the one click.
LEMMA CallConsents ==
  ASSUME Types, Types', Waits, Consents, [Next]_vars, NEW q \in Requests,
         \/ \E t \in Tabs : ExpireUnlock(t) \/ CloseTab(t)
         \/ HandleDetails \/ HandleApprove \/ HandleReject \/ HandleResume
  PROVE  Consent(q)'
<1> USE DEF ghosts, sidebar
<1> DEFINE h == Head(calls)
<1>0. /\ Fixed /\ Tab(q)' = Tab(q) /\ Tab(q) \in Tabs /\ Consent(q) /\ req[q].state \in States
      /\ UNCHANGED <<card, agreed>>
  <2>1. UNCHANGED <<card, agreed>>
    BY DEF ExpireUnlock, CloseTab, HandleDetails, HandleApprove, HandleReject, HandleResume, main
  <2> QED BY <2>1, NextOffers, TypeFacts DEF Consents, Consent
<1> HIDE DEF h
\* A request that stays what it is.
<1>1. ASSUME Less(events, events', NewsKinds, q), Less(calls, calls', AskKinds, q),
             Less(calls, calls', {"approve"}, q), UNCHANGED details,
             req'[q].state = req[q].state, Offered(q)' => Offered(q)
      PROVE  Consent(q)'
  <2>1. Calm(q) BY <1>0, <1>1 DEF Calm, Live
  <2>2. Payable(q)' => Payable(q) BY <1>1 DEF Payable
  <2> QED BY <1>0, <1>1, <2>1, <2>2, SteadyConsent
\* A free request that moves.
<1>2. ASSUME Less(events, events', NewsKinds, q), Less(calls, calls', AskKinds, q), UNCHANGED details,
             req[q].state \in Early, req'[q].state \notin ByHand
      PROVE  Consent(q)'
  <2>1. Calm(q) BY <1>0, <1>2 DEF Calm, Live
  <2>2. Free(q) BY <1>0, <1>2, NoOffer
  <2> QED BY <1>2, <2>1, <2>2, CalmFree, SpentConsent
<1>3. UNCHANGED slot => (Offered(q)' => Offered(q)) BY <1>0, NoNewOffer
<1>4. UNCHANGED events => Less(events, events', NewsKinds, q) BY DEF Less
<1>5. UNCHANGED calls => Less(calls, calls', AskKinds, q) /\ Less(calls, calls', {"approve"}, q)
  BY DEF Less
<1>6. Answered => Less(calls, calls', AskKinds, q) /\ Less(calls, calls', {"approve"}, q) BY ReadTok
\* The call for a request that can be paid is the one thing there was.
<1>7. ASSUME Answered, h.kind \in AskKinds, h.of = q
      PROVE  /\ ~Free(q)
             /\ Payable(q) => News(q) = {} /\ Asks(q)' = {} /\ q \notin details /\ ~Live(q)
  <2>1. Asks(q) # {} /\ (Single(Asks(q)) => Asks(q)' = {}) BY <1>7, ReadTok DEF h, Asks
  <2>2. Payable(q) => Sole(q) BY <1>0 DEF Consent, OneConsent
  <2> QED BY <2>1, <2>2 DEF Free, Sole
<1>8. ASSUME Answered, h.kind \in AskKinds, h.of = q, Payable(q), UNCHANGED <<events, details>>
      PROVE  Free(q)'
  BY <1>0, <1>7, <1>8 DEF Free, News, Live
<1>9. ASSUME NEW t \in Tabs, ExpireUnlock(t) PROVE Consent(q)'
  <2> DEFINE w == waiter[t]
  <2>1. w \in Requests /\ w # None /\ Goes(w, "over") BY <1>9, CallMoves
  <2>2. req[w].state = "unlock" BY <2>1 DEF Waits, Waiters
  <2>3. UNCHANGED <<events, calls, details, slot>> BY <1>9 DEF ExpireUnlock
  <2> HIDE DEF w
  <2>4. CASE q = w BY <1>2, <1>4, <1>5, <2>1, <2>2, <2>3, <2>4 DEF Goes, Early, ByHand
  <2>5. CASE q # w BY <1>1, <1>3, <1>4, <1>5, <2>1, <2>3, <2>5 DEF Goes
  <2> QED BY <2>4, <2>5
<1>10. ASSUME NEW t \in Tabs, CloseTab(t) PROVE Consent(q)'
  <2>1. UNCHANGED <<calls, details>> /\ slot' = [slot EXCEPT ![t] = NoDetection] BY <1>10 DEF CloseTab
  <2>2. Offered(q)' => Offered(q) BY <1>0, <2>1, NoNewOffer
  <2>3. Less(events, events', NewsKinds, q) BY <1>10, OtherEventsTok DEF NewsKinds
  <2>4. CASE req'[q] = req[q] BY <1>1, <1>5, <2>1, <2>2, <2>3, <2>4
  <2>5. CASE req'[q] # req[q]
    <3>1. Tab(q) = t /\ req'[q].state = "over" BY <1>10, <2>5, CloseMoves
    <3>2. slot \in [Tabs -> Detection] BY DEF Types
    <3>3. slot'[Tab(q)] = NoDetection BY <1>0, <2>1, <3>1, <3>2
    <3>4. ~Payable(q)' BY <1>0, <3>1, <3>3, RequestAssumption DEF Payable, Offered, NoDetection
    <3> QED BY <3>1, <3>4, StaleConsent DEF Early
  <2> QED BY <2>4, <2>5
<1>11. CASE HandleDetails
  <2>1. Answered /\ h.kind = "details" /\ UNCHANGED <<events, req, slot>> BY <1>11 DEF HandleDetails, h, main
  <2>2. details' = details \/ (h.of = q /\ Payable(q) /\ details' = details \cup {q})
        \/ (h.of # q /\ details' = details \cup {h.of})
    BY <1>11 DEF HandleDetails, h, Payable
  <2>3. CASE details' = details BY <1>1, <1>3, <1>4, <1>6, <2>1, <2>3
  <2>4. CASE h.of = q /\ Payable(q) /\ details' = details \cup {q}
    <3>1. ~Free(q) /\ News(q) = {} /\ Asks(q)' = {} /\ ~Live(q) BY <1>7, <2>1, <2>4 DEF AskKinds
    <3>2. Sole(q)' BY <1>0, <2>1, <3>1 DEF Sole, News, Live, Single
    <3>3. Payable(q)' => Payable(q) BY <1>3, <2>1 DEF Payable
    <3> QED BY <1>0, <1>6, <2>1, <3>1, <3>2, <3>3, MovedConsent
  <2>5. CASE h.of # q /\ details' = details \cup {h.of}
    <3>1. q \in details' => q \in details BY <2>5
    <3>2. Calm(q) BY <1>0, <1>4, <1>6, <2>1, <3>1 DEF Calm, Live
    <3>3. Payable(q)' => Payable(q) BY <1>3, <2>1 DEF Payable
    <3> QED BY <1>0, <1>6, <2>1, <3>2, <3>3, SteadyConsent
  <2> QED BY <2>2, <2>3, <2>4, <2>5
<1>12. CASE HandleApprove
  <2>1. Answered /\ h.kind = "approve" /\ UNCHANGED <<slot, details>> BY <1>12 DEF HandleApprove, h
  <2>2. \/ req[h.of].state = "approval" /\ Goes(h.of, "manual") /\ UNCHANGED events
        \/ req[h.of].state # "approval" /\ Offered(h.of) /\ Goes(h.of, "manualMain") /\ UNCHANGED events
        \/ /\ req[h.of].state # "approval" /\ ~Offered(h.of) /\ UNCHANGED req
           /\ Send(Event("refused", h.of))
    BY <1>12, CallMoves DEF h
  <2>3. h.of \in Requests BY <1>12, CallMoves DEF h
  <2>4. CASE q # h.of
    <3>1. Less(events, events', NewsKinds, q) BY <1>4, <2>2, <2>3, <2>4, SendTok DEF Results
    <3>2. req'[q] = req[q] BY <2>2, <2>4 DEF Goes
    <3> QED BY <1>1, <1>3, <1>6, <2>1, <3>1, <3>2
  <2>5. CASE q = h.of /\ Payable(q)
    <3>1. UNCHANGED events BY <2>2, <2>5 DEF Payable
    <3>2. Free(q)' BY <1>8, <2>1, <2>5, <3>1 DEF AskKinds
    <3>3. Approves(q) # {} BY <2>1, <2>5, HeadAsks DEF h, Answered, AskKinds
    <3>4. q \in agreed' BY <1>0, <2>5, <3>3 DEF Consent, Remembered
    <3> QED BY <3>2, <3>4, SpentConsent
  <2>6. CASE q = h.of /\ ~Payable(q)
    <3>1. UNCHANGED req BY <2>2, <2>6 DEF Payable
    <3>2. Payable(q)' => Payable(q) BY <1>3, <2>1, <3>1 DEF Payable
    <3>3. ~Free(q) BY <1>7, <2>1, <2>6 DEF AskKinds
    <3> QED BY <1>0, <1>6, <2>1, <2>6, <3>1, <3>2, <3>3, MovedConsent
  <2> QED BY <2>4, <2>5, <2>6
<1>13. CASE HandleReject
  <2>1. Answered /\ UNCHANGED <<events, details>> BY <1>13 DEF HandleReject
  <2>2. \/ /\ h.kind = "reject" /\ UNCHANGED slot
           /\ UNCHANGED req \/ (req[h.of].state = "approval" /\ Goes(h.of, "over"))
        \/ /\ UNCHANGED req /\ h.tab \in Tabs /\ slot' = [slot EXCEPT ![h.tab] = NoDetection]
    BY <1>13, CallMoves DEF h
  <2>3. Offered(q)' => Offered(q) BY <1>0, <2>2, NoNewOffer
  <2>4. CASE req'[q] = req[q] BY <1>1, <1>4, <1>6, <2>1, <2>3, <2>4
  <2>5. CASE req'[q] # req[q]
    <3>1. h.kind = "reject" /\ h.of = q /\ req[q].state = "approval" /\ req'[q].state = "over"
      BY <2>2, <2>5 DEF Goes
    <3>2. Free(q)' BY <1>8, <2>1, <3>1 DEF AskKinds, Payable
    <3> QED BY <3>1, <3>2, SpentConsent DEF ByHand
  <2> QED BY <2>4, <2>5
<1>14. CASE HandleResume
  <2>1. Answered /\ UNCHANGED <<events, details, slot>> BY <1>14 DEF HandleResume
  <2>2. /\ h.tab \in Tabs
        /\ \/ UNCHANGED req
           \/ waiter[h.tab] \in Requests /\ waiter[h.tab] # None /\ Goes(waiter[h.tab], "auto")
           \/ /\ waiter[h.tab] = None /\ resume[h.tab] \in Requests /\ resume[h.tab] # None
              /\ Goes(resume[h.tab], "resumed")
    BY <1>14, CallMoves DEF h
  <2>3. CASE req'[q] = req[q] BY <1>1, <1>3, <1>4, <1>6, <2>1, <2>3
  <2>4. CASE waiter[h.tab] = q /\ waiter[h.tab] # None /\ Goes(q, "auto")
    <3>1. req[q].state = "unlock" BY <2>2, <2>4 DEF Waits, Waiters
    <3> QED BY <1>2, <1>4, <1>6, <2>1, <2>4, <3>1 DEF Goes, Early, ByHand
  <2>5. CASE resume[h.tab] = q /\ resume[h.tab] # None /\ Goes(q, "resumed")
    <3>1. ~Offered(q) BY <2>2, <2>5 DEF Waits, Waiters
    <3>2. ~Payable(q)' BY <1>3, <2>1, <2>5, <3>1 DEF Payable, Goes
    <3> QED BY <2>5, <3>2, StaleConsent DEF Early, Goes
  <2> QED BY <2>2, <2>3, <2>4, <2>5 DEF Goes
<1> QED BY <1>9, <1>10, <1>11, <1>12, <1>13, <1>14
\* What the sidebar does, and what only the allowance or a clock does, keeps
\* the one click.
LEMMA SidebarConsents ==
  ASSUME Types, Types', Waits, Consents, [Next]_vars, NEW q \in Requests,
         \/ HandleNeeded \/ HandleResult \/ HandleUnlock \/ Pay \/ Reject \/ Unlock \/ ChangeCap
         \/ UNCHANGED vars \/ \E r \in Requests : Show(r)
         \/ \E t \in Tabs : ExpireResume(t) \/ \E k \in Keys : SignatureExpires(t, k)
  PROVE  Consent(q)'
<1> USE DEF ghosts, sidebar, main
<1> DEFINE e == Head(events)
<1>0. /\ Consent(q) /\ req' = req /\ (Payable(q)' => Payable(q)) /\ (q \in agreed => q \in agreed')
      /\ \A r \in Requests : Withdrawal(r) \in CallType
      /\ card # NoCard => card.of \in Requests /\ card = [of |-> card.of, signing |-> card.signing]
  <2>1. UNCHANGED <<req, slot>> /\ (q \in agreed => q \in agreed')
    BY DEF HandleNeeded, HandleResult, HandleUnlock, Pay, Reject, Unlock, ChangeCap, Show,
           ExpireResume, SignatureExpires, vars
  <2>2. Payable(q)' => Payable(q) BY <2>1 DEF Payable, Offered, Tab
  <2> QED BY <2>1, <2>2, TypeFacts DEF Consents, Consent
<1> HIDE DEF e
\* Nothing came about that could bring a click.
<1>1. ASSUME Calm(q), Less(calls, calls', {"approve"}, q) PROVE Consent(q)'
  BY <1>0, <1>1, SteadyConsent
<1>2. UNCHANGED events => Less(events, events', NewsKinds, q) BY DEF Less
<1>3. UNCHANGED calls => Less(calls, calls', AskKinds, q) /\ Less(calls, calls', {"approve"}, q)
  BY DEF Less
<1>4. Received => Less(events, events', NewsKinds, q) BY ReadTok
\* What can bring the click moves on to one thing, and no click is lost or forged.
<1>5. ASSUME ~Free(q), Payable(q) /\ Sole(q) => Sole(q)',
             Less(calls, calls', {"approve"}, q) \/ q \in agreed'
      PROVE  Consent(q)'
  BY <1>0, <1>5, MovedConsent
\* News of a request that can be paid is the one thing there was.
<1>6. ASSUME Received, e.kind \in NewsKinds, e.of = q
      PROVE  /\ ~Free(q)
             /\ Sole(q) => News(q)' = {} /\ Asks(q) = {} /\ q \notin details /\ ~Live(q)
  <2>1. News(q) # {} /\ (Single(News(q)) => News(q)' = {}) BY <1>6, ReadTok DEF e, News
  <2> QED BY <2>1 DEF Free, Sole
\* The card that is up is withdrawn, and q has none afterwards.
<1>7. ASSUME Hide, ~InFlight, Less(events, events', NewsKinds, q), q \in details' => q \in details, ~Live(q)'
      PROVE  Consent(q)'
  <2>1. Less(calls, calls', {"approve"}, q) BY <1>7, HideTok
  <2>2. CASE card = NoCard \/ card.of # q
    <3>1. Less(calls, calls', AskKinds, q) BY <1>7, <2>2, HideTok DEF AskKinds
    <3> QED BY <1>1, <1>7, <2>1, <3>1 DEF Calm
  <2>3. CASE card # NoCard /\ card.of = q
    <3>1. Live(q) BY <1>0, <1>7, <2>3, TypeFacts DEF InFlight, Live
    <3>2. Sole(q) => News(q) = {} /\ Asks(q) = {} /\ q \notin details BY <3>1 DEF Sole
    <3>3. Sole(q) => News(q)' = {} BY <1>7, <3>2 DEF Less, News
    <3>4. Sole(q) => Single(Asks(q)') BY <1>7, <3>2, HideTok DEF Asks, Less, Single
    <3>5. Sole(q) => Sole(q)' BY <1>7, <3>2, <3>3, <3>4 DEF Sole, Single
    <3> QED BY <1>5, <2>1, <3>1, <3>5 DEF Free
  <2> QED BY <2>2, <2>3
<1>8. CASE HandleNeeded
  <2>1. Received /\ e.kind = "needed" /\ UNCHANGED <<details, card>> BY <1>8 DEF HandleNeeded, e
  <2>2. e.of \in Requests BY <2>1, HeadTypes DEF Received, e
  <2>3. CASE UNCHANGED calls BY <1>1, <1>3, <1>4, <2>1, <2>3 DEF Calm, Live
  <2>4. CASE Call([kind |-> "details", of |-> e.of])
    <3> DEFINE c == [kind |-> "details", of |-> e.of]
    <3>1. c \in CallType /\ Call(c) /\ c.kind = "details" /\ c.of = e.of
      BY <2>2, <2>4 DEF CallType, CallOf
    <3> HIDE DEF c
    <3>2. Less(calls, calls', {"approve"}, q) BY <3>1, CallTok
    <3>3. CASE e.of # q
      <4>1. Less(calls, calls', AskKinds, q) BY <3>1, <3>3, CallTok
      <4> QED BY <1>1, <1>4, <2>1, <3>2, <4>1 DEF Calm, Live
    <3>4. CASE e.of = q
      <4>1. ~Free(q) /\ (Sole(q) => News(q)' = {} /\ Asks(q) = {} /\ q \notin details /\ ~Live(q))
        BY <1>6, <2>1, <3>4 DEF NewsKinds
      <4>2. Asks(q) = {} => Single(Asks(q)') BY <3>1, <3>4, CallTok DEF Asks, AskKinds
      <4>3. Sole(q) => Sole(q)' BY <2>1, <4>1, <4>2 DEF Sole, Single, Live
      <4> QED BY <1>5, <3>2, <4>1, <4>3
    <3> QED BY <3>3, <3>4
  <2> QED BY <1>8, <2>3, <2>4 DEF HandleNeeded, e
<1>9. CASE HandleResult
  <2>1. Received /\ UNCHANGED <<calls, details>> /\ e.kind \in Results BY <1>9 DEF HandleResult, e, Results
  <2>2. \/ card' = card \/ card' = NoCard
        \/ e.kind \in {"failure", "refused"} /\ card # NoCard /\ card.of = e.of /\ card' = [card EXCEPT !.signing = FALSE]
    BY <1>9 DEF HandleResult, e
  <2>3. CASE Live(q)' => Live(q) BY <1>1, <1>3, <1>4, <2>1, <2>3 DEF Calm
  <2>4. CASE ~(Live(q)' => Live(q))
    <3>1. card' # NoCard BY <1>0, <2>4, RequestAssumption DEF Live, NoCard
    <3>2. card' # card BY <2>4 DEF Live
    <3>3. e.kind \in NewsKinds /\ card # NoCard /\ card.of = e.of /\ card' = [card EXCEPT !.signing = FALSE]
      BY <2>2, <3>1, <3>2 DEF NewsKinds
    <3>4. card'.of = e.of BY <1>0, <3>3
    <3>5. e.of = q BY <2>4, <3>4 DEF Live
    <3>6. ~Free(q) /\ (Sole(q) => News(q)' = {} /\ Asks(q) = {} /\ q \notin details /\ ~Live(q))
      BY <1>6, <2>1, <3>3, <3>5
    <3>7. Sole(q) => Sole(q)' BY <2>1, <3>6 DEF Sole, Single, Asks
    <3> QED BY <1>3, <1>5, <2>1, <3>6, <3>7
  <2> QED BY <2>3, <2>4
<1>10. CASE HandleUnlock
  <2>1. Received /\ UNCHANGED details BY <1>10 DEF HandleUnlock
  <2>2. CASE UNCHANGED <<card, calls>> BY <1>1, <1>3, <1>4, <2>1, <2>2 DEF Calm, Live
  <2>3. CASE ~InFlight /\ Hide /\ card' = NoCard
    <3>1. ~Live(q)' BY <2>3, RequestAssumption DEF Live, NoCard
    <3> QED BY <1>4, <1>7, <2>1, <2>3, <3>1
  <2> QED BY <1>10, <2>2, <2>3 DEF HandleUnlock
<1>11. CASE Pay
  <2> DEFINE r == card.of
  <2>1. r \in Requests /\ card = [of |-> r, signing |-> FALSE] /\ UNCHANGED <<events, details>>
        /\ agreed' = agreed \cup {r} /\ card' = [card EXCEPT !.signing = TRUE]
    BY <1>0, <1>11, TypeFacts DEF Pay
  <2>2. PICK g \in Grants \cup {0} : Call([kind |-> "approve", of |-> r, grant |-> g])
    BY <1>11 DEF Pay
  <2> HIDE DEF r
  <2> DEFINE c == [kind |-> "approve", of |-> r, grant |-> g]
  <2>3. c \in CallType /\ c.kind = "approve" /\ c.of = r /\ Call(c) BY <2>1, <2>2 DEF CallType, ApproveCall
  <2> HIDE DEF c
  <2>4. ~Live(q)' BY <2>1 DEF Live
  <2>5. CASE q # r
    <3>1. Less(calls, calls', AskKinds, q) /\ Less(calls, calls', {"approve"}, q) BY <2>3, <2>5, CallTok
    <3> QED BY <1>1, <1>2, <2>1, <2>4, <3>1 DEF Calm
  <2>6. CASE q = r
    <3>1. Live(q) BY <2>1, <2>6 DEF Live
    <3>2. Sole(q) => News(q) = {} /\ Asks(q) = {} /\ q \notin details BY <3>1 DEF Sole
    <3>3. Asks(q) = {} => Single(Asks(q)') BY <2>3, <2>6, CallTok DEF Asks, AskKinds
    <3>4. Sole(q) => Sole(q)' BY <2>1, <2>4, <3>2, <3>3 DEF Sole, News, Single
    <3>5. q \in agreed' BY <2>1, <2>6
    <3> QED BY <1>5, <3>1, <3>4, <3>5 DEF Free
  <2> QED BY <2>5, <2>6
<1>12. CASE Reject
  <2>1. Hide /\ ~InFlight /\ card' = NoCard /\ UNCHANGED <<events, details>> BY <1>12 DEF Reject, InFlight
  <2>2. ~Live(q)' BY <2>1, RequestAssumption DEF Live, NoCard
  <2> QED BY <1>2, <1>7, <2>1, <2>2
<1>13. CASE Unlock
  <2>1. UNCHANGED <<events, details, card>> BY <1>13 DEF Unlock
  <2>2. CASE UNCHANGED calls BY <1>1, <1>2, <1>3, <2>1, <2>2 DEF Calm, Live
  <2>3. CASE prompt.tab # None /\ Call([kind |-> "resume", tab |-> prompt.tab])
    <3> DEFINE c == [kind |-> "resume", tab |-> prompt.tab]
    <3>1. prompt \in Prompt BY DEF Types
    <3>2. c \in CallType /\ c.kind = "resume" /\ Call(c) BY <2>3, <3>1 DEF Prompt, CallType, TabCall
    <3> HIDE DEF c
    <3>3. Less(calls, calls', AskKinds, q) /\ Less(calls, calls', {"approve"}, q)
      BY <3>2, CallTok DEF AskKinds
    <3> QED BY <1>1, <1>2, <2>1, <3>3 DEF Calm, Live
  <2> QED BY <1>13, <2>2, <2>3 DEF Unlock
<1>14. ASSUME NEW r \in Requests, Show(r) PROVE Consent(q)'
  <2>1. r \in details /\ details' = details \ {r} /\ UNCHANGED events BY <1>14 DEF Show
  <2>2. CASE UNCHANGED <<card, calls>> BY <1>1, <1>2, <1>3, <2>1, <2>2 DEF Calm, Live
  <2>3. CASE ~InFlight /\ Hide /\ card' = [of |-> r, signing |-> FALSE]
    <3>1. CASE q # r
      <4>1. ~Live(q)' BY <2>3, <3>1 DEF Live
      <4> QED BY <1>2, <1>7, <2>1, <2>3, <4>1
    <3>2. CASE q = r
      <4>1. ~Free(q) BY <2>1, <3>2 DEF Free
      <4>2. Sole(q) => News(q) = {} /\ Asks(q) = {} /\ ~Live(q) BY <2>1, <3>2 DEF Sole
      <4>3. ~Live(q) => card = NoCard \/ card.of # q
        BY <1>0, <2>3, TypeFacts DEF Live, InFlight
      <4>4. Sole(q) => Asks(q)' = {}
        BY <2>3, <4>2, <4>3, HideTok DEF Less, Asks, AskKinds
      <4>5. Sole(q) => Sole(q)' BY <2>1, <3>2, <4>2, <4>4 DEF Sole, News, Single
      <4>6. Less(calls, calls', {"approve"}, q) BY <2>3, HideTok
      <4> QED BY <1>5, <4>1, <4>5, <4>6
    <3> QED BY <3>1, <3>2
  <2> QED BY <1>14, <2>2, <2>3 DEF Show
<1>15. CASE \/ ChangeCap \/ UNCHANGED vars
            \/ \E t \in Tabs : ExpireResume(t) \/ \E k \in Keys : SignatureExpires(t, k)
  <2>1. UNCHANGED <<events, calls, details, card>>
    BY <1>15 DEF ChangeCap, vars, ExpireResume, SignatureExpires
  <2> QED BY <1>1, <1>2, <1>3, <2>1 DEF Calm, Live
<1> QED BY <1>8, <1>9, <1>10, <1>11, <1>12, <1>13, <1>14, <1>15

\* Every step keeps the one click.
LEMMA NextConsents == Types /\ Types' /\ Waits /\ Consents /\ [Next]_vars => Consents'
<1> SUFFICES ASSUME Types, Types', Waits, Consents, [Next]_vars, NEW q \in Requests PROVE Consent(q)'
  BY DEF Consents, Consent
<1>1. ASSUME NEW r \in Requests, Network(r) \/ Sign(r) \/ ExpireApproval(r) PROVE Consent(q)'
  BY <1>1, MainConsents DEF Network, Sign
<1>2. ASSUME NEW t \in Tabs, ExpireUnlock(t) \/ CloseTab(t) PROVE Consent(q)' BY <1>2, CallConsents
<1>3. CASE Handle BY <1>3, CallConsents DEF Handle
<1>4. CASE Listen \/ User \/ UNCHANGED vars BY <1>4, SidebarConsents DEF Listen, User
<1>5. ASSUME NEW r \in Requests, Show(r) PROVE Consent(q)' BY <1>5, SidebarConsents
<1>6. ASSUME NEW t \in Tabs, ExpireResume(t) \/ \E k \in Keys : SignatureExpires(t, k) PROVE Consent(q)'
  BY <1>6, SidebarConsents
<1> QED BY <1>1, <1>2, <1>3, <1>4, <1>5, <1>6 DEF Next
-----------------------------------------------------------------------------
(* The invariant, and what follows from it *)

Inv == Types /\ Waits /\ Consents /\ Carried /\ PaymentsAreBooked /\ Flight

\* Nothing has been asked for yet.
LEMMA InitInv == Init => Inv
<1> SUFFICES ASSUME Init PROVE Inv OBVIOUS
<1>1. Types BY InitTypes
<1>2. /\ \A r \in Requests : req[r].state = "new" /\ ~Offered(r) /\ Tab(r) \in Tabs
      /\ \A t \in Tabs : waiter[t] = None /\ resume[t] = None
      /\ armed = {} /\ card = NoCard /\ events = <<>> /\ calls = <<>> /\ details = {}
  <2>1. slot = [t \in Tabs |-> NoDetection] BY DEF Init
  <2>2. \A r \in Requests : Tab(r) \in Tabs BY <1>1, TypeFacts
  <2>3. \A r \in Requests : ~Offered(r) BY <2>1, <2>2, RequestAssumption DEF Offered, NoDetection
  <2> QED BY <2>2, <2>3 DEF Init
<1>3. Waits BY <1>2 DEF Waits, ArmedSent, Waiters, Uncarded, HeldHaveWaker
<1>4. \A K, q : Tok(events, K, q) = {} /\ Tok(calls, K, q) = {} BY <1>2 DEF Tok
<1>5. \A q \in Requests : Free(q)
  BY <1>2, <1>4, RequestAssumption DEF Free, News, Asks, Live, NoCard
<1>6. Consents
  <2>1. \A q \in Requests : ~Payable(q) BY <1>2 DEF Payable
  <2> QED BY <1>2, <1>5, <2>1 DEF Consents, OneConsent, Remembered, ByHand
<1>7. Carried
  <2>1. \A r \in Requests : attached[r] = 0 /\ req[r].hops = 0 BY DEF Init
  <2> QED BY <2>1 DEF Carried, Carries, Spare
<1>8. PaymentsAreBooked
  <2>1. \A r \in Requests : attached[r] = 0 /\ booked[r] = 0 /\ lost[r] = 0 BY DEF Init
  <2> QED BY <1>2, <2>1 DEF PaymentsAreBooked
<1>9. Flight BY <1>2, RequestAssumption DEF Flight, NoCard
<1> QED BY <1>1, <1>3, <1>6, <1>7, <1>8, <1>9 DEF Inv

\* Every step keeps all of it.
LEMMA NextInv == Inv /\ [Next]_vars => Inv'
<1> SUFFICES ASSUME Inv, [Next]_vars PROVE Inv' OBVIOUS
<1>1. Types' BY NextTypes DEF Inv
<1>2. Waits' BY <1>1, NextWaits DEF Inv
<1>3. Consents' BY <1>1, NextConsents DEF Inv
<1>4. Carried' /\ PaymentsAreBooked' /\ Flight' BY NextCarried, NextBooked, NextFlight DEF Inv
<1> QED BY <1>1, <1>2, <1>3, <1>4 DEF Inv

\* The invariant always holds.
THEOREM Invariant == Spec => []Inv
BY InitInv, NextInv, PTL DEF Spec

\* The variables of the interceptor, the sidebar and the two channels keep
\* their types; what awaits a response has been sent.
THEOREM TypeCorrect == Spec => []TypeOK
<1>1. Inv => TypeOK
  <2> SUFFICES ASSUME Inv PROVE TypeOK OBVIOUS
  <2>1. armed \subseteq {r \in Requests : req[r].state = "sent"}
    BY DEF Inv, Types, Waits, ArmedSent
  <2>2. \A t \in Tabs, k \in Keys : /\ pending[t][k].queue \in Seq([by : {"cap", "manual"}])
                                   /\ pending[t][k].old \in 0..Len(pending[t][k].queue)
    BY TypeFacts DEF Inv, Signed, Bundle
  <2> QED BY <2>1, <2>2 DEF Inv, Types, TypeOK, Detection, Card, Cap, Prompt
<1> QED BY <1>1, Invariant, PTL

\* Whatever is signed as the user's decision was clicked for on its own card,
\* and each click pays once: over any number of tabs, newer detections,
\* repeated offers and failed signatures (ipc.js x402:approve).
THEOREM SigningAgreed == Spec => []SigningIsAgreed
<1>1. Inv => SigningIsAgreed BY DEF Inv, Consents, Remembered, SigningIsAgreed
<1> QED BY <1>1, Invariant, PTL

\* A request takes one signature to the server at most, and one more for each
\* redirect of the server, however often it is refused, held and told by the
\* detector to come again (the loop guard of intercept.js).
THEOREM OneSignature == Spec => []OneSignaturePerHop
<1>1. Inv => OneSignaturePerHop
  <2> SUFFICES ASSUME Inv, NEW r \in Requests PROVE attached[r] <= 1 + req[r].hops
    BY DEF OneSignaturePerHop
  <2>1. attached[r] \in Nat /\ req[r].hops \in Nat BY TypeFacts DEF Inv, Types
  <2>2. attached[r] <= req[r].hops \/ attached[r] = req[r].hops + 1
    BY DEF Inv, Carried, Carries, Spare
  <2> QED BY <2>1, <2>2
<1> QED BY <1>1, Invariant, PTL

\* Every signature that left is waited for, has its row in the payment history,
\* or was lost with its connection, also when its tab closes
\* (finalizeAwaitingResponsesForWebContents).
THEOREM Booked == Spec => []PaymentsAreBooked
<1>1. Inv => PaymentsAreBooked BY DEF Inv
<1> QED BY <1>1, Invariant, PTL

\* No request held for the vault is forgotten: its tab's entry is the one that
\* wakes it (setPendingUnlockWait).
THEOREM HeldWaker == Spec => []HeldHaveWaker
<1>1. Inv => HeldHaveWaker BY DEF Inv, Waits
<1> QED BY <1>1, Invariant, PTL

\* The sidebar is never locked by a signature that nobody makes and no news
\* tells the end of, tabs that close included.
THEOREM LockOwned == Spec => []LockIsOwned
<1>1. Inv => LockIsOwned
  <2> SUFFICES ASSUME Inv, InFlight PROVE req[card.of].state \in ByHand \/ InTransit(card.of)
    BY DEF LockIsOwned
  <2>1. card.of \in Requests /\ card = [of |-> card.of, signing |-> TRUE]
    BY TypeFacts DEF Inv, InFlight
  <2>2. Owns(card.of) BY <2>1 DEF Inv, Flight
  <2> QED BY <2>2, OwnsMeaning
<1> QED BY <1>1, Invariant, PTL

\* A signature made under the allowance leaves only when the allowance, as it
\* is then, covers the charge, and is paid out of it (consumeOrWithhold).
THEOREM AutoPayCapped == Spec => AutoPayWithinCap
<1> DEFINE Capped ==
       \A r \in Requests :
         attached'[r] > attached[r] /\ Head(Bucket(r).queue).by = "cap" =>
           /\ cap'.spent = cap.spent + Price[req[r].key]
           /\ cap'.spent <= cap'.amount
<1>1. Inv /\ [Next]_vars => [Capped]_vars
  <2> SUFFICES ASSUME Types, [Next]_vars, NEW q \in Requests, attached'[q] > attached[q],
                      Head(Bucket(q).queue).by = "cap"
               PROVE  /\ cap'.spent = cap.spent + Price[req[q].key]
                      /\ cap'.spent <= cap'.amount
    BY DEF Inv
  <2>1. attached \in [Requests -> Nat] /\ ~(attached[q] > attached[q]) BY DEF Types
  <2>2. attached' # attached BY <2>1
  <2>3. PICK r \in Requests : Issue(r) \/ Follow(r)
    BY <2>2, StepKinds
       DEF Quiet, Respond, Redirected, NetworkError, Detect, SignOk, SignFails, SignLocked, ExpireApproval,
           ExpireUnlock, ExpireResume, CloseTab, HandleApprove, HandleReject, HandleResume, ghosts
  <2>4. Inject(r) BY <2>3 DEF Issue, Follow
  <2>5. /\ attached' = [attached EXCEPT ![r] = @ + 1]
        /\ ~Withheld([by |-> Head(Bucket(r).queue).by, key |-> req[r].key])
        /\ cap' = IF Fits(Price[req[r].key]) THEN [cap EXCEPT !.spent = @ + Price[req[r].key]] ELSE cap
    BY <2>2, <2>4, InjectEffect
  <2>6. q = r BY <2>1, <2>5
  <2>7. Fits(Price[req[r].key]) BY <2>5, <2>6 DEF Withheld
  <2>8. cap \in Cap /\ cap' = [cap EXCEPT !.spent = @ + Price[req[r].key]] BY <2>5, <2>7 DEF Types
  <2>9. cap'.spent = cap.spent + Price[req[r].key] /\ cap'.amount = cap.amount BY <2>8 DEF Cap
  <2> QED BY <2>6, <2>7, <2>9 DEF Fits
<1>2. Spec => [][Capped]_vars BY <1>1, Invariant, PTL DEF Spec
<1> QED BY <1>2 DEF AutoPayWithinCap
=============================================================================
