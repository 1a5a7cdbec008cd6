---------------------------- MODULE X402Payments ----------------------------
(***************************************************************************)
(* x402 payments: the interceptor and its maps (main/x402/intercept.js),   *)
(* signing (sign-flow.js), the per-origin allowance (permissions.js), the  *)
(* IPC handlers (ipc.js), and the sidebar's one approval card and unlock   *)
(* prompt (renderer/lib/wallet/dapp-x402.js, vault-unlock.js).             *)
(*                                                                         *)
(* Main and sidebar talk through two ordered channels, events and calls;   *)
(* the answer to a details call waits for balance look-ups and arrives at  *)
(* any time.  Signing takes as long as the vault or the device takes.      *)
(***************************************************************************)
EXTENDS Naturals, Sequences, SequencesExt

CONSTANTS
  Tabs,        \* webContents ids
  Requests,    \* Electron's details.id; a redirect keeps it, a navigation does not
  Keys,        \* retry shapes: method, URL and range of a request
  Price,       \* what each URL costs
  Grants,      \* allowances a card may grant, for the one origin and asset there is
  Updates,     \* what the user may change an allowance to later
  MaxHops      \* how many of the server's redirects the browser follows

ASSUME PriceAssumption == Price \in [Keys -> Nat \ {0}]
ASSUME HopAssumption == MaxHops \in Nat
ASSUME CapAssumption == Grants \subseteq Nat \ {0} /\ Updates \subseteq Nat \ {0}

None == "none"                                \* undefined, null

\* details.id is a 64-bit number.
ASSUME RequestAssumption == IsFiniteSet(Requests) /\ None \notin Requests

NoDetection == [of |-> None, card |-> FALSE]
NoCard == [of |-> None, signing |-> FALSE]
NoSignatures == [old |-> 0, queue |-> <<>>]

VARIABLES
  req,       \* each request, and the detection that became of it
  slot,      \* detectedPayments: one detection per tab; card: it has a detectionId
  waiter,    \* pendingUnlockWaits: whose promise the tab's entry resolves
  resume,    \* pendingUnlockResume
  armed,     \* awaitingResponse
  pending,   \* pendingPayments: signed headers, first in first out; old: of
             \* those, how many have expired
  cap,       \* the allowance; amount 0 when there is none
  tabs,      \* tabs that are open
  card,      \* the sidebar's card, or NoCard; signing: it owns the signature flight
  prompt,    \* the vault-unlock screen and the tab it will resume, or None
  events,    \* main to sidebar
  calls,     \* sidebar to main
  details,   \* x402GetDetails calls that main has read and not answered
  \* what the properties remember
  agreed,    \* requests whose card's Pay was clicked for the signature to come
  attached,  \* how often a signature left with the request
  booked,    \* rows of the payment history
  lost       \* attached signatures whose connection failed

main == <<req, slot, waiter, resume, armed, pending, cap, tabs>>
sidebar == <<card, prompt>>
ghosts == <<agreed, attached, booked, lost>>
vars == <<main, sidebar, events, calls, details, ghosts>>

\* sent: on the network; auto, autoMain, resumed: being signed under the cap,
\* for a held request, a page, or a page after an unlock; manual, manualMain:
\* being signed after Pay; unlock, approval: held for the user; redirect: told
\* to come again, by the detector or by the server; offered: a page's detection
\* that has a card.
States == {"new", "sent", "auto", "autoMain", "resumed", "manual", "manualMain",
           "unlock", "approval", "redirect", "offered", "over"}
Signing == {"auto", "autoMain", "resumed", "manual", "manualMain"}
ByHand == {"manual", "manualMain"}

\* hops: the server's redirects that the request was sent on by.
Request == [state : States, tab : Tabs, page : BOOLEAN, key : Keys, grant : Grants \cup {0},
            hops : 0..MaxHops]

Tab(r) == req[r].tab
To(R, r, state) == [R EXCEPT ![r].state = state]
All(R, S, state) == [r \in Requests |-> IF r \in S THEN [R[r] EXCEPT !.state = state] ELSE R[r]]

Send(event) == events' = Append(events, event)
Call(call) == calls' = Append(calls, call)
Event(kind, r) == [kind |-> kind, of |-> r]

\* A sender resolved for a tab that is gone finds no host.
SendIfOpen(t, event) == events' = IF t \in tabs THEN Append(events, event) ELSE events

Fits(amount) == cap.amount > 0 /\ cap.spent + amount <= cap.amount

-----------------------------------------------------------------------------
(* The request on its way out                                              *)

\* Fault: a cap signature goes out although the cap no longer covers it.
WithheldNever(signed) == FALSE

\* consumeOrWithhold(): the cap was consent to this charge only while it
\* covers it; after a click on Pay the charge proceeds either way.
Withheld(signed) == signed.by = "cap" /\ ~Fits(Price[signed.key])

Bucket(r) == pending[Tab(r)][req[r].key]

\* injectPaymentSignatureHandler() for a request that leaves: the oldest
\* signature of its shape goes along, unless it has expired or is withheld; it
\* is used up in any case.
Inject(r) ==
  LET signed == Head(Bucket(r).queue)
      price == Price[req[r].key]
  IN  IF Bucket(r).queue = <<>> THEN UNCHANGED <<pending, armed, cap, attached>>
      ELSE /\ pending' = [pending EXCEPT ![Tab(r)][req[r].key] =
                            [old |-> IF @.old > 0 THEN @.old - 1 ELSE 0, queue |-> Tail(@.queue)]]
           /\ IF Bucket(r).old > 0 \/ Withheld([by |-> signed.by, key |-> req[r].key])
              THEN UNCHANGED <<armed, cap, attached>>
              ELSE /\ armed' = armed \cup {r}
                   /\ attached' = [attached EXCEPT ![r] = @ + 1]
                   /\ cap' = IF Fits(price) THEN [cap EXCEPT !.spent = @ + price] ELSE cap

\* A page asks for something: a navigation or a subresource.
Issue(r) ==
  /\ req[r].state = "new" /\ Tab(r) \in tabs
  /\ req' = To(req, r, "sent")
  /\ Inject(r)
  /\ UNCHANGED <<slot, waiter, resume, tabs, sidebar, events, calls, details, agreed, booked, lost>>

\* Chromium follows the 307 the detector returned, or a redirect of the server.
Follow(r) ==
  /\ req[r].state = "redirect"
  /\ req' = To(req, r, "sent")
  /\ Inject(r)
  /\ UNCHANGED <<slot, waiter, resume, tabs, sidebar, events, calls, details, agreed, booked, lost>>

\* PENDING_TTL_MS: a signature that nobody came for expires, the oldest first.
SignatureExpires(t, k) ==
  /\ pending[t][k].old < Len(pending[t][k].queue)
  /\ pending' = [pending EXCEPT ![t][k].old = @ + 1]
  /\ UNCHANGED <<req, slot, waiter, resume, armed, cap, tabs, sidebar, events, calls, details, ghosts>>

-----------------------------------------------------------------------------
(* The response                                                            *)

\* paymentResponseLoggingHandler(): one row for a request that was armed.
Book(r) ==
  /\ armed' = armed \ {r}
  /\ booked' = IF r \in armed THEN [booked EXCEPT ![r] = @ + 1] ELSE booked

\* Anything but a redirect or a payment-required 402; or a redirect too many.
Respond(r) ==
  /\ req[r].state = "sent"
  /\ req' = To(req, r, "over")
  /\ Book(r)
  /\ UNCHANGED <<slot, waiter, resume, pending, cap, tabs, sidebar, events, calls, details, agreed, attached, lost>>

\* The server redirects.  The request keeps its id, and is armed no longer: the
\* redirect was its response.
Redirected(r) ==
  /\ req[r].state = "sent" /\ req[r].hops < MaxHops
  /\ \E k \in Keys :
       req' = [req EXCEPT ![r].state = "redirect", ![r].key = k, ![r].hops = @ + 1]
  /\ Book(r)
  /\ UNCHANGED <<slot, waiter, resume, pending, cap, tabs, sidebar, events, calls, details, agreed, attached, lost>>

\* onErrorOccurred: clearRequestContextHandler() forgets the request.
NetworkError(r) ==
  /\ req[r].state \in {"sent", "redirect"}
  /\ req' = To(req, r, "over")
  /\ armed' = armed \ {r}
  /\ lost' = IF r \in armed THEN [lost EXCEPT ![r] = @ + 1] ELSE lost
  /\ UNCHANGED <<slot, waiter, resume, pending, cap, tabs, sidebar, events, calls, details, agreed, attached, booked>>

\* Fault: the loop guard is missing.
KnownRejectedNever(r) == FALSE

\* The loop guard: the server refused the signature this request carried, and
\* has not redirected it since.
KnownRejected(r) == r \in armed

Approvals(t) == {r \in Requests : req[r].state = "approval" /\ Tab(r) = t}

\* detectPaymentRequiredHandler(), up to its first await: the tab's slot is
\* taken first, in every case.
Detect(r) ==
  LET t == Tab(r)
      page == req[r].page
  IN  /\ req[r].state = "sent"
      /\ Book(r)
      /\ \/ /\ KnownRejected(r)
            /\ slot' = [slot EXCEPT ![t] = [of |-> r, card |-> FALSE]]
            /\ req' = To(req, r, "over")
            /\ UNCHANGED events
         \/ /\ ~KnownRejected(r) /\ Fits(Price[req[r].key])
            /\ slot' = [slot EXCEPT ![t] = [of |-> r, card |-> FALSE]]
            /\ req' = To(req, r, IF page THEN "autoMain" ELSE "auto")
            /\ UNCHANGED events
         \/ /\ ~KnownRejected(r) /\ ~Fits(Price[req[r].key])
            /\ slot' = [slot EXCEPT ![t] = [of |-> r, card |-> TRUE]]
            /\ req' = To(All(req, Approvals(t), "over"), r, IF page THEN "offered" ELSE "approval")
            /\ Send(Event("needed", r))
      /\ UNCHANGED <<waiter, resume, pending, cap, tabs, sidebar, calls, details, agreed, attached, lost>>

-----------------------------------------------------------------------------
(* Signing                                                                 *)

Swept(bucket) == [old |-> 0, queue |-> SubSeq(bucket.queue, bucket.old + 1, Len(bucket.queue))]

\* setPendingPayment() first drops what has expired, in every bucket.
Push(r, by) ==
  LET fresh == [t \in Tabs |-> [k \in Keys |-> Swept(pending[t][k])]]
  IN  pending' = [fresh EXCEPT ![Tab(r)][req[r].key].queue = Append(@, [by |-> by])]

\* A signature made for what the slot held when Pay was clicked clears the
\* slot, whatever it holds by now; one made from a snapshot leaves it.
Slots(r) == IF req[r].state = "manualMain" THEN [slot EXCEPT ![Tab(r)] = NoDetection] ELSE slot

\* Fault: the result is addressed through the tab.
NotifyByTab(r, kind) == SendIfOpen(Tab(r), Event(kind, r))

\* notifyHost(): the sender the detector bound while the tab was open.
Notify(r, kind) == Send(Event(kind, r))

\* signAndQueueRetry() succeeds.  A held request is told to come again; a page
\* is loaded again, which is a request of its own.
SignOk(r) ==
  LET by == req[r].state
      held == by \in {"auto", "manual"}
  IN  /\ by \in Signing
      /\ Push(r, IF by \in ByHand THEN "manual" ELSE "cap")
      /\ slot' = Slots(r)
      /\ cap' = IF by \in ByHand /\ req[r].grant > 0 THEN [amount |-> req[r].grant, spent |-> 0] ELSE cap
      /\ req' = To(req, r, IF held /\ Tab(r) \in tabs THEN "redirect" ELSE "over")
      /\ agreed' = agreed \ {r}
      /\ CASE by = "manual"     -> Notify(r, "success")
           [] by = "manualMain" -> Send(Event("replied", r))
           [] OTHER             -> UNCHANGED events
      /\ UNCHANGED <<waiter, resume, armed, tabs, sidebar, calls, details, attached, booked, lost>>

\* It throws.  After Pay the card is told; a held request is offered again.
SignFails(r) ==
  /\ req[r].state \in Signing
  /\ agreed' = agreed \ {r}
  /\ CASE req[r].state = "manual" ->
             req' = To(req, r, "approval") /\ Notify(r, "failure")
       [] req[r].state = "manualMain" ->
             req' = To(req, r, "offered") /\ Send(Event("refused", r))
       [] OTHER -> req' = To(req, r, "over") /\ UNCHANGED events
  /\ UNCHANGED <<slot, waiter, resume, armed, pending, cap, tabs, sidebar, calls, details, attached, booked, lost>>

\* Fault: the older wait of the tab is overwritten.
OlderWaitKept(t) == {}

\* setPendingUnlockWait() first aborts the older wait of the tab.
OlderWait(t) == {r \in Requests : waiter[t] = r}

\* It throws because the vault is locked, under the cap: a held request waits
\* for the unlock, a page leaves its detection in the tab's resume token.
SignLocked(r) ==
  LET t == Tab(r)
  IN  /\ \/ /\ req[r].state = "auto"
            /\ req' = To(All(req, OlderWait(t), "over"), r, "unlock")
            /\ waiter' = [waiter EXCEPT ![t] = r]
            /\ UNCHANGED resume
         \/ /\ req[r].state = "autoMain"
            /\ req' = To(req, r, "over")
            /\ resume' = [resume EXCEPT ![t] = r]
            /\ UNCHANGED waiter
      /\ SendIfOpen(t, [kind |-> "unlock", tab |-> t])
      /\ UNCHANGED <<slot, armed, pending, cap, tabs, sidebar, calls, details, ghosts>>

-----------------------------------------------------------------------------
(* Holds that time out, allowances that end, tabs that close               *)

\* expirePendingApproval()
ExpireApproval(r) ==
  /\ req[r].state = "approval"
  /\ req' = To(req, r, "over")
  /\ slot' = IF slot[Tab(r)] = [of |-> r, card |-> TRUE] THEN [slot EXCEPT ![Tab(r)] = NoDetection] ELSE slot
  /\ Send(Event("failure", r))
  /\ UNCHANGED <<waiter, resume, armed, pending, cap, tabs, sidebar, calls, details, ghosts>>

\* UNLOCK_RESUME_TTL_MS, of the wait and of the token.
ExpireUnlock(t) ==
  /\ waiter[t] # None
  /\ req' = To(req, waiter[t], "over")
  /\ waiter' = [waiter EXCEPT ![t] = None]
  /\ UNCHANGED <<slot, resume, armed, pending, cap, tabs, sidebar, events, calls, details, ghosts>>

ExpireResume(t) ==
  /\ resume[t] # None
  /\ resume' = [resume EXCEPT ![t] = None]
  /\ UNCHANGED <<req, slot, waiter, armed, pending, cap, tabs, sidebar, events, calls, details, ghosts>>

\* updatePermission() keeps what is spent; revoke(), or the window's end.
ChangeCap ==
  /\ cap.amount > 0
  /\ \/ \E a \in Updates \ {cap.amount} : cap' = [cap EXCEPT !.amount = a]
     \/ cap' = [amount |-> 0, spent |-> 0]
  /\ UNCHANGED <<req, slot, waiter, resume, armed, pending, tabs, sidebar, events, calls, details, ghosts>>

\* Fault: what is armed is forgotten with the tab.
FinalizedNone(t) == {}

\* finalizeAwaitingResponsesForWebContents(): a row for each.
Finalized(t) == {r \in armed : Tab(r) = t}

Cards(t) == Approvals(t) \cup {r \in Requests : slot[t] = [of |-> r, card |-> TRUE]}

\* cleanupWebContents(): cards are told first, the maps follow.
CloseTab(t) ==
  /\ t \in tabs
  /\ tabs' = tabs \ {t}
  /\ events' = events \o SetToSeq({Event("cancelled", r) : r \in Cards(t)})
  /\ req' = All(req, {r \in Requests : Tab(r) = t /\
                       req[r].state \in {"new", "sent", "redirect", "offered", "approval", "unlock"}}, "over")
  /\ slot' = [slot EXCEPT ![t] = NoDetection]
  /\ waiter' = [waiter EXCEPT ![t] = None]
  /\ resume' = [resume EXCEPT ![t] = None]
  /\ pending' = [pending EXCEPT ![t] = [k \in Keys |-> NoSignatures]]
  /\ booked' = [r \in Requests |-> IF r \in Finalized(t) THEN booked[r] + 1 ELSE booked[r]]
  /\ armed' = {r \in armed : Tab(r) # t}
  /\ UNCHANGED <<cap, sidebar, calls, details, agreed, attached, lost>>

-----------------------------------------------------------------------------
(* Calls from the sidebar                                                  *)

Answered == calls # <<>> /\ calls' = Tail(calls)

Offered(r) == slot[Tab(r)] = [of |-> r, card |-> TRUE]

\* x402:get-details: strict about the detection it is asked for.
HandleDetails ==
  /\ Answered /\ Head(calls).kind = "details"
  /\ LET r == Head(calls).of
     IN  details' = IF req[r].state = "approval" \/ Offered(r) THEN details \cup {r} ELSE details
  /\ UNCHANGED <<main, sidebar, events, ghosts>>

\* Fault: without its approval entry, a click pays what the tab's slot holds.
PaidByTab(r) == IF slot[Tab(r)] # NoDetection THEN slot[Tab(r)].of ELSE r

\* What a click on the card of r pays for on the way that goes by tab.
Paid(r) == r

\* x402:approve: a held request signs itself; a page's detection is signed
\* here if it is still the tab's; anything else is stale.
HandleApprove ==
  /\ Answered /\ Head(calls).kind = "approve"
  /\ LET r == Head(calls).of
         grant == Head(calls).grant
     IN  IF req[r].state = "approval"
         THEN /\ req' = [req EXCEPT ![r].state = "manual", ![r].grant = grant]
              /\ UNCHANGED events
         ELSE IF Offered(Paid(r))
         THEN /\ req' = [req EXCEPT ![Paid(r)].state = "manualMain", ![Paid(r)].grant = grant]
              /\ UNCHANGED events
         ELSE /\ Send(Event("refused", r))
              /\ UNCHANGED req
  /\ UNCHANGED <<slot, waiter, resume, armed, pending, cap, tabs, sidebar, details, ghosts>>

\* x402:reject and x402:cancel.  The navigation of a cancelled tab brings what
\* every navigation may: a request (Issue), and others that fail (NetworkError).
HandleReject ==
  /\ Answered
  /\ \/ /\ Head(calls).kind = "reject"
        /\ LET r == Head(calls).of
           IN  req' = IF req[r].state = "approval" THEN To(req, r, "over") ELSE req
        /\ UNCHANGED slot
     \/ /\ Head(calls).kind = "cancel"
        /\ slot' = [slot EXCEPT ![Head(calls).tab] = NoDetection]
        /\ UNCHANGED req
  /\ UNCHANGED <<waiter, resume, armed, pending, cap, tabs, sidebar, events, details, ghosts>>

\* x402:resume-unlock: the tab's wait first, its token otherwise.
HandleResume ==
  /\ Answered /\ Head(calls).kind = "resume"
  /\ LET t == Head(calls).tab
     IN  /\ req' = IF waiter[t] # None THEN To(req, waiter[t], "auto")
                   ELSE IF resume[t] # None THEN To(req, resume[t], "resumed") ELSE req
         /\ waiter' = [waiter EXCEPT ![t] = None]
         /\ resume' = [resume EXCEPT ![t] = None]
  /\ UNCHANGED <<slot, armed, pending, cap, tabs, sidebar, events, details, ghosts>>

-----------------------------------------------------------------------------
(* The sidebar                                                             *)

InFlight == card # NoCard /\ card.signing

\* What reject() sends for the card of r.
Withdrawal(r) ==
  IF req[r].page THEN [kind |-> "cancel", tab |-> Tab(r)] ELSE [kind |-> "reject", of |-> r]

\* hideAllSubscreens(): the card that is up is rejected.
Hide == calls' = IF card = NoCard THEN calls ELSE Append(calls, Withdrawal(card.of))

Received == events # <<>> /\ events' = Tail(events)

\* showApproval(), up to its call: refused while a signature is in flight.
HandleNeeded ==
  /\ Received /\ Head(events).kind = "needed"
  /\ IF InFlight THEN UNCHANGED calls ELSE Call([kind |-> "details", of |-> Head(events).of])
  /\ UNCHANGED <<main, sidebar, details, ghosts>>

\* The details arrive: the new card takes the place of what is shown.
Show(r) ==
  /\ r \in details
  /\ details' = details \ {r}
  /\ IF InFlight THEN UNCHANGED <<sidebar, calls>>
     ELSE /\ Hide
          /\ card' = [of |-> r, signing |-> FALSE]
          /\ prompt' = [shown |-> FALSE, tab |-> None]
  /\ UNCHANGED <<main, events, ghosts>>

Pay ==
  /\ card # NoCard /\ ~card.signing
  /\ card' = [card EXCEPT !.signing = TRUE]
  /\ agreed' = agreed \cup {card.of}
  /\ \E g \in Grants \cup {0} : Call([kind |-> "approve", of |-> card.of, grant |-> g])
  /\ UNCHANGED <<main, prompt, events, details, attached, booked, lost>>

Reject ==
  /\ card # NoCard /\ ~card.signing
  /\ card' = NoCard
  /\ Hide
  /\ UNCHANGED <<main, prompt, events, details, ghosts>>

\* handleApprovalResult(), and the rest of approve() when its call returns:
\* only the card it belongs to closes, or is live again.
HandleResult ==
  /\ Received /\ Head(events).kind \in {"success", "replied", "cancelled", "failure", "refused"}
  /\ card' = IF card = NoCard \/ card.of # Head(events).of THEN card
             ELSE IF Head(events).kind \in {"failure", "refused"} THEN [card EXCEPT !.signing = FALSE]
             ELSE NoCard
  /\ UNCHANGED <<main, prompt, calls, details, ghosts>>

\* showVaultUnlock(): the screen takes the place of what is shown; hiding
\* itself, it dismisses the request that has just become the pending one.
HandleUnlock ==
  /\ Received /\ Head(events).kind = "unlock"
  /\ IF InFlight THEN UNCHANGED <<sidebar, calls>>
     ELSE /\ Hide
          /\ card' = NoCard
          /\ prompt' = [shown |-> TRUE, tab |-> IF prompt.shown THEN None ELSE Head(events).tab]
  /\ UNCHANGED <<main, details, ghosts>>

\* The user unlocks the vault, or dismisses the prompt.  Where no request is left
\* to resume, an unlock leaves the screen as it is.
Unlock ==
  /\ prompt.shown
  /\ prompt' = [shown |-> FALSE, tab |-> None]
  /\ \/ prompt.tab # None /\ Call([kind |-> "resume", tab |-> prompt.tab])
     \/ UNCHANGED calls
  /\ UNCHANGED <<main, card, events, details, ghosts>>

-----------------------------------------------------------------------------

Init ==
  /\ req \in [Requests -> [state : {"new"}, tab : Tabs, page : BOOLEAN, key : Keys, grant : {0},
                        hops : {0}]]
  /\ slot = [t \in Tabs |-> NoDetection] /\ waiter = [t \in Tabs |-> None] /\ resume = [t \in Tabs |-> None]
  /\ armed = {} /\ pending = [t \in Tabs |-> [k \in Keys |-> NoSignatures]]
  /\ cap \in [amount : Grants \cup {0}, spent : {0}]
  /\ tabs = Tabs
  /\ card = NoCard /\ prompt = [shown |-> FALSE, tab |-> None]
  /\ events = <<>> /\ calls = <<>> /\ details = {}
  /\ agreed = {}
  /\ attached = [r \in Requests |-> 0] /\ booked = attached /\ lost = attached

Network(r) == Issue(r) \/ Follow(r) \/ Respond(r) \/ Redirected(r) \/ NetworkError(r) \/ Detect(r)
Sign(r) == SignOk(r) \/ SignFails(r) \/ SignLocked(r)
Handle == HandleDetails \/ HandleApprove \/ HandleReject \/ HandleResume
Listen == HandleNeeded \/ HandleResult \/ HandleUnlock
User == Pay \/ Reject \/ Unlock \/ ChangeCap

Next ==
  \/ \E r \in Requests : Network(r) \/ Sign(r) \/ ExpireApproval(r) \/ Show(r)
  \/ \E t \in Tabs : ExpireUnlock(t) \/ ExpireResume(t) \/ CloseTab(t)
  \/ \E t \in Tabs, k \in Keys : SignatureExpires(t, k)
  \/ Handle \/ Listen \/ User

Spec == Init /\ [][Next]_vars

-----------------------------------------------------------------------------
(* Properties                                                              *)

\* Types.
TypeOK ==
  /\ req \in [Requests -> Request]
  /\ slot \in [Tabs -> {NoDetection} \cup [of : Requests, card : BOOLEAN]]
  /\ waiter \in [Tabs -> Requests \cup {None}] /\ resume \in [Tabs -> Requests \cup {None}]
  /\ armed \subseteq {r \in Requests : req[r].state = "sent"}
  /\ \A t \in Tabs, k \in Keys : /\ pending[t][k].queue \in Seq([by : {"cap", "manual"}])
                               /\ pending[t][k].old \in 0..Len(pending[t][k].queue)
  /\ cap \in [amount : Grants \cup Updates \cup {0}, spent : Nat]
  /\ card \in {NoCard} \cup [of : Requests, signing : BOOLEAN]
  /\ prompt \in [shown : BOOLEAN, tab : Tabs \cup {None}]
  /\ details \subseteq Requests

\* What is being signed as the user's decision is a charge whose own card's Pay
\* was clicked, once per signature: no newer detection of the tab, and no
\* click of the card before, is paid for (ipc.js:289-301).
SigningIsAgreed == \A r \in Requests : req[r].state \in ByHand => r \in agreed

\* A signature that nobody clicked for leaves only if the allowance, as it is
\* at that moment, covers the charge, which it pays for: signatures made under
\* way together never exceed it (intercept.js consumeOrWithhold).
AutoPayWithinCap ==
  [][\A r \in Requests :
       attached'[r] > attached[r] /\ Head(Bucket(r).queue).by = "cap" =>
         /\ cap'.spent = cap.spent + Price[req[r].key]
         /\ cap'.spent <= cap'.amount]_vars

\* However often a request is refused, told by the detector to come again, and
\* held, it takes one signature to the server at most, and one more for each time
\* the server itself redirected it: a 402 in answer to a signature is never
\* answered with another (the loop guard, intercept.js:834-844).
OneSignaturePerHop == \A r \in Requests : attached[r] <= 1 + req[r].hops

\* Every signature that left is waited for, or has its one row in the payment
\* history, unless its connection failed; a closing tab settles its own.
PaymentsAreBooked ==
  \A r \in Requests : attached[r] = booked[r] + lost[r] + (IF r \in armed THEN 1 ELSE 0)

\* A request held for the vault is the one its tab's entry wakes: a newer wait
\* releases the older one.
HeldHaveWaker == \A r \in Requests : req[r].state = "unlock" => waiter[Tab(r)] = r

InTransit(r) ==
  \/ \E i \in DOMAIN calls : calls[i].kind = "approve" /\ calls[i].of = r
  \/ \E i \in DOMAIN events :
       events[i].kind \in {"success", "replied", "cancelled", "failure", "refused"} /\ events[i].of = r

\* The signature flight, which locks the whole sidebar, belongs to a signature
\* that is being made or to news of it that is on its way, even if the tab is
\* gone (intercept.js:547-553, 979-983).
LockIsOwned == InFlight => req[card.of].state \in ByHand \/ InTransit(card.of)

\* "one 402 -> one interstitial -> one approval" (intercept.js:90-94): while the
\* card of a tab's latest page is up, the sidebar withdraws no detection of that
\* tab: the withdrawal would take the one the card's Pay needs.
CardIsPayable ==
  card # NoCard /\ ~InFlight /\ req[card.of].page /\ Offered(card.of) =>
    ~\E i \in DOMAIN calls : calls[i] = [kind |-> "cancel", tab |-> Tab(card.of)]
=============================================================================
