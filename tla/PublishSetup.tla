---------------------------- MODULE PublishSetup ----------------------------
(***************************************************************************)
(* The publish setup (publish-setup-service.js): the one purchase a        *)
(* profile's Swarm node is set up with.  A window arms it; it is priced    *)
(* again and again until the node's wallet holds the funds, then paid for  *)
(* by one write to the node, and a bought batch is watched until the       *)
(* network accepts it.  Every call to the node is an await, across which   *)
(* windows arm, cancel, dismiss and close, the user's own payment is       *)
(* followed, and the node restarts.                                        *)
(*                                                                         *)
(* Left out: readiness and the account, which are read and shown but start *)
(* nothing, and amounts.  What a call costs is the node's answer, any of   *)
(* those antd gives (ant-storage-api.js).                                  *)
(***************************************************************************)
EXTENDS Naturals, FiniteSets

CONSTANTS
  Kinds,    \* "buy", "extend", "deposit" or "amount" (a deposit of a chosen amount)
  MaxOps,   \* how many operations are armed (a bound)
  MaxTracked, \* how many payments of the user's are followed (a bound)
  Windows   \* webContents that show the setup screen

ASSUME KindAssumption == Kinds \subseteq {"buy", "extend", "deposit", "amount"}
ASSUME BoundAssumption == MaxOps \in Nat /\ MaxTracked \in Nat

Ops == 1..MaxOps

VARIABLES
  reused,     \* the registry's node is one that is not Freedom's; fixed here
  restart,    \* restart.inProgress
  opSeq,
  operation,  \* the current operation, or 0
  kind, phase, executed, uncertain,
  amountChecked, priced,  \* an amount deposit's: xdaiNeededWei is set
  quotes,     \* per operation: calls of requote that await the quote
  nodeReads,  \* and those that await getNode
  quoteTimer, \* the operation whose timer is set, or 0
  write,      \* what execute awaits
  fundingTx,  \* the user's payment: "none", "pending", "ended"
  txPoll,     \* calls of pollFundingTx that await its receipt
  txTimer,
  confirmPoll,
  watchers,   \* windows with the setup screen up
  dismissal,  \* the result that was left, and by whom
  paid,       \* how often the chain carried out an operation
  late        \* writes without an answer that may yet be carried out

callVars == <<quotes, nodeReads, write, txPoll, confirmPoll>>
opVars == <<opSeq, operation, kind, phase, executed, uncertain, amountChecked, priced>>
screenVars == <<watchers, dismissal>>
vars == <<reused, restart, opVars, callVars, quoteTimer, fundingTx, txTimer, screenVars,
          paid, late>>

TypeOK ==
  /\ reused \in BOOLEAN /\ restart \in BOOLEAN
  /\ opSeq \in 0..MaxOps /\ operation \in 0..opSeq
  /\ kind \in [Ops -> Kinds \cup {"none"}]
  /\ phase \in [Ops -> {"none", "quoting", "awaiting-funds", "executing", "confirming",
                        "done", "failed", "rejected"}]
  /\ executed \subseteq Ops /\ uncertain \subseteq Ops
  /\ amountChecked \subseteq Ops /\ priced \subseteq Ops
  /\ quotes \in [Ops -> 0..2] /\ nodeReads \in [Ops -> 0..2]
  /\ quoteTimer \in 0..MaxOps /\ txTimer \in 0..MaxOps
  /\ write \in [Ops -> {"none", "before", "sent", "carried", "after"}]
  /\ fundingTx \in [Ops -> {"none", "pending", "ended"}]
  /\ txPoll \subseteq Ops
  /\ confirmPoll \in [Ops -> {"off", "timer", "asking"}]
  /\ watchers \subseteq Windows
  /\ dismissal \in [op : 0..MaxOps, viewers : SUBSET Windows]
  /\ paid \in [Ops -> 0..2] /\ late \subseteq Ops

Init ==
  /\ reused \in BOOLEAN /\ restart = FALSE
  /\ opSeq = 0 /\ operation = 0
  /\ kind = [i \in Ops |-> "none"] /\ phase = [i \in Ops |-> "none"]
  /\ executed = {} /\ uncertain = {} /\ amountChecked = {} /\ priced = {}
  /\ quotes = [i \in Ops |-> 0] /\ nodeReads = [i \in Ops |-> 0]
  /\ quoteTimer = 0 /\ txTimer = 0
  /\ write = [i \in Ops |-> "none"]
  /\ fundingTx = [i \in Ops |-> "none"] /\ txPoll = {}
  /\ confirmPoll = [i \in Ops |-> "off"]
  /\ watchers = {} /\ dismissal = [op |-> 0, viewers |-> {}]
  /\ paid = [i \in Ops |-> 0] /\ late = {}

QuotingPhases == {"quoting", "awaiting-funds"}
Quoting(i) == operation = i /\ phase[i] \in QuotingPhases
Finished == operation # 0 /\ phase[operation] \in {"done", "failed", "rejected"}

\* The confirm timer, when it is set, is that of the current operation.
ConfirmStopped == [i \in Ops |-> IF confirmPoll[i] = "timer" THEN "off" ELSE confirmPoll[i]]

-----------------------------------------------------------------------------
(* What a step does with the operation                                     *)

\* Fault: a payment that is being followed will have the price asked for again.
RetryOnPayment(i, ph) ==
  /\ phase' = [phase EXCEPT ![i] = ph]
  /\ quoteTimer' = IF fundingTx[i] = "pending" THEN quoteTimer ELSE i
  /\ UNCHANGED <<uncertain, txTimer, confirmPoll>>

\* scheduleQuote, for an operation that stays in a quoting phase.
Retry(i, ph) ==
  /\ phase' = [phase EXCEPT ![i] = ph]
  /\ quoteTimer' = i
  /\ UNCHANGED <<uncertain, txTimer, confirmPoll>>

\* finishOperation and failOperation.
End(i, ph, isUncertain) ==
  /\ phase' = [phase EXCEPT ![i] = ph]
  /\ uncertain' = IF isUncertain THEN uncertain \cup {i} ELSE uncertain
  /\ quoteTimer' = 0 /\ txTimer' = 0 /\ confirmPoll' = ConfirmStopped

\* confirmBatch asks for the batch at once.
ConfirmBatch(i) ==
  /\ phase' = [phase EXCEPT ![i] = "confirming"]
  /\ confirmPoll' = [confirmPoll EXCEPT ![i] = "asking"]
  /\ UNCHANGED <<uncertain, quoteTimer, txTimer>>

\* execute up to its first await: a buy first reads which batches there are.
Execute(i) ==
  /\ i \notin executed
  /\ executed' = executed \cup {i}
  /\ phase' = [phase EXCEPT ![i] = "executing"]
  /\ uncertain' = uncertain \ {i}
  /\ quoteTimer' = 0 /\ txTimer' = 0
  /\ write' = [write EXCEPT ![i] = IF kind[i] = "buy" THEN "before" ELSE "sent"]
  /\ UNCHANGED confirmPoll

-----------------------------------------------------------------------------
(* Quoting                                                                 *)

Armable == operation # 0 => phase[operation] \notin {"executing", "confirming"}

Arm(k) ==
  /\ Armable /\ ~reused /\ opSeq < MaxOps
  /\ opSeq' = opSeq + 1 /\ operation' = opSeq'
  /\ kind' = [kind EXCEPT ![opSeq'] = k]
  /\ phase' = [phase EXCEPT ![opSeq'] = "quoting"]
  /\ quotes' = [quotes EXCEPT ![opSeq'] = 1]
  /\ quoteTimer' = 0 /\ txTimer' = 0
  /\ UNCHANGED <<reused, restart, executed, uncertain, amountChecked, priced, nodeReads, write,
                 txPoll, confirmPoll, fundingTx, screenVars, paid, late>>

\* The quote timer; it is cleared with its operation.
QuoteTick ==
  /\ quoteTimer # 0
  /\ quoteTimer' = 0
  /\ quotes' = [quotes EXCEPT ![quoteTimer] = @ + 1]
  /\ UNCHANGED <<reused, restart, opVars, nodeReads, write, txPoll, confirmPoll, fundingTx,
                 txTimer, screenVars, paid, late>>

\* Ways on from an answered quote, common to both kinds of pricing.
Unread(i) == Retry(i, phase[i]) /\ UNCHANGED <<executed, write>>
Short(i) == Retry(i, "awaiting-funds") /\ UNCHANGED <<executed, write>>
Refused(i) == End(i, "failed", FALSE) /\ UNCHANGED <<executed, write>>
AlreadyFull(i) ==
  /\ kind[i] = "deposit"
  /\ End(i, "done", FALSE) /\ UNCHANGED <<executed, write>>

\* requoteAmountDeposit with the wallet's balance at hand: a first write, for
\* which there is no price yet, may spend no more than the user was shown.
PriceAmount(i) ==
  \/ Unread(i)
  \/ Execute(i)
  \/ i \notin priced /\ Refused(i)
  \/ i \in priced /\ Short(i)

Superseded(i) ==
  /\ ~Quoting(i)
  /\ UNCHANGED <<phase, uncertain, executed, quoteTimer, txTimer, confirmPoll, write>>

QuoteAnswered(i) ==
  /\ quotes[i] > 0
  /\ quotes' = [quotes EXCEPT ![i] = @ - 1]
  /\ \/ Superseded(i) /\ UNCHANGED nodeReads
     \/ /\ Quoting(i)
        /\ \/ /\ Unread(i) \/ Refused(i) \/ AlreadyFull(i)
              /\ UNCHANGED nodeReads
           \/ /\ kind[i] # "amount"
              /\ Execute(i) \/ Short(i)
              /\ UNCHANGED nodeReads
           \/ /\ kind[i] = "amount" /\ i \in amountChecked
              /\ PriceAmount(i)
              /\ UNCHANGED nodeReads
           \/ /\ kind[i] = "amount" /\ i \notin amountChecked
              /\ nodeReads' = [nodeReads EXCEPT ![i] = @ + 1]
              /\ UNCHANGED <<phase, uncertain, executed, quoteTimer, txTimer, confirmPoll, write>>
  /\ UNCHANGED <<reused, restart, opSeq, operation, kind, amountChecked, priced, txPoll,
                 fundingTx, screenVars, paid, late>>

NodeAnswered(i) ==
  /\ nodeReads[i] > 0
  /\ nodeReads' = [nodeReads EXCEPT ![i] = @ - 1]
  /\ \/ Superseded(i) /\ UNCHANGED amountChecked
     \/ Quoting(i) /\ (Unread(i) \/ Refused(i)) /\ UNCHANGED amountChecked
     \/ Quoting(i) /\ amountChecked' = amountChecked \cup {i} /\ PriceAmount(i)
  /\ UNCHANGED <<reused, restart, opSeq, operation, kind, priced, quotes, txPoll, fundingTx,
                 screenVars, paid, late>>

-----------------------------------------------------------------------------
(* Paying                                                                  *)

StampsRead(i) ==
  /\ write[i] = "before"
  /\ write' = [write EXCEPT ![i] = "sent"]
  /\ UNCHANGED <<reused, restart, opVars, quotes, nodeReads, txPoll, confirmPoll, quoteTimer,
                 fundingTx, txTimer, screenVars, paid, late>>

\* The node sends the transaction, and the chain takes it.
Carry(i) ==
  /\ write[i] = "sent"
  /\ write' = [write EXCEPT ![i] = "carried"]
  /\ paid' = [paid EXCEPT ![i] = @ + 1]
  /\ UNCHANGED <<reused, restart, opVars, quotes, nodeReads, txPoll, confirmPoll, quoteTimer,
                 fundingTx, txTimer, screenVars, late>>

CarryLate(i) ==
  /\ i \in late
  /\ late' = late \ {i}
  /\ paid' = [paid EXCEPT ![i] = @ + 1]
  /\ UNCHANGED <<reused, restart, opVars, callVars, quoteTimer, fundingTx, txTimer, screenVars>>

\* 409, 503, or too few xDAI after all: nothing was sent.
WriteBusy(i) ==
  /\ write[i] = "sent"
  /\ executed' = executed \ {i}
  /\ Retry(i, "quoting") /\ UNCHANGED priced

WriteShort(i) ==
  /\ write[i] = "sent"
  /\ executed' = executed \ {i}
  /\ Retry(i, "awaiting-funds")
  /\ priced' = IF kind[i] = "amount" THEN priced \cup {i} ELSE priced

WriteRefused(i) ==
  /\ write[i] = "sent"
  /\ End(i, "failed", FALSE) /\ UNCHANGED <<executed, priced>>

WriteOk(i) ==
  /\ write[i] = "carried"
  /\ (kind[i] = "buy" /\ ConfirmBatch(i)) \/ End(i, "done", FALSE)
  /\ UNCHANGED <<executed, priced>>

WriteAnswered(i) ==
  /\ operation = i
  /\ WriteBusy(i) \/ WriteShort(i) \/ WriteRefused(i) \/ WriteOk(i)
  /\ write' = [write EXCEPT ![i] = "none"]
  /\ UNCHANGED <<reused, restart, opSeq, operation, kind, amountChecked, quotes, nodeReads,
                 txPoll, fundingTx, screenVars, paid, late>>

\* Fault: no answer in time is taken for a node that is busy.
DoubtRetried(i) ==
  /\ write' = [write EXCEPT ![i] = "none"]
  /\ executed' = executed \ {i}
  /\ Retry(i, "quoting")

\* Without an answer a buy looks for a batch that was not there before, if it
\* knows which were.
Doubt(i) ==
  \/ /\ kind[i] = "buy"
     /\ write' = [write EXCEPT ![i] = "after"]
     /\ UNCHANGED <<executed, phase, uncertain, quoteTimer, txTimer, confirmPoll>>
  \/ /\ write' = [write EXCEPT ![i] = "none"]
     /\ End(i, "failed", TRUE) /\ UNCHANGED executed

WriteUnanswered(i) ==
  /\ operation = i /\ write[i] \in {"sent", "carried"}
  /\ late' \in IF write[i] = "sent" THEN {late, late \cup {i}} ELSE {late}
  /\ Doubt(i)
  /\ UNCHANGED <<reused, restart, opSeq, operation, kind, amountChecked, priced, quotes,
                 nodeReads, txPoll, fundingTx, screenVars, paid>>

\* The batch found may be another one that the node has just rediscovered.
StampsReadAgain(i) ==
  /\ operation = i /\ write[i] = "after"
  /\ write' = [write EXCEPT ![i] = "none"]
  /\ ConfirmBatch(i) \/ End(i, "failed", TRUE)
  /\ UNCHANGED <<reused, restart, opSeq, operation, kind, executed, amountChecked, priced,
                 quotes, nodeReads, txPoll, fundingTx, screenVars, paid, late>>

-----------------------------------------------------------------------------
(* Confirming                                                              *)

ConfirmTick(i) ==
  /\ confirmPoll[i] = "timer"
  /\ confirmPoll' = [confirmPoll EXCEPT ![i] = "asking"]
  /\ UNCHANGED <<reused, restart, opVars, quotes, nodeReads, write, txPoll, quoteTimer,
                 fundingTx, txTimer, screenVars, paid, late>>

Confirming(i) == operation = i /\ phase[i] = "confirming"

ConfirmAgain(i) ==
  /\ confirmPoll[i] = "asking"
  /\ confirmPoll' = [confirmPoll EXCEPT ![i] = IF Confirming(i) THEN "timer" ELSE "off"]
  /\ UNCHANGED <<reused, restart, opVars, quotes, nodeReads, write, txPoll, quoteTimer,
                 fundingTx, txTimer, screenVars, paid, late>>

\* Usable, or ten minutes are over; or the node has given up on the batch.
Confirmed(i) ==
  /\ confirmPoll[i] = "asking" /\ Confirming(i)
  /\ \E ph \in {"done", "rejected"} : phase' = [phase EXCEPT ![i] = ph]
  /\ confirmPoll' = [ConfirmStopped EXCEPT ![i] = "off"]
  /\ quoteTimer' = 0 /\ txTimer' = 0
  /\ UNCHANGED <<reused, restart, opSeq, operation, kind, executed, uncertain, amountChecked,
                 priced, quotes, nodeReads, write, txPoll, fundingTx, screenVars, paid, late>>

-----------------------------------------------------------------------------
(* The user's own payment                                                  *)

TrackFundingTx ==
  /\ operation # 0 /\ Quoting(operation) /\ fundingTx[operation] = "none"
  /\ Cardinality({i \in Ops : fundingTx[i] # "none"}) < MaxTracked
  /\ fundingTx' = [fundingTx EXCEPT ![operation] = "pending"]
  /\ txPoll' = txPoll \cup {operation} /\ txTimer' = 0
  /\ UNCHANGED <<reused, restart, opVars, quotes, nodeReads, write, confirmPoll, quoteTimer,
                 screenVars, paid, late>>

TxTick ==
  /\ txTimer # 0
  /\ txTimer' = 0
  /\ txPoll' = txPoll \cup {txTimer}
  /\ UNCHANGED <<reused, restart, opVars, quotes, nodeReads, write, confirmPoll, quoteTimer,
                 fundingTx, screenVars, paid, late>>

\* A payment that is confirmed is a reason to ask for the quote now.
TxAnswered(i) ==
  /\ i \in txPoll
  /\ txPoll' = txPoll \ {i}
  /\ \/ operation # i /\ UNCHANGED <<fundingTx, txTimer, quoteTimer, quotes>>
     \/ /\ operation = i                             \* still pending
        /\ txTimer' = i /\ UNCHANGED <<fundingTx, quoteTimer, quotes>>
     \/ /\ operation = i                             \* failed, or not seen in time
        /\ fundingTx' = [fundingTx EXCEPT ![i] = "ended"]
        /\ UNCHANGED <<txTimer, quoteTimer, quotes>>
     \/ /\ operation = i                             \* confirmed
        /\ fundingTx' = [fundingTx EXCEPT ![i] = "ended"]
        /\ IF Quoting(i)
           THEN quoteTimer' = 0 /\ quotes' = [quotes EXCEPT ![i] = @ + 1]
           ELSE UNCHANGED <<quoteTimer, quotes>>
        /\ UNCHANGED txTimer
  /\ UNCHANGED <<reused, restart, opVars, nodeReads, write, confirmPoll, screenVars, paid, late>>

-----------------------------------------------------------------------------
(* Windows                                                                 *)

\* cancel, where the code has established that there is an operation.
Drop ==
  /\ operation' = 0
  /\ quoteTimer' = 0 /\ txTimer' = 0 /\ confirmPoll' = ConfirmStopped

Keep == UNCHANGED <<operation, quoteTimer, txTimer, confirmPoll>>

Cancel ==
  /\ operation # 0 /\ phase[operation] # "executing"
  /\ Drop
  /\ UNCHANGED <<reused, restart, opSeq, kind, phase, executed, uncertain, amountChecked, priced,
                 quotes, nodeReads, write, txPoll, fundingTx, screenVars, paid, late>>

Left(op) == IF dismissal.op = op THEN dismissal.viewers ELSE {}

\* A window leaves a result it showed; it is dropped when no other shows it.
Dismiss(w) ==
  /\ Finished
  /\ dismissal' = [op |-> operation, viewers |-> Left(operation) \cup {w}]
  /\ IF watchers \subseteq dismissal'.viewers THEN Drop ELSE Keep
  /\ UNCHANGED <<reused, restart, opSeq, kind, phase, executed, uncertain, amountChecked, priced,
                 quotes, nodeReads, write, txPoll, fundingTx, watchers, paid, late>>

\* Fault: a screen that closes settles nothing.
SettleNever == Keep

\* settleDismissal.
Settle ==
  IF Finished /\ Left(operation) # {} /\ watchers' \subseteq Left(operation)
  THEN Drop ELSE Keep

WatchOn(w) ==
  /\ w \notin watchers
  /\ watchers' = watchers \cup {w}
  /\ Keep
  /\ UNCHANGED <<reused, restart, opSeq, kind, phase, executed, uncertain, amountChecked, priced,
                 quotes, nodeReads, write, txPoll, fundingTx, dismissal, paid, late>>

\* The screen goes away, or its window does.
WatchOff(w) ==
  /\ w \in watchers
  /\ watchers' = watchers \ {w}
  /\ Settle
  /\ UNCHANGED <<reused, restart, opSeq, kind, phase, executed, uncertain, amountChecked, priced,
                 quotes, nodeReads, write, txPoll, fundingTx, dismissal, paid, late>>

-----------------------------------------------------------------------------
(* The node                                                                *)

RestartNode ==
  /\ ~restart /\ ~reused
  /\ operation # 0 => phase[operation] # "executing"
  /\ restart' = TRUE
  /\ UNCHANGED <<reused, opVars, callVars, quoteTimer, fundingTx, txTimer, screenVars, paid, late>>

\* stopAnt() and startAnt() are done.
Restarted ==
  /\ restart /\ restart' = FALSE
  /\ UNCHANGED <<reused, opVars, callVars, quoteTimer, fundingTx, txTimer, screenVars, paid, late>>

-----------------------------------------------------------------------------

OpStep(i) ==
  \/ QuoteAnswered(i) \/ NodeAnswered(i) \/ StampsRead(i) \/ Carry(i) \/ CarryLate(i)
  \/ WriteAnswered(i) \/ WriteUnanswered(i) \/ StampsReadAgain(i)
  \/ ConfirmTick(i) \/ ConfirmAgain(i) \/ Confirmed(i) \/ TxAnswered(i)

Next ==
  \/ \E k \in Kinds : Arm(k)
  \/ \E i \in Ops : OpStep(i)
  \/ \E w \in Windows : Dismiss(w) \/ WatchOn(w) \/ WatchOff(w)
  \/ QuoteTick \/ TrackFundingTx \/ TxTick \/ Cancel
  \/ RestartNode \/ Restarted

Spec == Init /\ [][Next]_vars

-----------------------------------------------------------------------------
(* Properties                                                              *)

\* Each purchase that is asked for is paid for at most once, one at a time, and
\* is reported as failed for certain only if nothing was paid or will be,
\* whatever the node's answers, cancels, restarts and windows.
Promise == INSTANCE PurchasePromise WITH
  Ops <- Ops,
  stage <- [i \in Ops |->
     CASE phase[i] = "none" -> "none"
       [] phase[i] \in QuotingPhases -> "open"
       [] phase[i] = "executing" -> "paying"
       [] phase[i] = "confirming" -> "bought"
       [] phase[i] = "failed" -> IF i \in uncertain THEN "unsure" ELSE "failed"
       [] OTHER -> phase[i]],
  loose <- late,
  paid <- paid

ImplementsPromise == Promise!Spec

\* A purchase that is under way always has what moves it on: a timer or a call
\* of its own.  No early return leaves it where only cancelling helps.
NothingIsForgotten ==
  operation # 0 =>
    LET i == operation
    IN  /\ phase[i] \in QuotingPhases => quoteTimer = i \/ quotes[i] + nodeReads[i] > 0
        /\ phase[i] = "executing" => write[i] # "none"
        /\ phase[i] = "confirming" => confirmPoll[i] # "off"

\* A result that someone has left stays only as long as another window, which
\* has not, shows it: in whichever order screens are left, closed and opened.
DismissedResultsGo ==
  Finished /\ Left(operation) # {} => ~(watchers \subseteq Left(operation))
=============================================================================
