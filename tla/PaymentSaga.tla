---------------------------- MODULE PaymentSaga ----------------------------
(***************************************************************************)
(* The payment saga: HTTP requests that establish an attempt in one        *)
(* transaction, call the provider outside any transaction and record the   *)
(* outcome in another one; Stripe's Checkout sessions; and the webhook     *)
(* that applies their events.  Requests of one order interleave with each  *)
(* other, with webhooks and with crashes between any two steps; pay_order  *)
(* requests of one order exclude each other by an advisory lock.           *)
(*                                                                         *)
(* Every step is written as one transaction of OrderReservation or as none, *)
(* so what that module promises of its own steps holds here as well.       *)
(***************************************************************************)
EXTENDS OrderReservation

CONSTANTS Requests,      \* HTTP requests, each served once
          RequestKinds,  \* the endpoints clients use: "create", "pay"
          Providers,     \* the providers settings or callers select
          Confirmations, \* what a synchronous provider may answer
          CallFailures   \* how a call to Stripe may fail: "refused", "lost"

ASSUME RequestKindsAssumption == RequestKinds \subseteq {"create", "pay"}
ASSUME ProvidersAssumption == Providers \subseteq {"local", "stripe"}
ASSUME ConfirmationsAssumption == Confirmations \subseteq {"SUCCEEDED", "FAILED", "PENDING"}
ASSUME CallFailuresAssumption == CallFailures \subseteq {"refused", "lost"}

VARIABLES req,          \* what each request remembers between its steps
          payProvider,  \* Payment.provider
          linked,       \* Payment.transaction_id is the provider's reference
          session,      \* Stripe's Checkout session of a payment's idempotency key
          checkout,     \* payments whose checkout URL a customer was given
          events,       \* events Stripe has emitted and redelivers
          ledger        \* StripeWebhookEvent rows

sagaVars == <<req, payProvider, linked, session, checkout, events, ledger>>
externalVars == <<session, events>>
allVars == <<vars, sagaVars>>

SessionStates == {"none", "open", "processing", "charged", "closed"}
EventKinds == {"unpaid", "succeeded", "failed", "expired"}
Steps == {"idle", "calling", "linking", "rejecting", "confirming", "settling", "done"}

\* The types, and that a customer only ever gets a checkout whose reference is
\* stored: webhooks find the payment of every session that can be paid.
SagaTypeOK ==
    /\ req \in [Requests -> [kind : {"none", "create", "pay"},
                             pc : Steps,
                             order : Orders \cup {Nobody},
                             pay : Payments \cup {Nobody},
                             provider : {"none", "local", "stripe"},
                             madeItem : BOOLEAN,
                             answer : {"none", "SUCCEEDED", "FAILED", "PENDING"}]]
    /\ payProvider \in [Payments -> {"none", "local", "stripe"}]
    /\ linked \in [Payments -> BOOLEAN]
    /\ session \in [Payments -> SessionStates]
    /\ checkout \subseteq Payments
    /\ events \subseteq [pay : Payments, kind : EventKinds]
    /\ ledger \subseteq events
    \* a checkout is handed out only after its linkage is durable
    /\ \A p \in checkout : linked[p] /\ payProvider[p] # "none"

SagaInit ==
    /\ Init
    /\ req = [r \in Requests |-> [kind |-> "none", pc |-> "idle", order |-> Nobody,
                                  pay |-> Nobody, provider |-> "none",
                                  madeItem |-> FALSE, answer |-> "none"]]
    /\ payProvider = [p \in Payments |-> "none"]
    /\ linked = [p \in Payments |-> FALSE]
    /\ session = [p \in Payments |-> "none"]
    /\ checkout = {}
    /\ events = {}
    /\ ledger = {}

-----------------------------------------------------------------------------
Running(r) == req[r].pc \notin {"idle", "done"}

\* Fault variant: no advisory lock.
PayUnlocked(o) == FALSE

\* _pay_order_lock: a session-level advisory lock, gone with its connection.
PayLocked(o) == \E r \in Requests : Running(r) /\ req[r].kind = "pay" /\ req[r].order = o

Goto(r, pc) == req' = [req EXCEPT ![r].pc = pc]

Begin(r, kind, o, p, provider, pc) ==
    /\ kind \in RequestKinds
    /\ req[r].pc = "idle"
    /\ req' = [req EXCEPT ![r] = [kind |-> kind, pc |-> pc, order |-> o, pay |-> p,
                                  provider |-> provider, madeItem |-> ~itemised[o],
                                  answer |-> "none"]]

\* An unsuccessful outcome reached through fail_payment; a paid payment is kept.
FailPayment(o, p) ==
    \/ TerminatePayment(o, p, "FAILED")
    \/ payStatus[p] = "PAID" /\ UNCHANGED vars

\* complete_payment as its callers see it: a payment completed together with
\* its order is acknowledged again.
AlreadyCompleted(o, p) == orderStatus[o] = "PAID" /\ payStatus[p] = "PAID"

Succeed(o, p) ==
    \/ CompletePayment(o, p)
    \/ AlreadyCompleted(o, p) /\ UNCHANGED vars

-----------------------------------------------------------------------------
(* POST /payments/ -- create_payment.                                      *)

StartCreate(r, o, p) ==
    /\ NewAttempt(o, p)
    /\ \E provider \in Providers :
          /\ Begin(r, "create", o, p, provider, "calling")
          /\ payProvider' = [payProvider EXCEPT ![p] = provider]
    /\ UNCHANGED <<linked, externalVars, checkout, ledger>>

(* POST /orders/<id>/pay/ -- pay_order.                                    *)

\* A new attempt; with Stripe the synchronous command refuses to create one.
StartPay(r, o, p) ==
    /\ ~PayLocked(o)
    /\ "local" \in Providers
    /\ NewAttempt(o, p)
    /\ Begin(r, "pay", o, p, "local", "calling")
    /\ UNCHANGED <<payProvider, linked, externalVars, checkout, ledger>>

\* The active attempt is taken up where it is: the call is repeated under its
\* idempotency key, with whatever provider is selected now, unless the
\* provider's reference is already stored.
ResumePay(r, o, p) ==
    /\ ~PayLocked(o)
    /\ ResumeAttempt(o, p)
    /\ IF linked[p]
       THEN Begin(r, "pay", o, p, payProvider[p], "confirming")
       ELSE \E provider \in Providers : Begin(r, "pay", o, p, provider, "calling")
    /\ UNCHANGED <<payProvider, linked, externalVars, checkout, ledger>>

-----------------------------------------------------------------------------
(* The provider call, outside any transaction.                             *)

\* The idempotency key yields the payment's session if it has one already.
OpenSession(p) ==
    session' = [session EXCEPT ![p] = IF @ = "none" THEN "open" ELSE @]

\* The provider answered with its reference.
CallSucceeds(r) ==
    /\ req[r].pc = "calling"
    /\ Goto(r, "linking")
    /\ IF req[r].provider = "stripe" THEN OpenSession(req[r].pay) ELSE UNCHANGED session
    /\ UNCHANGED <<vars, payProvider, linked, checkout, events, ledger>>

\* Any StripeError becomes PaymentProviderRejected: Stripe refused the call, or
\* it created the session and the answer was lost on the way.
CallRejected(r) ==
    /\ req[r].pc = "calling" /\ req[r].provider = "stripe"
    /\ Goto(r, "rejecting")
    /\ \/ "refused" \in CallFailures /\ UNCHANGED session
       \/ "lost" \in CallFailures /\ OpenSession(req[r].pay)
    /\ UNCHANGED <<vars, payProvider, linked, checkout, events, ledger>>

\* Fault variant: the reference is lost.
StoreProviderOnly(r) ==
    /\ payProvider' = [payProvider EXCEPT ![req[r].pay] = req[r].provider]
    /\ UNCHANGED linked

StoreReference(r) ==
    /\ payProvider' = [payProvider EXCEPT ![req[r].pay] = req[r].provider]
    /\ linked' = [linked EXCEPT ![req[r].pay] = TRUE]

\* The reference is stored under the payment's row lock alone, whatever has
\* become of the payment; only create_payment hands a checkout URL out.
LinkProvider(r) ==
    /\ req[r].pc = "linking"
    /\ StoreReference(r)
    /\ IF req[r].kind = "create"
       THEN /\ Goto(r, "done")
            /\ checkout' = IF req[r].provider = "stripe"
                           THEN checkout \cup {req[r].pay} ELSE checkout
       ELSE Goto(r, "confirming") /\ UNCHANGED checkout
    /\ UNCHANGED <<vars, externalVars, ledger>>

\* fail_payment, and the item row the request had created is deleted.
RejectAttempt(r) ==
    LET o == req[r].order
        p == req[r].pay IN
    /\ req[r].pc = "rejecting"
    /\ IF req[r].madeItem /\ itemised[o] THEN RejectLegacyAttempt(o, p) ELSE FailPayment(o, p)
    /\ Goto(r, "done")
    /\ UNCHANGED <<payProvider, linked, externalVars, checkout, ledger>>

-----------------------------------------------------------------------------
(* Synchronous confirmation, pay_order only.                               *)

\* Stripe has no synchronous confirmation and raises, as a provider error does;
\* both keep the attempt.
ConfirmRaises(r) ==
    /\ req[r].pc = "confirming" /\ req[r].provider = "stripe"
    /\ Goto(r, "done")
    /\ UNCHANGED <<vars, payProvider, linked, externalVars, checkout, ledger>>

ConfirmAnswers(r) ==
    /\ req[r].pc = "confirming" /\ req[r].provider = "local"
    /\ \E answer \in Confirmations :
          req' = [req EXCEPT ![r].pc = "settling", ![r].answer = answer]
    /\ UNCHANGED <<vars, payProvider, linked, externalVars, checkout, ledger>>

\* The last transaction; one that raises leaves the answer unrecorded.
SettleAnswer(r) ==
    LET o == req[r].order
        p == req[r].pay IN
    /\ req[r].pc = "settling"
    /\ \/ req[r].answer = "FAILED" /\ FailPayment(o, p)
       \/ req[r].answer = "PENDING" /\ RecordPending(o, p)
       \/ req[r].answer = "SUCCEEDED" /\ Succeed(o, p)
    /\ Goto(r, "done")
    /\ UNCHANGED <<payProvider, linked, externalVars, checkout, ledger>>

\* A worker dies, a transaction raises, or a provider call ends in an exception
\* nobody handles: what was committed stays, and the attempt is kept.
Crash(r) ==
    /\ Running(r)
    /\ Goto(r, "done")
    /\ UNCHANGED <<vars, payProvider, linked, externalVars, checkout, ledger>>

-----------------------------------------------------------------------------
(* Stripe: a customer with the checkout URL pays; a session left open       *)
(* expires; each outcome is announced by an event.                         *)

Announce(p, from, to, kind) ==
    /\ session[p] \in from
    /\ session' = [session EXCEPT ![p] = to]
    /\ events' = events \cup {[pay |-> p, kind |-> kind]}
    /\ UNCHANGED <<vars, req, payProvider, linked, checkout, ledger>>

CustomerPays(p) == p \in checkout /\ Announce(p, {"open"}, "charged", "succeeded")
CustomerPaysLater(p) == p \in checkout /\ Announce(p, {"open"}, "processing", "unpaid")
AsyncPaymentSucceeds(p) == Announce(p, {"processing"}, "charged", "succeeded")
AsyncPaymentFails(p) == Announce(p, {"processing"}, "closed", "failed")
SessionExpires(p) == Announce(p, {"open"}, "closed", "expired")

(* POST /payments/stripe/webhook/ -- process_stripe_webhook.  An event that *)
(* raises is rolled back with its ledger row and redelivered.              *)

\* Fault variant: one event per payment.
UnseenPayment(e) == \A other \in ledger : other.pay # e.pay

\* get_or_create of the ledger row by event id.
Unseen(e) == e \notin ledger

Addressed(p) == linked[p] /\ payProvider[p] = "stripe"

\* Fault variant: a session that completes unpaid is taken for a failure.
ApplyUnpaidAsFailure(e) ==
    \/ e.kind = "succeeded" /\ Succeed(payOrder[e.pay], e.pay)
    \/ e.kind # "succeeded" /\ FailPayment(payOrder[e.pay], e.pay)

\* Fault variant: a completed session is taken for a paid one.
ApplyCompletedAsPaid(e) ==
    \/ e.kind \in {"unpaid", "succeeded"} /\ Succeed(payOrder[e.pay], e.pay)
    \/ e.kind \in {"failed", "expired"} /\ FailPayment(payOrder[e.pay], e.pay)

\* Fault variant: expiry is acknowledged and ignored.
ApplyAllButExpiry(e) ==
    \/ e.kind \in {"unpaid", "expired"} /\ UNCHANGED vars
    \/ e.kind = "succeeded" /\ Succeed(payOrder[e.pay], e.pay)
    \/ e.kind = "failed" /\ FailPayment(payOrder[e.pay], e.pay)

ApplyEvent(e) ==
    LET p == e.pay
        o == payOrder[p] IN
    \/ e.kind = "unpaid" /\ UNCHANGED vars
    \/ e.kind = "succeeded" /\ Succeed(o, p)
    \/ e.kind \in {"failed", "expired"} /\ FailPayment(o, p)

DeliverEvent(e) ==
    /\ e \in events /\ Unseen(e)
    /\ Addressed(e.pay)
    /\ payOrder[e.pay] \in Orders
    /\ ApplyEvent(e)
    /\ ledger' = ledger \cup {e}
    /\ UNCHANGED <<req, payProvider, linked, externalVars, checkout>>

-----------------------------------------------------------------------------
RequestStep(r) ==
    \/ CallSucceeds(r) \/ CallRejected(r)
    \/ LinkProvider(r) \/ RejectAttempt(r)
    \/ ConfirmRaises(r) \/ ConfirmAnswers(r) \/ SettleAnswer(r)

StripeStep(p) ==
    \/ CustomerPays(p) \/ CustomerPaysLater(p)
    \/ AsyncPaymentSucceeds(p) \/ AsyncPaymentFails(p) \/ SessionExpires(p)

SagaStock == StockStep /\ UNCHANGED sagaVars

SagaNext ==
    \/ \E r \in Requests, o \in Orders, p \in Payments :
          StartCreate(r, o, p) \/ StartPay(r, o, p) \/ ResumePay(r, o, p)
    \/ \E r \in Requests : RequestStep(r) \/ Crash(r)
    \/ \E p \in Payments : StripeStep(p)
    \/ \E e \in events : DeliverEvent(e)
    \/ SagaStock

SagaSafety == SagaInit /\ [][SagaNext]_allVars

(* A request finishes or dies; Stripe ends every session it opened, as paid,  *)
(* failed or expired; and it redelivers an event until it is acknowledged.    *)

SessionEnds(p) == AsyncPaymentSucceeds(p) \/ AsyncPaymentFails(p) \/ SessionExpires(p)

SagaFairness ==
    /\ \A r \in Requests : WF_allVars(RequestStep(r) \/ Crash(r))
    /\ \A p \in Payments : WF_allVars(SessionEnds(p))
    /\ \A e \in [pay : Payments, kind : EventKinds] : WF_allVars(DeliverEvent(e))

SagaSpec == SagaSafety /\ SagaFairness

-----------------------------------------------------------------------------
(* Properties.                                                             *)

Chargeable(p) == p \in checkout /\ session[p] \in {"open", "processing"}

Bought(p) == payOrder[p] \in Orders /\ orderStatus[payOrder[p]] = "PAID"

Authorised(p) == payOrder[p] \in Orders /\ authority[payOrder[p]] = p

\* ADR-001 section 6: a checkout does not become chargeable until the full
\* reservation is durable.  Whoever can be charged right now holds the
\* authority over a complete reservation of the order.
ChargeableIsReserved ==
    \A p \in Payments : Chargeable(p) => Authorised(p) /\ HasReservation(payOrder[p])

\* One purchase is charged at most once, whatever requests, sessions and
\* webhooks do: a replacement attempt starts only after the former checkout is
\* closed.
ChargedOnce ==
    \A p, q \in Payments :
        session[p] = "charged" /\ session[q] = "charged" /\ payOrder[p] = payOrder[q] => p = q

\* ADR-001 section 6: a reservation is released only after the associated
\* checkout is conclusively unable to succeed.
ReleasedOnlyWhenClosed ==
    [][\A p \in Payments :
            Authorised(p) /\ session[p] \in {"open", "processing"} => Authorised(p)']_allVars

\* An event is acknowledged only with its effect: a ledger row for a success
\* exists only once the payment and its order are paid, one for a failure only
\* once the attempt is over.
AcknowledgedMeansApplied ==
    \A e \in ledger :
        /\ e.kind = "succeeded" =>
              payStatus[e.pay] = "PAID" /\ Bought(e.pay)
        /\ e.kind \in {"failed", "expired"} => payStatus[e.pay] \notin ActiveStatuses

\* A synchronous success that pay_order is about to record can be recorded: the
\* advisory lock keeps every other outcome of the attempt out until then,
\* unless Stripe was asked to open a checkout for the same attempt or a rejection
\* may delete the order's item row.
ConfirmedIsFulfillable ==
    \A r \in Requests :
        /\ req[r].pc = "settling" /\ req[r].answer = "SUCCEEDED"
        /\ req[r].order \in ItemisedOrders
        /\ \A q \in Requests : req[q].pay = req[r].pay => req[q].provider = "local"
        => /\ payStatus[req[r].pay] \in ActiveStatuses
           /\ Authorised(req[r].pay) /\ HasReservation(req[r].order)

\* Stripe has charged the attempt's session, or a synchronous provider has
\* answered a request that it took the money.
MoneyTaken(p) ==
    \/ session[p] = "charged"
    \/ \E r \in Requests : req[r].pay = p /\ req[r].answer = "SUCCEEDED"

\* Keys are sold only for money: behind every paid order is an attempt of its own
\* whose money a provider has taken, although complete_payment itself asks no
\* provider, its callers decide in other transactions than the one the answer or
\* the event came from, and sessions complete before they are paid.
GoodsArePaidFor ==
    \A o \in Orders : orderStatus[o] = "PAID" =>
        \E p \in Payments : payOrder[p] = o /\ MoneyTaken(p)

\* A charged customer gets the order, through crashes, redelivery and events
\* that overtake the storing of the session's reference.
ChargedOrdersArePaid ==
    \A p \in Payments : session[p] = "charged" ~> Bought(p)

\* An attempt whose session reference is stored never holds keys forever.
LinkedAttemptsEnd ==
    \A p \in Payments :
        Addressed(p) /\ payStatus[p] \in ActiveStatuses ~> payStatus[p] \notin ActiveStatuses

\* ADR-001 section 8: a verified historical charge is recorded for
\* reconciliation.  A charge on an order that is paid, by whichever attempt,
\* eventually leaves some record.  The code rolls every trace of it back.
HistoricalChargeIsRecorded ==
    \A p \in Payments :
        session[p] = "charged" /\ Bought(p) ~>
            payStatus[p] = "PAID" \/ [pay |-> p, kind |-> "succeeded"] \in ledger

=============================================================================
