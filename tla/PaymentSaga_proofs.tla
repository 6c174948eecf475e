------------------------ MODULE PaymentSaga_proofs ------------------------
(***************************************************************************)
(* What holds under every interleaving of requests, Stripe, webhooks,      *)
(* crashes and administrators.  Each step of the saga is written as a      *)
(* transaction of OrderReservation or as none, so the theorems of          *)
(* OrderReservation_proofs hold here too (SagaIsReservation); the rest     *)
(* relates the sessions, requests and events to the orders.                *)
(***************************************************************************)
EXTENDS PaymentSaga, OrderReservation_proofs

-----------------------------------------------------------------------------
(* The inductive invariant: a running request knows its order, its attempt  *)
(* and its provider, and a stored reference comes with its provider.        *)

Bound ==
    /\ \A r \in Requests : Running(r) =>
          /\ req[r].order \in Orders
          /\ req[r].pay \in Payments
          /\ req[r].provider \in {"local", "stripe"}
    /\ \A r \in Requests : req[r].answer \in Confirmations \cup {"none"}
    /\ \A p \in Payments : linked[p] => payProvider[p] # "none"

SagaInv == SagaTypeOK /\ Bound

LEMMA SagaInvInit == SagaInit => SagaInv
  BY DEF SagaInit, Init, SagaInv, SagaTypeOK, Bound, Running, Steps, SessionStates, EventKinds

ReqRecords ==
    [kind : {"none", "create", "pay"}, pc : Steps, order : Orders \cup {Nobody},
     pay : Payments \cup {Nobody}, provider : {"none", "local", "stripe"},
     madeItem : BOOLEAN, answer : {"none", "SUCCEEDED", "FAILED", "PENDING"}]

\* A request that moves on keeps what it knows.
LEMMA GotoInv ==
  ASSUME SagaInv, NEW r \in Requests, Running(r), NEW pc \in Steps, Goto(r, pc),
         UNCHANGED <<payProvider, linked, session, checkout, events, ledger>>
  PROVE  SagaInv'
<1>1. req \in [Requests -> ReqRecords]
  BY DEF SagaInv, SagaTypeOK, ReqRecords
<1>2. req' = [req EXCEPT ![r].pc = pc]
  BY DEF Goto
<1>3. req' \in [Requests -> ReqRecords]
  BY <1>1, <1>2 DEF ReqRecords
<1>4. \A q \in Requests : /\ req'[q].order = req[q].order
                          /\ req'[q].pay = req[q].pay
                          /\ req'[q].provider = req[q].provider
                          /\ req'[q].answer = req[q].answer
                          /\ q # r => req'[q].pc = req[q].pc
  BY <1>1, <1>2 DEF ReqRecords
<1>5. SagaTypeOK'
  BY <1>3 DEF SagaInv, SagaTypeOK, ReqRecords
<1>6. Bound'
  BY <1>4 DEF SagaInv, Bound, Running
<1> QED
  BY <1>5, <1>6 DEF SagaInv

\* A request that begins is bound to an order, an attempt and a provider.
LEMMA BeginInv ==
  ASSUME SagaInv, TypeOK, NEW r \in Requests, NEW o \in Orders, NEW p \in Payments,
         NEW kind, NEW provider \in {"local", "stripe"}, NEW pc \in Steps,
         Begin(r, kind, o, p, provider, pc),
         payProvider' \in [Payments -> {"none", "local", "stripe"}],
         \A q \in Payments : payProvider'[q] = payProvider[q] \/ payProvider'[q] # "none",
         UNCHANGED <<linked, session, checkout, events, ledger>>
  PROVE  SagaInv'
<1>1. req \in [Requests -> ReqRecords]
  BY DEF SagaInv, SagaTypeOK, ReqRecords
<1> DEFINE new == [kind |-> kind, pc |-> pc, order |-> o, pay |-> p, provider |-> provider,
                   madeItem |-> ~itemised[o], answer |-> "none"]
<1>2. new \in ReqRecords
  BY RequestKindsAssumption DEF Begin, ReqRecords
<1>3. req' = [req EXCEPT ![r] = new]
  BY DEF Begin
<1>4. req' \in [Requests -> ReqRecords]
  BY <1>1, <1>2, <1>3
<1>5. \A q \in Requests : q # r => req'[q] = req[q]
  BY <1>1, <1>3
<1>6. req'[r] = new
  BY <1>1, <1>3
<1>7. SagaTypeOK'
  BY <1>4 DEF SagaInv, SagaTypeOK, ReqRecords
<1>8. Bound'
  BY <1>5, <1>6 DEF SagaInv, Bound, Running
<1> QED
  BY <1>7, <1>8 DEF SagaInv

\* Storing the reference of a running request's provider.
LEMMA LinkInv ==
  ASSUME SagaInv, NEW r \in Requests, LinkProvider(r)
  PROVE  SagaInv'
<1>1. req \in [Requests -> ReqRecords]
  BY DEF SagaInv, SagaTypeOK, ReqRecords
<1> DEFINE pc == IF req[r].kind = "create" THEN "done" ELSE "confirming"
<1>2. req' = [req EXCEPT ![r].pc = pc]
  BY DEF LinkProvider, Goto
<1>3. req' \in [Requests -> ReqRecords]
  BY <1>1, <1>2 DEF ReqRecords, Steps
<1>4. \A q \in Requests : /\ req'[q].order = req[q].order
                          /\ req'[q].pay = req[q].pay
                          /\ req'[q].provider = req[q].provider
                          /\ req'[q].answer = req[q].answer
                          /\ q # r => req'[q].pc = req[q].pc
  BY <1>1, <1>2 DEF ReqRecords
<1>5. Running(r)
  BY DEF LinkProvider, Running
<1>6. /\ req[r].pay \in Payments
      /\ req[r].provider \in {"local", "stripe"}
  BY <1>5 DEF SagaInv, Bound
<1>7. /\ payProvider' \in [Payments -> {"none", "local", "stripe"}]
      /\ linked' \in [Payments -> BOOLEAN]
      /\ payProvider'[req[r].pay] # "none" /\ linked'[req[r].pay]
      /\ \A p \in Payments : p # req[r].pay => /\ payProvider'[p] = payProvider[p]
                                                /\ linked'[p] = linked[p]
  BY <1>6 DEF LinkProvider, StoreReference, SagaInv, SagaTypeOK
<1>8. checkout' \subseteq checkout \cup {req[r].pay}
  BY DEF LinkProvider
<1>9. UNCHANGED <<session, events, ledger>>
  BY DEF LinkProvider, externalVars
<1>10. \A p \in checkout' : p \in Payments /\ linked'[p] /\ payProvider'[p] # "none"
  BY <1>6, <1>7, <1>8 DEF SagaInv, SagaTypeOK
<1>11. SagaTypeOK'
  BY <1>3, <1>7, <1>9, <1>10 DEF SagaInv, SagaTypeOK, ReqRecords
<1>12. \A q \in Requests : Running(q)' => Running(q)
  BY <1>4, <1>5 DEF Running
<1>13. Bound'
  BY <1>4, <1>7, <1>12 DEF SagaInv, Bound
<1> QED
  BY <1>11, <1>13 DEF SagaInv

\* Stripe announces an outcome.
LEMMA AnnounceInv ==
  ASSUME SagaInv, NEW p \in Payments, NEW from, NEW to \in SessionStates,
         NEW kind \in EventKinds, Announce(p, from, to, kind)
  PROVE  SagaInv'
<1>1. /\ session' \in [Payments -> SessionStates]
      /\ events' \subseteq [pay : Payments, kind : EventKinds]
      /\ ledger' \subseteq events'
  BY DEF Announce, SagaInv, SagaTypeOK
<1>2. UNCHANGED <<req, payProvider, linked, checkout, ledger>>
  BY DEF Announce
<1>3. SagaTypeOK'
  BY <1>1, <1>2 DEF SagaInv, SagaTypeOK
<1>4. Bound'
  BY <1>2 DEF SagaInv, Bound, Running
<1> QED
  BY <1>3, <1>4 DEF SagaInv

\* The provider call may leave the payment's session open.
LEMMA CallInv ==
  ASSUME SagaInv, NEW r \in Requests, CallSucceeds(r) \/ CallRejected(r)
  PROVE  SagaInv'
<1>1. PICK pc \in {"linking", "rejecting"} : Goto(r, pc)
  BY DEF CallSucceeds, CallRejected
<1>2. Running(r)
  BY DEF CallSucceeds, CallRejected, Running
<1>3. req[r].pay \in Payments
  BY <1>2 DEF SagaInv, Bound
<1>4. session' \in [Payments -> SessionStates]
  BY <1>3 DEF CallSucceeds, CallRejected, OpenSession, SagaInv, SagaTypeOK, SessionStates
<1>5. UNCHANGED <<payProvider, linked, checkout, events, ledger>>
  BY DEF CallSucceeds, CallRejected
<1>6. req \in [Requests -> ReqRecords]
  BY DEF SagaInv, SagaTypeOK, ReqRecords
<1>7. req' = [req EXCEPT ![r].pc = pc]
  BY <1>1 DEF Goto
<1>8. req' \in [Requests -> ReqRecords]
  BY <1>6, <1>7 DEF ReqRecords, Steps
<1>9. \A q \in Requests : /\ req'[q].order = req[q].order
                          /\ req'[q].pay = req[q].pay
                          /\ req'[q].provider = req[q].provider
                          /\ req'[q].answer = req[q].answer
                          /\ q # r => req'[q].pc = req[q].pc
  BY <1>6, <1>7 DEF ReqRecords
<1>10. SagaTypeOK'
  BY <1>4, <1>5, <1>8 DEF SagaInv, SagaTypeOK, ReqRecords
<1>11. Bound'
  BY <1>2, <1>5, <1>9 DEF SagaInv, Bound, Running
<1> QED
  BY <1>10, <1>11 DEF SagaInv

\* The provider's answer is one it may give.
LEMMA AnswerInv ==
  ASSUME SagaInv, NEW r \in Requests, ConfirmAnswers(r)
  PROVE  SagaInv'
<1>1. PICK answer \in Confirmations :
         req' = [req EXCEPT ![r].pc = "settling", ![r].answer = answer]
  BY DEF ConfirmAnswers
<1>2. req \in [Requests -> ReqRecords]
  BY DEF SagaInv, SagaTypeOK, ReqRecords
<1> DEFINE new == [req[r] EXCEPT !.pc = "settling", !.answer = answer]
<1>3. new \in ReqRecords
  BY <1>2, ConfirmationsAssumption DEF ReqRecords, Steps
<1>4. req' = [req EXCEPT ![r] = new]
  BY <1>1, <1>2
<1>5. req' \in [Requests -> ReqRecords]
  BY <1>2, <1>3, <1>4
<1>6. \A q \in Requests : /\ req'[q].order = req[q].order
                          /\ req'[q].pay = req[q].pay
                          /\ req'[q].provider = req[q].provider
                          /\ req'[q].answer \in {req[q].answer, answer}
                          /\ q # r => req'[q].pc = req[q].pc
  BY <1>1, <1>2 DEF ReqRecords
<1>7. UNCHANGED <<payProvider, linked, session, checkout, events, ledger>> /\ Running(r)
  BY DEF ConfirmAnswers, externalVars, Running
<1>8. SagaTypeOK'
  BY <1>5, <1>7 DEF SagaInv, SagaTypeOK, ReqRecords
<1>9. Bound'
  BY <1>6, <1>7 DEF SagaInv, Bound, Running
<1> QED
  BY <1>8, <1>9 DEF SagaInv

LEMMA SagaInvInductive == TypeOK /\ SagaInv /\ [SagaNext]_allVars => SagaInv'
<1> SUFFICES ASSUME TypeOK, SagaInv, [SagaNext]_allVars PROVE SagaInv'
  OBVIOUS
<1>1. CASE UNCHANGED allVars
  BY <1>1 DEF allVars, sagaVars, SagaInv, SagaTypeOK, Bound, Running
<1>2. ASSUME NEW r \in Requests, NEW o \in Orders, NEW p \in Payments,
             StartCreate(r, o, p) \/ StartPay(r, o, p) \/ ResumePay(r, o, p)
      PROVE  SagaInv'
  <2>1. CASE StartCreate(r, o, p)
    <3>1. PICK provider \in Providers :
             /\ Begin(r, "create", o, p, provider, "calling")
             /\ payProvider' = [payProvider EXCEPT ![p] = provider]
      BY <2>1 DEF StartCreate
    <3>2. provider \in {"local", "stripe"}
      BY ProvidersAssumption
    <3>3. /\ payProvider' \in [Payments -> {"none", "local", "stripe"}]
          /\ \A q \in Payments : payProvider'[q] = payProvider[q] \/ payProvider'[q] # "none"
      BY <3>1, <3>2 DEF SagaInv, SagaTypeOK
    <3>4. UNCHANGED <<linked, session, checkout, events, ledger>>
      BY <2>1 DEF StartCreate, externalVars
    <3> QED
      BY <3>1, <3>2, <3>3, <3>4, BeginInv DEF Steps
  <2>2. CASE StartPay(r, o, p)
    <3>1. UNCHANGED <<payProvider, linked, session, checkout, events, ledger>>
      BY <2>2 DEF StartPay, externalVars
    <3>2. Begin(r, "pay", o, p, "local", "calling")
      BY <2>2 DEF StartPay
    <3> QED
      BY <3>1, <3>2, BeginInv DEF Steps, SagaInv, SagaTypeOK
  <2>3. CASE ResumePay(r, o, p)
    <3>1. /\ UNCHANGED <<payProvider, linked, session, checkout, events, ledger>>
          /\ payProvider' \in [Payments -> {"none", "local", "stripe"}]
      BY <2>3 DEF ResumePay, externalVars, SagaInv, SagaTypeOK
    <3>2. CASE linked[p]
      <4>1. payProvider[p] \in {"local", "stripe"}
        BY <3>2 DEF SagaInv, SagaTypeOK, Bound
      <4>2. Begin(r, "pay", o, p, payProvider[p], "confirming")
        BY <2>3, <3>2 DEF ResumePay
      <4> QED
        BY <3>1, <4>1, <4>2, BeginInv DEF Steps
    <3>3. CASE ~linked[p]
      <4>1. PICK provider \in Providers : Begin(r, "pay", o, p, provider, "calling")
        BY <2>3, <3>3 DEF ResumePay
      <4>2. provider \in {"local", "stripe"}
        BY ProvidersAssumption
      <4> QED
        BY <3>1, <4>1, <4>2, BeginInv DEF Steps
    <3> QED
      BY <3>2, <3>3
  <2> QED
    BY <1>2, <2>1, <2>2, <2>3
<1>3. ASSUME NEW r \in Requests, RequestStep(r) \/ Crash(r) PROVE SagaInv'
  <2>1. CASE CallSucceeds(r) \/ CallRejected(r)
    BY <2>1, CallInv
  <2>2. CASE LinkProvider(r)
    BY <2>2, LinkInv
  <2>3. CASE RejectAttempt(r) \/ ConfirmRaises(r) \/ SettleAnswer(r) \/ Crash(r)
    <3>1. /\ UNCHANGED <<payProvider, linked, session, checkout, events, ledger>>
          /\ Running(r) /\ Goto(r, "done")
      BY <2>3 DEF RejectAttempt, ConfirmRaises, SettleAnswer, Crash, Running, externalVars
    <3> QED
      BY <3>1, GotoInv DEF Steps
  <2>4. CASE ConfirmAnswers(r)
    BY <2>4, AnswerInv
  <2> QED
    BY <1>3, <2>1, <2>2, <2>3, <2>4 DEF RequestStep
<1>4. ASSUME NEW p \in Payments, StripeStep(p) PROVE SagaInv'
  <2>1. PICK from \in {{"open"}, {"processing"}}, to \in {"charged", "processing", "closed"},
             kind \in EventKinds : Announce(p, from, to, kind)
    BY <1>4 DEF StripeStep, CustomerPays, CustomerPaysLater, AsyncPaymentSucceeds,
                AsyncPaymentFails, SessionExpires, EventKinds
  <2> QED
    BY <2>1, AnnounceInv DEF SessionStates
<1>5. ASSUME NEW e \in events, DeliverEvent(e) PROVE SagaInv'
  BY <1>5 DEF DeliverEvent, externalVars, SagaInv, SagaTypeOK, Bound, Running
<1>6. CASE SagaStock
  BY <1>6 DEF SagaStock, sagaVars, SagaInv, SagaTypeOK, Bound, Running
<1> QED
  BY <1>1, <1>2, <1>3, <1>4, <1>5, <1>6 DEF SagaNext

-----------------------------------------------------------------------------
(* Each step of the saga is a transaction of OrderReservation, or none.    *)

LEMMA FailIsTransaction ==
  ASSUME NEW o \in Orders, NEW p \in Payments, FailPayment(o, p)
  PROVE  [ShippedNext]_vars
  BY DEF FailPayment, ShippedNext, OrderStep, TerminalStatuses

LEMMA SucceedIsTransaction ==
  ASSUME NEW o \in Orders, NEW p \in Payments, Succeed(o, p)
  PROVE  [ShippedNext]_vars
  BY DEF Succeed, ShippedNext, OrderStep

\* The only step that needs more than the shipped transactions records an
\* answer neither provider of the repository gives.
LEMMA SagaStepIsTransaction ==
  SagaInv /\ [SagaNext]_allVars => /\ [Next]_vars
                                   /\ "PENDING" \notin Confirmations => [ShippedNext]_vars
<1> SUFFICES ASSUME SagaInv, [SagaNext]_allVars
             PROVE  [Next]_vars /\ ("PENDING" \notin Confirmations => [ShippedNext]_vars)
  OBVIOUS
<1>1. [ShippedNext]_vars => [Next]_vars
  BY DEF Next
<1>2. CASE UNCHANGED vars
  BY <1>2
<1>3. CASE UNCHANGED allVars
  BY <1>2, <1>3 DEF allVars
<1>4. ASSUME NEW r \in Requests, NEW o \in Orders, NEW p \in Payments,
             StartCreate(r, o, p) \/ StartPay(r, o, p) \/ ResumePay(r, o, p)
      PROVE  ShippedNext
  BY <1>4 DEF StartCreate, StartPay, ResumePay, ShippedNext, OrderStep
<1>5. ASSUME NEW r \in Requests, RequestStep(r) \/ Crash(r)
      PROVE  [Next]_vars /\ ("PENDING" \notin Confirmations => [ShippedNext]_vars)
  <2>1. CASE CallSucceeds(r) \/ CallRejected(r) \/ LinkProvider(r) \/ ConfirmRaises(r)
             \/ ConfirmAnswers(r) \/ Crash(r)
    BY <1>2, <2>1 DEF CallSucceeds, CallRejected, LinkProvider, ConfirmRaises, ConfirmAnswers, Crash
  <2>2. CASE RejectAttempt(r)
    <3>1. Running(r)
      BY <2>2 DEF RejectAttempt, Running
    <3>2. req[r].order \in Orders /\ req[r].pay \in Payments
      BY <3>1 DEF SagaInv, Bound
    <3>3. \/ RejectLegacyAttempt(req[r].order, req[r].pay)
          \/ FailPayment(req[r].order, req[r].pay)
      BY <2>2 DEF RejectAttempt
    <3>4. [ShippedNext]_vars
      BY <3>2, <3>3, FailIsTransaction DEF ShippedNext, OrderStep
    <3> QED
      BY <1>1, <3>4
  <2>3. CASE SettleAnswer(r)
    <3>1. Running(r)
      BY <2>3 DEF SettleAnswer, Running
    <3>2. /\ req[r].order \in Orders /\ req[r].pay \in Payments
          /\ req[r].answer \in Confirmations \cup {"none"}
      BY <3>1 DEF SagaInv, Bound
    <3>3. \/ FailPayment(req[r].order, req[r].pay)
          \/ Succeed(req[r].order, req[r].pay)
          \/ "PENDING" \in Confirmations /\ RecordPending(req[r].order, req[r].pay)
      BY <2>3, <3>2 DEF SettleAnswer
    <3> QED
      BY <1>1, <3>2, <3>3, FailIsTransaction, SucceedIsTransaction DEF Next
  <2> QED
    BY <1>5, <2>1, <2>2, <2>3 DEF RequestStep
<1>6. ASSUME NEW p \in Payments, StripeStep(p) PROVE UNCHANGED vars
  BY <1>6 DEF StripeStep, CustomerPays, CustomerPaysLater, AsyncPaymentSucceeds,
              AsyncPaymentFails, SessionExpires, Announce
<1>7. ASSUME NEW e \in events, DeliverEvent(e) PROVE [ShippedNext]_vars
  <2>1. e.pay \in Payments
    BY DEF SagaInv, SagaTypeOK
  <2>2. payOrder[e.pay] \in Orders /\ ApplyEvent(e)
    BY <1>7 DEF DeliverEvent
  <2> QED
    BY <2>1, <2>2, FailIsTransaction, SucceedIsTransaction DEF ApplyEvent
<1>8. CASE SagaStock
  BY <1>1, <1>8 DEF SagaStock, ShippedNext
<1> QED
  BY <1>1, <1>2, <1>3, <1>4, <1>5, <1>6, <1>7, <1>8 DEF SagaNext

-----------------------------------------------------------------------------
\* What is proved of OrderReservation may be used here.
LEMMA SagaIsReservation == SagaSafety => Spec
<1>1. SagaInit => Init
  BY DEF SagaInit
<1>2. TypeOK /\ [Next]_vars => TypeOK'
  BY TypeInductive
<1>3. Init => TypeOK
  BY InvInit DEF IInv
<1> QED
  BY <1>1, <1>2, <1>3, SagaInvInit, SagaInvInductive, SagaStepIsTransaction, PTL
  DEF SagaSafety, Spec

\* The same for the providers the repository contains.
LEMMA SagaIsShipped ==
  ASSUME "PENDING" \notin Confirmations PROVE SagaSafety => ShippedSpec
<1>1. SagaInit => Init
  BY DEF SagaInit
<1>2. SagaInv /\ [SagaNext]_allVars => [ShippedNext]_vars
  BY SagaStepIsTransaction
<1>3. TypeOK /\ [Next]_vars => TypeOK'
  BY TypeInductive
<1>4. [ShippedNext]_vars => [Next]_vars
  BY DEF Next
<1>5. Init => TypeOK
  BY InvInit DEF IInv
<1> QED
  BY <1>1, <1>2, <1>3, <1>4, <1>5, SagaInvInit, SagaInvInductive, PTL
  DEF SagaSafety, ShippedSpec

\* A checkout URL is handed out only for a payment webhooks can find.
THEOREM SagaTypeCorrect == SagaSafety => []SagaTypeOK
<1>1. SagaInv => SagaTypeOK
  BY DEF SagaInv
<1>2. Spec => []TypeOK
  BY TypeCorrect
<1> QED
  BY <1>1, <1>2, SagaInvInit, SagaInvInductive, SagaIsReservation, PTL
  DEF SagaSafety

\* Whatever interleaves, an order is settled by one attempt and its keys are
\* held, released and sold together with its payments.
THEOREM SagaSettledOnce ==
  ASSUME "PENDING" \notin Confirmations PROVE SagaSafety => []OneSettlement
  BY SagaIsShipped, SettledOnce, PTL

-----------------------------------------------------------------------------
(* Keys are sold only for money.                                           *)

\* An event says what its session went through, an answer belongs to a request
\* that was served, and a payment row keeps its order.
FundInv ==
    /\ \A e \in events : e.kind = "succeeded" => session[e.pay] = "charged"
    /\ \A r \in Requests : req[r].answer # "none" => req[r].pc \in {"settling", "done"}
    /\ RowsExist
    /\ GoodsArePaidFor

\* What Stripe charged stays charged.
LEMMA ChargesStay ==
  ASSUME SagaInv, [SagaNext]_allVars, NEW p \in Payments, session[p] = "charged"
  PROVE  session'[p] = "charged"
<1>1. CASE session' = session
  BY <1>1
<1>2. CASE \E q \in Payments : StripeStep(q)
  BY <1>2 DEF StripeStep, CustomerPays, CustomerPaysLater, AsyncPaymentSucceeds,
     AsyncPaymentFails, SessionExpires, Announce, SagaInv, SagaTypeOK
<1>3. CASE \E r \in Requests : OpenSession(req[r].pay)
  BY <1>3 DEF OpenSession, SagaInv, SagaTypeOK
<1>4. session' = session \/ (\E q \in Payments : StripeStep(q))
      \/ (\E r \in Requests : OpenSession(req[r].pay))
  BY DEF SagaNext, allVars, sagaVars, externalVars, StartCreate, StartPay, ResumePay,
     RequestStep, CallSucceeds, CallRejected, LinkProvider, RejectAttempt, ConfirmRaises,
     ConfirmAnswers, SettleAnswer, Crash, DeliverEvent, SagaStock
<1> QED
  BY <1>1, <1>2, <1>3, <1>4

\* A success is announced only of a charged session.
LEMMA EventsAreTrue ==
  ASSUME SagaInv, FundInv, [SagaNext]_allVars
  PROVE  \A e \in events' : e.kind = "succeeded" => session'[e.pay] = "charged"
<1>1. \A e \in events : e.pay \in Payments
  BY DEF SagaInv, SagaTypeOK
<1>2. \A e \in events : e.kind = "succeeded" => session'[e.pay] = "charged"
  BY <1>1, ChargesStay DEF FundInv
<1>3. CASE events' = events
  BY <1>2, <1>3
<1>4. CASE \E p \in Payments : StripeStep(p)
  <2>1. PICK p \in Payments : StripeStep(p)
    BY <1>4
  <2>2. PICK kind \in EventKinds :
          /\ events' = events \cup {[pay |-> p, kind |-> kind]}
          /\ kind = "succeeded" => session'[p] = "charged"
    BY <2>1 DEF StripeStep, CustomerPays, CustomerPaysLater, AsyncPaymentSucceeds,
       AsyncPaymentFails, SessionExpires, Announce, SagaInv, SagaTypeOK, EventKinds
  <2> QED
    BY <1>2, <2>2
<1>5. events' = events \/ \E p \in Payments : StripeStep(p)
  BY DEF SagaNext, allVars, sagaVars, externalVars, StartCreate, StartPay, ResumePay,
     RequestStep, CallSucceeds, CallRejected, LinkProvider, RejectAttempt, ConfirmRaises,
     ConfirmAnswers, SettleAnswer, Crash, DeliverEvent, SagaStock
<1> QED
  BY <1>3, <1>4, <1>5

\* An answer is recorded once, by a request that then settles it and ends.
LEMMA AnswersStay ==
  ASSUME SagaInv, FundInv, [SagaNext]_allVars, NEW r \in Requests
  PROVE  /\ req'[r].answer # "none" => req'[r].pc \in {"settling", "done"}
         /\ req[r].answer # "none" => req'[r].answer = req[r].answer /\ req'[r].pay = req[r].pay
<1> DEFINE Goal == /\ req'[r].answer # "none" => req'[r].pc \in {"settling", "done"}
                   /\ req[r].answer # "none" => req'[r].answer = req[r].answer
                                                /\ req'[r].pay = req[r].pay
<1>1. req \in [Requests -> ReqRecords]
  BY DEF SagaInv, SagaTypeOK, ReqRecords
<1>2. req[r].answer # "none" => req[r].pc \in {"settling", "done"}
  BY DEF FundInv
<1>3. CASE req' = req
  BY <1>2, <1>3
<1>4. ASSUME NEW q \in Requests, req[q].pc = "idle",
             \E new : req' = [req EXCEPT ![q] = new] /\ new.answer = "none"
      PROVE  Goal
  <2>1. PICK new : req' = [req EXCEPT ![q] = new] /\ new.answer = "none"
    BY <1>4
  <2>2. CASE q = r
    BY <1>1, <1>2, <1>4, <2>1, <2>2
  <2>3. CASE q # r
    BY <1>1, <1>2, <2>1, <2>3
  <2> QED
    BY <2>2, <2>3
<1>5. ASSUME NEW q \in Requests, NEW pc, Goto(q, pc), req[q].pc = "settling" => pc = "done",
             Running(q)
      PROVE  Goal
  <2>1. req' = [req EXCEPT ![q].pc = pc]
    BY <1>5 DEF Goto
  <2>2. req'[r].answer = req[r].answer /\ req'[r].pay = req[r].pay
    BY <1>1, <2>1 DEF ReqRecords
  <2>3. q # r => req'[r].pc = req[r].pc
    BY <1>1, <2>1 DEF ReqRecords
  <2>4. req'[q].pc = pc
    BY <1>1, <2>1 DEF ReqRecords
  <2> QED
    BY <1>2, <1>5, <2>2, <2>3, <2>4 DEF Running
<1>6. ASSUME NEW q \in Requests, ConfirmAnswers(q) PROVE Goal
  <2>1. PICK answer \in Confirmations :
          req' = [req EXCEPT ![q].pc = "settling", ![q].answer = answer]
    BY <1>6 DEF ConfirmAnswers
  <2>2. req[q].pc = "confirming"
    BY <1>6 DEF ConfirmAnswers
  <2>3. q = r => req'[r].pc = "settling"
    BY <1>1, <2>1 DEF ReqRecords
  <2>4. q # r => req'[r] = req[r]
    BY <1>1, <2>1 DEF ReqRecords
  <2> QED
    BY <1>2, <2>2, <2>3, <2>4
<1>7. ASSUME NEW q \in Requests, RequestStep(q) \/ Crash(q) PROVE Goal
  <2>1. CASE ConfirmAnswers(q)
    BY <1>6, <2>1
  <2>2. CASE ~ConfirmAnswers(q)
    <3>1. PICK pc : Goto(q, pc) /\ (req[q].pc = "settling" => pc = "done") /\ Running(q)
      BY <1>7, <2>2 DEF RequestStep, CallSucceeds, CallRejected, LinkProvider, RejectAttempt,
         ConfirmRaises, SettleAnswer, Crash, Running
    <3> QED
      BY <1>5, <3>1
  <2> QED
    BY <2>1, <2>2
<1>8. ASSUME NEW q \in Requests, NEW o \in Orders, NEW p \in Payments,
             StartCreate(q, o, p) \/ StartPay(q, o, p) \/ ResumePay(q, o, p)
      PROVE  Goal
  <2>1. PICK kind, provider, pc : Begin(q, kind, o, p, provider, pc)
    BY <1>8 DEF StartCreate, StartPay, ResumePay
  <2> DEFINE new == [kind |-> kind, pc |-> pc, order |-> o, pay |-> p, provider |-> provider,
                     madeItem |-> ~itemised[o], answer |-> "none"]
  <2>2. req[q].pc = "idle" /\ req' = [req EXCEPT ![q] = new] /\ new.answer = "none"
    BY <2>1 DEF Begin
  <2> QED
    BY <1>4, <2>2
<1>9. req' = req \/ (\E q \in Requests : RequestStep(q) \/ Crash(q))
      \/ (\E q \in Requests, o \in Orders, p \in Payments :
             StartCreate(q, o, p) \/ StartPay(q, o, p) \/ ResumePay(q, o, p))
  BY DEF SagaNext, allVars, sagaVars, StripeStep, CustomerPays, CustomerPaysLater,
     AsyncPaymentSucceeds, AsyncPaymentFails, SessionExpires, Announce, DeliverEvent, SagaStock
<1> QED
  BY <1>3, <1>7, <1>8, <1>9

LEMMA MoneyStays ==
  ASSUME SagaInv, FundInv, [SagaNext]_allVars, NEW p \in Payments, MoneyTaken(p)
  PROVE  MoneyTaken(p)'
  BY ChargesStay, AnswersStay DEF MoneyTaken

\* A transaction keeps the payment rows it finds, and their orders.
LEMMA PaymentRowsStay ==
  ASSUME TypeOK, RowsExist, [Next]_vars
  PROVE  /\ RowsExist'
         /\ \A p \in Payments : payOrder[p] # Nobody => payOrder'[p] = payOrder[p]
<1> DEFINE Goal == /\ RowsExist'
                   /\ \A p \in Payments : payOrder[p] # Nobody => payOrder'[p] = payOrder[p]
<1>1. CASE UNCHANGED vars
  BY <1>1 DEF vars, RowsExist
<1>2. CASE StockStep
  BY <1>2 DEF StockStep, ImportKey, DeleteKey, orderVars, payVars, RowsExist
<1>3. ASSUME NEW o \in Orders, NEW q \in Payments, NewAttempt(o, q) PROVE Goal
  BY <1>3 DEF NewAttempt, EstablishReservation, TypeOK, RowsExist
<1>4. ASSUME NEW o \in Orders, NEW q \in Payments, ResumeAttempt(o, q) PROVE Goal
  BY <1>4 DEF ResumeAttempt, EstablishReservation, payVars, RowsExist
<1>5. ASSUME NEW o \in Orders, NEW q \in Payments, NEW status \in TerminalStatuses,
             TerminatePayment(o, q, status)
      PROVE  Goal
  BY <1>5 DEF TerminatePayment, TypeOK, TerminalStatuses, RowsExist
<1>6. ASSUME NEW o \in Orders, NEW q \in Payments, RejectLegacyAttempt(o, q) PROVE Goal
  BY <1>6 DEF RejectLegacyAttempt, TypeOK, RowsExist
<1>7. ASSUME NEW o \in Orders, NEW q \in Payments, CompletePayment(o, q) PROVE Goal
  BY <1>7 DEF CompletePayment, TypeOK, RowsExist
<1>8. ASSUME NEW o \in Orders, NEW q \in Payments, RecordPending(o, q) PROVE Goal
  BY <1>8 DEF RecordPending, orderVars, TypeOK, RowsExist
<1> QED
  BY <1>1, <1>2, <1>3, <1>4, <1>5, <1>6, <1>7, <1>8 DEF Next, ShippedNext, OrderStep

\* A step of the saga that pays an order does so for money already taken.
LEMMA PaidForMoney ==
  ASSUME TypeOK, SagaInv, FundInv, [SagaNext]_allVars,
         NEW o \in Orders, orderStatus'[o] = "PAID", orderStatus[o] # "PAID"
  PROVE  \E p \in Payments : payOrder[p] = o /\ MoneyTaken(p)
<1> DEFINE Goal == \E p \in Payments : payOrder[p] = o /\ MoneyTaken(p)
<1>1. ASSUME NEW x \in Orders, NEW p \in Payments, MoneyTaken(p), Succeed(x, p) PROVE Goal
  BY <1>1 DEF Succeed, CompletePayment, TypeOK, vars
<1>2. ASSUME NEW x \in Orders, NEW p \in Payments, FailPayment(x, p) PROVE FALSE
  BY <1>2 DEF FailPayment, TerminatePayment, vars
<1>3. ASSUME NEW r \in Requests, SettleAnswer(r) PROVE Goal
  <2>1. req[r].order \in Orders /\ req[r].pay \in Payments
    BY <1>3 DEF SettleAnswer, SagaInv, Bound, Running
  <2>2. req[r].answer = "SUCCEEDED" /\ Succeed(req[r].order, req[r].pay)
    BY <1>2, <1>3, <2>1 DEF SettleAnswer, RecordPending, orderVars
  <2> QED
    BY <1>1, <2>1, <2>2 DEF MoneyTaken
<1>4. ASSUME NEW r \in Requests, RejectAttempt(r) PROVE FALSE
  <2>1. req[r].order \in Orders /\ req[r].pay \in Payments
    BY <1>4 DEF RejectAttempt, SagaInv, Bound, Running
  <2> QED
    BY <1>2, <1>4, <2>1 DEF RejectAttempt, RejectLegacyAttempt
<1>5. ASSUME NEW e \in events, DeliverEvent(e) PROVE Goal
  <2>1. e.pay \in Payments /\ payOrder[e.pay] \in Orders /\ ApplyEvent(e)
    BY <1>5 DEF DeliverEvent, SagaInv, SagaTypeOK
  <2>2. e.kind = "succeeded" /\ Succeed(payOrder[e.pay], e.pay)
    BY <1>2, <2>1 DEF ApplyEvent, vars, orderVars
  <2>3. MoneyTaken(e.pay)
    BY <2>2 DEF FundInv, MoneyTaken
  <2> QED
    BY <1>1, <2>1, <2>2, <2>3
<1>6. ASSUME NEW r \in Requests, NEW x \in Orders, NEW p \in Payments,
             StartCreate(r, x, p) \/ StartPay(r, x, p) \/ ResumePay(r, x, p)
      PROVE  FALSE
  BY <1>6 DEF StartCreate, StartPay, ResumePay, NewAttempt, ResumeAttempt, EstablishReservation
<1>7. CASE UNCHANGED orderVars
  BY <1>7 DEF orderVars
<1>8. \/ UNCHANGED orderVars
      \/ \E e \in events : DeliverEvent(e)
      \/ \E r \in Requests : SettleAnswer(r) \/ RejectAttempt(r)
      \/ \E r \in Requests, x \in Orders, p \in Payments :
            StartCreate(r, x, p) \/ StartPay(r, x, p) \/ ResumePay(r, x, p)
  BY DEF SagaNext, allVars, vars, orderVars, RequestStep, CallSucceeds, CallRejected, LinkProvider,
     ConfirmRaises, ConfirmAnswers, Crash, StripeStep, CustomerPays, CustomerPaysLater,
     AsyncPaymentSucceeds, AsyncPaymentFails, SessionExpires, Announce, SagaStock, StockStep,
     ImportKey, DeleteKey
<1> QED
  BY <1>3, <1>4, <1>5, <1>6, <1>7, <1>8

LEMMA FundInductive == TypeOK /\ SagaInv /\ FundInv /\ [SagaNext]_allVars => FundInv'
<1> SUFFICES ASSUME TypeOK, SagaInv, FundInv, [SagaNext]_allVars PROVE FundInv'
  OBVIOUS
<1>1. [Next]_vars
  BY SagaStepIsTransaction
<1>2. RowsExist' /\ \A p \in Payments : payOrder[p] # Nobody => payOrder'[p] = payOrder[p]
  BY <1>1, PaymentRowsStay DEF FundInv
<1>3. ASSUME NEW o \in Orders, orderStatus'[o] = "PAID"
      PROVE  \E p \in Payments : payOrder'[p] = o /\ MoneyTaken(p)'
  <2>1. PICK p \in Payments : payOrder[p] = o /\ MoneyTaken(p)
    BY <1>3, PaidForMoney DEF FundInv, GoodsArePaidFor
  <2> QED
    BY <1>2, <2>1, MoneyStays, NobodyAssumption
<1>4. GoodsArePaidFor'
  BY <1>3 DEF GoodsArePaidFor
<1> QED
  BY <1>2, <1>4, EventsAreTrue, AnswersStay DEF FundInv

\* Whatever interleaves, crashes, fails or arrives late, no order is delivered
\* without money taken for an attempt of its own.
THEOREM SoldOnlyForMoney == SagaSafety => []GoodsArePaidFor
<1>1. SagaInit => FundInv
  BY NobodyAssumption DEF SagaInit, Init, FundInv, RowsExist, GoodsArePaidFor
<1>2. FundInv => GoodsArePaidFor
  BY DEF FundInv
<1>3. Spec => []TypeOK
  BY TypeCorrect
<1> QED
  BY <1>1, <1>2, <1>3, FundInductive, SagaInvInit, SagaInvInductive, SagaIsReservation, PTL
  DEF SagaSafety

-----------------------------------------------------------------------------
(* What a webhook acknowledged stays applied.                              *)

Over == TerminalStatuses \cup {"PAID"}

AckInv ==
    \A e \in ledger :
        /\ e.kind = "succeeded" => payStatus[e.pay] = "PAID" /\ Bought(e.pay)
        /\ e.kind \in {"failed", "expired"} => payStatus[e.pay] \in Over

\* No transaction of the shipped providers reopens a finished attempt.
LEMMA OutcomesStay ==
  ASSUME TypeOK, [ShippedNext]_vars, NEW p \in Payments
  PROVE  /\ payStatus[p] \in Over => payStatus'[p] \in Over /\ payOrder'[p] = payOrder[p]
         /\ payStatus[p] = "PAID" => payStatus'[p] = "PAID"
         /\ payStatus[p] = "PAID" /\ Bought(p) => Bought(p)'
<1> DEFINE Goal == /\ payStatus[p] \in Over => payStatus'[p] \in Over /\ payOrder'[p] = payOrder[p]
                   /\ payStatus[p] = "PAID" => payStatus'[p] = "PAID"
                   /\ \A o \in Orders : orderStatus[o] = "PAID" => orderStatus'[o] = "PAID"
<1> SUFFICES Goal
  BY DEF Bought, Over
<1>1. CASE UNCHANGED vars
  BY <1>1 DEF vars
<1>2. CASE StockStep
  BY <1>2 DEF StockStep, ImportKey, DeleteKey, orderVars, payVars
<1>3. ASSUME NEW o \in Orders, NEW q \in Payments, NewAttempt(o, q) PROVE Goal
  BY <1>3 DEF NewAttempt, EstablishReservation, TypeOK, Over, TerminalStatuses
<1>4. ASSUME NEW o \in Orders, NEW q \in Payments, ResumeAttempt(o, q) PROVE Goal
  BY <1>4 DEF ResumeAttempt, EstablishReservation, payVars
<1>5. ASSUME NEW o \in Orders, NEW q \in Payments, NEW status \in TerminalStatuses,
             TerminatePayment(o, q, status)
      PROVE  Goal
  BY <1>5 DEF TerminatePayment, TypeOK, Over
<1>6. ASSUME NEW o \in Orders, NEW q \in Payments, RejectLegacyAttempt(o, q) PROVE Goal
  BY <1>6 DEF RejectLegacyAttempt, TypeOK, Over, TerminalStatuses
<1>7. ASSUME NEW o \in Orders, NEW q \in Payments, CompletePayment(o, q) PROVE Goal
  BY <1>7 DEF CompletePayment, TypeOK, Over
<1> QED
  BY <1>1, <1>2, <1>3, <1>4, <1>5, <1>6, <1>7 DEF ShippedNext, OrderStep

\* Applying an event has the effect its kind stands for.
LEMMA EventApplied ==
  ASSUME TypeOK, NEW e, e.pay \in Payments, payOrder[e.pay] \in Orders, ApplyEvent(e)
  PROVE  /\ e.kind = "succeeded" => payStatus'[e.pay] = "PAID" /\ Bought(e.pay)'
         /\ e.kind \in {"failed", "expired"} => payStatus'[e.pay] \in Over
<1>1. CASE e.kind = "succeeded" /\ CompletePayment(payOrder[e.pay], e.pay)
  BY <1>1 DEF CompletePayment, TypeOK, Bought
<1>2. CASE e.kind = "succeeded" /\ AlreadyCompleted(payOrder[e.pay], e.pay) /\ UNCHANGED vars
  BY <1>2 DEF AlreadyCompleted, Bought, vars
<1>3. CASE e.kind \in {"failed", "expired"} /\ FailPayment(payOrder[e.pay], e.pay)
  BY <1>3 DEF FailPayment, TerminatePayment, TypeOK, Over, TerminalStatuses, vars
<1> QED
  BY <1>1, <1>2, <1>3 DEF ApplyEvent, Succeed

LEMMA AckInductive ==
  ASSUME "PENDING" \notin Confirmations
  PROVE  TypeOK /\ SagaInv /\ AckInv /\ [SagaNext]_allVars => AckInv'
<1> SUFFICES ASSUME TypeOK, SagaInv, AckInv, [SagaNext]_allVars PROVE AckInv'
  OBVIOUS
<1>1. [ShippedNext]_vars
  BY SagaStepIsTransaction
<1>2. ASSUME NEW e \in ledger
      PROVE  /\ e.kind = "succeeded" => payStatus'[e.pay] = "PAID" /\ Bought(e.pay)'
             /\ e.kind \in {"failed", "expired"} => payStatus'[e.pay] \in Over
  <2>1. e.pay \in Payments
    BY DEF SagaInv, SagaTypeOK
  <2> QED
    BY <1>1, <2>1, OutcomesStay DEF AckInv
<1>3. CASE \E e \in events : DeliverEvent(e)
  <2>1. PICK e \in events : DeliverEvent(e)
    BY <1>3
  <2>2. /\ e.pay \in Payments /\ payOrder[e.pay] \in Orders /\ ApplyEvent(e)
        /\ ledger' = ledger \cup {e}
    BY <2>1 DEF DeliverEvent, SagaInv, SagaTypeOK
  <2>3. /\ e.kind = "succeeded" => payStatus'[e.pay] = "PAID" /\ Bought(e.pay)'
        /\ e.kind \in {"failed", "expired"} => payStatus'[e.pay] \in Over
    BY <2>2, EventApplied
  <2> QED
    BY <1>2, <2>2, <2>3 DEF AckInv, Bought
<1>4. CASE ledger' = ledger
  BY <1>2, <1>4 DEF AckInv, Bought
<1>5. (\E e \in events : DeliverEvent(e)) \/ ledger' = ledger
  BY DEF SagaNext, allVars, sagaVars, SagaStock, StartCreate, StartPay, ResumePay,
         RequestStep, Crash, CallSucceeds, CallRejected, LinkProvider, RejectAttempt,
         ConfirmRaises, ConfirmAnswers, SettleAnswer, StripeStep, CustomerPays,
         CustomerPaysLater, AsyncPaymentSucceeds, AsyncPaymentFails, SessionExpires, Announce
<1> QED
  BY <1>3, <1>4, <1>5

\* An acknowledged webhook has its effect for good: a success is a paid payment of
\* a paid order, a failure an attempt that is over, whatever requests, crashes,
\* redeliveries and later events do.
THEOREM AcknowledgedForGood ==
  ASSUME "PENDING" \notin Confirmations PROVE SagaSafety => []AcknowledgedMeansApplied
<1>1. SagaInit => AckInv
  BY DEF SagaInit, AckInv
<1>2. AckInv => AcknowledgedMeansApplied
  BY DEF AckInv, AcknowledgedMeansApplied, Over, ActiveStatuses, TerminalStatuses
<1>3. TypeOK /\ SagaInv /\ AckInv /\ [SagaNext]_allVars => AckInv'
  BY AckInductive
<1>4. Spec => []TypeOK
  BY TypeCorrect
<1> QED
  BY <1>1, <1>2, <1>3, <1>4, SagaInvInit, SagaInvInductive, SagaIsReservation, PTL
  DEF SagaSafety

-----------------------------------------------------------------------------
(***************************************************************************)
(* ConfirmedIsFulfillable.  While pay_order serves an attempt, whatever    *)
(* could end it is another pay_order of the order (kept out by the lock),  *)
(* the rejection of a Stripe request, or an event of a Stripe session; the *)
(* last two need a request that selected Stripe for the same attempt.      *)
(***************************************************************************)
Paying(r) == Running(r) /\ req[r].kind = "pay"

LocalOnly(p) == \A q \in Requests : req[q].pay = p => req[q].provider = "local"

RequestsInv ==
    \A r \in Requests :
        /\ IF req[r].pc = "idle" THEN req[r].pay = Nobody ELSE req[r].kind \in {"create", "pay"}
        /\ req[r].pc = "rejecting" => req[r].provider = "stripe"
        /\ req[r].pc \in {"confirming", "settling"} => req[r].kind = "pay"

LockInv ==
    \A r, q \in Requests : Paying(r) /\ Paying(q) /\ req[r].order = req[q].order => r = q

StripeInv ==
    /\ \A p \in Payments : session[p] # "none" => ~LocalOnly(p)
    /\ \A e \in events : session[e.pay] # "none"

Served(r) == Paying(r) /\ req[r].order \in ItemisedOrders /\ LocalOnly(req[r].pay)

FulfilInv ==
    /\ RequestsInv /\ LockInv /\ StripeInv
    /\ \A r \in Requests : Served(r) => authority[req[r].order] = req[r].pay

\* Steps of requests that have begun, if they leave the authority of every
\* attempt that is still being served.
LEMMA FulfilFrame ==
  ASSUME SagaInv, FulfilInv,
         \A r \in Requests :
            /\ req'[r].kind = req[r].kind /\ req'[r].order = req[r].order
            /\ req'[r].pay = req[r].pay /\ req'[r].provider = req[r].provider
            /\ \/ req'[r].pc = req[r].pc
               \/ /\ Running(r) /\ req'[r].pc # "idle"
                  /\ req'[r].pc = "rejecting" => req[r].provider = "stripe"
                  /\ req'[r].pc \in {"confirming", "settling"} => req[r].kind = "pay",
         \A p \in Payments : session'[p] # "none" => session[p] # "none" \/ ~LocalOnly(p),
         \A e \in events' : session'[e.pay] # "none",
         \A r \in Requests : Served(r) /\ Running(r)' =>
            authority'[req[r].order] = authority[req[r].order]
  PROVE  FulfilInv'
<1>1. \A r \in Requests : Running(r)' => Running(r)
  BY DEF Running
<1>2. \A p : LocalOnly(p)' <=> LocalOnly(p)
  BY DEF LocalOnly
<1>3. RequestsInv'
  BY DEF FulfilInv, RequestsInv, Running
<1>4. LockInv'
  BY <1>1 DEF FulfilInv, LockInv, Paying
<1>5. StripeInv'
  BY <1>2 DEF FulfilInv, StripeInv
<1>6. \A r \in Requests : Served(r)' => Served(r) /\ Running(r)'
  BY <1>1, <1>2 DEF Served, Paying
<1> QED
  BY <1>3, <1>4, <1>5, <1>6 DEF FulfilInv

\* A request that begins takes the authority, which is free or its attempt's.
LEMMA BeginFulfils ==
  ASSUME TypeOK, SagaInv, FulfilInv, NEW r \in Requests, NEW o \in Orders, NEW p \in Payments,
         StartCreate(r, o, p) \/ StartPay(r, o, p) \/ ResumePay(r, o, p)
  PROVE  FulfilInv'
<1> USE NobodyAssumption
<1>1. PICK kind \in {"create", "pay"}, provider \in {"none", "local", "stripe"},
           pc \in {"calling", "confirming"} :
         /\ Begin(r, kind, o, p, provider, pc)
         /\ kind = "pay" => ~PayLocked(o)
         /\ pc = "confirming" => kind = "pay"
  BY ProvidersAssumption DEF StartCreate, StartPay, ResumePay, SagaInv, SagaTypeOK
<1>2. EstablishReservation(o, p) /\ UNCHANGED <<session, events>>
  BY DEF StartCreate, StartPay, ResumePay, NewAttempt, ResumeAttempt, externalVars
<1>3. /\ authority[o] \in {Nobody, p} /\ authority'[o] = p
      /\ \A x \in Orders \ {o} : authority'[x] = authority[x]
  BY <1>2 DEF EstablishReservation, TypeOK
<1>4. /\ req[r].pc = "idle" /\ req[r].pay = Nobody
      /\ req'[r].pc = pc /\ req'[r].kind = kind /\ req'[r].order = o /\ req'[r].pay = p
      /\ \A q \in Requests \ {r} : req'[q] = req[q]
  BY <1>1 DEF Begin, SagaInv, SagaTypeOK, FulfilInv, RequestsInv
<1>5. \A x \in Payments : LocalOnly(x)' => LocalOnly(x)
  BY <1>4 DEF LocalOnly
<1>6. RequestsInv'
  BY <1>1, <1>4 DEF FulfilInv, RequestsInv
<1>7. LockInv'
  BY <1>1, <1>4 DEF FulfilInv, LockInv, Paying, PayLocked, Running
<1>8. StripeInv'
  BY <1>2, <1>5 DEF FulfilInv, StripeInv
<1>9. ASSUME NEW x \in Requests, Served(x)' PROVE authority'[req'[x].order] = req'[x].pay
  <2>1. CASE x = r
    BY <1>3, <1>4, <2>1
  <2>2. CASE x # r
    <3>1. Running(x) /\ req'[x] = req[x]
      BY <1>4, <1>9, <2>2 DEF Served, Paying, Running
    <3>2. req[x].pay \in Payments /\ req[x].order \in Orders
      BY <3>1 DEF SagaInv, Bound
    <3>3. Served(x)
      BY <1>5, <1>9, <3>1, <3>2 DEF Served, Paying
    <3>4. authority[req[x].order] = req[x].pay
      BY <3>3 DEF FulfilInv
    <3> QED
      BY <1>3, <3>1, <3>2, <3>4
  <2> QED
    BY <2>1, <2>2
<1> QED
  BY <1>6, <1>7, <1>8, <1>9 DEF FulfilInv

\* An outcome of another attempt leaves the authority of an order alone.
LEMMA OutcomeLeavesAuthority ==
  ASSUME TypeOK, NEW o \in Orders, NEW p \in Payments,
         FailPayment(o, p) \/ Succeed(o, p) \/ RecordPending(o, p) \/ RejectLegacyAttempt(o, p)
  PROVE  /\ \A x \in Orders \ {o} : authority'[x] = authority[x]
         /\ o \in ItemisedOrders /\ authority[o] \in Payments \ {p} => authority'[o] = authority[o]
BY NobodyAssumption
DEF FailPayment, TerminatePayment, MayRelease, Succeed, CompletePayment, MayComplete, RecordPending,
    RejectLegacyAttempt, ItemisedOrders, orderVars, vars, TypeOK

LEMMA StepFulfils ==
  ASSUME TypeOK, SagaInv, FulfilInv, NEW r \in Requests, RequestStep(r) \/ Crash(r)
  PROVE  FulfilInv'
<1> USE NobodyAssumption
<1>1. Running(r)
  BY DEF RequestStep, CallSucceeds, CallRejected, LinkProvider, RejectAttempt, ConfirmRaises,
     ConfirmAnswers, SettleAnswer, Crash, Running
<1>2. /\ req[r].order \in Orders /\ req[r].pay \in Payments
      /\ \A q \in Requests : Running(q) => req[q].pay \in Payments /\ req[q].order \in Orders
  BY <1>1 DEF SagaInv, Bound
<1>3. /\ \A q \in Requests \ {r} : req'[q] = req[q]
      /\ req'[r].kind = req[r].kind /\ req'[r].order = req[r].order
      /\ req'[r].pay = req[r].pay /\ req'[r].provider = req[r].provider
      /\ req'[r].pc # "idle"
      /\ req'[r].pc = "rejecting" => req[r].provider = "stripe"
      /\ req'[r].pc \in {"confirming", "settling"} => req[r].kind = "pay"
  <2>1. req \in [Requests -> ReqRecords]
    BY DEF SagaInv, SagaTypeOK, ReqRecords
  <2>2. CASE ConfirmAnswers(r)
    BY <2>1, <2>2 DEF ConfirmAnswers, FulfilInv, RequestsInv, ReqRecords
  <2>3. CASE ~ConfirmAnswers(r)
    <3>1. PICK pc : /\ Goto(r, pc) /\ pc \notin {"idle", "settling"}
                    /\ pc = "rejecting" => req[r].provider = "stripe"
                    /\ pc = "confirming" => req[r].kind # "create"
      BY <2>3 DEF RequestStep, CallSucceeds, CallRejected, LinkProvider, RejectAttempt, ConfirmRaises,
         SettleAnswer, Crash
    <3>2. req[r].kind \in {"create", "pay"}
      BY <1>1 DEF FulfilInv, RequestsInv, Running
    <3> QED
      BY <2>1, <3>1, <3>2 DEF Goto, ReqRecords
  <2> QED
    BY <2>2, <2>3
<1>4. \A p \in Payments : session'[p] # "none" => session[p] # "none" \/ ~LocalOnly(p)
  <2>1. CASE UNCHANGED session
    BY <2>1
  <2>2. CASE req[r].provider = "stripe" /\ OpenSession(req[r].pay)
    BY <1>2, <2>2 DEF OpenSession, LocalOnly, SagaInv, SagaTypeOK
  <2> QED
    BY <2>1, <2>2 DEF RequestStep, CallSucceeds, CallRejected, LinkProvider, RejectAttempt,
       ConfirmRaises, ConfirmAnswers, SettleAnswer, Crash, externalVars
<1>5. \A e \in events' : session'[e.pay] # "none"
  <2>1. events' = events /\ \A p \in Payments : session[p] # "none" => session'[p] # "none"
    BY <1>2 DEF RequestStep, CallSucceeds, CallRejected, LinkProvider, RejectAttempt,
       ConfirmRaises, ConfirmAnswers, SettleAnswer, Crash, externalVars, OpenSession,
       SagaInv, SagaTypeOK
  <2> QED
    BY <2>1 DEF FulfilInv, StripeInv, SagaInv, SagaTypeOK
<1>6. ASSUME NEW x \in Requests, Served(x), Running(x)'
      PROVE  authority'[req[x].order] = authority[req[x].order]
  <2>1. /\ Running(x) /\ req[x].order \in Orders /\ req[x].pay \in Payments
        /\ authority[req[x].order] = req[x].pay
    BY <1>2, <1>6 DEF Served, Paying, FulfilInv
  <2>2. CASE UNCHANGED vars
    BY <2>2 DEF vars
  <2>3. CASE RejectAttempt(r)
    <3>1. req[x].pay # req[r].pay
      BY <1>6, <2>3 DEF RejectAttempt, Served, LocalOnly, FulfilInv, RequestsInv
    <3>2. \/ RejectLegacyAttempt(req[r].order, req[r].pay)
          \/ FailPayment(req[r].order, req[r].pay)
      BY <2>3 DEF RejectAttempt
    <3> QED
      BY <1>2, <1>6, <2>1, <3>1, <3>2, OutcomeLeavesAuthority DEF Served
  <2>4. CASE SettleAnswer(r)
    <3>1. Paying(r) /\ x # r
      <4>1. req'[r].pc = "done" /\ req[r].pc = "settling"
        BY <2>4 DEF SettleAnswer, Goto, SagaInv, SagaTypeOK
      <4> QED
        BY <1>1, <1>6, <4>1 DEF Running, Paying, FulfilInv, RequestsInv
    <3>2. req[x].order # req[r].order
      BY <1>6, <3>1 DEF Served, FulfilInv, LockInv
    <3>3. \/ FailPayment(req[r].order, req[r].pay) \/ Succeed(req[r].order, req[r].pay)
          \/ RecordPending(req[r].order, req[r].pay)
      BY <2>4 DEF SettleAnswer
    <3> QED
      BY <1>2, <2>1, <3>2, <3>3, OutcomeLeavesAuthority
  <2> QED
    BY <2>2, <2>3, <2>4 DEF RequestStep, CallSucceeds, CallRejected, LinkProvider,
       ConfirmRaises, ConfirmAnswers, Crash
<1> QED
  BY <1>1, <1>3, <1>4, <1>5, <1>6, FulfilFrame

LEMMA FulfilInductive == TypeOK /\ SagaInv /\ FulfilInv /\ [SagaNext]_allVars => FulfilInv'
<1> SUFFICES ASSUME TypeOK, SagaInv, FulfilInv, [SagaNext]_allVars PROVE FulfilInv'
  OBVIOUS
<1> USE NobodyAssumption
<1>1. ASSUME NEW r \in Requests, NEW o \in Orders, NEW p \in Payments,
             StartCreate(r, o, p) \/ StartPay(r, o, p) \/ ResumePay(r, o, p)
      PROVE  FulfilInv'
  BY <1>1, BeginFulfils
<1>2. ASSUME NEW r \in Requests, RequestStep(r) \/ Crash(r) PROVE FulfilInv'
  BY <1>2, StepFulfils
<1>3. ASSUME NEW p \in Payments, StripeStep(p) PROVE FulfilInv'
  <2>1. PICK from \in {{"open"}, {"processing"}}, to \in {"charged", "processing", "closed"},
             kind \in EventKinds : Announce(p, from, to, kind)
    BY <1>3 DEF StripeStep, CustomerPays, CustomerPaysLater, AsyncPaymentSucceeds,
                AsyncPaymentFails, SessionExpires, EventKinds
  <2>2. /\ UNCHANGED <<vars, req>> /\ session[p] # "none" /\ session'[p] # "none"
        /\ \A q \in Payments \ {p} : session'[q] = session[q]
        /\ \A e \in events' : e \in events \/ e.pay = p
    BY <2>1 DEF Announce, SagaInv, SagaTypeOK
  <2>3. \A e \in events' : session'[e.pay] # "none"
    BY <2>2 DEF FulfilInv, StripeInv, SagaInv, SagaTypeOK
  <2> QED
    BY <2>2, <2>3, FulfilFrame DEF vars
<1>4. ASSUME NEW e \in events, DeliverEvent(e) PROVE FulfilInv'
  <2>1. /\ UNCHANGED <<req, session, events>> /\ payOrder[e.pay] \in Orders /\ e.pay \in Payments
    BY <1>4 DEF DeliverEvent, externalVars, SagaInv, SagaTypeOK
  <2>2. ~LocalOnly(e.pay)
    BY <2>1 DEF FulfilInv, StripeInv
  <2>3. \/ UNCHANGED vars
        \/ FailPayment(payOrder[e.pay], e.pay) \/ Succeed(payOrder[e.pay], e.pay)
    BY <1>4 DEF DeliverEvent, ApplyEvent
  <2>4. ASSUME NEW x \in Requests, Served(x)
        PROVE  authority'[req[x].order] = authority[req[x].order]
    <3>1. /\ req[x].order \in Orders /\ req[x].pay \in Payments \ {e.pay}
          /\ authority[req[x].order] = req[x].pay /\ req[x].order \in ItemisedOrders
      BY <2>2, <2>4 DEF Served, Paying, FulfilInv, SagaInv, Bound
    <3> QED
      BY <2>1, <2>3, <3>1, OutcomeLeavesAuthority DEF vars
  <2> QED
    BY <2>1, <2>4, FulfilFrame DEF FulfilInv, StripeInv
<1>5. CASE SagaStock \/ UNCHANGED allVars
  <2>1. UNCHANGED <<req, session, events, authority>>
    BY <1>5 DEF SagaStock, StockStep, ImportKey, DeleteKey, orderVars, allVars, vars, sagaVars
  <2> QED
    BY <2>1, FulfilFrame DEF FulfilInv, StripeInv
<1> QED
  BY <1>1, <1>2, <1>3, <1>4, <1>5 DEF SagaNext

LEMMA FulfilImplies == IInv /\ SagaInv /\ FulfilInv => ConfirmedIsFulfillable
<1> SUFFICES ASSUME IInv, SagaInv, FulfilInv, NEW r \in Requests,
                    req[r].pc = "settling", req[r].order \in ItemisedOrders, LocalOnly(req[r].pay)
             PROVE  /\ payStatus[req[r].pay] \in ActiveStatuses
                    /\ Authorised(req[r].pay) /\ HasReservation(req[r].order)
  BY DEF ConfirmedIsFulfillable, LocalOnly
<1>1. Served(r) /\ req[r].pay \in Payments
  BY DEF Served, Paying, Running, FulfilInv, RequestsInv, SagaInv, Bound
<1>2. authority[req[r].order] = req[r].pay /\ req[r].order \in Orders
  BY <1>1 DEF FulfilInv, ItemisedOrders
<1>3. OrderInv(req[r].order) /\ authority[req[r].order] # Nobody
  BY <1>1, <1>2, NobodyAssumption DEF IInv
<1> QED
  BY <1>1, <1>2, <1>3 DEF OrderInv, HasReservation, ActiveAttempts, Authorised

\* A synchronous success that pay_order is about to record can be recorded,
\* whatever other requests, events and crashes came in between, if no request
\* on the same attempt went to Stripe.
THEOREM ConfirmedCanBeFulfilled == SagaSafety => []ConfirmedIsFulfillable
<1>1. SagaInit => FulfilInv
  BY DEF SagaInit, FulfilInv, RequestsInv, LockInv, StripeInv, Served, Paying, Running
<1>2. SagaSafety => [](IInv /\ SagaInv)
  <2>1. SagaInit => IInv /\ SagaInv
    BY InvInit, SagaInvInit DEF SagaInit
  <2>2. IInv /\ SagaInv /\ [SagaNext]_allVars => IInv' /\ SagaInv'
    BY InvInductive, SagaInvInductive, SagaStepIsTransaction DEF IInv
  <2> QED
    BY <2>1, <2>2, PTL DEF SagaSafety
<1>3. IInv => TypeOK
  BY DEF IInv
<1> QED
  BY <1>1, <1>2, <1>3, FulfilInductive, FulfilImplies, PTL DEF SagaSafety

-----------------------------------------------------------------------------
(***************************************************************************)
(* What customers are charged for, when Stripe Checkout is used through    *)
(* POST /payments/ alone and a call that Stripe refuses opens no session.  *)
(* The runs lost_response and concurrent_pay show that both assumptions    *)
(* are needed.                                                             *)
(***************************************************************************)

ChargeAssumptions ==
    /\ RequestKinds = {"create"}
    /\ "lost" \notin CallFailures
    /\ "PENDING" \notin Confirmations
    /\ LegacyOrders = {}

\* An attempt that may still settle its order.
Live(p) ==
    /\ payOrder[p] \in Orders
    /\ payStatus[p] \in ActiveStatuses
    /\ orderStatus[payOrder[p]] # "PAID"
    /\ authority[payOrder[p]] = p

Settles(p) == payStatus[p] = "PAID" /\ Bought(p)

\* A session that can be paid belongs to a live attempt, and one that was paid
\* to a live attempt or to the one that settled the order.
SessionsInv ==
    \A p \in Payments :
        /\ session[p] \in {"open", "processing"} => Live(p)
        /\ session[p] = "charged" => Live(p) \/ Settles(p)

\* A request has its attempt to itself, and no session exists before its call
\* has succeeded.
CallsInv ==
    /\ \A r \in Requests : req[r].pc # "idle" =>
          /\ req[r].kind = "create"
          /\ req[r].pay \in Payments
          /\ req[r].pc \in {"calling", "linking", "rejecting", "done"}
    /\ \A r \in Requests, p \in Payments : req[r].pc # "idle" /\ req[r].pay = p =>
          payStatus[p] # "ABSENT" /\ payOrder[p] = req[r].order
    /\ \A r, q \in Requests :
          req[r].pc # "idle" /\ req[q].pc # "idle" /\ req[r].pay = req[q].pay => r = q
    /\ \A r \in Requests, p \in Payments : req[r].pc \in {"calling", "rejecting"} /\ req[r].pay = p =>
          Live(p) /\ session[p] = "none"

\* Events tell what became of the session.
EventsInv ==
    /\ \A p \in Payments : payStatus[p] = "ABSENT" => session[p] = "none"
    /\ \A e \in events :
          /\ e.kind = "succeeded" => session[e.pay] = "charged"
          /\ e.kind \in {"failed", "expired"} => session[e.pay] = "closed"

ChargeInv == SessionsInv /\ CallsInv /\ EventsInv

Consistent == IInv /\ SagaInv

-----------------------------------------------------------------------------
(* Transactions of other attempts leave a live attempt alone.              *)

LEMMA OthersKeepLive ==
  ASSUME TypeOK, NEW p \in Payments, Live(p), LegacyOrders = {},
         NEW o \in Orders, NEW q \in Payments, q # p,
         \/ NewAttempt(o, q)
         \/ \E status \in TerminalStatuses : TerminatePayment(o, q, status)
         \/ CompletePayment(o, q)
  PROVE  Live(p)'
<1>1. CASE NewAttempt(o, q)
  <2>1. payOrder[p] # o
    BY <1>1 DEF NewAttempt, Live, ActiveAttempts
  <2> QED
    BY <1>1, <2>1 DEF NewAttempt, EstablishReservation, Live, TypeOK
<1>2. ASSUME NEW status \in TerminalStatuses, TerminatePayment(o, q, status) PROVE Live(p)'
  <2>1. /\ payOrder' = payOrder /\ orderStatus' = orderStatus
        /\ payStatus'[p] = payStatus[p]
    BY <1>2 DEF TerminatePayment, TypeOK
  <2>2. authority'[payOrder[p]] = authority[payOrder[p]]
    <3>1. CASE o = payOrder[p]
      <4>1. ~MayRelease(o, q)
        BY <3>1, NobodyAssumption DEF MayRelease, Live
      <4> QED
        BY <1>2, <4>1 DEF TerminatePayment
    <3>2. CASE o # payOrder[p]
      BY <1>2, <3>2 DEF TerminatePayment, TypeOK, Live
    <3> QED
      BY <3>1, <3>2
  <2> QED
    BY <2>1, <2>2 DEF Live
<1>3. CASE CompletePayment(o, q)
  <2>1. payOrder[p] # o
    BY <1>3, NobodyAssumption DEF CompletePayment, MayComplete, Live
  <2> QED
    BY <1>3, <2>1 DEF CompletePayment, Live, TypeOK
<1> QED
  BY <1>1, <1>2, <1>3

LEMMA StockKeepsLive ==
  ASSUME NEW p \in Payments, Live(p), UNCHANGED vars \/ StockStep
  PROVE  Live(p)'
BY DEF Live, vars, StockStep, ImportKey, DeleteKey, orderVars, payVars

\* What is settled stays settled.
LEMMA SettledStays ==
  ASSUME TypeOK, [ShippedNext]_vars, NEW p \in Payments, Settles(p)
  PROVE  Settles(p)'
BY OutcomesStay DEF Settles

\* A payment row keeps its order.
LEMMA RowsStay ==
  ASSUME TypeOK, [ShippedNext]_vars, NEW p \in Payments, payStatus[p] # "ABSENT"
  PROVE  payStatus'[p] # "ABSENT" /\ payOrder'[p] = payOrder[p]
<1> DEFINE Goal == payStatus'[p] # "ABSENT" /\ payOrder'[p] = payOrder[p]
<1>1. CASE UNCHANGED vars
  BY <1>1 DEF vars
<1>2. CASE StockStep
  BY <1>2 DEF StockStep, ImportKey, DeleteKey, orderVars, payVars
<1>3. ASSUME NEW o \in Orders, NEW q \in Payments, NewAttempt(o, q) \/ ResumeAttempt(o, q) PROVE Goal
  BY <1>3 DEF NewAttempt, ResumeAttempt, TypeOK, payVars
<1>4. ASSUME NEW o \in Orders, NEW q \in Payments,
             \/ \E status \in TerminalStatuses : TerminatePayment(o, q, status)
             \/ RejectLegacyAttempt(o, q)
             \/ CompletePayment(o, q)
      PROVE  Goal
  BY <1>4 DEF TerminatePayment, RejectLegacyAttempt, CompletePayment, TypeOK, TerminalStatuses
<1> QED
  BY <1>1, <1>2, <1>3, <1>4 DEF ShippedNext, OrderStep

\* A step that opens, ends or announces no session keeps the invariant, if the
\* only live attempts it ends have no session that can be paid.
LEMMA ChargeFrame ==
  ASSUME Consistent, ChargeInv, [ShippedNext]_vars, NEW Ended,
         \A p \in Payments \ Ended : Live(p) => Live(p)',
         \A p \in Ended \cap Payments : session[p] \in {"none", "closed"}
                                        \/ (session[p] = "charged" /\ Settles(p)'),
         UNCHANGED <<session, events>>,
         \A r \in Requests :
            /\ req'[r].pay = req[r].pay /\ req'[r].kind = req[r].kind
            /\ req'[r].order = req[r].order
            /\ \/ req'[r].pc = req[r].pc
               \/ req'[r].pc = "done" /\ req[r].pc # "idle"
               \/ req'[r].pc = "rejecting" /\ req[r].pc = "calling",
         \A r \in Requests : req'[r].pc \in {"calling", "rejecting"} => req[r].pay \notin Ended
  PROVE  ChargeInv'
<1>1. TypeOK
  BY DEF Consistent, IInv
<1>2. SessionsInv'
  <2> SUFFICES ASSUME NEW p \in Payments
               PROVE  /\ session'[p] \in {"open", "processing"} => Live(p)'
                      /\ session'[p] = "charged" => Live(p)' \/ Settles(p)'
    BY DEF SessionsInv
  <2>1. CASE p \in Ended
    BY <2>1
  <2>2. CASE p \notin Ended
    BY <1>1, <2>2, SettledStays DEF ChargeInv, SessionsInv
  <2> QED
    BY <2>1, <2>2
<1>3. CallsInv'
  <2>1. ASSUME NEW r \in Requests, req'[r].pc # "idle"
        PROVE  /\ req[r].pc # "idle"
               /\ req'[r].kind = "create" /\ req'[r].pay \in Payments
               /\ req'[r].pc \in {"calling", "linking", "rejecting", "done"}
    BY <2>1 DEF ChargeInv, CallsInv
  <2>2. ASSUME NEW r \in Requests, NEW p \in Payments, req'[r].pc # "idle", req'[r].pay = p
        PROVE  payStatus'[p] # "ABSENT" /\ payOrder'[p] = req'[r].order
    BY <1>1, <2>1, <2>2, RowsStay DEF ChargeInv, CallsInv
  <2>3. ASSUME NEW r \in Requests, NEW q \in Requests,
               req'[r].pc # "idle", req'[q].pc # "idle", req'[r].pay = req'[q].pay
        PROVE  r = q
    BY <2>1, <2>3 DEF ChargeInv, CallsInv
  <2>4. ASSUME NEW r \in Requests, NEW p \in Payments,
               req'[r].pc \in {"calling", "rejecting"}, req'[r].pay = p
        PROVE  Live(p)' /\ session'[p] = "none"
    <3>1. req[r].pc \in {"calling", "rejecting"} /\ req[r].pay = p /\ p \notin Ended
      BY <2>4
    <3> QED
      BY <3>1 DEF ChargeInv, CallsInv
  <2> QED
    BY <2>1, <2>2, <2>3, <2>4 DEF CallsInv
<1>4. EventsInv'
  <2>1. ASSUME NEW p \in Payments, payStatus'[p] = "ABSENT" PROVE session'[p] = "none"
    BY <1>1, <2>1, RowsStay DEF ChargeInv, EventsInv
  <2> QED
    BY <2>1 DEF ChargeInv, EventsInv
<1> QED
  BY <1>2, <1>3, <1>4 DEF ChargeInv

-----------------------------------------------------------------------------
(* The steps of requests, of Stripe, of the webhook and of administrators. *)

\* The request that creates an attempt has it to itself.
LEMMA StartCharge ==
  ASSUME Consistent, ChargeInv, ChargeAssumptions,
         NEW r \in Requests, NEW o \in Orders, NEW p \in Payments, StartCreate(r, o, p)
  PROVE  ChargeInv'
<1>1. TypeOK /\ SagaTypeOK
  BY DEF Consistent, IInv, SagaInv
<1>2. /\ NewAttempt(o, p) /\ payStatus[p] = "ABSENT" /\ session[p] = "none"
      /\ UNCHANGED <<session, events>>
  BY DEF StartCreate, NewAttempt, externalVars, ChargeInv, EventsInv
<1>3. PICK provider \in Providers : Begin(r, "create", o, p, provider, "calling")
  BY DEF StartCreate
<1>4. /\ req[r].pc = "idle"
      /\ req'[r].kind = "create" /\ req'[r].pay = p /\ req'[r].order = o
      /\ req'[r].pc = "calling"
      /\ \A q \in Requests \ {r} : req'[q] = req[q]
  BY <1>1, <1>3 DEF Begin, SagaTypeOK
<1>5. /\ payStatus'[p] = "CREATED" /\ payOrder'[p] = o
      /\ authority'[o] = p /\ orderStatus'[o] # "PAID"
      /\ \A q \in Payments \ {p} : payStatus'[q] = payStatus[q] /\ payOrder'[q] = payOrder[q]
  BY <1>1, <1>2 DEF NewAttempt, EstablishReservation, Payable, TypeOK
<1>6. Live(p)'
  BY <1>5 DEF Live, ActiveStatuses
<1>7. ASSUME NEW q \in Payments \ {p}, Live(q) PROVE Live(q)'
  BY <1>1, <1>2, <1>7, OthersKeepLive DEF ChargeAssumptions
<1>8. [ShippedNext]_vars
  BY <1>2 DEF ShippedNext, OrderStep
<1>9. SessionsInv'
  <2>1. ASSUME NEW q \in Payments
        PROVE  /\ session'[q] \in {"open", "processing"} => Live(q)'
               /\ session'[q] = "charged" => Live(q)' \/ Settles(q)'
    BY <1>1, <1>2, <1>6, <1>7, <1>8, SettledStays DEF ChargeInv, SessionsInv
  <2> QED
    BY <2>1 DEF SessionsInv
<1>10. CallsInv'
  <2>1. ASSUME NEW q \in Requests \ {r}, req[q].pc # "idle" PROVE req[q].pay # p
    BY <1>2, <2>1 DEF ChargeInv, CallsInv
  <2>2. ASSUME NEW q \in Requests, req'[q].pc # "idle"
        PROVE  /\ req'[q].kind = "create" /\ req'[q].pay \in Payments
               /\ req'[q].pc \in {"calling", "linking", "rejecting", "done"}
    BY <1>4, <2>2 DEF ChargeInv, CallsInv
  <2>3. ASSUME NEW q \in Requests, NEW x \in Payments, req'[q].pc # "idle", req'[q].pay = x
        PROVE  payStatus'[x] # "ABSENT" /\ payOrder'[x] = req'[q].order
    BY <1>4, <1>5, <2>1, <2>3 DEF ChargeInv, CallsInv
  <2>4. ASSUME NEW q \in Requests, NEW x \in Requests,
               req'[q].pc # "idle", req'[x].pc # "idle", req'[q].pay = req'[x].pay
        PROVE  q = x
    BY <1>4, <2>1, <2>4 DEF ChargeInv, CallsInv
  <2>5. ASSUME NEW q \in Requests, NEW x \in Payments,
               req'[q].pc \in {"calling", "rejecting"}, req'[q].pay = x
        PROVE  Live(x)' /\ session'[x] = "none"
    BY <1>2, <1>4, <1>6, <1>7, <2>1, <2>5 DEF ChargeInv, CallsInv
  <2> QED
    BY <2>2, <2>3, <2>4, <2>5 DEF CallsInv
<1>11. EventsInv'
  BY <1>2, <1>5 DEF ChargeInv, EventsInv
<1> QED
  BY <1>9, <1>10, <1>11 DEF ChargeInv

\* A request that only moves on.
LEMMA MoveOnCharge ==
  ASSUME Consistent, ChargeInv, NEW r \in Requests, NEW pc,
         Goto(r, pc),
         \/ pc = "done" /\ req[r].pc # "idle"
         \/ pc = "rejecting" /\ req[r].pc = "calling",
         UNCHANGED <<vars, session, events>>
  PROVE  ChargeInv'
<1>1. /\ req'[r] = [req[r] EXCEPT !.pc = pc]
      /\ \A q \in Requests \ {r} : req'[q] = req[q]
  BY DEF Goto, Consistent, SagaInv, SagaTypeOK
<1>2. \A q \in Requests :
            /\ req'[q].pay = req[q].pay /\ req'[q].kind = req[q].kind
            /\ req'[q].order = req[q].order
            /\ \/ req'[q].pc = req[q].pc
               \/ req'[q].pc = "done" /\ req[q].pc # "idle"
               \/ req'[q].pc = "rejecting" /\ req[q].pc = "calling"
  <2>1. req[r] \in ReqRecords
    BY DEF Consistent, SagaInv, SagaTypeOK, ReqRecords
  <2> QED
    BY <1>1, <2>1 DEF ReqRecords
<1>3. \A p \in Payments : Live(p) => Live(p)'
  BY DEF Live, vars
<1> DEFINE Ended == {}
<1>4. /\ \A p \in Payments \ Ended : Live(p) => Live(p)'
      /\ \A p \in Ended \cap Payments : session[p] \in {"none", "closed"}
                                        \/ (session[p] = "charged" /\ Settles(p)')
      /\ \A q \in Requests : req'[q].pc \in {"calling", "rejecting"} => req[q].pay \notin Ended
  BY <1>3
<1> HIDE DEF Ended
<1> QED
  BY <1>2, <1>4, ChargeFrame

\* The call of a request that creates an attempt opens its session.
LEMMA CallCharge ==
  ASSUME Consistent, ChargeInv, NEW r \in Requests, CallSucceeds(r)
  PROVE  ChargeInv'
<1>1. /\ req[r].pc = "calling" /\ Goto(r, "linking")
      /\ UNCHANGED <<vars, events>>
  BY DEF CallSucceeds
<1> DEFINE p == req[r].pay
<1>2. p \in Payments /\ Live(p) /\ session[p] = "none" /\ payStatus[p] # "ABSENT"
  BY <1>1 DEF ChargeInv, CallsInv
<1>3. /\ session' \in [Payments -> SessionStates] /\ session'[p] \in {"none", "open"}
      /\ \A q \in Payments \ {p} : session'[q] = session[q]
  BY <1>2 DEF CallSucceeds, OpenSession, Consistent, SagaInv, SagaTypeOK, SessionStates
<1>4. \A q \in Requests : /\ req'[q].pay = req[q].pay /\ req'[q].kind = req[q].kind
                          /\ req'[q].order = req[q].order
                          /\ q # r => req'[q].pc = req[q].pc
  <2>1. req \in [Requests -> ReqRecords]
    BY DEF Consistent, SagaInv, SagaTypeOK, ReqRecords
  <2> QED
    BY <1>1, <2>1 DEF Goto, ReqRecords
<1>5. req'[r].pc = "linking"
  BY <1>1 DEF Goto, Consistent, SagaInv, SagaTypeOK
<1>6. \A q \in Payments : (Live(q) => Live(q)') /\ (Settles(q) => Settles(q)')
  BY <1>1 DEF Live, Settles, Bought, vars
<1>7. SessionsInv'
  <2>1. ASSUME NEW q \in Payments
        PROVE  /\ session'[q] \in {"open", "processing"} => Live(q)'
               /\ session'[q] = "charged" => Live(q)' \/ Settles(q)'
    <3>1. CASE q = p
      BY <1>2, <1>3, <1>6, <3>1
    <3>2. CASE q # p
      BY <1>3, <1>6, <3>2 DEF ChargeInv, SessionsInv
    <3> QED
      BY <3>1, <3>2
  <2> QED
    BY <2>1 DEF SessionsInv
<1>8. CallsInv'
  <2>1. UNCHANGED <<payStatus, payOrder>>
    BY <1>1 DEF vars
  <2>2. \A q \in Requests : req'[q].pc # "idle" =>
          /\ req'[q].kind = "create" /\ req'[q].pay \in Payments
          /\ req'[q].pc \in {"calling", "linking", "rejecting", "done"}
          /\ req[q].pc # "idle"
    BY <1>1, <1>4, <1>5 DEF ChargeInv, CallsInv
  <2>3. \A q \in Requests, x \in Payments : req'[q].pc # "idle" /\ req'[q].pay = x =>
          payStatus'[x] # "ABSENT" /\ payOrder'[x] = req'[q].order
    BY <1>4, <2>1, <2>2 DEF ChargeInv, CallsInv
  <2>4. \A q, x \in Requests :
          req'[q].pc # "idle" /\ req'[x].pc # "idle" /\ req'[q].pay = req'[x].pay => q = x
    BY <1>4, <2>2 DEF ChargeInv, CallsInv
  <2>5. ASSUME NEW q \in Requests, NEW x \in Payments,
               req'[q].pc \in {"calling", "rejecting"}, req'[q].pay = x
        PROVE  Live(x)' /\ session'[x] = "none"
    <3>1. q # r /\ req[q].pc \in {"calling", "rejecting"} /\ req[q].pay = x
      BY <1>4, <1>5, <2>5
    <3>2. x # p
      BY <1>1, <3>1 DEF ChargeInv, CallsInv
    <3> QED
      BY <1>3, <1>6, <3>1, <3>2 DEF ChargeInv, CallsInv
  <2> QED
    BY <2>2, <2>3, <2>4, <2>5 DEF CallsInv
<1>9. EventsInv'
  <2>1. \A e \in events : e.pay \in Payments
    BY DEF Consistent, SagaInv, SagaTypeOK
  <2>2. UNCHANGED <<payStatus, events>>
    BY <1>1 DEF vars
  <2>3. \A e \in events : e.kind \in {"succeeded", "failed", "expired"} => e.pay # p
    BY <1>2 DEF ChargeInv, EventsInv
  <2> QED
    BY <1>2, <1>3, <2>1, <2>2, <2>3 DEF ChargeInv, EventsInv
<1> QED
  BY <1>7, <1>8, <1>9 DEF ChargeInv

\* What Stripe announces of a session that could be paid.
LEMMA AnnounceCharge ==
  ASSUME Consistent, ChargeInv, NEW p \in Payments,
         NEW from \in {"open", "processing"}, NEW to, NEW kind,
         Announce(p, {from}, to, kind),
         \/ to = "charged" /\ kind = "succeeded"
         \/ to = "processing" /\ kind = "unpaid"
         \/ to = "closed" /\ kind \in {"failed", "expired"}
  PROVE  ChargeInv'
<1>1. /\ session[p] \in {"open", "processing"}
      /\ session' = [session EXCEPT ![p] = to]
      /\ events' = events \cup {[pay |-> p, kind |-> kind]}
      /\ UNCHANGED <<vars, req>>
  BY DEF Announce
<1>2. Live(p)
  BY <1>1 DEF ChargeInv, SessionsInv
<1>3. session'[p] = to /\ \A q \in Payments \ {p} : session'[q] = session[q]
  BY <1>1 DEF Consistent, SagaInv, SagaTypeOK
<1>4. \A q \in Payments : (Live(q) => Live(q)') /\ (Settles(q) => Settles(q)')
  BY <1>1 DEF Live, Settles, Bought, vars
<1>5. SessionsInv'
  BY <1>2, <1>3, <1>4 DEF ChargeInv, SessionsInv
<1>6. CallsInv'
  <2>1. UNCHANGED <<payStatus, payOrder, req>>
    BY <1>1 DEF vars
  <2>2. ASSUME NEW r \in Requests, NEW q \in Payments,
               req'[r].pc \in {"calling", "rejecting"}, req'[r].pay = q
        PROVE  Live(q)' /\ session'[q] = "none"
    <3>1. Live(q) /\ session[q] = "none"
      BY <2>1, <2>2 DEF ChargeInv, CallsInv
    <3> QED
      BY <1>1, <1>3, <1>4, <3>1
  <2> QED
    BY <2>1, <2>2 DEF ChargeInv, CallsInv
<1>7. EventsInv'
  <2>1. \A e \in events : e.pay \in Payments
    BY DEF Consistent, SagaInv, SagaTypeOK
  <2>2. payStatus' = payStatus /\ payStatus[p] # "ABSENT"
    BY <1>1, <1>2 DEF vars, Live, ActiveStatuses
  <2>3. \A q \in Payments : payStatus'[q] = "ABSENT" => session'[q] = "none"
    BY <1>3, <2>2 DEF ChargeInv, EventsInv
  <2>4. \A e \in events : e.kind \in {"succeeded", "failed", "expired"} => e.pay # p
    BY <1>1 DEF ChargeInv, EventsInv
  <2>5. ASSUME NEW e \in events'
        PROVE  /\ e.kind = "succeeded" => session'[e.pay] = "charged"
               /\ e.kind \in {"failed", "expired"} => session'[e.pay] = "closed"
    BY <1>1, <1>3, <2>1, <2>4 DEF ChargeInv, EventsInv
  <2> QED
    BY <2>3, <2>5 DEF EventsInv
<1> QED
  BY <1>5, <1>6, <1>7 DEF ChargeInv

\* An outcome of one attempt leaves every other live attempt alone.
LEMMA OutcomeKeepsLive ==
  ASSUME TypeOK, LegacyOrders = {}, NEW o \in Orders, NEW q \in Payments,
         FailPayment(o, q) \/ Succeed(o, q),
         NEW p \in Payments \ {q}, Live(p)
  PROVE  Live(p)'
<1>1. CASE UNCHANGED vars
  BY <1>1 DEF Live, vars
<1>2. CASE TerminatePayment(o, q, "FAILED") \/ CompletePayment(o, q)
  BY <1>2, OthersKeepLive DEF TerminalStatuses
<1> QED
  BY <1>1, <1>2 DEF FailPayment, Succeed

\* A refused call ends an attempt that never had a session.
LEMMA RejectCharge ==
  ASSUME Consistent, ChargeInv, ChargeAssumptions, NEW r \in Requests, RejectAttempt(r)
  PROVE  ChargeInv'
<1> DEFINE p == req[r].pay
           o == req[r].order
           Ended == {p}
<1>1. TypeOK /\ req[r].pc = "rejecting" /\ Goto(r, "done") /\ UNCHANGED <<session, events>>
  BY DEF RejectAttempt, externalVars, Consistent, IInv
<1>2. o \in Orders /\ p \in Payments /\ session[p] = "none"
  BY <1>1 DEF Consistent, SagaInv, Bound, Running, ChargeInv, CallsInv
<1>3. FailPayment(o, p)
  <2>1. ~RejectLegacyAttempt(o, p)
    BY DEF RejectLegacyAttempt, ChargeAssumptions
  <2> QED
    BY <2>1 DEF RejectAttempt
<1>4. [ShippedNext]_vars
  BY <1>2, <1>3, FailIsTransaction
<1>5. \A q \in Payments \ Ended : Live(q) => Live(q)'
  BY <1>1, <1>2, <1>3, OutcomeKeepsLive DEF ChargeAssumptions
<1>6. \A q \in Requests :
            /\ req'[q].pay = req[q].pay /\ req'[q].kind = req[q].kind
            /\ req'[q].order = req[q].order
            /\ req'[q].pc = IF q = r THEN "done" ELSE req[q].pc
  <2>1. req \in [Requests -> ReqRecords]
    BY DEF Consistent, SagaInv, SagaTypeOK, ReqRecords
  <2> QED
    BY <1>1, <2>1 DEF Goto, ReqRecords
<1>7. \A q \in Requests : req'[q].pc \in {"calling", "rejecting"} => req[q].pay \notin Ended
  BY <1>1, <1>6 DEF ChargeInv, CallsInv
<1>8. \A q \in Ended \cap Payments : session[q] \in {"none", "closed"}
                                     \/ (session[q] = "charged" /\ Settles(q)')
  BY <1>2
<1> HIDE DEF Ended
<1> QED
  BY <1>1, <1>4, <1>5, <1>6, <1>7, <1>8, ChargeFrame

\* An event ends the attempt whose session ended, or settles its order.
LEMMA DeliverCharge ==
  ASSUME Consistent, ChargeInv, ChargeAssumptions, NEW e \in events, DeliverEvent(e)
  PROVE  ChargeInv'
<1> DEFINE p == e.pay
           o == payOrder[p]
           Ended == IF e.kind = "unpaid" THEN {} ELSE {p}
<1>1. /\ TypeOK /\ p \in Payments /\ o \in Orders
      /\ e.kind \in EventKinds
      /\ ApplyEvent(e) /\ UNCHANGED <<session, events, req>>
  BY DEF DeliverEvent, externalVars, Consistent, IInv, SagaInv, SagaTypeOK
<1>2. /\ e.kind = "succeeded" => session[p] = "charged"
      /\ e.kind \in {"failed", "expired"} => session[p] = "closed"
  BY DEF ChargeInv, EventsInv
<1>3. \/ e.kind = "unpaid" /\ UNCHANGED vars
      \/ e.kind = "succeeded" /\ Succeed(o, p)
      \/ e.kind \in {"failed", "expired"} /\ FailPayment(o, p)
  BY <1>1 DEF ApplyEvent
<1>4. [ShippedNext]_vars
  BY <1>1, <1>3, FailIsTransaction, SucceedIsTransaction
<1>5. \A q \in Payments \ Ended : Live(q) => Live(q)'
  <2>1. CASE e.kind = "unpaid"
    BY <1>3, <2>1 DEF Live, vars
  <2>2. CASE e.kind # "unpaid"
    BY <1>1, <1>3, <2>2, OutcomeKeepsLive DEF ChargeAssumptions
  <2> QED
    BY <2>1, <2>2
<1>6. \A q \in Ended \cap Payments : session[q] \in {"none", "closed"}
                                     \/ (session[q] = "charged" /\ Settles(q)')
  <2>1. CASE e.kind = "succeeded"
    <3>1. Settles(p)'
      BY <1>1, <2>1, EventApplied DEF Settles
    <3> QED
      BY <1>2, <2>1, <3>1
  <2>2. CASE e.kind \in {"failed", "expired"}
    BY <1>2, <2>2
  <2> QED
    BY <1>1, <2>1, <2>2 DEF EventKinds
<1>7. \A r \in Requests : req'[r].pc \in {"calling", "rejecting"} => req[r].pay \notin Ended
  <2>1. ASSUME NEW r \in Requests, req'[r].pc \in {"calling", "rejecting"}, req[r].pay = p
        PROVE  e.kind = "unpaid"
    BY <1>1, <1>2, <2>1 DEF ChargeInv, CallsInv, EventKinds
  <2> QED
    BY <1>1, <2>1
<1> HIDE DEF Ended
<1> QED
  BY <1>1, <1>4, <1>5, <1>6, <1>7, ChargeFrame

LEMMA StockCharge ==
  ASSUME Consistent, ChargeInv, SagaStock \/ UNCHANGED allVars
  PROVE  ChargeInv'
<1> DEFINE Ended == {}
<1>1. /\ UNCHANGED <<session, events, req>> /\ (UNCHANGED vars \/ StockStep)
  BY DEF SagaStock, sagaVars, allVars
<1>2. [ShippedNext]_vars
  BY <1>1 DEF ShippedNext
<1>3. \A q \in Payments \ Ended : Live(q) => Live(q)'
  BY <1>1, StockKeepsLive
<1>4. /\ \A q \in Ended \cap Payments : session[q] \in {"none", "closed"}
                                     \/ (session[q] = "charged" /\ Settles(q)')
      /\ \A q \in Requests : req'[q].pc \in {"calling", "rejecting"} => req[q].pay \notin Ended
  OBVIOUS
<1> HIDE DEF Ended
<1> QED
  BY <1>1, <1>2, <1>3, <1>4, ChargeFrame

LEMMA ChargeInductive ==
  ASSUME ChargeAssumptions
  PROVE  Consistent /\ ChargeInv /\ [SagaNext]_allVars => ChargeInv'
<1> SUFFICES ASSUME Consistent, ChargeInv, [SagaNext]_allVars PROVE ChargeInv'
  OBVIOUS
<1>1. ASSUME NEW r \in Requests, NEW o \in Orders, NEW p \in Payments,
             StartCreate(r, o, p) \/ StartPay(r, o, p) \/ ResumePay(r, o, p)
      PROVE  ChargeInv'
  <2>1. ~StartPay(r, o, p) /\ ~ResumePay(r, o, p)
    BY DEF StartPay, ResumePay, Begin, ChargeAssumptions
  <2> QED
    BY <1>1, <2>1, StartCharge
<1>2. ASSUME NEW r \in Requests, RequestStep(r) \/ Crash(r) PROVE ChargeInv'
  <2>1. ~ConfirmRaises(r) /\ ~ConfirmAnswers(r) /\ ~SettleAnswer(r)
    BY DEF ConfirmRaises, ConfirmAnswers, SettleAnswer, ChargeInv, CallsInv
  <2>2. CASE CallSucceeds(r)
    BY <2>2, CallCharge
  <2>3. CASE CallRejected(r)
    <3>1. req[r].pc = "calling" /\ Goto(r, "rejecting") /\ UNCHANGED <<vars, session, events>>
      BY <2>3 DEF CallRejected, ChargeAssumptions
    <3> QED
      BY <3>1, MoveOnCharge
  <2>4. CASE LinkProvider(r)
    <3>1. req[r].kind = "create" /\ req[r].pc = "linking"
      BY <2>4 DEF LinkProvider, ChargeInv, CallsInv
    <3>2. Goto(r, "done") /\ UNCHANGED <<vars, session, events>>
      BY <2>4, <3>1 DEF LinkProvider, externalVars
    <3> QED
      BY <3>1, <3>2, MoveOnCharge
  <2>5. CASE RejectAttempt(r)
    BY <2>5, RejectCharge
  <2>6. CASE Crash(r)
    <3>1. req[r].pc # "idle" /\ Goto(r, "done") /\ UNCHANGED <<vars, session, events>>
      BY <2>6 DEF Crash, Running, externalVars
    <3> QED
      BY <3>1, MoveOnCharge
  <2> QED
    BY <1>2, <2>1, <2>2, <2>3, <2>4, <2>5, <2>6 DEF RequestStep
<1>3. ASSUME NEW p \in Payments, StripeStep(p) PROVE ChargeInv'
  BY <1>3, AnnounceCharge
  DEF StripeStep, CustomerPays, CustomerPaysLater, AsyncPaymentSucceeds, AsyncPaymentFails,
      SessionExpires
<1>4. ASSUME NEW e \in events, DeliverEvent(e) PROVE ChargeInv'
  BY <1>4, DeliverCharge
<1> QED
  BY <1>1, <1>2, <1>3, <1>4, StockCharge DEF SagaNext

-----------------------------------------------------------------------------
LEMMA ChargeInit == SagaInit => ChargeInv
<1> SUFFICES ASSUME SagaInit PROVE ChargeInv
  OBVIOUS
<1>1. /\ \A p \in Payments : session[p] = "none"
      /\ \A r \in Requests : req[r].pc = "idle"
      /\ events = {}
  BY DEF SagaInit
<1> QED
  BY <1>1 DEF ChargeInv, SessionsInv, CallsInv, EventsInv

LEMMA ChargeInvariant ==
  ASSUME ChargeAssumptions PROVE SagaSafety => [](Consistent /\ ChargeInv /\ OneSettlement)
<1>1. Consistent /\ ChargeInv /\ [SagaNext]_allVars => ChargeInv'
  BY ChargeInductive
<1>2. Consistent /\ [SagaNext]_allVars => Consistent'
  BY SagaInvInductive, SagaStepIsTransaction, InvInductive DEF Consistent, IInv
<1>3. SagaInit => Consistent /\ ChargeInv
  BY ChargeInit, SagaInvInit, InvInit DEF SagaInit, Consistent
<1>4. SagaSafety => []OneSettlement
  BY SagaSettledOnce DEF ChargeAssumptions
<1> QED
  BY <1>1, <1>2, <1>3, <1>4, PTL DEF SagaSafety

\* Whoever can be charged holds the authority over a complete reservation.
THEOREM ChargeableHasKeys ==
  ASSUME ChargeAssumptions PROVE SagaSafety => []ChargeableIsReserved
<1>1. Consistent /\ ChargeInv => ChargeableIsReserved
  <2> SUFFICES ASSUME Consistent, ChargeInv, NEW p \in Payments, Chargeable(p)
               PROVE  Authorised(p) /\ HasReservation(payOrder[p])
    BY DEF ChargeableIsReserved
  <2>1. Live(p)
    BY DEF Chargeable, ChargeInv, SessionsInv
  <2> DEFINE o == payOrder[p]
  <2>2. o \in Orders /\ authority[o] # Nobody /\ o \in ItemisedOrders /\ OrderInv(o)
    BY <2>1, NobodyAssumption DEF Live, ItemisedOrders, ChargeAssumptions, Consistent, IInv
  <2>3. HasReservation(o)
    BY <2>1, <2>2 DEF OrderInv, HasReservation, Live
  <2> QED
    BY <2>1, <2>3 DEF Authorised, Live
<1> QED
  BY <1>1, ChargeInvariant, PTL

\* No purchase is ever charged twice.
THEOREM ChargedOnlyOnce ==
  ASSUME ChargeAssumptions PROVE SagaSafety => []ChargedOnce
<1>1. Consistent /\ ChargeInv /\ OneSettlement => ChargedOnce
  <2> SUFFICES ASSUME ChargeInv, OneSettlement, NEW p \in Payments, NEW q \in Payments,
                      session[p] = "charged", session[q] = "charged", payOrder[p] = payOrder[q]
               PROVE  p = q
    BY DEF ChargedOnce
  <2>1. (Live(p) \/ Settles(p)) /\ (Live(q) \/ Settles(q))
    BY DEF ChargeInv, SessionsInv
  <2>2. CASE Live(p) /\ Live(q)
    BY <2>2 DEF Live
  <2>3. CASE Settles(p) /\ Settles(q)
    BY <2>3 DEF Settles, Bought, OneSettlement, TerminalStatuses
  <2>4. ~(Live(p) /\ Settles(q)) /\ ~(Settles(p) /\ Live(q))
    BY DEF Live, Settles, Bought
  <2> QED
    BY <2>1, <2>2, <2>3, <2>4
<1> QED
  BY <1>1, ChargeInvariant, PTL

\* Sessions change outside every transaction of the shop.
LEMMA SessionsMoveAlone ==
  ASSUME [SagaNext]_allVars PROVE UNCHANGED session \/ UNCHANGED vars
BY DEF SagaNext, allVars, sagaVars, SagaStock, StartCreate, StartPay, ResumePay, externalVars,
       RequestStep, Crash, CallSucceeds, CallRejected, LinkProvider, RejectAttempt,
       ConfirmRaises, ConfirmAnswers, SettleAnswer, StripeStep, CustomerPays, DeliverEvent,
       CustomerPaysLater, AsyncPaymentSucceeds, AsyncPaymentFails, SessionExpires, Announce

\* Keys are not taken from a checkout that can still succeed.
THEOREM OpenCheckoutsKeepKeys ==
  ASSUME ChargeAssumptions PROVE SagaSafety => ReleasedOnlyWhenClosed
<1>1. Consistent /\ ChargeInv /\ [SagaNext]_allVars =>
        [\A p \in Payments :
            Authorised(p) /\ session[p] \in {"open", "processing"} => Authorised(p)']_allVars
  <2> SUFFICES ASSUME Consistent, ChargeInv, [SagaNext]_allVars, NEW p \in Payments,
                      Authorised(p), session[p] \in {"open", "processing"}
               PROVE  Authorised(p)'
    OBVIOUS
  <2>1. CASE UNCHANGED vars
    BY <2>1 DEF Authorised, vars
  <2>2. CASE UNCHANGED session
    BY <2>2, ChargeInductive DEF ChargeInv, SessionsInv, Live, Authorised
  <2> QED
    BY <2>1, <2>2, SessionsMoveAlone
<1> QED
  BY <1>1, ChargeInvariant, PTL DEF SagaSafety, ReleasedOnlyWhenClosed

=============================================================================
