------------------------- MODULE AdminConsole_proofs -------------------------
(***************************************************************************)
(* What stale forms cannot do: take a delivered key from its order.  While *)
(* one form at a time is in flight, an order that is set back to unpaid    *)
(* still has sold keys, which no transaction releases; and a key that is   *)
(* set back belongs to an order that is still paid.  And what they can do: *)
(* break the orders whose rows they have overwritten, and no other.        *)
(***************************************************************************)
EXTENDS AdminConsole, OrderReservation_proofs

-----------------------------------------------------------------------------
LEMMA AdminTypeInductive == AdminTypeOK /\ [AdminNext]_adminVars => AdminTypeOK'
<1> SUFFICES ASSUME AdminTypeOK, [AdminNext]_adminVars PROVE AdminTypeOK'
  OBVIOUS
<1> USE NobodyAssumption, RowsAssumption
<1>1. CASE UNCHANGED adminVars
  BY <1>1 DEF adminVars, vars, AdminTypeOK, TypeOK
<1>2. CASE ShopStep
  <2>1. TypeOK'
    BY <1>2, TypeInductive DEF ShopStep, AdminTypeOK, Next
  <2>2. delivered' \in [Orders -> SUBSET Keys]
    BY <1>2 DEF ShopStep, AdminTypeOK
  <2> QED
    BY <1>2, <2>1, <2>2 DEF ShopStep, formVars, AdminTypeOK
<1>3. ASSUME NEW k \in Keys, OpenKeyForm(k) PROVE AdminTypeOK'
  BY <1>3 DEF OpenKeyForm, AdminTypeOK, TypeOK, vars
<1>4. ASSUME NEW k \in Keys, SaveKeyForm(k) PROVE AdminTypeOK'
  <2>1. form.status \in KeyStatuses
    BY <1>4 DEF SaveKeyForm, AdminTypeOK, NoForm
  <2> QED
    BY <1>4, <2>1 DEF SaveKeyForm, AdminTypeOK, TypeOK, orderVars, payVars, Rows
<1>5. ASSUME NEW p \in Payments, OpenPaymentForm(p) PROVE AdminTypeOK'
  BY <1>5 DEF OpenPaymentForm, AdminTypeOK, TypeOK, vars
<1>6. ASSUME NEW p \in Payments, SavePaymentForm(p) PROVE AdminTypeOK'
  <2>1. form.status \in PaymentStatuses
    BY <1>6 DEF SavePaymentForm, AdminTypeOK, NoForm
  <2> QED
    BY <1>6, <2>1 DEF SavePaymentForm, AdminTypeOK, TypeOK, orderVars, keyVars, Rows
<1>7. ASSUME NEW o \in Orders, OpenOrderForm(o) PROVE AdminTypeOK'
  BY <1>7 DEF OpenOrderForm, AdminTypeOK, TypeOK, vars
<1>8. ASSUME NEW o \in Orders, SaveOrderForm(o) PROVE AdminTypeOK'
  <2>1. form.status \in {"CREATED", "PAID"} /\ form.licenseKey \in Keys \cup {Nobody}
    BY <1>8 DEF SaveOrderForm, AdminTypeOK, NoForm
  <2> QED
    BY <1>8, <2>1 DEF SaveOrderForm, AdminTypeOK, TypeOK, payVars, keyVars, Rows
<1>9. CASE AbandonForm
  BY <1>9 DEF AbandonForm, AdminTypeOK, TypeOK, vars
<1>10. CASE ImportStep
  BY <1>10 DEF ImportStep, ReadFile, InsertKeys, AdminTypeOK, TypeOK, vars, orderVars, payVars,
              KeyStatuses
<1> QED
  BY <1>1, <1>2, <1>3, <1>4, <1>5, <1>6, <1>7, <1>8, <1>9, <1>10 DEF AdminNext, FormStep

LEMMA AdminTypeInit == AdminInit => AdminTypeOK
  BY InvInit DEF AdminInit, AdminTypeOK, IInv

\* The types of the administration's state, whatever forms overwrite.
THEOREM AdminTyped == AdminSpec => []AdminTypeOK
  BY AdminTypeInit, AdminTypeInductive, PTL DEF AdminSpec

-----------------------------------------------------------------------------
\* An order that is unpaid, or that a form in flight sets back to unpaid.
Exposed(o) == orderStatus[o] # "PAID" \/ (form.row = o /\ form.status # "PAID")

\* Its keys are sold, and no form in flight says otherwise.
AllSold(o) ==
    \A k \in Held(o) : keyStatus[k] = "SOLD" /\ (form.row = k => form.status = "SOLD")

DeliveryInv ==
    \A o \in ItemisedOrders :
        /\ delivered[o] \subseteq Held(o)
        /\ delivered[o] # {} /\ Exposed(o) => AllSold(o)

AdminInv == AdminTypeOK /\ DeliveryInv

\* Keys change, if at all, from the stock or within an order.
KeysMoveWithin(x) ==
    \/ UNCHANGED <<keyStatus, assignedTo>>
    \/ \E S \in SUBSET Keys :
          /\ \A k \in S : assignedTo[k] \in {x, Nobody}
          /\ \E status : AssignKeys(S, x, status)

\* No transaction of the shop takes a delivered key.
LEMMA ShopKeepsDeliveries ==
  ASSUME AdminInv, NEW o \in ItemisedOrders, delivered[o] # {}, ShippedNext
  PROVE  /\ Held(o)' = Held(o)
         /\ orderStatus'[o] = orderStatus[o]
         /\ Exposed(o) => \A k \in Held(o) : keyStatus'[k] = keyStatus[k]
<1> DEFINE Goal == /\ Held(o)' = Held(o)
                   /\ orderStatus'[o] = orderStatus[o]
                   /\ Exposed(o) => \A k \in Held(o) : keyStatus'[k] = keyStatus[k]
<1> USE NobodyAssumption
<1>1. /\ TypeOK /\ Held(o) # {} /\ o \in Orders
      /\ orderStatus[o] # "PAID" => Held(o) # {} /\ ~HasReservation(o)
      /\ Exposed(o) => \A k \in Held(o) : keyStatus[k] = "SOLD"
  BY DEF AdminInv, AdminTypeOK, DeliveryInv, ItemisedOrders, Exposed, AllSold, HasReservation
<1>2. ASSUME NEW k \in Keys, ImportKey(k) \/ DeleteKey(k) PROVE Goal
  <2>1. UNCHANGED <<orderStatus, assignedTo>>
    BY <1>2 DEF ImportKey, DeleteKey, orderVars
  <2>2. Held(o)' = Held(o)
    BY <2>1 DEF Held
  <2>3. Exposed(o) => k \notin Held(o)
    BY <1>1, <1>2 DEF ImportKey, DeleteKey, Held
  <2>4. \A x \in Keys \ {k} : keyStatus'[x] = keyStatus[x]
    BY <1>1, <1>2 DEF ImportKey, DeleteKey, TypeOK
  <2> QED
    BY <2>1, <2>2, <2>3, <2>4 DEF Held
<1>3. ASSUME NEW x \in Orders \ {o},
             KeysMoveWithin(x),
             orderStatus'[o] = orderStatus[o]
      PROVE  Goal
  <2>1. \A k \in Held(o) : assignedTo'[k] = o /\ keyStatus'[k] = keyStatus[k]
    BY <1>1, <1>3 DEF KeysMoveWithin, AssignKeys, Held, TypeOK
  <2>2. \A k \in Keys : assignedTo'[k] = o => assignedTo[k] = o
    BY <1>1, <1>3 DEF KeysMoveWithin, AssignKeys
  <2> QED
    BY <1>3, <2>1, <2>2 DEF Held
<1>4. ASSUME NEW x \in Orders, NEW p \in Payments, NewAttempt(x, p) \/ ResumeAttempt(x, p) PROVE Goal
  <2>1. EstablishReservation(x, p)
    BY <1>4 DEF NewAttempt, ResumeAttempt
  <2>2. ReserveKeys(x) /\ orderStatus' = orderStatus /\ orderStatus[x] # "PAID"
    BY <2>1 DEF EstablishReservation, Payable
  <2>3. x # o
    BY <1>1, <2>2 DEF ReserveKeys
  <2>4. KeysMoveWithin(x)
    BY <2>2 DEF ReserveKeys, KeysMoveWithin, keyVars, FreeKeys
  <2> QED
    BY <1>3, <2>2, <2>3, <2>4
<1>5. ASSUME NEW x \in Orders, NEW p \in Payments, NEW status \in TerminalStatuses,
             TerminatePayment(x, p, status)
      PROVE  Goal
  <2>1. orderStatus' = orderStatus
    BY <1>5 DEF TerminatePayment
  <2>2. CASE UNCHANGED <<keyStatus, assignedTo>>
    BY <2>1, <2>2 DEF Held
  <2>3. CASE ReleaseReservation(x) /\ MayRelease(x, p)
    <3>1. x # o
      BY <1>1, <2>3 DEF ReleaseReservation, MayRelease
    <3>2. \A k \in Held(o) : assignedTo'[k] = o /\ keyStatus'[k] = keyStatus[k]
      BY <1>1, <2>3, <3>1 DEF ReleaseReservation, Held, TypeOK
    <3>3. \A k \in Keys : assignedTo'[k] = o => assignedTo[k] = o
      BY <1>1, <2>3 DEF ReleaseReservation
    <3> QED
      BY <2>1, <3>2, <3>3 DEF Held
  <2> QED
    BY <1>5, <2>2, <2>3 DEF TerminatePayment, keyVars
<1>6. ASSUME NEW x \in Orders, NEW p \in Payments, RejectLegacyAttempt(x, p) PROVE Goal
  <2>1. x # o /\ orderStatus' = orderStatus
    BY <1>6 DEF RejectLegacyAttempt, ItemisedOrders
  <2>2. /\ \A k \in Held(o) : assignedTo'[k] = o /\ keyStatus'[k] = keyStatus[k]
        /\ \A k \in Keys : assignedTo'[k] = o => assignedTo[k] = o
    BY <1>1, <1>6, <2>1 DEF RejectLegacyAttempt, ReleaseReservation, Held, TypeOK
  <2> QED
    BY <2>1, <2>2 DEF Held
<1>7. ASSUME NEW x \in Orders, NEW p \in Payments, CompletePayment(x, p) PROVE Goal
  <2>1. PICK S \in SUBSET Keys : SellKeys(x, S)
    BY <1>7 DEF CompletePayment
  <2>2. orderStatus[x] # "PAID"
    BY <1>7 DEF CompletePayment, MayComplete, Payable
  <2>3. x # o
    BY <1>1, <2>1, <2>2 DEF SellKeys
  <2>4. orderStatus'[o] = orderStatus[o]
    BY <1>1, <1>7, <2>3 DEF CompletePayment, TypeOK
  <2>5. \E status : AssignKeys(S, x, status) /\ \A k \in S : assignedTo[k] \in {x, Nobody}
    BY <2>1 DEF SellKeys, Held, FreeKeys
  <2> QED
    BY <1>3, <2>3, <2>4, <2>5 DEF KeysMoveWithin
<1> QED
  BY <1>2, <1>4, <1>5, <1>6, <1>7 DEF ShippedNext, StockStep, OrderStep

\* What a sale delivers is sold.
LEMMA SaleSells ==
  ASSUME TypeOK, ShippedNext, NEW o \in Orders, orderStatus[o] # "PAID", orderStatus'[o] = "PAID"
  PROVE  \A k \in Keys : assignedTo'[k] = o => keyStatus'[k] = "SOLD"
<1>1. ~StockStep
  BY DEF StockStep, ImportKey, DeleteKey, orderVars
<1>2. PICK x \in Orders, p \in Payments :
         \/ NewAttempt(x, p) \/ ResumeAttempt(x, p)
         \/ \E status \in TerminalStatuses : TerminatePayment(x, p, status)
         \/ RejectLegacyAttempt(x, p)
         \/ CompletePayment(x, p)
  BY <1>1 DEF ShippedNext, OrderStep
<1>3. CompletePayment(x, p)
  BY <1>2 DEF NewAttempt, ResumeAttempt, EstablishReservation, TerminatePayment, RejectLegacyAttempt
<1>4. x = o
  BY <1>3 DEF CompletePayment, TypeOK
<1>5. PICK S \in SUBSET Keys : SellKeys(o, S)
  BY <1>3, <1>4 DEF CompletePayment
<1>6. AssignKeys(S, o, "SOLD") /\ Held(o) \subseteq S
  BY <1>5 DEF SellKeys
<1> QED
  BY <1>6 DEF AssignKeys, Held

LEMMA DeliveryInductive == AdminInv /\ [AdminNext]_adminVars => DeliveryInv'
<1> SUFFICES ASSUME AdminInv, [AdminNext]_adminVars, NEW o \in ItemisedOrders
             PROVE  /\ delivered'[o] \subseteq Held(o)'
                    /\ delivered'[o] # {} /\ Exposed(o)' => AllSold(o)'
  BY DEF DeliveryInv
<1> DEFINE Goal == /\ delivered'[o] \subseteq Held(o)'
                   /\ delivered'[o] # {} /\ Exposed(o)' => AllSold(o)'
<1> USE NobodyAssumption, RowsAssumption
<1>0. /\ TypeOK /\ o \in Orders /\ AdminTypeOK
      /\ delivered[o] \subseteq Held(o)
      /\ delivered[o] # {} /\ Exposed(o) => AllSold(o)
  BY DEF AdminInv, AdminTypeOK, DeliveryInv, ItemisedOrders
<1>1. ASSUME UNCHANGED <<orderStatus, keyStatus, assignedTo, delivered>>, UNCHANGED form \/ form' = NoForm
      PROVE  Goal
  BY <1>0, <1>1 DEF Held, Exposed, AllSold, NoForm
<1>2. CASE UNCHANGED adminVars
  BY <1>1, <1>2 DEF adminVars, vars
<1>3. CASE ShopStep
  <2>1. ShippedNext /\ form' = form
    BY <1>3 DEF ShopStep, formVars
  <2>2. CASE delivered[o] # {}
    <3>1. /\ Held(o)' = Held(o) /\ orderStatus'[o] = orderStatus[o]
          /\ Exposed(o) => \A k \in Held(o) : keyStatus'[k] = keyStatus[k]
      BY <2>1, <2>2, ShopKeepsDeliveries
    <3>2. delivered'[o] = delivered[o]
      BY <1>0, <1>3, <3>1 DEF ShopStep
    <3> QED
      BY <1>0, <2>1, <3>1, <3>2 DEF Exposed, AllSold
  <2>3. CASE delivered[o] = {} /\ orderStatus[o] # "PAID" /\ orderStatus'[o] = "PAID"
    <3>1. delivered'[o] = Held(o)'
      BY <1>0, <1>3, <2>3 DEF ShopStep, Held
    <3>2. \A k \in Held(o)' : keyStatus'[k] = "SOLD"
      BY <1>0, <2>1, <2>3, SaleSells DEF Held
    <3>3. Exposed(o)' => form'.row = o
      BY <2>3 DEF Exposed
    <3> QED
      BY <1>0, <3>1, <3>2, <3>3 DEF AllSold, Held
  <2>4. CASE delivered[o] = {} /\ ~(orderStatus[o] # "PAID" /\ orderStatus'[o] = "PAID")
    BY <1>0, <1>3, <2>4 DEF ShopStep
  <2> QED
    BY <2>2, <2>3, <2>4
<1>4. ASSUME NEW k \in Keys, OpenKeyForm(k) PROVE Goal
  <2>1. /\ UNCHANGED <<orderStatus, keyStatus, assignedTo, delivered>>
        /\ form'.row = k /\ form'.status = keyStatus[k]
    BY <1>4 DEF OpenKeyForm, vars
  <2>2. Exposed(o)' => Exposed(o)
    BY <1>0, <2>1 DEF Exposed
  <2> QED
    BY <1>0, <2>1, <2>2 DEF Held, AllSold
<1>5. ASSUME NEW k \in Keys, SaveKeyForm(k) PROVE Goal
  <2>1. /\ UNCHANGED <<orderStatus, assignedTo, delivered>>
        /\ form.row = k /\ form'.row = Nobody
        /\ keyStatus' = [keyStatus EXCEPT ![k] = form.status]
    BY <1>5 DEF SaveKeyForm, orderVars, NoForm
  <2>2. Exposed(o)' => Exposed(o)
    BY <1>0, <2>1 DEF Exposed
  <2> QED
    BY <1>0, <2>1, <2>2 DEF Held, AllSold, TypeOK
<1>6. ASSUME NEW p \in Payments, OpenPaymentForm(p) PROVE Goal
  <2>1. /\ UNCHANGED <<orderStatus, keyStatus, assignedTo, delivered>> /\ form'.row = p
    BY <1>6 DEF OpenPaymentForm, vars
  <2> QED
    BY <1>0, <2>1 DEF Held, Exposed, AllSold
<1>7. ASSUME NEW p \in Payments, SavePaymentForm(p) PROVE Goal
  BY <1>1, <1>7 DEF SavePaymentForm, orderVars, keyVars
<1>8. ASSUME NEW x \in Orders, OpenOrderForm(x) PROVE Goal
  <2>1. /\ UNCHANGED <<orderStatus, keyStatus, assignedTo, delivered>>
        /\ form'.row = x /\ form'.status = orderStatus[x]
    BY <1>8 DEF OpenOrderForm, vars
  <2>2. Exposed(o)' => Exposed(o)
    BY <2>1 DEF Exposed
  <2> QED
    BY <1>0, <2>1, <2>2 DEF Held, AllSold
<1>9. ASSUME NEW x \in Orders, SaveOrderForm(x) PROVE Goal
  <2>1. /\ UNCHANGED <<keyStatus, assignedTo, delivered>>
        /\ form.row = x /\ form'.row = Nobody
        /\ orderStatus' = [orderStatus EXCEPT ![x] = form.status]
    BY <1>9 DEF SaveOrderForm, keyVars, NoForm
  <2>2. Exposed(o)' => Exposed(o)
    BY <1>0, <2>1 DEF Exposed, TypeOK
  <2> QED
    BY <1>0, <2>1, <2>2 DEF Held, AllSold
<1>10. CASE AbandonForm
  BY <1>1, <1>10 DEF AbandonForm, vars
<1>11. CASE ImportStep
  <2>1. UNCHANGED <<orderStatus, assignedTo, delivered, form>>
    BY <1>11 DEF ImportStep, ReadFile, InsertKeys, vars, orderVars
  <2>2. \A k \in Keys : keyStatus[k] = "SOLD" => keyStatus'[k] = "SOLD"
    BY <1>0, <1>11 DEF ImportStep, ReadFile, InsertKeys, vars, TypeOK
  <2> QED
    BY <1>0, <2>1, <2>2 DEF Held, Exposed, AllSold
<1> QED
  BY <1>2, <1>3, <1>4, <1>5, <1>6, <1>7, <1>8, <1>9, <1>10, <1>11 DEF AdminNext, FormStep

\* Whatever stale forms set back, a customer keeps every key of a paid order.
THEOREM DeliveriesStay == AdminSpec => []DeliveredKeysStay
<1>1. AdminInit => AdminInv
  BY AdminTypeInit DEF AdminInit, AdminInv, DeliveryInv, ItemisedOrders
<1>2. AdminInv /\ [AdminNext]_adminVars => AdminInv'
  BY AdminTypeInductive, DeliveryInductive DEF AdminInv
<1>3. AdminInv => DeliveredKeysStay
  BY DEF AdminInv, DeliveryInv, DeliveredKeysStay
<1> QED
  BY <1>1, <1>2, <1>3, PTL DEF AdminSpec

-----------------------------------------------------------------------------
(***************************************************************************)
(* DamageIsContained.  A key that a form has set back may be released or   *)
(* set right again, so the invariant speaks of orders whose own row and    *)
(* payments are intact, and of the status of their intact keys alone.      *)
(***************************************************************************)
Intact(o) == overwritten \cap ({o} \cup {p \in Payments : payOrder[p] = o}) = {}

\* Order, authority and assignments agree.
Backed(o) ==
    IF orderStatus[o] = "PAID"
    THEN authority[o] = Nobody /\ Held(o) # {} /\ Covers(Held(o), o)
    ELSE IF authority[o] = Nobody
         THEN Held(o) = {}
         ELSE authority[o] \in ActiveAttempts(o) /\ Held(o) # {} /\ Covers(Held(o), o)

Marked(o) ==
    \A k \in Held(o) \ overwritten :
        keyStatus[k] = IF orderStatus[o] = "PAID" THEN "SOLD" ELSE "RESERVED"

\* A payment belongs to an order from its creation on.
PaymentsExist ==
    /\ \A p \in Payments : payOrder[p] # Nobody => payStatus[p] # "ABSENT"
    /\ form.row \in Payments => form.status # "ABSENT"

ContainInv ==
    /\ AdminTypeOK
    /\ PaymentsExist
    /\ \A o \in ItemisedOrders : Intact(o) => Backed(o) /\ Marked(o)

LEMMA ContainInvImplies == ContainInv => DamageIsContained
<1> SUFFICES ASSUME ContainInv, NEW o \in ItemisedOrders, Untouched(o) PROVE Sound(o)
  BY DEF DamageIsContained
<1>1. Backed(o) /\ Marked(o) /\ Held(o) \cap overwritten = {}
  BY DEF ContainInv, Untouched, Intact
<1> QED
  BY <1>1 DEF Backed, Marked, Sound, HasReservation

\* What no row of an order and no intact key of it takes part in.
LEMMA StaysBacked ==
  ASSUME NEW o, Backed(o), Marked(o), overwritten \subseteq overwritten',
         Held(o)' = Held(o), orderStatus'[o] = orderStatus[o], authority'[o] = authority[o],
         authority[o] \in ActiveAttempts(o) => authority[o] \in ActiveAttempts(o)',
         \A k \in Held(o) \ overwritten' : keyStatus'[k] = keyStatus[k]
  PROVE  Backed(o)' /\ Marked(o)'
<1>1. Covers(Held(o), o)' <=> Covers(Held(o), o)
  BY CoversStep
<1> QED
  BY <1>1 DEF Backed, Marked

\* Transactions of the order itself.
LEMMA OwnStepsKeepBacked ==
  ASSUME TypeOK, PaymentsExist, NEW o \in ItemisedOrders, Backed(o), Marked(o),
         overwritten' = overwritten, OrderStep(o)
  PROVE  Backed(o)' /\ Marked(o)'
<1> USE NobodyAssumption
<1>0. o \in Orders
  BY DEF ItemisedOrders
<1>1. PICK p \in Payments :
         \/ NewAttempt(o, p) \/ ResumeAttempt(o, p)
         \/ \E status \in TerminalStatuses : TerminatePayment(o, p, status)
         \/ RejectLegacyAttempt(o, p)
         \/ CompletePayment(o, p)
  BY DEF OrderStep
<1>2. CASE NewAttempt(o, p) \/ ResumeAttempt(o, p)
  <2>1. /\ EstablishReservation(o, p) /\ orderStatus[o] # "PAID"
        /\ orderStatus' = orderStatus /\ authority'[o] = p
    BY <1>0, <1>2 DEF NewAttempt, ResumeAttempt, EstablishReservation, Payable, TypeOK
  <2>2. p \in ActiveAttempts(o)'
    BY <1>0, <1>2 DEF NewAttempt, ResumeAttempt, ActiveAttempts, ActiveStatuses, payVars, TypeOK
  <2>3. CASE HasReservation(o) /\ UNCHANGED keyVars
    <3>1. Held(o)' = Held(o) /\ \A k \in Held(o) : keyStatus'[k] = "RESERVED"
      BY <2>3 DEF HasReservation, keyVars, Held
    <3>2. Covers(Held(o), o)' /\ Held(o)' # {}
      BY <2>3, <3>1, CoversStep DEF HasReservation
    <3> QED
      BY <1>0, <2>1, <2>2, <3>1, <3>2 DEF Backed, Marked
  <2>4. CASE Held(o) = {} /\ \E S \in SUBSET FreeKeys : Covers(S, o) /\ AssignKeys(S, o, "RESERVED")
    <3>1. PICK S \in SUBSET FreeKeys : Covers(S, o) /\ AssignKeys(S, o, "RESERVED")
      BY <2>4
    <3>2. Held(o)' = S /\ \A k \in S : keyStatus'[k] = "RESERVED"
      BY <1>0, <2>4, <3>1, AssignedHeld DEF FreeKeys, AssignKeys
    <3>3. S # {}
      <4>1. PICK r \in Products : Quantity[o][r] > 0
        BY <2>1 DEF EstablishReservation, HasItems
      <4>2. Cardinality({k \in S : KeyProduct[k] = r}) > 0
        BY <3>1, <4>1 DEF Covers
      <4> QED
        BY <4>2, FS_EmptySet
    <3>4. Covers(Held(o), o)'
      BY <3>1, <3>2 DEF Covers
    <3> QED
      BY <1>0, <2>1, <2>2, <3>2, <3>3, <3>4 DEF Backed, Marked
  <2> QED
    BY <2>1, <2>3, <2>4 DEF EstablishReservation, ReserveKeys
<1>3. ASSUME NEW status \in TerminalStatuses, TerminatePayment(o, p, status)
      PROVE  Backed(o)' /\ Marked(o)'
  <2>1. orderStatus' = orderStatus
    BY <1>3 DEF TerminatePayment
  <2>2. CASE MayRelease(o, p)
    <3>1. Held(o)' = {} /\ authority'[o] = Nobody /\ orderStatus[o] # "PAID"
      BY <1>0, <1>3, <2>2, ReleasedHeld DEF TerminatePayment, ReleaseReservation, MayRelease, TypeOK
    <3> QED
      BY <2>1, <3>1 DEF Backed, Marked
  <2>3. CASE ~MayRelease(o, p)
    <3>1. UNCHANGED <<keyStatus, assignedTo, authority, payOrder>>
          /\ payStatus' = [payStatus EXCEPT ![p] = status]
      BY <1>3, <2>3 DEF TerminatePayment, keyVars
    <3>2. authority[o] # p
      BY <2>3 DEF MayRelease, Backed
    <3>3. authority[o] \in ActiveAttempts(o) => authority[o] \in ActiveAttempts(o)'
      BY <3>1, <3>2 DEF ActiveAttempts, TypeOK
    <3>4. Held(o)' = Held(o)
      BY <3>1 DEF Held
    <3> QED
      BY <2>1, <3>1, <3>3, <3>4, StaysBacked
  <2> QED
    BY <2>2, <2>3
<1>4. CASE RejectLegacyAttempt(o, p)
  BY <1>4 DEF RejectLegacyAttempt, ItemisedOrders
<1>5. CASE CompletePayment(o, p)
  <2>1. PICK S \in SUBSET Keys : SellKeys(o, S) /\ S # {}
    BY <1>5 DEF CompletePayment
  <2>2. orderStatus'[o] = "PAID" /\ authority'[o] = Nobody
    BY <1>0, <1>5 DEF CompletePayment, TypeOK
  <2>3. /\ Held(o) \subseteq S /\ \A k \in S : assignedTo[k] \in {o, Nobody}
        /\ Covers(S, o) /\ AssignKeys(S, o, "SOLD")
    BY <2>1 DEF SellKeys, HasReservation, FreeKeys, Held
  <2>4. Held(o)' = S /\ \A k \in S : keyStatus'[k] = "SOLD"
    BY <1>0, <2>3, AssignedHeld DEF AssignKeys
  <2>5. Covers(Held(o), o)'
    BY <2>3, <2>4 DEF Covers
  <2> QED
    BY <2>1, <2>2, <2>4, <2>5 DEF Backed, Marked
<1> QED
  BY <1>1, <1>2, <1>3, <1>4, <1>5

\* Transactions of other orders, and of the stock.
LEMMA OtherStepsKeepBacked ==
  ASSUME TypeOK, NEW o \in ItemisedOrders, Backed(o), Marked(o),
         overwritten' = overwritten, StockStep \/ \E x \in Orders \ {o} : OrderStep(x)
  PROVE  Backed(o)' /\ Marked(o)'
<1> USE NobodyAssumption
<1> DEFINE Apart == /\ Held(o)' = Held(o)
                    /\ orderStatus'[o] = orderStatus[o] /\ authority'[o] = authority[o]
                    /\ authority[o] \in ActiveAttempts(o) => authority[o] \in ActiveAttempts(o)'
                    /\ \A k \in Held(o) \ overwritten : keyStatus'[k] = keyStatus[k]
<1>0. o \in Orders
  BY DEF ItemisedOrders
<1>1. ASSUME NEW k \in Keys, ImportKey(k) \/ DeleteKey(k) PROVE Apart
  <2>1. UNCHANGED <<orderVars, payVars, assignedTo>>
    BY <1>1 DEF ImportKey, DeleteKey
  <2>2. \A x \in Held(o) \ overwritten : keyStatus'[x] = keyStatus[x]
    BY <1>0, <1>1 DEF ImportKey, DeleteKey, Held, Marked, TypeOK
  <2> QED
    BY <2>1, <2>2 DEF orderVars, payVars, Held, ActiveAttempts
<1>2. ASSUME NEW x \in Orders \ {o}, OrderStep(x) PROVE Apart
  <2>1. PICK p \in Payments :
           \/ NewAttempt(x, p) \/ ResumeAttempt(x, p)
           \/ \E status \in TerminalStatuses : TerminatePayment(x, p, status)
           \/ RejectLegacyAttempt(x, p)
           \/ CompletePayment(x, p)
    BY <1>2 DEF OrderStep
  <2>2. orderStatus'[o] = orderStatus[o] /\ authority'[o] = authority[o]
    BY <1>0, <2>1 DEF NewAttempt, ResumeAttempt, EstablishReservation, TerminatePayment,
       RejectLegacyAttempt, CompletePayment, TypeOK
  <2>3. authority[o] \in ActiveAttempts(o) => authority[o] \in ActiveAttempts(o)'
    <3>1. payOrder[p] = x \/ payStatus[p] = "ABSENT"
      BY <2>1 DEF NewAttempt, ResumeAttempt, ActiveAttempts, TerminatePayment,
         RejectLegacyAttempt, CompletePayment
    <3>2. \A q \in Payments \ {p} : payOrder'[q] = payOrder[q] /\ payStatus'[q] = payStatus[q]
      BY <2>1 DEF NewAttempt, ResumeAttempt, payVars, TerminatePayment, RejectLegacyAttempt,
         CompletePayment, TypeOK
    <3> QED
      BY <3>1, <3>2 DEF ActiveAttempts, ActiveStatuses
  <2>4. KeysMoveWithin(x) \/ ReleaseReservation(x)
        \/ (/\ assignedTo' = [k \in Keys |-> IF k \in Held(x) THEN Nobody ELSE assignedTo[k]]
            /\ keyStatus' = keyStatus)
    <3>1. CASE NewAttempt(x, p) \/ ResumeAttempt(x, p)
      BY <3>1 DEF NewAttempt, ResumeAttempt, EstablishReservation, ReserveKeys, KeysMoveWithin,
         keyVars, FreeKeys
    <3>2. CASE \E status \in TerminalStatuses : TerminatePayment(x, p, status)
      BY <3>2 DEF TerminatePayment, KeysMoveWithin, keyVars
    <3>3. CASE RejectLegacyAttempt(x, p)
      BY <3>3 DEF RejectLegacyAttempt
    <3>4. CASE CompletePayment(x, p)
      BY <3>4 DEF CompletePayment, SellKeys, KeysMoveWithin, Held, FreeKeys
    <3> QED
      BY <2>1, <3>1, <3>2, <3>3, <3>4
  <2>5. Held(o)' = Held(o) /\ \A k \in Held(o) : keyStatus'[k] = keyStatus[k]
    <3>1. CASE KeysMoveWithin(x)
      BY <1>0, <3>1 DEF KeysMoveWithin, AssignKeys, Held, TypeOK
    <3>2. CASE assignedTo' = [k \in Keys |-> IF k \in Held(x) THEN Nobody ELSE assignedTo[k]]
      BY <1>0, <2>4, <3>2 DEF ReleaseReservation, KeysMoveWithin, AssignKeys, Held, TypeOK
    <3> QED
      BY <2>4, <3>1, <3>2 DEF ReleaseReservation
  <2> QED
    BY <2>2, <2>3, <2>5
<1>3. Apart
  BY <1>1, <1>2 DEF StockStep
<1> HIDE DEF Apart
<1> QED
  BY <1>3, StaysBacked DEF Apart

LEMMA PaymentsExistInductive == AdminTypeOK /\ PaymentsExist /\ [AdminNext]_adminVars => PaymentsExist'
<1> SUFFICES ASSUME AdminTypeOK, PaymentsExist, [AdminNext]_adminVars PROVE PaymentsExist'
  OBVIOUS
<1> USE NobodyAssumption, RowsAssumption
<1>1. CASE ShopStep
  <2>1. CASE StockStep
    BY <1>1, <2>1 DEF ShopStep, StockStep, ImportKey, DeleteKey, payVars, formVars, PaymentsExist
  <2>2. ASSUME NEW x \in Orders, NEW p \in Payments,
               \/ NewAttempt(x, p) \/ ResumeAttempt(x, p)
               \/ \E status \in TerminalStatuses : TerminatePayment(x, p, status)
               \/ RejectLegacyAttempt(x, p)
               \/ CompletePayment(x, p)
        PROVE  PaymentsExist'
    BY <1>1, <2>2 DEF ShopStep, formVars, PaymentsExist, NewAttempt, ResumeAttempt, payVars,
       TerminatePayment, TerminalStatuses, RejectLegacyAttempt, CompletePayment, AdminTypeOK, TypeOK
  <2> QED
    BY <1>1, <2>1, <2>2 DEF ShopStep, ShippedNext, OrderStep
<1>2. ASSUME UNCHANGED payVars, form' = form \/ form'.row \notin Payments \/ form'.status # "ABSENT"
      PROVE  PaymentsExist'
  BY <1>2 DEF PaymentsExist, payVars
<1>3. ASSUME NEW p \in Payments, SavePaymentForm(p) PROVE PaymentsExist'
  BY <1>3 DEF SavePaymentForm, PaymentsExist, NoForm, AdminTypeOK, TypeOK
<1>4. CASE FormStep /\ ~(\E p \in Payments : SavePaymentForm(p))
  <2>1. UNCHANGED payVars
    BY <1>4 DEF FormStep, OpenKeyForm, SaveKeyForm, OpenPaymentForm, OpenOrderForm, SaveOrderForm,
       AbandonForm, vars, payVars
  <2>2. form' = form \/ form'.row \notin Payments \/ form'.status # "ABSENT"
    BY <1>4 DEF FormStep, OpenKeyForm, SaveKeyForm, OpenPaymentForm, OpenOrderForm, SaveOrderForm,
       AbandonForm, NoForm
  <2> QED
    BY <1>2, <2>1, <2>2
<1>5. CASE ImportStep \/ UNCHANGED adminVars
  BY <1>2, <1>5 DEF ImportStep, ReadFile, InsertKeys, adminVars, vars, payVars
<1> QED
  BY <1>1, <1>3, <1>4, <1>5 DEF AdminNext

\* An order does not become intact again.
LEMMA IntactBefore ==
  ASSUME ContainInv, [AdminNext]_adminVars, NEW o \in ItemisedOrders, Intact(o)'
  PROVE  Intact(o) /\ overwritten \subseteq overwritten'
<1> USE NobodyAssumption
<1>1. overwritten \subseteq overwritten'
  BY DEF AdminNext, ShopStep, formVars, FormStep, OpenKeyForm, SaveKeyForm, OpenPaymentForm,
     SavePaymentForm, OpenOrderForm, SaveOrderForm, AbandonForm, ImportStep, ReadFile, InsertKeys,
     adminVars
<1>2. \A p \in Payments : payOrder[p] # Nobody => payOrder'[p] = payOrder[p]
  <2>1. CASE ShopStep
    BY <2>1 DEF ShopStep, ShippedNext, StockStep, ImportKey, DeleteKey, payVars, OrderStep,
       NewAttempt, ResumeAttempt, TerminatePayment, RejectLegacyAttempt, CompletePayment,
       ContainInv, PaymentsExist, AdminTypeOK, TypeOK
  <2>2. CASE ~ShopStep
    BY <2>2 DEF AdminNext, FormStep, OpenKeyForm, SaveKeyForm, OpenPaymentForm,
       SavePaymentForm, OpenOrderForm, SaveOrderForm, AbandonForm, ImportStep, ReadFile, InsertKeys,
       adminVars, vars, payVars
  <2> QED
    BY <2>1, <2>2
<1> QED
  BY <1>1, <1>2 DEF Intact, ItemisedOrders

\* What an order that is still intact sees of a form or an import.
LEMMA FormsKeepBacked ==
  ASSUME AdminTypeOK, FormStep \/ ImportStep, NEW o \in ItemisedOrders,
         Backed(o), Marked(o), Intact(o)', overwritten \subseteq overwritten'
  PROVE  Backed(o)' /\ Marked(o)'
<1> USE NobodyAssumption
<1> DEFINE Apart == /\ Held(o)' = Held(o)
                    /\ orderStatus'[o] = orderStatus[o] /\ authority'[o] = authority[o]
                    /\ authority[o] \in ActiveAttempts(o) => authority[o] \in ActiveAttempts(o)'
                    /\ \A k \in Held(o) \ overwritten' : keyStatus'[k] = keyStatus[k]
<1>0. o \in Orders
  BY DEF ItemisedOrders
<1>1. ASSUME UNCHANGED vars PROVE Apart
  BY <1>1 DEF vars, orderVars, payVars, keyVars, Held, ActiveAttempts
<1>2. ASSUME NEW k \in Keys, SaveKeyForm(k) PROVE Apart
  <2>1. UNCHANGED <<orderVars, payVars, assignedTo>>
    BY <1>2 DEF SaveKeyForm
  <2>2. \A x \in Keys \ overwritten' : keyStatus'[x] = keyStatus[x]
    BY <1>2 DEF SaveKeyForm, AdminTypeOK, TypeOK
  <2> QED
    BY <2>1, <2>2 DEF orderVars, payVars, Held, ActiveAttempts
<1>3. ASSUME NEW p \in Payments, SavePaymentForm(p) PROVE Apart
  <2>1. UNCHANGED <<orderVars, keyVars, payOrder>>
    BY <1>3 DEF SavePaymentForm
  <2>2. payOrder[p] = o => payStatus[p] = form.status
    BY <1>3, <2>1 DEF SavePaymentForm, Intact
  <2>3. \A q \in Payments : payOrder[q] = o => payStatus'[q] = payStatus[q]
    BY <1>3, <2>2 DEF SavePaymentForm, AdminTypeOK, TypeOK
  <2> QED
    BY <2>1, <2>3 DEF orderVars, keyVars, Held, ActiveAttempts
<1>4. ASSUME NEW x \in Orders, SaveOrderForm(x) PROVE Apart
  <2>1. UNCHANGED <<payVars, keyVars>>
    BY <1>4 DEF SaveOrderForm
  <2>2. orderStatus'[o] = orderStatus[o] /\ authority'[o] = authority[o]
    BY <1>0, <1>4 DEF SaveOrderForm, Intact, AdminTypeOK, TypeOK
  <2> QED
    BY <2>1, <2>2 DEF payVars, keyVars, Held, ActiveAttempts
<1>5. ASSUME InsertKeys PROVE Apart
  <2>1. UNCHANGED <<orderVars, payVars, assignedTo, overwritten>>
    BY <1>5 DEF InsertKeys
  <2>2. \A k \in Held(o) \ overwritten : keyStatus[k] # "ABSENT"
    BY DEF Marked
  <2>3. \A k \in Keys : keyStatus[k] # "ABSENT" => keyStatus'[k] = keyStatus[k]
    BY <1>5 DEF InsertKeys
  <2> QED
    BY <2>1, <2>2, <2>3 DEF orderVars, payVars, Held, ActiveAttempts
<1>6. Apart
  BY <1>1, <1>2, <1>3, <1>4, <1>5 DEF FormStep, ImportStep, OpenKeyForm, OpenPaymentForm,
     OpenOrderForm, AbandonForm, ReadFile
<1> HIDE DEF Apart
<1> QED
  BY <1>6, StaysBacked DEF Apart

LEMMA ContainInductive == ContainInv /\ [AdminNext]_adminVars => ContainInv'
<1> SUFFICES ASSUME ContainInv, [AdminNext]_adminVars PROVE ContainInv'
  OBVIOUS
<1>1. AdminTypeOK' /\ PaymentsExist'
  BY AdminTypeInductive, PaymentsExistInductive DEF ContainInv
<1>2. ASSUME NEW o \in ItemisedOrders, Intact(o)' PROVE Backed(o)' /\ Marked(o)'
  <2>1. Intact(o) /\ overwritten \subseteq overwritten'
    BY <1>2, IntactBefore
  <2>2. AdminTypeOK /\ TypeOK /\ PaymentsExist /\ Backed(o) /\ Marked(o)
    BY <2>1 DEF ContainInv, AdminTypeOK
  <2>3. CASE ShopStep
    <3>1. overwritten' = overwritten
      BY <2>3 DEF ShopStep, formVars
    <3> QED
      BY <2>2, <2>3, <3>1, OwnStepsKeepBacked, OtherStepsKeepBacked DEF ShopStep, ShippedNext
  <2>4. CASE FormStep \/ ImportStep
    BY <1>2, <2>1, <2>2, <2>4, FormsKeepBacked
  <2>5. CASE UNCHANGED adminVars
    BY <2>2, <2>5 DEF adminVars, vars, Backed, Marked, Held, ActiveAttempts, Covers
  <2> QED
    BY <2>3, <2>4, <2>5 DEF AdminNext
<1> QED
  BY <1>1, <1>2 DEF ContainInv

\* The damage of a stale form stays with its row: an order whose own row,
\* payments and keys no form has set back or edited is as consistent as ever.
THEOREM DamageContained == AdminSpec => []DamageIsContained
<1>1. AdminInit => ContainInv
  <2> SUFFICES ASSUME AdminInit PROVE ContainInv
    OBVIOUS
  <2>1. AdminTypeOK /\ Init
    BY AdminTypeInit DEF AdminInit
  <2>2. PaymentsExist
    BY <2>1, NobodyAssumption, RowsAssumption DEF AdminInit, Init, PaymentsExist, NoForm
  <2>3. \A o \in ItemisedOrders : Backed(o) /\ Marked(o)
    BY <2>1, NobodyAssumption DEF Init, ItemisedOrders, Backed, Marked, Held
  <2> QED
    BY <2>1, <2>2, <2>3 DEF ContainInv
<1> QED
  BY <1>1, ContainInductive, ContainInvImplies, PTL DEF AdminSpec

=============================================================================
